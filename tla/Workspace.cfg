CONSTANTS
  TargetResolves = TRUE
  Https = TRUE
  MaxVersion = 2
  Entries = {"signup", "convert"}
  MaxActs = 5
  MaxFaults = 1
  Keys = {1}
  MaxCalls = 2
SPECIFICATION Spec
INVARIANTS GuardKnowsEdits
PROPERTIES EditsKept TabSettles RefusalShown
CHECK_DEADLOCK FALSE
