CONSTANTS
  TargetResolves = FALSE
  Https = TRUE
  MaxVersion = 2
  Entries = {"signup", "convert"}
  MaxActs = 5
  MaxFaults = 0
  Keys = {1}
  MaxCalls = 2
SPECIFICATION Spec
PROPERTIES CallsReachBackend
CHECK_DEADLOCK FALSE
