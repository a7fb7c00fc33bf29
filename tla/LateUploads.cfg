CONSTANTS
  Calls = {r1, r2}
  Threshold = 2
  ResetTimeout = 1
  Kinds = {"upload", "bulk", "read"}
  EarlySignals = TRUE
  Shapes <- MCShapes
SPECIFICATION ServerSpec
INVARIANTS
  CleanBeforeAnswer
CHECK_DEADLOCK FALSE
