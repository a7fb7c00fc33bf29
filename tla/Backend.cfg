CONSTANTS
  Calls = {r1, r2}
  Threshold = 2
  ResetTimeout = 1
  Kinds = {"upload", "bulk", "read"}
  EarlySignals = FALSE
  Shapes <- MCShapes
SPECIFICATION FairServerSpec
INVARIANTS
  FlagMeansProbe
  StagedHasHandler
  ClosedAfterDrain
  CrashReported
  ServesComplete
PROPERTIES
  OpensOnOutageOnly
  AdoptsItsTables
  StopEnds
  CircuitRecovers
CHECK_DEADLOCK FALSE
