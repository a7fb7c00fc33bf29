CONSTANTS
  Jobs = {j1, j2}
  Limit = 1
  DayLength = 2
  MarkerTtl = 2
  MaxTime = 4
  MaxFaults = 2
  MaxRestarts = 1
SPECIFICATION Spec
SYMMETRY Symmetric
INVARIANTS
  CounterExact
  LimitHolds
  RefundedOnce
CHECK_DEADLOCK FALSE
