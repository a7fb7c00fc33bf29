CONSTANTS
  Jobs = {j1}
  DailyLimit = 1
  NoEntry = NoEntry
  LostReplies = FALSE
  MaxFaults = 0
  MaxCrashes = 1
SPECIFICATION Spec
INVARIANTS
  SuccessNeverRefunded
CHECK_DEADLOCK FALSE
