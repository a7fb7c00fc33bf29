CONSTANTS
  Jobs = {j1, j2}
  DailyLimit = 2
  NoEntry = NoEntry
  LostReplies = TRUE
  MaxFaults = 2
  MaxCrashes = 1
SPECIFICATION FairSpec
INVARIANTS
  NoLostJob
  NoRefundForgotten
  SourceKept
  ResultPresent
PROPERTIES
  ImplementsLedger
  QueuedSettles
  JournalDrains
CHECK_DEADLOCK FALSE
