CONSTANTS
  f1 = f1  f2 = f2  p1 = p1  p2 = p2  plain = plain  accented = accented
  Jobs <- FourJobs
  Polls <- TwoPolls
  Done = 1
  MaxErrors = 1
  Files <- TwoFiles
  Names <- TwoNames
  Altered = {}
  MaxFiles = 2
  MaxSubmits = 2
  LostReplies = TRUE
SPECIFICATION PageSpec
INVARIANT OnlyFailedRemain
CHECK_DEADLOCK FALSE
