CONSTANTS
  NumPages = 4
  BatchPages = 2
  ParallelCalls = 2
  Layouts <- MCLayouts
  FailedPct = 30
  CoveragePct = 60
  WarnPct = 80
  NoPage = NoPage
SPECIFICATION FairSpec
INVARIANTS
  
  HonestStatus
PROPERTIES
  Concludes
