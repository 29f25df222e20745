CONSTANTS
  Fns <- MCFns
  HashOf <- Collide
  StartDepth = 2
  MaxCalls = 4
  MaxInternal = 1
  MaxTime = 2
  MaxRequests = 2
  LongRequests <- MCLongRequests
  MaxDepth = 1
  PerDepth = 3
  MinWall = 1
SPECIFICATION ReportSpec
INVARIANTS TypeOK LevelBalanced ProfileExact ReportIsTop ReportIsProfile
CHECK_DEADLOCK FALSE
