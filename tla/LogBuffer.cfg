CONSTANTS
  Keys = {p1, p2}
  IniSizes = {0, 2}
  SetSizes = {1, 3}
  MaxLogs = 5
SPECIFICATION FairSpec
INVARIANTS TypeOK Accounting StoredInOrder CountIsExact LossIsBounded NothingCleared
PROPERTY ImplementsFairStore
