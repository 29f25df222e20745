CONSTANTS
  Configs <- FittingConfigs
  MaxFork = 4
  Waits = {TRUE, FALSE}
SPECIFICATION FairSpec
INVARIANTS TypeOK AllRunOnce
PROPERTY MasterEnds
CHECK_DEADLOCK FALSE
