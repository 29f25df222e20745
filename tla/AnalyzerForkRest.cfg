CONSTANTS
  Configs <- SixByTwo
  MaxFork = 4
  Waits = {TRUE, FALSE}
SPECIFICATION Spec
INVARIANT AllRunOnce
CHECK_DEADLOCK FALSE
