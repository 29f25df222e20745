CONSTANTS
  Keys = {p1, p2}
  IniSizes = {2}
  SetSizes = {0}
  MaxLogs = 2
SPECIFICATION Spec
INVARIANT NothingCleared
