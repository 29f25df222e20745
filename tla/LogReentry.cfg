CONSTANTS
  Settings <- MCSettings
  Keys = {k1, k2, kc}
  CriticalKey = kc
  Retry = 1
  Slots = 2
  MaxLogs = 3
SPECIFICATION FairSpec
INVARIANTS TypeOK FlushIsWhole DepthBounded
PROPERTY CallReturns
