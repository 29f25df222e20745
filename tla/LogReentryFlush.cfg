CONSTANTS
  Settings <- TraceExceptions
  Keys = {k1, k2, kc}
  CriticalKey = kc
  Retry = 0
  Slots = 8
  MaxLogs = 2
SPECIFICATION Spec
INVARIANT NoStaleIterator
