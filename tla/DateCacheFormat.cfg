CONSTANTS
  Window = 2
  Period = 3
  Formats <- MCFormats
  DefaultFormat <- YmdHis
  MaxTime = 9
SPECIFICATION Spec
INVARIANT FormatWhole
