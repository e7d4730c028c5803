CONSTANTS
  MAP_SIZE = 2
  Entries = {1, 2, 3}
  NULL = 0
  MaxFactor = 1
  MaxPaths = 3
  InitialPaths = 2
  Windows = {w1}
  CAL_CHANCES = 2
  SkipPaths = 1
  SchLevel = 2
  U32 = 8
SPECIFICATION Spec
INVARIANT PendingFavoredWithinQueue
