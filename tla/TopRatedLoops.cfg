CONSTANTS
  MAP_SIZE = 3
  Entries = {e1, e2}
  NULL = NULL
  MaxFactor = 1
SPECIFICATION Spec
INVARIANT HolderReadable
PROPERTY ImplementsTable
