CONSTANTS
  Nodes = {a, b, c}
  MaxId = 3
  BlockSize = 2
  CacheSize = 1
  MaxInserts = 3
  OtherInserts = 2
  None = None
SPECIFICATION Spec
CHECK_DEADLOCK FALSE
INVARIANT IdsNeverShared
PROPERTY AppendCopiesReadableGraph
