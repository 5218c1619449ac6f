CONSTANTS
  Nodes = {a, b, c}
  MaxId = 3
  BlockSize = 2
  CacheSize = 1
  MaxInserts = 3
  None = None
SPECIFICATION Spec
INVARIANT InsertedEdgesReadable
