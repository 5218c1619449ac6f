CONSTANTS
  Edges <- MCEdges
  HostOf <- MCHostOf
  NumSegments = 2
  MaxDocs = 2
  Bounds = {0, 1, 3}
INIT Init
NEXT Next
INVARIANT IteratorsMatchReference
