CONSTANTS
  Nodes <- MCNodes
  Labels = {l1, l2}
  Reversed = FALSE
  MaxBatchSize = 2
  NumLabelsPerBlock = 2
  MaxPuts = 4
  None = None
  NoRange = NoRange
SPECIFICATION Spec
INVARIANT TypeOK
INVARIANT StoreMatchesReference
PROPERTY RangesWrittenOnce
CHECK_DEADLOCK FALSE
