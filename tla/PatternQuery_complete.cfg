CONSTANTS
  Tokens <- MCTokens
  MaxDocLen = 3
  NumDocs = 2
  U32Max = 1000
  Patterns <- RawFirstPatterns
INIT Init
NEXT Next
INVARIANTS TypeOK IntersectionIsSlopWindow
PROPERTIES NoMatchSkipped
CHECK_DEADLOCK FALSE
