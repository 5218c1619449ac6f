CONSTANTS
  Tokens <- MCTokens
  MaxDocLen = 3
  NumDocs = 2
  U32Max = 1000
  Patterns <- FalseMatchPatterns
INIT Init
NEXT Next
INVARIANT ReturnedDocsMatch
CHECK_DEADLOCK FALSE
