CONSTANTS
  NumCandidates = 5
  TopNs = {2}
  MaxPage = 2
  Kinds = {"reranking", "ltr"}
  RerankStageTopN = 2
  LtrStageTopN = 3
  SignalValues = {1, 2}
  LambdaPredict <- MCLambdaPredict
  Coeffs = {0, 2}
  DefaultLambdaCoeff = 1
  Boosts = {0, 3}
  NoCoeff = NoCoeff
  NoBoost = NoBoost
INIT Init
NEXT Next
INVARIANT PageHeadsDisjoint
CHECK_DEADLOCK FALSE
