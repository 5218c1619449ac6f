------------------------- MODULE MC_RankingPipeline -------------------------
EXTENDS RankingPipeline

\* a LambdaMART model that ranks the signal values in reverse
MCLambdaPredict == [v \in 1..2 |-> 3 - v]
=============================================================================
