-------------------------- MODULE RankingPipeline --------------------------
(***************************************************************************)
(* The ranking pipeline of crates/core/src/ranking/pipeline.rs, paged.   *)
(*                                                                         *)
(* A user pages through the results of one query: for each page p a new   *)
(* pipeline is built (reranking_for_query or ltr_for_query), set_query_info*)
(* rewrites the query to fetch collector_top_n candidates from page 0,    *)
(* and apply scores a window of them and collects the page.              *)
(*                                                                         *)
(* Candidates are 1..NumCandidates in the order of their initial score,   *)
(* the same for every page (the spec's "stable candidate set").  The      *)
(* signals of a candidate are one value; the linear sum is that value and *)
(* LambdaMART a fixed function of it.  The cross-encoder writes a signal  *)
(* of its own, so with a cross-encoder the signal value is the one after  *)
(* it ran.  BucketCollector (not under src/) is taken from spec 4.6: the  *)
(* websites sorted by score, highest first, ties by doc id, cut at its    *)
(* capacity; no two candidates are similar, so derank_similar is inert.  *)
(***************************************************************************)
EXTENDS Integers, Sequences, SequencesExt, FiniteSets

CONSTANTS
  NumCandidates,      \* candidates the search can return for the query
  TopNs,              \* the num_results a query may ask for
  MaxPage,            \* bound: the last page the user asks for
  Kinds,              \* "reranking" and/or "ltr"
  RerankStageTopN,    \* stage_top_n of create_reranking (20 in the code)
  LtrStageTopN,       \* stage_top_n of create_ltr (100 in the code)
  SignalValues,       \* the values a candidate's signals may sum to
  LambdaPredict,      \* LambdaMART::predict, a function of the signals
  Coeffs,             \* LambdaMART coefficients an optic may set
  DefaultLambdaCoeff, \* Signal::LambdaMART.default_coefficient()
  Boosts,             \* optic boosts the aggregator may give a doc
  NoCoeff, NoBoost

Docs == 1..NumCandidates

VARIABLES
  kind,          \* which constructor builds the pipeline
  crossEncoder,  \* reranking_for_query got a cross-encoder
  hasModel,      \* a LambdaMART model is present
  lambdaCoeff,   \* the optic's coefficient for Signal::LambdaMART, or NoCoeff
  signals,       \* doc -> its signal value
  boost,         \* doc -> RankingWebsite.optic_boost
  topN,          \* the query's num_results
  page,          \* the next page the user asks for
  results        \* page -> the websites apply returned for it

vars == <<kind, crossEncoder, hasModel, lambdaCoeff, signals, boost, topN, page, results>>

\* RankingStage.stage_top_n of the constructor
StageTopN == IF kind = "reranking" THEN RerankStageTopN ELSE LtrStageTopN

\* RankingPipeline::initial_top_n
InitialTopN == IF StageTopN >= topN THEN StageTopN ELSE topN

\* Mutant: the offset of the previous page.
OffsetPreviousPage(p) == IF p = 0 THEN 0 ELSE topN * (p - 1)

\* RankingPipeline::offset
Offset(p) == topN * p

\* Mutant: collector_top_n without the pages before this one.
CollectorTopNFirstPage(p) == IF InitialTopN >= topN THEN InitialTopN ELSE topN

\* RankingPipeline::collector_top_n: the num_results set_query_info writes
\* into the query, with page 0
CollectorTopN(p) == (IF InitialTopN >= topN THEN InitialTopN ELSE topN) + topN * p

\* the candidates the search collects for the rewritten query
Fetched(p) == [i \in 1..(IF CollectorTopN(p) < NumCandidates
                           THEN CollectorTopN(p) ELSE NumCandidates) |-> i]

\* calculate_score
CalculateScore(d) ==
  IF hasModel /\ lambdaCoeff = 0 THEN signals[d]
  ELSE IF hasModel /\ lambdaCoeff = NoCoeff THEN DefaultLambdaCoeff * LambdaPredict[signals[d]]
  ELSE IF hasModel THEN lambdaCoeff * LambdaPredict[signals[d]]
  ELSE signals[d]

\* the score the stage's scorer leaves: the ReRanker and Initial compute
\* it, the IdentityScorer keeps the initial score (a lower rank scores higher)
StageScore(d) ==
  IF kind = "reranking" /\ ~crossEncoder THEN NumCandidates + 1 - d
  ELSE CalculateScore(d)

\* the optic boost multiplies the score when it is present and nonzero
FinalScore(d) ==
  IF boost[d] \notin {NoBoost, 0} THEN StageScore(d) * boost[d] ELSE StageScore(d)

\* BucketCollector::new(cap) filled with ws, then into_sorted_vec
Collect(ws, cap) ==
  LET Before(a, b) == \/ FinalScore(a) > FinalScore(b)
                      \/ FinalScore(a) = FinalScore(b) /\ a < b
      sorted == SortSeq(ws, Before)
  IN SubSeq(sorted, 1, IF cap < Len(sorted) THEN cap ELSE Len(sorted))

\* RankingStage::apply: skip(offset).take(max(stage_top_n, top_n)), score,
\* boost, collect with capacity max(stage_top_n, top_n) + offset
Apply(p) ==
  LET ws == Fetched(p)
      width == IF StageTopN >= topN THEN StageTopN ELSE topN
      window == SubSeq(ws, Offset(p) + 1,
                       IF Offset(p) + width < Len(ws) THEN Offset(p) + width ELSE Len(ws))
  IN Collect(window, width + Offset(p))

Init ==
  /\ kind \in Kinds
  \* create_ltr takes no cross-encoder; the coefficient only matters with
  \* a model, and the signals only to a scorer that reads them
  /\ crossEncoder \in IF kind = "reranking" THEN BOOLEAN ELSE {FALSE}
  /\ hasModel \in BOOLEAN
  /\ lambdaCoeff \in IF hasModel THEN Coeffs \cup {NoCoeff} ELSE {NoCoeff}
  /\ signals \in IF kind = "reranking" /\ ~crossEncoder
                  THEN {[d \in Docs |-> CHOOSE v \in SignalValues : TRUE]}
                  ELSE [Docs -> SignalValues]
  /\ boost \in [Docs -> Boosts \cup {NoBoost}]
  /\ topN \in TopNs
  /\ page = 0
  /\ results = [p \in 0..MaxPage |-> <<>>]

\* the user asks for the next page: a pipeline built for it is applied to
\* the candidates the rewritten query collects
ServePage ==
  /\ page <= MaxPage
  /\ results' = [results EXCEPT ![page] = Apply(page)]
  /\ page' = page + 1
  /\ UNCHANGED <<kind, crossEncoder, hasModel, lambdaCoeff, signals, boost, topN>>

Next == ServePage

Spec == Init /\ [][Next]_vars

(***************************************************************************)
(* Properties.                                                             *)
(***************************************************************************)

\* the number of results page p should have: top_n, or what is left
ExpectedSize(p) ==
  IF NumCandidates - topN * p >= topN THEN topN
  ELSE IF NumCandidates - topN * p > 0 THEN NumCandidates - topN * p ELSE 0

\* Every page apply returns holds top_n websites, or all that are left
\* after the earlier pages (spec 4.6: skip(offset).take(top_n) yields the
\* page; the test "offsets": "Every page should have num_results results").
PageSizeIsTopN ==
  \A p \in 0..(page - 1) : Len(results[p]) = ExpectedSize(p)

\* No website is returned on two pages of the same query, whatever the
\* scorer and the optic boosts do to the order (spec section 8: the
\* results of page p are disjoint from those of pages 0..p-1).
PagesDisjoint ==
  \A p, q \in 0..(page - 1) :
    p < q => ToSet(results[p]) \cap ToSet(results[q]) = {}

\* the first top_n websites of page p: what a caller that cuts the page to
\* num_results would show
PageHead(p) == SubSeq(results[p], 1, IF topN < Len(results[p]) THEN topN ELSE Len(results[p]))

\* Even when every page is cut to its first top_n websites, no website is
\* shown on two pages: apply's skip(offset) before scoring must not let a
\* rescored website climb onto a second page.
PageHeadsDisjoint ==
  \A p, q \in 0..(page - 1) :
    p < q => ToSet(PageHead(p)) \cap ToSet(PageHead(q)) = {}

=============================================================================
