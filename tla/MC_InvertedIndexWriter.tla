----------------------- MODULE MC_InvertedIndexWriter -----------------------
(***************************************************************************)
(* Model-checking instance of InvertedIndexWriter: two directories, so    *)
(* that merge(other) has both sides, and two pages.                       *)
(***************************************************************************)
EXTENDS InvertedIndexWriter
=============================================================================
