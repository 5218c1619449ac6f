---------------------------- MODULE PatternQuery ----------------------------
(***************************************************************************)
(* The pattern query of core/src/query/pattern_query.rs: a pattern of     *)
(* Raw, Wildcard and Anchor parts, compiled into a flat list of terms,    *)
(* and the PatternScorer that walks the documents of one segment that    *)
(* contain every term, keeping those whose term positions satisfy the     *)
(* pattern.                                                               *)
(*                                                                        *)
(* Data is abstracted: a document of a text field is the sequence of its  *)
(* tokens (position p holds d[p+1]); a Raw part carries the tokens its    *)
(* text tokenizes into.  The BM25 score is left out: the scorer's only    *)
(* decision is phrase_count > 0.                                          *)
(***************************************************************************)
EXTENDS Integers, Sequences, SequencesExt, FiniteSets, SlopIntersection

CONSTANTS
  Tokens,       \* the token alphabet of the modelled text field
  MaxDocLen,    \* longest document, in tokens
  NumDocs,      \* documents in the segment (doc ids 1..NumDocs)
  U32Max,       \* u32::MAX; any value larger than every position
  Patterns      \* the patterns the query may be built from

ASSUME MaxDocLen \in Nat \ {0} /\ NumDocs \in Nat \ {0}
ASSUME U32Max > MaxDocLen

Docs == UNION {[1..n -> Tokens] : n \in 1..MaxDocLen}

\* tantivy::TERMINATED: past every doc id of the segment.
TERMINATED == NumDocs + 1

\* Result of the walk when it asks for a term the query does not have.
OVERRUN == -1

(***************************************************************************)
(* Query construction.                                                    *)
(***************************************************************************)

\* PatternQuery::new: the tokens of every Raw part, concatenated in order.
RawTerms(P) == FlattenSeq([i \in 1..Len(P) |-> P[i].tokens])

\* pattern_scorer: the pattern reduced to its part kinds (SmallPatternPart).
SmallPatterns(P) == [i \in 1..Len(P) |-> P[i].kind]

\* SegmentPostings::positions: the sorted positions of token t in d.
Positions(d, t) == SelectSeq([i \in 1..Len(d) |-> i - 1], LAMBDA p : d[p + 1] = t)

(***************************************************************************)
(* perform_pattern_match: the walk over the pattern parts from index 1    *)
(* (code index; 2 here), carrying left, slop and current_right_term.      *)
(* Returns the phrase count, 0 for a rejection, or OVERRUN when a step    *)
(* reads the postings of a term index past the last term.                 *)
(***************************************************************************)
RECURSIVE PatternWalk(_, _, _, _, _, _, _)
PatternWalk(S, T, d, i, left, slop, cur) ==
  IF i > Len(S) THEN Len(left)
  ELSE
    LET codeI == i - 1  \* the enumerate() index of the code
    IN CASE S[i] = "Raw" ->
              IF cur >= Len(T) THEN OVERRUN
              ELSE LET out == IntersectionWithSlop(left, Positions(d, T[cur + 1]), slop)
                   IN IF out = <<>> THEN 0
                      ELSE PatternWalk(S, T, d, i + 1, out, 1, cur + 1)
         [] S[i] = "Wildcard" ->
              PatternWalk(S, T, d, i + 1, left, U32Max, cur)
         [] S[i] = "Anchor" /\ codeI = 0 ->
              IF left # <<>> /\ Head(left) # 0 THEN 0
              ELSE PatternWalk(S, T, d, i + 1, left, slop, cur)
         [] S[i] = "Anchor" /\ codeI = Len(S) - 1 ->
              LET right == Positions(d, T[Len(T)])
              IN IF right # <<>> /\ Last(right) # Len(d) - 1 THEN 0
                 ELSE PatternWalk(S, T, d, i + 1, left, slop, cur)
         [] OTHER ->
              PatternWalk(S, T, d, i + 1, left, slop, cur)

PerformPatternMatch(P, d) ==
  LET T == RawTerms(P)
  IN PatternWalk(SmallPatterns(P), T, d, 2, Positions(d, T[1]), 1, 1)

(***************************************************************************)
(* What a pattern means (spec section 3): positions p[1..k] for the k     *)
(* terms, in order; consecutive terms adjacent unless a Wildcard part     *)
(* lies between them, in which case any later position; a leading Anchor  *)
(* puts the first term at position 0, a trailing Anchor the last term at  *)
(* the last position of the document.                                     *)
(***************************************************************************)

\* the index of the part each term comes from
TermPart(P) == FlattenSeq([i \in 1..Len(P) |-> [k \in 1..Len(P[i].tokens) |-> i]])

GapAfter(P, j) ==
  \E i \in (TermPart(P)[j] + 1)..(TermPart(P)[j + 1] - 1) : P[i].kind = "Wildcard"

IsMatchAt(P, d, p) ==
  LET T == RawTerms(P)
      k == Len(T)
  IN /\ \A j \in 1..k : d[p[j] + 1] = T[j]
     /\ \A j \in 1..(k - 1) :
          IF GapAfter(P, j) THEN p[j + 1] > p[j] ELSE p[j + 1] = p[j] + 1
     /\ P[1].kind = "Anchor" => p[1] = 0
     /\ P[Len(P)].kind = "Anchor" => p[k] = Len(d) - 1

\* the positions term j may take when term j - 1 is at q
TermPositions(P, d, j, q) ==
  IF j = 1 THEN (IF P[1].kind = "Anchor" THEN {0} ELSE 0..(Len(d) - 1))
  ELSE IF GapAfter(P, j - 1) THEN (q + 1)..(Len(d) - 1)
  ELSE {q + 1} \cap 0..(Len(d) - 1)

\* IsMatchAt for some positions of terms j.. when term j - 1 is at q,
\* choosing the positions one term at a time
RECURSIVE MatchFrom(_, _, _, _)
MatchFrom(P, d, j, q) ==
  IF j > Len(RawTerms(P)) THEN (P[Len(P)].kind = "Anchor" => q = Len(d) - 1)
  ELSE \E p \in TermPositions(P, d, j, q) :
         d[p + 1] = RawTerms(P)[j] /\ MatchFrom(P, d, j + 1, p)

PatternMatches(P, d) == MatchFrom(P, d, 1, -1)

(***************************************************************************)
(* The scorer over one segment.                                           *)
(***************************************************************************)
VARIABLES
  pattern,        \* the query's pattern parts
  segment,        \* doc id -> document (the text field of each doc)
  scoringEnabled, \* EnableScoring::Enabled, i.e. a BM25 weight exists
  doc,            \* the doc the scorer is positioned on, or TERMINATED
  phraseCount,    \* PatternScorer.phrase_count
  lastTarget,     \* lowest doc id the last advance/seek could return; 0 before any
  panicked        \* the walk read a term index past the last term

vars == <<pattern, segment, scoringEnabled, doc, phraseCount, lastTarget, panicked>>

\* docs of the Intersection docset: those containing every term
Candidates == {i \in 1..NumDocs : \A t \in ToSet(RawTerms(pattern)) : t \in ToSet(segment[i])}

Walk(i) == PerformPatternMatch(pattern, segment[i])

\* pattern_scorer returns None (and Weight::scorer an EmptyScorer) when
\* scoring is disabled or a term has no postings in the segment.
HasScorer ==
  /\ scoringEnabled
  /\ \A t \in ToSet(RawTerms(pattern)) : \E i \in 1..NumDocs : t \in ToSet(segment[i])

\* The loop of advance() started at the candidates >= lo: the first
\* candidate whose pattern_match is nonzero, with the phrase_count the
\* last pattern_match left behind.
\* Mutant: the scan starts past lo, so seek(target) never returns target.
ScanFromPastTarget(lo) ==
  LET hits == {c \in Candidates : c > lo /\ Walk(c) # 0}
      tried == {c \in Candidates : c > lo}
  IN IF hits = {} THEN [doc |-> TERMINATED,
                        count |-> IF tried = {} THEN phraseCount ELSE 0]
     ELSE LET c == CHOOSE c \in hits : \A h \in hits : c <= h
          IN [doc |-> c, count |-> Walk(c)]

ScanFrom(lo) ==
  LET hits == {c \in Candidates : c >= lo /\ Walk(c) # 0}
      tried == {c \in Candidates : c >= lo}
  IN IF hits = {} THEN [doc |-> TERMINATED,
                        count |-> IF tried = {} THEN phraseCount ELSE 0]
     ELSE LET c == CHOOSE c \in hits : \A h \in hits : c <= h
          IN [doc |-> c, count |-> Walk(c)]

Init ==
  /\ pattern \in Patterns
  /\ segment \in [1..NumDocs -> Docs]
  /\ scoringEnabled \in BOOLEAN
  \* PatternScorer::new: the Intersection is positioned on its first doc
  /\ doc = IF HasScorer /\ Candidates # {}
             THEN CHOOSE c \in Candidates : \A o \in Candidates : c <= o
             ELSE TERMINATED
  /\ phraseCount = 0
  /\ lastTarget = 0
  /\ panicked = FALSE

MoveTo(lo) ==
  LET r == ScanFrom(lo)
  IN /\ doc' = r.doc
     /\ phraseCount' = IF r.count = OVERRUN THEN phraseCount ELSE r.count
     /\ panicked' = (r.count = OVERRUN)
     /\ lastTarget' = lo
     /\ UNCHANGED <<pattern, segment, scoringEnabled>>

\* Mutant: advance() without the TERMINATED check.
AdvanceUnguarded ==
  /\ ~panicked
  /\ MoveTo(doc + 1)

\* DocSet::advance
Advance ==
  /\ ~panicked
  /\ doc # TERMINATED
  /\ MoveTo(doc + 1)

\* DocSet::seek(target), target >= doc(): the Intersection seeks, and
\* when the doc it lands on fails pattern_match, advance() goes on.
Seek(target) ==
  /\ ~panicked
  /\ doc # TERMINATED
  /\ target >= doc
  /\ MoveTo(target)

\* Weight::explain(doc): build a fresh pattern_scorer (Err when it is None),
\* seek(doc) on it and answer Err unless the seek lands on doc; the
\* explanation carries that scorer's phrase_count.  doc is never below the
\* fresh scorer's first doc (the debug_assert of seek).
Explain(d) ==
  LET r == ScanFrom(d)
  IN IF HasScorer /\ r.doc = d THEN [ok |-> TRUE, count |-> r.count]
     ELSE [ok |-> FALSE, count |-> 0]

Next ==
  \/ Advance
  \/ \E t \in 1..NumDocs : Seek(t)

Spec == Init /\ [][Next]_vars

(***************************************************************************)
(* Properties.                                                            *)
(***************************************************************************)

TypeOK ==
  /\ pattern \in Patterns
  /\ segment \in [1..NumDocs -> Docs]
  /\ scoringEnabled \in BOOLEAN
  /\ doc \in 1..TERMINATED
  /\ phraseCount \in Nat
  /\ lastTarget \in 0..TERMINATED
  /\ panicked \in BOOLEAN

\* Every doc the scorer is positioned on, the one a freshly built
\* PatternScorer stands on (tantivy's collectors read it before the first
\* advance()) and each one advance() or seek() returns, satisfies the
\* pattern as spec section 3 defines it (order, adjacency, wildcards,
\* anchors), and every advance() and seek() returns normally
\* (perform_pattern_match never reads a term index past the last term).
\* A leading Anchor rejects a phrase that does not start at position 0
\* (spec section 8).
ReturnedDocsMatch ==
  /\ lastTarget > 0 => ~panicked
  /\ doc # TERMINATED => PatternMatches(pattern, segment[doc])

\* advance() and seek(target) never pass over a doc that satisfies the
\* pattern: between the target and the doc they stop on, nothing matches.
NoMatchSkipped ==
  [][lastTarget' > 0 =>
       \A i \in lastTarget'..(doc' - 1) : ~PatternMatches(pattern, segment[i])]_vars

=============================================================================
