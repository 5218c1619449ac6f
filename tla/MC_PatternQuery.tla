-------------------------- MODULE MC_PatternQuery --------------------------
(***************************************************************************)
(* Model-checking instance of PatternQuery: two tokens, documents of up   *)
(* to three tokens, and families of patterns, one per question asked.     *)
(***************************************************************************)
EXTENDS PatternQuery

MCTokens == {"a", "b"}

Raw(s)   == [kind |-> "Raw", tokens |-> s]
Wildcard == [kind |-> "Wildcard", tokens |-> <<>>]
Anchor   == [kind |-> "Anchor", tokens |-> <<>>]

OneTokenRaws == {Raw(<<t>>) : t \in MCTokens}
TwoTokenRaws == {Raw(<<t, u>>) : t, u \in MCTokens}

PatternsOf(parts, n) == UNION {[1..k -> parts] : k \in 1..n}

\* Patterns of the shape the walk is written for: a Raw part first.
RawFirstPatterns ==
  {P \in PatternsOf(OneTokenRaws \cup TwoTokenRaws \cup {Wildcard, Anchor}, 3) :
     P[1].kind = "Raw"}

\* A leading Anchor followed by one two-token Raw part, e.g. "|a b".
LeadingAnchorPatterns ==
  {<<Anchor, Raw(<<t, u>>)>> : t, u \in MCTokens} \ {<<Anchor, Raw(<<t, t>>)>> : t \in MCTokens}

\* One-token Raw parts of distinct adjacent tokens closed by an Anchor.
MCTrailingAnchorPatterns ==
  {P[1] \o P[2] : P \in {Q \in PatternsOf(OneTokenRaws, 2) \X {<<Anchor>>} :
                           \A j \in 1..(Len(Q[1]) - 1) : Q[1][j] # Q[1][j + 1]}}

\* One-token Raw parts and Wildcards, no Anchor.
NoAnchorOneTokenPatterns ==
  {P \in PatternsOf(OneTokenRaws \cup {Wildcard}, 3) : P[1].kind = "Raw"}

\* A single Raw part of two distinct tokens, e.g. the text "a b".
MultiTokenRawPatterns ==
  {<<Raw(<<t, u>>)>> : t, u \in MCTokens} \ {<<Raw(<<t, t>>)>> : t \in MCTokens}

\* A leading Anchor and one-token Raw parts, e.g. "|a".
LeadingAnchorOneTokenPatterns ==
  {<<Anchor>> \o P : P \in PatternsOf(OneTokenRaws, 2)}
\* Two one-token Raw parts, "a b".
PhrasePatterns == {<<Raw(<<"a">>), Raw(<<"b">>)>>}

\* The families above on which advance() or seek() can go wrong: a
\* leading Anchor (before one or two tokens), a trailing Anchor, repeated
\* one-token parts and a two-token Raw part.
FalseMatchPatterns ==
  LeadingAnchorPatterns \cup LeadingAnchorOneTokenPatterns \cup MCTrailingAnchorPatterns
    \cup NoAnchorOneTokenPatterns \cup MultiTokenRawPatterns

(***************************************************************************)
(* intersection_with_slop against the definition of spec section 4.1,    *)
(* on the position lists the scorer hands it: those of every token pair   *)
(* in every document of the segment.                                      *)
(***************************************************************************)
SlopsChecked == {1, 2, U32Max}

\* the pattern whose initial states carry the slop check
SlopPattern == CHOOSE P \in RawFirstPatterns : TRUE

\* Spec 4.1: the subsequence of right whose elements r have some l in left
\* with max(0, r - slop) <= l <= r.
SlopReference(L, R, s) ==
  SelectSeq(R, LAMBDA r : \E i \in 1..Len(L) :
                            /\ (IF r >= s THEN r - s ELSE 0) <= L[i]
                            /\ L[i] <= r)

\* intersection_with_slop returns exactly the right positions that have a
\* left position within slop before them (spec section 8, first property),
\* in the order of right, for slops 1, 2 and unbounded (u32::MAX).  It
\* reads only the segment, which never changes, so it is checked in the
\* initial states of one pattern, which hold every segment.
IntersectionIsSlopWindow ==
  (lastTarget = 0 /\ pattern = SlopPattern /\ scoringEnabled) =>
  \A i \in DOMAIN segment, t, u \in Tokens, s \in SlopsChecked :
    LET L == Positions(segment[i], t)
        R == Positions(segment[i], u)
    IN IntersectionWithSlop(L, R, s) = SlopReference(L, R, s)

=============================================================================
