-------------------------- MODULE SlopIntersection --------------------------
(***************************************************************************)
(* intersection_with_slop of core/src/query/pattern_query.rs: given two   *)
(* sorted position lists, keep the right positions r that have a left     *)
(* position l with max(0, r - slop) <= l <= r.  Positions are naturals   *)
(* below u32::MAX; slop u32::MAX stands for an unbounded gap.            *)
(***************************************************************************)
EXTENDS Integers, Sequences

\* Mutant: the window test made strict on its lower end, so that a left
\* position exactly slop before the right one no longer counts.
RECURSIVE SlopWalkStrictWindow(_, _, _, _, _)
SlopWalkStrictWindow(left, right, slop, li, ri) ==
  IF li > Len(left) \/ ri > Len(right) THEN <<>>
  ELSE
    LET leftVal  == left[li]
        rightVal == right[ri]
        rightSlop == IF rightVal >= slop THEN rightVal - slop ELSE 0
        best == CHOOSE j \in li..Len(left) :
                  /\ left[j] <= rightVal
                  /\ (j = Len(left) \/ left[j + 1] > rightVal)
    IN CASE leftVal <= rightSlop
              -> SlopWalkStrictWindow(left, right, slop, li + 1, ri)
         [] rightSlop < leftVal /\ leftVal <= rightVal
              -> <<rightVal>> \o SlopWalkStrictWindow(left, right, slop, best, ri + 1)
         [] leftVal > rightVal
              -> SlopWalkStrictWindow(left, right, slop, li, ri + 1)

(***************************************************************************)
(* intersection_with_slop: the two-pointer walk, one recursion per loop    *)
(* iteration.  Indices are 1-based here, 0-based in the code.             *)
(***************************************************************************)
RECURSIVE SlopWalk(_, _, _, _, _)
SlopWalk(left, right, slop, li, ri) ==
  IF li > Len(left) \/ ri > Len(right) THEN <<>>
  ELSE
    LET leftVal  == left[li]
        rightVal == right[ri]
        rightSlop == IF rightVal >= slop THEN rightVal - slop ELSE 0
        \* the inner while loop: move to the last left value <= rightVal
        best == CHOOSE j \in li..Len(left) :
                  /\ left[j] <= rightVal
                  /\ (j = Len(left) \/ left[j + 1] > rightVal)
    IN CASE leftVal < rightSlop
              -> SlopWalk(left, right, slop, li + 1, ri)
         [] rightSlop <= leftVal /\ leftVal <= rightVal
              -> <<rightVal>> \o SlopWalk(left, right, slop, best, ri + 1)
         [] leftVal > rightVal
              -> SlopWalk(left, right, slop, li, ri + 1)

IntersectionWithSlop(left, right, slop) == SlopWalk(left, right, slop, 1, 1)

=============================================================================
