------------------------------- MODULE Ordering -------------------------------
(***************************************************************************)
(* Python's sorts, by a key that no two elements share.                    *)
(***************************************************************************)
EXTENDS Integers, FiniteSets

\* The elements of S in the strict total order `before`, a set of pairs: the
\* i-th one has i - 1 others before it.  (TLC's SortSeq has no definition in
\* TLA+, so that nothing could be proved of it.)
Sorted(S, before) ==
    [i \in 1..Cardinality(S) |->
       CHOOSE x \in S : Cardinality({y \in S : <<y, x>> \in before}) = i - 1]
===============================================================================
