----------------------------- MODULE Ordering ------------------------------
(***************************************************************************)
(* Python's sorted(..., key=...): it is stable, so what has equal keys     *)
(* stays in the order it was in.                                           *)
(***************************************************************************)
EXTENDS Integers, FiniteSets

\* The members of S from the first to the last, given which comes before
\* which as pairs.
InOrder(S, before) ==
    [k \in 1..Cardinality(S) |->
        CHOOSE i \in S : Cardinality({j \in S : <<j, i>> \in before}) = k - 1]

\* The positions S in the order of their keys.
ByKey(S, key) == {x \in S \X S : key[x[1]] < key[x[2]] \/ (key[x[1]] = key[x[2]] /\ x[1] < x[2])}
SortedBy(S, key) == InOrder(S, ByKey(S, key))
=============================================================================
