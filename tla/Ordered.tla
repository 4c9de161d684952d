------------------------------ MODULE Ordered ------------------------------
(* The elements of a finite set of integers as an ascending sequence: the   *)
(* SetToSortSeq of SequencesExt for <, defined by the rank of an element.   *)
EXTENDS Integers, FiniteSets

RankIn(S, i) == Cardinality({j \in S : j <= i})
Ascending(S) == [k \in 1 .. Cardinality(S) |-> CHOOSE i \in S : RankIn(S, i) = k]
=============================================================================
