------------------------------- MODULE Ranks -------------------------------
(***************************************************************************)
(* The members of a finite set of numbers, in order.                       *)
(*                                                                         *)
(* Sequences that are selected or sorted are written with Ordered, because *)
(* SelectSeq is recursive and SortSeq chooses a permutation: DataTheorems  *)
(* proves what Ordered returns by counting alone.                          *)
(***************************************************************************)
EXTENDS Integers, FiniteSets

\* How many members of S are at most n.
Rank(S, n) == Cardinality({m \in S : m <= n})

Nth(S, k) == CHOOSE n \in S : Rank(S, n) = k

Ordered(S) == [k \in 1 .. Cardinality(S) |-> Nth(S, k)]
=============================================================================
