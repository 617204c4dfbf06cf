-------------------------------- MODULE Sums --------------------------------
(***************************************************************************)
(* The sum of an integer-valued function over a finite set of arguments.   *)
(*                                                                         *)
(* SumOn is written as a recursive function over subsets, not with a       *)
(* RECURSIVE operator, so that module DataTheorems can prove its laws.     *)
(***************************************************************************)
EXTENDS Integers

\* An arbitrary member of a non-empty set: the order of addition does not matter.
Pick(T) == CHOOSE x \in T : TRUE

\* PartialSums(f)[T] is the sum of f over T, for every T \subseteq DOMAIN f.
PartialSums(f) ==
  LET sum[T \in SUBSET DOMAIN f] ==
        IF T = {} THEN 0
        ELSE f[Pick(T)] + sum[T \ {Pick(T)}]
  IN  sum

SumOn(f, T) == PartialSums(f)[T]

\* The sum over the whole domain.
Total(f) == SumOn(f, DOMAIN f)
=============================================================================
