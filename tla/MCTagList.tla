----------------------------- MODULE MCTagList -----------------------------
(***************************************************************************)
(* TagList with a tag named "All" and another one.                         *)
(***************************************************************************)
EXTENDS TagList, TLC

TwoTitles == {All, 1}
FiveObjects == 1 .. 5
FourLoads == 1 .. 4

Interchangeable == Permutations(Calls)
=============================================================================
