------------------------------- MODULE MCShop -------------------------------
(***************************************************************************)
(* Small instances of Shop for TLC: two creatures with the price ratio of  *)
(* the two cheapest priced ones, a balance that affords either but not     *)
(* both.                                                                   *)
(***************************************************************************)
EXTENDS Shop, TLC

CONSTANTS jellyfish, turtle

MCCreatures == {jellyfish, turtle}
MCPrice == jellyfish :> 2 @@ turtle :> 3

\* Instances of the shop state and invocations of _purchase are interchangeable.
Interchangeable == Permutations(Shops) \union Permutations(Calls)
=============================================================================
