--------------------------- MODULE MCFocusRecord ---------------------------
(***************************************************************************)
(* FocusRecord with days of three hours of four seconds.                   *)
(***************************************************************************)
EXTENDS FocusRecord, TLC

Interchangeable == Permutations(Calls)
=============================================================================
