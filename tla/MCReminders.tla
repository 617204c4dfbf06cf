---------------------------- MODULE MCReminders ----------------------------
(***************************************************************************)
(* Reminders with interchangeable handlers.                                *)
(***************************************************************************)
EXTENDS Reminders, TLC

Interchangeable == Permutations(Calls)
=============================================================================
