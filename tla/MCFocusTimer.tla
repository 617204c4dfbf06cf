---------------------------- MODULE MCFocusTimer ----------------------------
(***************************************************************************)
(* Small instances of FocusTimer for TLC.  The clock is scaled down: two   *)
(* seconds to a minute, two minutes to an hour, and sessions of at least   *)
(* two seconds, so that sessions below, at and above an hour are reached.  *)
(***************************************************************************)
EXTENDS FocusTimer

\* Another device buys a creature.
MCOtherChanges == {-1}
=============================================================================
