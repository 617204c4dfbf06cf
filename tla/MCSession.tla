----------------------------- MODULE MCSession -----------------------------
(***************************************************************************)
(* Session with two accounts, one invocation that signs in or out and one  *)
(* that deletes an account or clears its records, and one task.            *)
(***************************************************************************)
EXTENDS Session
=============================================================================
