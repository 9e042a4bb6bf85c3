----------------------------- MODULE MCDialogs -----------------------------
(***************************************************************************)
(* A small instance of Dialogs: two calls at a time.                       *)
(***************************************************************************)
EXTENDS Dialogs
=============================================================================
