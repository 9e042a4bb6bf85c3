------------------------------ MODULE MCAccess ------------------------------
(***************************************************************************)
(* A small instance of Access: two addresses, one session, two requests.   *)
(***************************************************************************)
EXTENDS Access
=============================================================================
