---------------------------- MODULE MCUpdateHub ----------------------------
(***************************************************************************)
(* Small instances of UpdateHub: one tab, since tabs share nothing but the *)
(* loop in emit, and three connections, so that the handlers of two older  *)
(* ones can outlive their links.  Queues of one or two frames and two      *)
(* retries show what 1000 frames and eight retries do.                     *)
(***************************************************************************)
EXTENDS UpdateHub, TLC
=============================================================================
