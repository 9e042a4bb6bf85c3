---------------------------- MODULE MCMediaCache ----------------------------
(***************************************************************************)
(* A small instance of MediaCache: two keys that together exceed the       *)
(* budget, and two requests, so that one waits for the lock of the other   *)
(* or meets it on another key while the sweeper is at work.                *)
(***************************************************************************)
EXTENDS MediaCache

CONSTANTS small, large

MCSize == [k \in Keys |-> IF k = large THEN 2 ELSE 1]

\* Nothing is left behind, or a full cache.
Full == [files |-> Keys, rows |-> <<small, large>>]
MCEarlier == {[files |-> {}, rows |-> <<>>], Full}

=============================================================================
