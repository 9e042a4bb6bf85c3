----------------------------- MODULE MCTimeline -----------------------------
(***************************************************************************)
(* Small instances of Timeline: two chats whose messages share their        *)
(* numbers, two messages each, and the RPCs of one tab.                     *)
(***************************************************************************)
EXTENDS Timeline, TLC

TabSymmetry == Permutations(Chats) \cup Permutations(Slots)
=============================================================================
