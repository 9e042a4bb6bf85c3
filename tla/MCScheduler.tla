---------------------------- MODULE MCScheduler ----------------------------
(***************************************************************************)
(* Small instances of Scheduler.                                           *)
(***************************************************************************)
EXTENDS Scheduler, TLC

CONSTANTS p1, p2

\* One slot per lane, so that two calls queue for it; two slots for sends.
OneSlotEach == [l \in Lanes |-> 1]
TwoForSends == [l \in Lanes |-> IF l = "high" THEN 2 ELSE 1]

\* Every lane with and without a peer; a mark_read of the other peer would only mirror.
MixedRequests == [lane : Lanes, peer : {p1, NoPeer}] \cup {[lane |-> "high", peer |-> p2]}

\* Sends beside downloads: the low lane carries no peer.
SendsAndDownloads == {[lane |-> "high", peer |-> p1], [lane |-> "low", peer |-> NoPeer]}
=============================================================================
