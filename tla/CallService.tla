---------------------------- MODULE CallService ----------------------------
(***************************************************************************)
(* What the outbound scheduler (floodqueue.py) promises its callers, with  *)
(* no semaphores, locks, pauses or retries: every call is served once, the *)
(* calls of one lane and one peer are served in the order they arrived,    *)
(* two calls to the same peer are never served together, and a lane serves *)
(* no more calls at a time than it has slots.                              *)
(***************************************************************************)
EXTENDS Naturals, FiniteSets

CONSTANTS Calls,        \* the calls callers may make
          Requests,     \* the [lane, peer] pairs a call may carry
          NoPeer,       \* the peer of a call that needs no ordering
          Capacity      \* Capacity[lane]: how many calls a lane serves at once

VARIABLES status,       \* status[c]: new, waiting, serving or settled
          req,          \* req[c]: the lane and the peer of the call
          ahead         \* ahead[c]: the calls that had arrived before c

vars == <<status, req, ahead>>

SamePeer(c, d) == req[c].peer = req[d].peer /\ req[c].peer # NoPeer

Serving(lane) == {c \in Calls : status[c] = "serving" /\ req[c].lane = lane}

Init ==
    /\ status = [c \in Calls |-> "new"]
    /\ req \in [Calls -> Requests]
    /\ ahead = [c \in Calls |-> {}]

Arrive(c) ==
    /\ status[c] = "new"
    /\ status' = [status EXCEPT ![c] = "waiting"]
    /\ ahead' = [ahead EXCEPT ![c] = {d \in Calls : status[d] # "new"}]
    /\ UNCHANGED req

Serve(c) ==
    /\ status[c] = "waiting"
    /\ Cardinality(Serving(req[c].lane)) < Capacity[req[c].lane]
    /\ \A d \in Calls \ {c} : SamePeer(c, d) =>
          /\ status[d] # "serving"
          /\ d \in ahead[c] /\ req[d].lane = req[c].lane => status[d] = "settled"
    /\ status' = [status EXCEPT ![c] = "serving"]
    /\ UNCHANGED <<req, ahead>>

Settle(c) ==
    /\ status[c] = "serving"
    /\ status' = [status EXCEPT ![c] = "settled"]
    /\ UNCHANGED <<req, ahead>>

Next == \E c \in Calls : Arrive(c) \/ Serve(c) \/ Settle(c)

Spec == Init /\ [][Next]_vars
=============================================================================
