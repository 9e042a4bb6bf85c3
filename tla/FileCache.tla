----------------------------- MODULE FileCache -----------------------------
(***************************************************************************)
(* What the media cache (media.py) promises to those who ask it for files, *)
(* with no table, locks, statements or sweeper.  A request is answered     *)
(* from the cache only if the file is there, fetches it only if it is not  *)
(* and nobody else fetches it, and is refused in the end only if the file  *)
(* has been forgotten since.  Files come by fetching alone: a new process  *)
(* has some of those that were there before.                               *)
(***************************************************************************)
CONSTANTS Requests, Keys

VARIABLES present,  \* the keys whose files can be served
          wants,    \* wants[r]: the key that request r asks for
          stage     \* how far request r has come

vars == <<present, wants, stage>>

Init ==
    /\ present \in SUBSET Keys
    /\ wants \in [Requests -> Keys]
    /\ stage = [r \in Requests |-> "unused"]

From(r, s, t) ==
    /\ stage[r] = s
    /\ stage' = [stage EXCEPT ![r] = t]
    /\ UNCHANGED wants

Ask(r) == From(r, "unused", "asking") /\ UNCHANGED present

Hit(r) ==
    /\ wants[r] \in present
    /\ From(r, "asking", "answered")
    /\ UNCHANGED present

Fetch(r) ==
    /\ wants[r] \notin present
    /\ \A q \in Requests : stage[q] = "fetching" => wants[q] # wants[r]
    /\ From(r, "asking", "fetching")
    /\ UNCHANGED present

Deliver(r) ==
    /\ From(r, "fetching", "answered")
    /\ present' = present \cup {wants[r]}

Fail(r) == From(r, "fetching", "failed") /\ UNCHANGED present

Serve(r) ==
    /\ wants[r] \in present
    /\ From(r, "answered", "served")
    /\ UNCHANGED present

Refuse(r) ==
    /\ wants[r] \notin present
    /\ From(r, "answered", "refused")
    /\ UNCHANGED present

Forget(k) == present' = present \ {k} /\ UNCHANGED <<wants, stage>>

Restart ==
    /\ present' \in SUBSET present
    /\ stage' = [r \in Requests |-> IF stage[r] \in {"asking", "fetching", "answered"}
                                    THEN "lost" ELSE stage[r]]
    /\ UNCHANGED wants

Next ==
    \/ \E r \in Requests : \/ Ask(r) \/ Hit(r) \/ Fetch(r) \/ Deliver(r) \/ Fail(r)
                           \/ Serve(r) \/ Refuse(r)
    \/ \E k \in Keys : Forget(k)
    \/ Restart

Spec == Init /\ [][Next]_vars
=============================================================================
