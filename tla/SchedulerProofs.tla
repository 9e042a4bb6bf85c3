-------------------------- MODULE SchedulerProofs --------------------------
(***************************************************************************)
(* Machine-checked proofs about Scheduler, for any calls, peers, slots and *)
(* limits.  SchedulerInv is inductive; the safety properties follow.       *)
(*                                                                         *)
(* Most of the invariant looks only at the queues, the lock and the slots, *)
(* and StepShape says what any step does to those: it is one of Submit,    *)
(* TakeSlot, TakePeer, a call leaving, or a quiet step.                    *)
(***************************************************************************)
EXTENDS Scheduler, FiniteSetTheorems, TLAPS

Leaves(c) ==
    /\ pc[c] = "calling"
    /\ pc' = [pc EXCEPT ![c] = "settled"]
    /\ slots' = [slots EXCEPT ![Lane(c)] = @ + 1]
    /\ locked' = locked \ {Peer(c)}
    /\ UNCHANGED <<req, arrivals, arrived, askings, asked>>

Quiet ==
    /\ UNCHANGED <<req, slots, locked, arrivals, arrived, askings, asked>>
    /\ \A c \in Calls : pc'[c] # pc[c] => pc[c] \in Inside /\ pc'[c] \in Inside

-----------------------------------------------------------------------------
\* What a call asks for has a lane and a peer.
LEMMA RequestType ==
  ASSUME TypeOK, NEW c \in Calls
  PROVE  Lane(c) \in Lanes /\ Peer(c) \in Peers \cup {NoPeer}
  BY RequestsAreLaneAndPeer DEF TypeOK, Lane, Peer

LEMMA TypeInit == Init => TypeOK
  BY LimitsAreNumbers DEF Init, TypeOK, PCs, Outcomes, Lanes

\* The type invariant is inductive by itself.
LEMMA TypeStep == TypeOK /\ [Next]_vars => TypeOK'
  <1> SUFFICES ASSUME TypeOK, [Next]_vars PROVE TypeOK'
    OBVIOUS
  <1> USE DEF TypeOK, PCs, Outcomes, Inside, queueVars, timeVars, callVars
  <1>1. ASSUME NEW c \in Calls, Submit(c) PROVE TypeOK'
    BY <1>1 DEF Submit
  <1>2. ASSUME NEW c \in Calls, TakeSlot(c) PROVE TypeOK'
    BY <1>2, RequestType DEF TakeSlot
  <1>3. ASSUME NEW c \in Calls, TakePeer(c) PROVE TypeOK'
    BY <1>3, RequestType DEF TakePeer, BeginAttempt
  <1>4. ASSUME NEW c \in Calls, WakePaused(c) PROVE TypeOK'
    BY <1>4 DEF WakePaused
  <1>5. ASSUME NEW c \in Calls, WakeBackoff(c) PROVE TypeOK'
    BY <1>5 DEF WakeBackoff, BeginAttempt
  <1>6. ASSUME NEW c \in Calls, ReplyOk(c) PROVE TypeOK'
    BY <1>6, RequestType DEF ReplyOk, Leave
  <1>7. ASSUME NEW c \in Calls, NEW s \in FloodSeconds, ReplyFlood(c, s) PROVE TypeOK'
    <2>1. s \in Nat /\ Lane(c) \in Lanes
      BY LimitsAreNumbers, RequestType
    <2>2. CASE FloodTooLong(c, s)
      BY <1>7, <2>1, <2>2 DEF ReplyFlood, Leave, FloodTooLong
    <2>3. CASE ~FloodTooLong(c, s)
      BY <1>7, <2>1, <2>3, LimitsAreNumbers DEF ReplyFlood, SleepThenRetry, FloodTooLong
    <2> QED BY <2>2, <2>3
  <1>8. ASSUME NEW c \in Calls, ReplyServerError(c) PROVE TypeOK'
    <2>1. Lane(c) \in Lanes /\ 2 ^ attempt[c] \in Nat
      BY LimitsAreNumbers, RequestType
    <2>2. applied' \in [Calls -> Nat] /\ unclear' \in [Calls -> Nat]
      BY <1>8 DEF ReplyServerError
    <2>3. CASE attempt[c] >= MaxRetries
      BY <1>8, <2>1, <2>2, <2>3, LimitsAreNumbers DEF ReplyServerError, Leave
    <2>4. CASE attempt[c] < MaxRetries
      BY <1>8, <2>1, <2>2, <2>4, LimitsAreNumbers DEF ReplyServerError, SleepThenRetry
    <2> QED BY <2>3, <2>4, LimitsAreNumbers
  <1>9. ASSUME NEW c \in Calls, ReplyOtherError(c) PROVE TypeOK'
    BY <1>9, RequestType DEF ReplyOtherError, Leave
  <1>10. CASE Tick
    BY <1>10 DEF Tick, Elapse
  <1>11. CASE UNCHANGED vars
    BY <1>11 DEF vars
  <1> QED
    BY <1>1, <1>2, <1>3, <1>4, <1>5, <1>6, <1>7, <1>8, <1>9, <1>10, <1>11
    DEF Next, Step, Reply, AllSettled

\* Types of every variable, in every reachable state.
THEOREM TypeCorrect == Spec => []TypeOK
  BY TypeInit, TypeStep, PTL DEF Spec

\* What a step can do to the queues, the locks and the slots.
LEMMA StepShape ==
  ASSUME TypeOK, [Next]_vars
  PROVE  \/ \E c \in Calls : Submit(c) \/ TakeSlot(c) \/ TakePeer(c) \/ Leaves(c)
         \/ Quiet
  <1> USE DEF Inside, queueVars, timeVars, callVars, TypeOK
  <1>1. ASSUME NEW c \in Calls, WakePaused(c) PROVE Quiet
    BY <1>1 DEF WakePaused, Quiet
  <1>2. ASSUME NEW c \in Calls, WakeBackoff(c) PROVE Quiet
    BY <1>2 DEF WakeBackoff, BeginAttempt, Quiet
  <1>3. ASSUME NEW c \in Calls, ReplyOk(c) PROVE Leaves(c)
    BY <1>3 DEF ReplyOk, Leave, Leaves
  <1>4. ASSUME NEW c \in Calls, NEW s \in FloodSeconds, ReplyFlood(c, s)
        PROVE  Leaves(c) \/ Quiet
    BY <1>4 DEF ReplyFlood, Leave, Leaves, SleepThenRetry, Quiet
  <1>5. ASSUME NEW c \in Calls, ReplyServerError(c) PROVE Leaves(c) \/ Quiet
    BY <1>5 DEF ReplyServerError, Leave, Leaves, SleepThenRetry, Quiet
  <1>6. ASSUME NEW c \in Calls, ReplyOtherError(c) PROVE Leaves(c)
    BY <1>6 DEF ReplyOtherError, Leave, Leaves
  <1>7. CASE Tick
    BY <1>7 DEF Tick, Quiet
  <1>8. CASE UNCHANGED vars
    BY <1>8 DEF vars, Quiet
  <1> QED
    BY <1>1, <1>2, <1>3, <1>4, <1>5, <1>6, <1>7, <1>8
    DEF Next, Step, Reply, AllSettled

-----------------------------------------------------------------------------
\* A lock is taken exactly while one call of its peer is inside.
LEMMA LockStep ==
  ASSUME TypeOK, TypeOK', LocksMatch, PeerExclusive, [Next]_vars
  PROVE  LocksMatch' /\ PeerExclusive'
  <1> USE DEF TypeOK, Inside, Lane, Peer, SamePeer, LocksMatch, PeerExclusive
  <1>1. ASSUME NEW c \in Calls, Submit(c) PROVE LocksMatch' /\ PeerExclusive'
    BY <1>1 DEF Submit
  <1>2. ASSUME NEW c \in Calls, TakeSlot(c) PROVE LocksMatch' /\ PeerExclusive'
    BY <1>2 DEF TakeSlot
  <1>3. ASSUME NEW c \in Calls, TakePeer(c) PROVE LocksMatch' /\ PeerExclusive'
    <2>1. /\ req' = req
          /\ pc[c] = "wantPeer" /\ pc'[c] \in Inside
          /\ \A d \in Calls \ {c} : pc'[d] = pc[d]
          /\ locked' = locked \cup ({Peer(c)} \ {NoPeer})
          /\ Peer(c) # NoPeer => Peer(c) \notin locked
      BY <1>3 DEF TakePeer, BeginAttempt, LockGranted
    <2>2. LocksMatch'
      BY <2>1
    <2>3. PeerExclusive'
      BY <2>1
    <2> QED BY <2>2, <2>3
  <1>4. ASSUME NEW c \in Calls, Leaves(c) PROVE LocksMatch' /\ PeerExclusive'
    <2>1. /\ req' = req
          /\ pc[c] \in Inside /\ pc'[c] \notin Inside
          /\ \A d \in Calls \ {c} : pc'[d] = pc[d]
          /\ locked' = locked \ {Peer(c)}
      BY <1>4 DEF Leaves
    <2>2. \A d \in Calls \ {c} : pc[d] \in Inside /\ Peer(d) # NoPeer => Peer(d) # Peer(c)
      BY <2>1
    <2>3. LocksMatch'
      BY <2>1, <2>2
    <2>4. PeerExclusive'
      BY <2>1
    <2> QED BY <2>3, <2>4
  <1>5. CASE Quiet
    <2>1. req' = req /\ locked' = locked /\ \A d \in Calls : pc'[d] \in Inside <=> pc[d] \in Inside
      BY <1>5 DEF Quiet
    <2> QED BY <2>1
  <1> QED BY <1>1, <1>2, <1>3, <1>4, <1>5, StepShape

\* Places are given out in order and never twice.
LEMMA PlacesStep ==
  ASSUME TypeOK, TypeOK', PlacesInOrder, [Next]_vars
  PROVE  PlacesInOrder'
  <1> USE DEF TypeOK, PlacesInOrder
  <1>1. ASSUME NEW c \in Calls, Submit(c) PROVE PlacesInOrder'
    BY <1>1 DEF Submit
  <1>2. ASSUME NEW c \in Calls, TakeSlot(c) PROVE PlacesInOrder'
    BY <1>2 DEF TakeSlot
  <1>3. ASSUME NEW c \in Calls, TakePeer(c) PROVE PlacesInOrder'
    BY <1>3 DEF TakePeer, BeginAttempt
  <1>4. ASSUME NEW c \in Calls, Leaves(c) PROVE PlacesInOrder'
    BY <1>4 DEF Leaves
  <1>5. CASE Quiet
    BY <1>5 DEF Quiet, Inside
  <1> QED BY <1>1, <1>2, <1>3, <1>4, <1>5, StepShape

\* A lane's calls keep their order on the way to the locks.
LEMMA LaneOrderStep ==
  ASSUME TypeOK, TypeOK', PlacesInOrder, LaneOrder, [Next]_vars
  PROVE  LaneOrder'
  <1> USE DEF TypeOK, PlacesInOrder, LaneOrder, Lane
  <1>1. ASSUME NEW c \in Calls, Submit(c) PROVE LaneOrder'
    BY <1>1 DEF Submit
  <1>2. ASSUME NEW c \in Calls, TakeSlot(c) PROVE LaneOrder'
    <2>1. /\ req' = req /\ arrived' = arrived /\ pc[c] = "wantSlot"
          /\ asked' = [asked EXCEPT ![c] = askings + 1]
          /\ pc' = [pc EXCEPT ![c] = "wantPeer"]
          /\ \A d \in Calls : pc[d] = "wantSlot" /\ Lane(d) = Lane(c) => arrived[c] <= arrived[d]
      BY <1>2 DEF TakeSlot
    <2> SUFFICES ASSUME NEW a \in Calls, NEW b \in Calls,
                        Lane(a) = Lane(b), pc'[a] # "idle", asked'[b] # 0,
                        arrived[a] < arrived[b]
                 PROVE  asked'[a] # 0 /\ asked'[a] < asked'[b]
      BY <2>1
    <2>2. CASE a = c
      \* Then b was ahead of a in the queue for the lock before this step.
      BY <2>1, <2>2
    <2>3. CASE b = c /\ a # c
      <3>1. pc[a] # "wantSlot" /\ pc[a] # "idle"
        BY <2>1, <2>3
      <3> QED BY <2>1, <2>3, <3>1
    <2>4. CASE a # c /\ b # c
      BY <2>1, <2>4
    <2> QED BY <2>2, <2>3, <2>4
  <1>3. ASSUME NEW c \in Calls, TakePeer(c) PROVE LaneOrder'
    BY <1>3 DEF TakePeer, BeginAttempt
  <1>4. ASSUME NEW c \in Calls, Leaves(c) PROVE LaneOrder'
    BY <1>4 DEF Leaves
  <1>5. CASE Quiet
    BY <1>5 DEF Quiet, Inside
  <1> QED BY <1>1, <1>2, <1>3, <1>4, <1>5, StepShape

\* The lock goes to the calls of a peer in the order they asked for it.
LEMMA LockOrderStep ==
  ASSUME TypeOK, TypeOK', LocksMatch, PlacesInOrder, LockOrder, [Next]_vars
  PROVE  LockOrder'
  <1> USE DEF TypeOK, PlacesInOrder, LockOrder, SamePeer, Peer, Inside, PCs
  <1>1. ASSUME NEW c \in Calls, Submit(c) PROVE LockOrder'
    BY <1>1 DEF Submit
  <1>2. ASSUME NEW c \in Calls, TakeSlot(c) PROVE LockOrder'
    BY <1>2 DEF TakeSlot
  <1>3. ASSUME NEW c \in Calls, TakePeer(c) PROVE LockOrder'
    <2>1. /\ req' = req /\ asked' = asked
          /\ pc[c] = "wantPeer"
          /\ \A d \in Calls \ {c} : pc'[d] = pc[d]
          /\ Peer(c) # NoPeer =>
                /\ Peer(c) \notin locked
                /\ \A d \in Calls : pc[d] = "wantPeer" /\ SamePeer(c, d) => asked[c] <= asked[d]
      BY <1>3 DEF TakePeer, BeginAttempt, LockGranted
    <2>2. \A a \in Calls : SamePeer(a, c) /\ asked[a] # 0 /\ asked[a] < asked[c]
                           => pc[a] = "settled"
      BY <2>1 DEF LocksMatch
    <2> QED BY <2>1, <2>2
  <1>4. ASSUME NEW c \in Calls, Leaves(c) PROVE LockOrder'
    BY <1>4 DEF Leaves
  <1>5. CASE Quiet
    BY <1>5 DEF Quiet
  <1> QED BY <1>1, <1>2, <1>3, <1>4, <1>5, StepShape

\* A step that moves one call past the semaphore, or back out, changes the
\* number of calls that hold a slot of its lane by one.
LEMMA HoldersAdd ==
  ASSUME TypeOK, NEW c \in Calls, NEW l \in Lanes, c \notin HoldsSlot(l)
  PROVE  /\ Cardinality(HoldsSlot(l)) \in Nat
         /\ Cardinality(HoldsSlot(l) \cup {c}) = Cardinality(HoldsSlot(l)) + 1
  <1>1. IsFiniteSet(HoldsSlot(l))
    BY CallsAreFinite, FS_Subset DEF HoldsSlot
  <1> QED BY <1>1, FS_AddElement, FS_CardinalityType

LEMMA HoldersRemove ==
  ASSUME TypeOK, NEW c \in Calls, NEW l \in Lanes, c \in HoldsSlot(l)
  PROVE  /\ Cardinality(HoldsSlot(l)) \in Nat
         /\ Cardinality(HoldsSlot(l) \ {c}) = Cardinality(HoldsSlot(l)) - 1
  <1>1. IsFiniteSet(HoldsSlot(l))
    BY CallsAreFinite, FS_Subset DEF HoldsSlot
  <1> QED BY <1>1, FS_RemoveElement, FS_CardinalityType

\* Free slots and held slots of a lane always add up to its capacity.
LEMMA SlotStep ==
  ASSUME TypeOK, TypeOK', SlotsMatch, [Next]_vars
  PROVE  SlotsMatch'
  <1> SUFFICES ASSUME NEW l \in Lanes
               PROVE  slots'[l] + Cardinality(HoldsSlot(l)') = Slots[l]
    BY DEF SlotsMatch
  <1>0. slots[l] + Cardinality(HoldsSlot(l)) = Slots[l] /\ slots[l] \in Nat /\ Slots[l] \in Nat
    BY LimitsAreNumbers DEF SlotsMatch, TypeOK
  <1> USE DEF TypeOK, Inside
  <1>1. ASSUME NEW c \in Calls, Submit(c) PROVE slots'[l] + Cardinality(HoldsSlot(l)') = Slots[l]
    <2>1. slots' = slots /\ HoldsSlot(l)' = HoldsSlot(l)
      BY <1>1 DEF Submit, HoldsSlot, Lane
    <2> QED BY <1>0, <2>1
  <1>2. ASSUME NEW c \in Calls, TakeSlot(c) PROVE slots'[l] + Cardinality(HoldsSlot(l)') = Slots[l]
    <2>1. /\ pc[c] = "wantSlot" /\ req' = req
          /\ pc' = [pc EXCEPT ![c] = "wantPeer"]
          /\ slots' = [slots EXCEPT ![Lane(c)] = @ - 1]
      BY <1>2 DEF TakeSlot
    <2>2. CASE Lane(c) = l
      <3>1. c \notin HoldsSlot(l) /\ HoldsSlot(l)' = HoldsSlot(l) \cup {c}
        BY <2>1, <2>2 DEF HoldsSlot, Lane
      <3>2. slots'[l] = slots[l] - 1
        BY <2>1, <2>2
      <3> HIDE DEF TypeOK
      <3> QED BY <1>0, <3>1, <3>2, HoldersAdd
    <2>3. CASE Lane(c) # l
      <3>1. slots'[l] = slots[l] /\ HoldsSlot(l)' = HoldsSlot(l)
        BY <2>1, <2>3 DEF HoldsSlot, Lane
      <3> QED BY <1>0, <3>1
    <2> QED BY <2>2, <2>3
  <1>3. ASSUME NEW c \in Calls, TakePeer(c) PROVE slots'[l] + Cardinality(HoldsSlot(l)') = Slots[l]
    <2>1. slots' = slots /\ HoldsSlot(l)' = HoldsSlot(l)
      BY <1>3 DEF TakePeer, BeginAttempt, HoldsSlot, Lane
    <2> QED BY <1>0, <2>1
  <1>4. ASSUME NEW c \in Calls, Leaves(c) PROVE slots'[l] + Cardinality(HoldsSlot(l)') = Slots[l]
    <2>1. /\ pc[c] = "calling" /\ req' = req
          /\ pc' = [pc EXCEPT ![c] = "settled"]
          /\ slots' = [slots EXCEPT ![Lane(c)] = @ + 1]
      BY <1>4 DEF Leaves
    <2>2. CASE Lane(c) = l
      <3>1. c \in HoldsSlot(l) /\ HoldsSlot(l)' = HoldsSlot(l) \ {c}
        BY <2>1, <2>2 DEF HoldsSlot, Lane
      <3>2. slots'[l] = slots[l] + 1
        BY <2>1, <2>2
      <3> HIDE DEF TypeOK
      <3> QED BY <1>0, <3>1, <3>2, HoldersRemove
    <2>3. CASE Lane(c) # l
      <3>1. slots'[l] = slots[l] /\ HoldsSlot(l)' = HoldsSlot(l)
        BY <2>1, <2>3 DEF HoldsSlot, Lane
      <3> QED BY <1>0, <3>1
    <2> QED BY <2>2, <2>3
  <1>5. CASE Quiet
    <2>1. slots' = slots /\ HoldsSlot(l)' = HoldsSlot(l)
      BY <1>5 DEF Quiet, HoldsSlot, Lane
    <2> QED BY <1>0, <2>1
  <1> QED BY <1>1, <1>2, <1>3, <1>4, <1>5, StepShape

\* The sleep of a flooded call never ends before the wait it was given.
LEMMA SleepStep ==
  ASSUME TypeOK, TypeOK', SleepCoversWait, [Next]_vars
  PROVE  SleepCoversWait'
  <1> USE DEF TypeOK, SleepCoversWait, timeVars
  <1>1. ASSUME NEW c \in Calls, Submit(c) PROVE SleepCoversWait'
    BY <1>1 DEF Submit
  <1>2. ASSUME NEW c \in Calls, TakeSlot(c) PROVE SleepCoversWait'
    BY <1>2 DEF TakeSlot
  <1>3. ASSUME NEW c \in Calls, TakePeer(c) PROVE SleepCoversWait'
    BY <1>3 DEF TakePeer, BeginAttempt
  <1>4. ASSUME NEW c \in Calls, WakePaused(c) PROVE SleepCoversWait'
    BY <1>4 DEF WakePaused
  <1>5. ASSUME NEW c \in Calls, WakeBackoff(c) PROVE SleepCoversWait'
    BY <1>5 DEF WakeBackoff, BeginAttempt
  <1>6. ASSUME NEW c \in Calls, ReplyOk(c) PROVE SleepCoversWait'
    BY <1>6 DEF ReplyOk, Leave
  <1>7. ASSUME NEW c \in Calls, NEW s \in FloodSeconds, ReplyFlood(c, s) PROVE SleepCoversWait'
    <2>1. s \in Nat
      BY LimitsAreNumbers
    <2> QED BY <1>7, <2>1 DEF ReplyFlood, Leave, SleepThenRetry
  <1>8. ASSUME NEW c \in Calls, ReplyServerError(c) PROVE SleepCoversWait'
    <2>1. /\ owed' = owed /\ pc[c] = "calling"
          /\ \A d \in Calls \ {c} : pc'[d] = pc[d] /\ sleep'[d] = sleep[d]
      BY <1>8 DEF ReplyServerError, Leave, SleepThenRetry
    <2>2. owed[c] = 0 /\ sleep'[c] \in Nat
      BY <2>1
    <2> QED BY <2>1, <2>2
  <1>9. ASSUME NEW c \in Calls, ReplyOtherError(c) PROVE SleepCoversWait'
    BY <1>9 DEF ReplyOtherError, Leave
  <1>10. CASE Tick
    BY <1>10 DEF Tick, Elapse
  <1>11. CASE UNCHANGED vars
    BY <1>11 DEF vars
  <1> QED
    BY <1>1, <1>2, <1>3, <1>4, <1>5, <1>6, <1>7, <1>8, <1>9, <1>10, <1>11
    DEF Next, Step, Reply, AllSettled

\* Being carried out twice takes a server error first.
LEMMA AppliedStep ==
  ASSUME TypeOK, TypeOK', AppliedOnlyInDoubt, NoDuplicateWithoutServerError, [Next]_vars
  PROVE  AppliedOnlyInDoubt' /\ NoDuplicateWithoutServerError'
  <1> DEFINE Goal == AppliedOnlyInDoubt' /\ NoDuplicateWithoutServerError'
  <1> USE DEF TypeOK, AppliedOnlyInDoubt, NoDuplicateWithoutServerError, callVars
  <1>1. ASSUME NEW c \in Calls, Submit(c) PROVE Goal
    BY <1>1 DEF Submit
  <1>2. ASSUME NEW c \in Calls, TakeSlot(c) PROVE Goal
    BY <1>2 DEF TakeSlot
  <1>3. ASSUME NEW c \in Calls, TakePeer(c) PROVE Goal
    BY <1>3 DEF TakePeer, BeginAttempt
  <1>4. ASSUME NEW c \in Calls, WakePaused(c) PROVE Goal
    BY <1>4 DEF WakePaused
  <1>5. ASSUME NEW c \in Calls, WakeBackoff(c) PROVE Goal
    BY <1>5 DEF WakeBackoff, BeginAttempt
  <1>6. ASSUME NEW c \in Calls, ReplyOk(c) PROVE Goal
    BY <1>6 DEF ReplyOk, Leave
  <1>7. ASSUME NEW c \in Calls, NEW s \in FloodSeconds, ReplyFlood(c, s) PROVE Goal
    BY <1>7 DEF ReplyFlood, Leave, SleepThenRetry
  <1>8. ASSUME NEW c \in Calls, ReplyServerError(c) PROVE Goal
    <2>1. PICK n \in {0, 1} : applied' = [applied EXCEPT ![c] = @ + n]
      BY <1>8 DEF ReplyServerError
    <2>2. unclear' = [unclear EXCEPT ![c] = @ + 1] /\ pc[c] = "calling"
      BY <1>8 DEF ReplyServerError
    <2>3. \/ /\ pc' = [pc EXCEPT ![c] = "settled"]
             /\ outcome' = [outcome EXCEPT ![c] = "serverError"]
          \/ /\ pc' = [pc EXCEPT ![c] = "backoff"]
             /\ outcome' = outcome
      BY <1>8 DEF ReplyServerError, Leave, SleepThenRetry
    <2> QED BY <2>1, <2>2, <2>3
  <1>9. ASSUME NEW c \in Calls, ReplyOtherError(c) PROVE Goal
    <2>1. PICK n \in {0, 1} : applied' = [applied EXCEPT ![c] = @ + n]
      BY <1>9 DEF ReplyOtherError
    <2>2. /\ unclear' = unclear /\ pc[c] = "calling"
          /\ pc' = [pc EXCEPT ![c] = "settled"]
          /\ outcome' = [outcome EXCEPT ![c] = "otherError"]
      BY <1>9 DEF ReplyOtherError, Leave
    <2> QED BY <2>1, <2>2
  <1>10. CASE Tick
    BY <1>10 DEF Tick
  <1>11. CASE UNCHANGED vars
    BY <1>11 DEF vars
  <1> QED
    BY <1>1, <1>2, <1>3, <1>4, <1>5, <1>6, <1>7, <1>8, <1>9, <1>10, <1>11
    DEF Next, Step, Reply, AllSettled

-----------------------------------------------------------------------------
\* The strengthening holds initially, and every step keeps it.
LEMMA InvInit == Init => SchedulerInv
  <1> SUFFICES ASSUME Init PROVE SchedulerInv
    OBVIOUS
  <1>1. TypeOK
    BY TypeInit
  <1>2. PeerExclusive /\ LocksMatch
    BY DEF Init, PeerExclusive, LocksMatch, Inside
  <1>3. SlotsMatch
    <2>1. \A l \in Lanes : HoldsSlot(l) = {}
      BY DEF Init, HoldsSlot, Inside
    <2> QED BY <2>1, FS_EmptySet, LimitsAreNumbers DEF Init, SlotsMatch
  <1>4. PlacesInOrder /\ LaneOrder /\ LockOrder
    BY DEF Init, PlacesInOrder, LaneOrder, LockOrder
  <1>5. SleepCoversWait /\ AppliedOnlyInDoubt /\ NoDuplicateWithoutServerError
    BY DEF Init, SleepCoversWait, AppliedOnlyInDoubt, NoDuplicateWithoutServerError
  <1> QED BY <1>1, <1>2, <1>3, <1>4, <1>5 DEF SchedulerInv, NothingLeaks

LEMMA InvStep == SchedulerInv /\ [Next]_vars => SchedulerInv'
  <1> SUFFICES ASSUME SchedulerInv, [Next]_vars PROVE SchedulerInv'
    OBVIOUS
  <1>1. TypeOK'
    BY TypeStep DEF SchedulerInv
  <1>2. LocksMatch' /\ PeerExclusive'
    BY <1>1, LockStep DEF SchedulerInv, NothingLeaks
  <1>3. SlotsMatch'
    BY <1>1, SlotStep DEF SchedulerInv, NothingLeaks
  <1>4. PlacesInOrder' /\ LaneOrder' /\ LockOrder'
    BY <1>1, PlacesStep, LaneOrderStep, LockOrderStep DEF SchedulerInv, NothingLeaks
  <1>5. SleepCoversWait' /\ AppliedOnlyInDoubt' /\ NoDuplicateWithoutServerError'
    BY <1>1, SleepStep, AppliedStep DEF SchedulerInv
  <1> QED BY <1>1, <1>2, <1>3, <1>4, <1>5 DEF SchedulerInv, NothingLeaks

\* The strengthening holds in every reachable state.
THEOREM InvariantHolds == Spec => []SchedulerInv
  BY InvInit, InvStep, PTL DEF Spec

\* Two calls to one peer are never inside its lock together (run, 47-55).
THEOREM PeersAreExclusive == Spec => []PeerExclusive
  <1>1. SchedulerInv => PeerExclusive
    BY DEF SchedulerInv
  <1> QED BY <1>1, InvariantHolds, PTL

\* No slot and no lock is lost or returned twice, whatever way a call ends.
THEOREM SlotsAndLocksNeverLeak == Spec => []NothingLeaks
  <1>1. SchedulerInv => NothingLeaks
    BY DEF SchedulerInv
  <1> QED BY <1>1, InvariantHolds, PTL

LEMMA OrderImpliesFifo == SchedulerInv => PeerFifo
  <1> SUFFICES ASSUME SchedulerInv,
                      NEW c \in Calls, NEW d \in Calls,
                      SamePeer(c, d), Lane(c) = Lane(d), pc[c] # "idle",
                      pc[d] \in Inside \cup {"settled"},
                      arrived[c] < arrived[d]
               PROVE  pc[c] = "settled"
    BY DEF PeerFifo
  <1>1. asked[d] # 0
    BY DEF SchedulerInv, PlacesInOrder, Inside
  <1>2. asked[c] # 0 /\ asked[c] < asked[d]
    BY <1>1 DEF SchedulerInv, LaneOrder
  <1> QED BY <1>2 DEF SchedulerInv, LockOrder

\* Per-peer ordering: the calls of one lane to one peer are attempted in the
\* order they arrived, each only when all before it have settled.
THEOREM PeerCallsKeepOrder == Spec => []PeerFifo
  BY OrderImpliesFifo, InvariantHolds, PTL

\* No call is sent again while Telegram still told it to wait.
THEOREM FloodWaitsAreHonoured == Spec => []FloodWaitHonoured
  <1>1. SchedulerInv => FloodWaitHonoured
    BY DEF SchedulerInv, SleepCoversWait, FloodWaitHonoured
  <1> QED BY <1>1, InvariantHolds, PTL

\* A call is carried out twice only after a server error left it in doubt.
THEOREM DuplicatesNeedServerErrors == Spec => []NoDuplicateWithoutServerError
  <1>1. SchedulerInv => NoDuplicateWithoutServerError
    BY DEF SchedulerInv
  <1> QED BY <1>1, InvariantHolds, PTL

-----------------------------------------------------------------------------
\* CallService counts with the same Cardinality.
LEMMA SameCardinality == ASSUME NEW S PROVE Service!Cardinality(S) = Cardinality(S)
  BY DEF Cardinality, Service!Cardinality

\* A call that has its slot but is not yet served leaves room in its lane.
LEMMA RoomToServe ==
  ASSUME SchedulerInv, NEW c \in Calls, pc[c] = "wantPeer"
  PROVE  Cardinality(Service!Serving(Lane(c))) < Slots[Lane(c)]
  <1> DEFINE l == Lane(c)
             Held == HoldsSlot(l)
             Served == Service!Serving(l)
  <1>1. l \in Lanes /\ TypeOK
    BY RequestType DEF SchedulerInv
  <1>2. Served \subseteq Held \ {c}
    BY <1>1 DEF Service!Serving, Status, HoldsSlot, Lane, Inside, TypeOK, PCs
  <1>3. IsFiniteSet(Held) /\ c \in Held
    BY CallsAreFinite, FS_Subset DEF HoldsSlot
  <1>4. /\ Cardinality(Held) \in Nat
        /\ Cardinality(Held \ {c}) = Cardinality(Held) - 1
        /\ IsFiniteSet(Held \ {c})
    BY <1>3, FS_RemoveElement, FS_CardinalityType
  <1>5. Cardinality(Served) \in Nat /\ Cardinality(Served) <= Cardinality(Held \ {c})
    BY <1>2, <1>4, FS_Subset, FS_CardinalityType
  <1>6. slots[l] + Cardinality(Held) = Slots[l] /\ slots[l] \in Nat
    BY <1>1 DEF SchedulerInv, NothingLeaks, SlotsMatch, TypeOK
  <1> QED BY <1>4, <1>5, <1>6

LEMMA RefineInit == Init => Service!Init
  BY DEF Init, Service!Init, Status, ArrivedBefore

LEMMA RefineStep ==
  ASSUME SchedulerInv, SchedulerInv', PeerFifo', [Next]_vars
  PROVE  [Service!Next]_(Service!vars)
  <1> USE DEF SchedulerInv, TypeOK, Inside
  <1>1. ASSUME NEW c \in Calls, Submit(c) PROVE Service!Arrive(c)
    <2>1. /\ pc[c] = "idle" /\ req' = req
          /\ pc' = [pc EXCEPT ![c] = "wantSlot"]
          /\ arrived' = [arrived EXCEPT ![c] = arrivals + 1]
      BY <1>1 DEF Submit
    <2>2. Status(c) = "new"
      BY <2>1 DEF Status
    <2>3. [d \in Calls |-> Status(d)]' = [[d \in Calls |-> Status(d)] EXCEPT ![c] = "waiting"]
      BY <2>1 DEF Status
    <2>4. \A d \in Calls \ {c} : ArrivedBefore(d)' = ArrivedBefore(d)
      BY <2>1 DEF ArrivedBefore, PlacesInOrder
    <2>5. ArrivedBefore(c)' = {d \in Calls : Status(d) # "new"}
      BY <2>1 DEF ArrivedBefore, PlacesInOrder, Status, PCs
    <2>6. [d \in Calls |-> ArrivedBefore(d)]' =
             [[d \in Calls |-> ArrivedBefore(d)] EXCEPT ![c] = {d \in Calls : Status(d) # "new"}]
      BY <2>4, <2>5
    <2>7. {d \in Calls : Status(d) # "new"} = {d \in Calls : [e \in Calls |-> Status(e)][d] # "new"}
      OBVIOUS
    <2> QED BY <2>1, <2>2, <2>3, <2>6, <2>7 DEF Service!Arrive
  <1>2. ASSUME NEW c \in Calls, TakeSlot(c) PROVE UNCHANGED Service!vars
    <2>1. /\ pc[c] = "wantSlot" /\ req' = req /\ arrived' = arrived
          /\ pc' = [pc EXCEPT ![c] = "wantPeer"]
      BY <1>2 DEF TakeSlot
    <2> QED BY <2>1 DEF Service!vars, Status, ArrivedBefore
  <1>3. ASSUME NEW c \in Calls, TakePeer(c) PROVE Service!Serve(c)
    <2>1. /\ pc[c] = "wantPeer" /\ req' = req /\ arrived' = arrived
          /\ pc'[c] \in Inside
          /\ \A d \in Calls \ {c} : pc'[d] = pc[d]
      BY <1>3 DEF TakePeer, BeginAttempt
    <2>2. Status(c) = "waiting"
      BY <2>1 DEF Status
    <2>3. [d \in Calls |-> Status(d)]' = [[d \in Calls |-> Status(d)] EXCEPT ![c] = "serving"]
      BY <2>1 DEF Status
    <2>4. [d \in Calls |-> ArrivedBefore(d)]' = [d \in Calls |-> ArrivedBefore(d)]
      BY <2>1 DEF ArrivedBefore
    <2>5. Service!Cardinality(Service!Serving(req[c].lane)) < Slots[req[c].lane]
      BY <2>1, RoomToServe, SameCardinality DEF Lane
    <2>6. ASSUME NEW d \in Calls \ {c}, Service!SamePeer(c, d)
          PROVE  /\ Status(d) # "serving"
                 /\ d \in ArrivedBefore(c) /\ req[d].lane = req[c].lane => Status(d) = "settled"
      <3>1. SamePeer(c, d) /\ SamePeer(d, c)
        BY <2>6 DEF SamePeer, Peer, Service!SamePeer
      <3>2. pc[d] \notin Inside
        BY <2>1, <3>1 DEF PeerExclusive, SamePeer, Peer
      <3>3. d \in ArrivedBefore(c) /\ Lane(d) = Lane(c) => pc[d] = "settled"
        BY <2>1, <3>1 DEF PeerFifo, ArrivedBefore, SamePeer, Peer, Lane
      <3> QED BY <3>2, <3>3 DEF Status, Lane, PCs
    <2> DEFINE St == [e \in Calls |-> Status(e)]
               Ah == [e \in Calls |-> ArrivedBefore(e)]
    <2>7. \A d \in Calls \ {c} : Service!SamePeer(c, d) =>
             /\ St[d] # "serving"
             /\ d \in Ah[c] /\ req[d].lane = req[c].lane => St[d] = "settled"
      BY <2>6
    <2>8. St[c] = "waiting"
      BY <2>2
    <2>9. St' = [St EXCEPT ![c] = "serving"] /\ Ah' = Ah
      BY <2>3, <2>4
    <2> HIDE DEF St, Ah, SchedulerInv, TypeOK
    <2> QED BY <2>1, <2>5, <2>7, <2>8, <2>9 DEF Service!Serve, St, Ah
  <1>4. ASSUME NEW c \in Calls, Leaves(c) PROVE Service!Settle(c)
    <2>1. /\ pc[c] = "calling" /\ req' = req /\ arrived' = arrived
          /\ pc' = [pc EXCEPT ![c] = "settled"]
      BY <1>4 DEF Leaves
    <2> QED BY <2>1 DEF Service!Settle, Status, ArrivedBefore
  <1>5. CASE Quiet
    <2>1. [d \in Calls |-> Status(d)]' = [d \in Calls |-> Status(d)]
      BY <1>5 DEF Quiet, Status
    <2>2. [d \in Calls |-> ArrivedBefore(d)]' = [d \in Calls |-> ArrivedBefore(d)]
      BY <1>5 DEF Quiet, ArrivedBefore
    <2> QED BY <1>5, <2>1, <2>2 DEF Quiet, Service!vars
  <1> QED BY <1>1, <1>2, <1>3, <1>4, <1>5, StepShape DEF Service!Next

\* The scheduler implements CallService: every step is a step of the service
\* or changes nothing that can be seen from outside.
THEOREM SchedulerImplementsCallService == Spec => ImplementsCallService
  <1>1. SchedulerInv /\ SchedulerInv' /\ PeerFifo' /\ [Next]_vars => [Service!Next]_(Service!vars)
    BY RefineStep
  <1> QED BY <1>1, RefineInit, InvariantHolds, PeerCallsKeepOrder, PTL
         DEF Spec, ImplementsCallService, Service!Spec
=============================================================================
