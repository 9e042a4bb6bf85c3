----------------------------- MODULE Scheduler -----------------------------
(***************************************************************************)
(* The outbound scheduler of floodqueue.py: every Telegram call takes a    *)
(* slot of its lane, then the lock of its peer, and keeps both while it is *)
(* attempted, put to sleep by FLOOD_WAIT or by a server error, and retried *)
(* (run, lines 38-55, and _attempt, 57-81).                                *)
(*                                                                         *)
(* Each await of the code is a value of pc; what runs between two awaits   *)
(* is one action.  asyncio.Semaphore and asyncio.Lock serve their waiters  *)
(* first come, first served: a number stands for the place in the queue.   *)
(* Time is kept as remaining ticks; a timer fires no earlier than its due  *)
(* tick and possibly later, which also covers the random() jitter.         *)
(***************************************************************************)
EXTENDS Naturals, FiniteSets

CONSTANTS Calls,         \* the calls the gateway makes
          Peers,         \* chats whose calls are serialised
          NoPeer,        \* peer=None: the call takes no lock
          Requests,      \* the [lane, peer] pairs the gateway uses
          Slots,         \* Slots[lane]: concurrency and low_concurrency
          MaxWait,       \* max_wait: a longer FLOOD_WAIT is raised
          MaxRetries,    \* max_retries
          FloodSeconds   \* the waits Telegram may ask for

Lanes == {"high", "low"}

ASSUME NoPeerIsNoPeer == NoPeer \notin Peers
ASSUME RequestsAreLaneAndPeer ==
    Requests \subseteq [lane : Lanes, peer : Peers \cup {NoPeer}]
ASSUME LimitsAreNumbers ==
    /\ Slots \in [Lanes -> Nat \ {0}]
    /\ MaxWait \in Nat
    /\ MaxRetries \in Nat
    /\ FloodSeconds \subseteq Nat
    /\ \A n \in 0 .. MaxRetries : 2 ^ n \in Nat
ASSUME CallsAreFinite == IsFiniteSet(Calls)

VARIABLES pc,        \* where call c stands in run / _attempt
          req,       \* the lane and the peer of call c, fixed by its caller
          slots,     \* free places of the two semaphores _sem and _low
          locked,    \* _peer_locks: the peers whose lock is taken
          arrivals,  \* history: how many calls have been made
          arrived,   \* the place of c among them, its place at the semaphore
          askings,   \* history: how many calls have been given a slot
          asked,     \* the place of c among those, its place at the lock
          pause,     \* _paused_until, as remaining ticks
          pausedBy,  \* history: the lane whose call set pause last
          sleep,     \* the remaining ticks of the sleep c is in
          owed,      \* history: what is left of the wait Telegram asked of c
          attempt,   \* the local variable attempt
          applied,   \* history: how often Telegram carried c out
          unclear,   \* history: how many server errors c met
          outcome    \* what run() returned or raised

queueVars == <<slots, locked, arrivals, arrived, askings, asked>>
callVars  == <<attempt, applied, unclear, outcome>>
timeVars  == <<pause, pausedBy, sleep, owed>>
vars == <<pc, req, queueVars, timeVars, callVars>>

PCs == {"idle", "wantSlot", "wantPeer", "paused", "calling", "backoff", "settled"}
Outcomes == {"none", "ok", "floodTooLong", "serverError", "otherError"}

Lane(c) == req[c].lane
Peer(c) == req[c].peer

\* Between the acquisition of the lock and its release: the body of the try.
Inside == {"paused", "calling", "backoff"}
SamePeer(c, d) == Peer(c) = Peer(d) /\ Peer(c) # NoPeer

TypeOK ==
    /\ pc \in [Calls -> PCs]
    /\ req \in [Calls -> Requests]
    /\ slots \in [Lanes -> Nat]
    /\ locked \subseteq Peers
    /\ arrivals \in Nat
    /\ arrived \in [Calls -> Nat]
    /\ askings \in Nat
    /\ asked \in [Calls -> Nat]
    /\ pause \in Nat
    /\ pausedBy \in Lanes \cup {"none"}
    /\ sleep \in [Calls -> Nat]
    /\ owed \in [Calls -> Nat]
    /\ attempt \in [Calls -> 0 .. MaxRetries]
    /\ applied \in [Calls -> Nat]
    /\ unclear \in [Calls -> Nat]
    /\ outcome \in [Calls -> Outcomes]

Init ==
    /\ pc = [c \in Calls |-> "idle"]
    /\ req \in [Calls -> Requests]
    /\ slots = Slots
    /\ locked = {}
    /\ arrivals = 0
    /\ askings = 0
    /\ arrived = [c \in Calls |-> 0]
    /\ asked = [c \in Calls |-> 0]
    /\ pause = 0
    /\ pausedBy = "none"
    /\ sleep = [c \in Calls |-> 0]
    /\ owed = [c \in Calls |-> 0]
    /\ attempt = [c \in Calls |-> 0]
    /\ applied = [c \in Calls |-> 0]
    /\ unclear = [c \in Calls |-> 0]
    /\ outcome = [c \in Calls |-> "none"]

-----------------------------------------------------------------------------
\* Entering: the queue of the semaphore, then the queue of the peer's lock.

Submit(c) ==
    /\ pc[c] = "idle"
    /\ pc' = [pc EXCEPT ![c] = "wantSlot"]
    /\ arrivals' = arrivals + 1
    /\ arrived' = [arrived EXCEPT ![c] = arrivals']
    /\ UNCHANGED <<req, slots, locked, askings, asked, timeVars, callVars>>

\* Faulty variants, which the properties below must reject: a semaphore that
\* serves its waiters in any order, and one semaphore shared by both lanes.
TakeSlotAnyOrder(c) ==
    /\ pc[c] = "wantSlot"
    /\ slots[Lane(c)] > 0
    /\ pc' = [pc EXCEPT ![c] = "wantPeer"]
    /\ slots' = [slots EXCEPT ![Lane(c)] = @ - 1]
    /\ askings' = askings + 1
    /\ asked' = [asked EXCEPT ![c] = askings']
    /\ UNCHANGED <<req, locked, arrivals, arrived, timeVars, callVars>>

TakeSharedSlot(c) ==
    /\ pc[c] = "wantSlot"
    /\ slots["high"] > 0
    /\ pc' = [pc EXCEPT ![c] = "wantPeer"]
    /\ slots' = [slots EXCEPT !["high"] = @ - 1]
    /\ askings' = askings + 1
    /\ asked' = [asked EXCEPT ![c] = askings']
    /\ UNCHANGED <<req, locked, arrivals, arrived, timeVars, callVars>>

TakeSlot(c) ==
    /\ pc[c] = "wantSlot"
    /\ slots[Lane(c)] > 0
    /\ \A d \in Calls : pc[d] = "wantSlot" /\ Lane(d) = Lane(c) => arrived[c] <= arrived[d]
    /\ pc' = [pc EXCEPT ![c] = "wantPeer"]
    /\ slots' = [slots EXCEPT ![Lane(c)] = @ - 1]
    /\ askings' = askings + 1
    /\ asked' = [asked EXCEPT ![c] = askings']
    /\ UNCHANGED <<req, locked, arrivals, arrived, timeVars, callVars>>

\* The top of the loop in _attempt: sleep through a pause once, then call.
BeginAttempt(c) ==
    \/ /\ pause = 0
       /\ pc' = [pc EXCEPT ![c] = "calling"]
       /\ UNCHANGED sleep
    \/ /\ pause > 0
       /\ pc' = [pc EXCEPT ![c] = "paused"]
       /\ sleep' = [sleep EXCEPT ![c] = pause]

\* A faulty variant: the lock ignored.
LockIgnored(c) ==
    \A d \in Calls : pc[d] = "wantPeer" /\ SamePeer(c, d) => asked[c] <= asked[d]

\* Has the lock reached c in its queue, or does c need none?
LockGranted(c) ==
    Peer(c) # NoPeer =>
        /\ Peer(c) \notin locked
        /\ \A d \in Calls : pc[d] = "wantPeer" /\ SamePeer(c, d) => asked[c] <= asked[d]

TakePeer(c) ==
    /\ pc[c] = "wantPeer"
    /\ LockGranted(c)
    /\ locked' = locked \cup ({Peer(c)} \ {NoPeer})
    /\ BeginAttempt(c)
    /\ UNCHANGED <<req, slots, arrivals, arrived, askings, asked, pause, pausedBy, owed, callVars>>

-----------------------------------------------------------------------------
\* Waking: a call that slept through a pause does not look at it again.

WakePaused(c) ==
    /\ pc[c] = "paused"
    /\ sleep[c] = 0
    /\ pc' = [pc EXCEPT ![c] = "calling"]
    /\ UNCHANGED <<req, queueVars, timeVars, callVars>>

WakeBackoff(c) ==
    /\ pc[c] = "backoff"
    /\ sleep[c] = 0
    /\ BeginAttempt(c)
    /\ UNCHANGED <<req, queueVars, pause, pausedBy, owed, callVars>>

-----------------------------------------------------------------------------
\* Telegram's answers.

\* A faulty variant: only a normal return releases the lock.
LeaveWithoutFinally(c, result) ==
    /\ pc' = [pc EXCEPT ![c] = "settled"]
    /\ outcome' = [outcome EXCEPT ![c] = result]
    /\ slots' = [slots EXCEPT ![Lane(c)] = @ + 1]
    /\ locked' = IF result = "ok" THEN locked \ {Peer(c)} ELSE locked

\* return or raise: the finally releases the lock, async with the slot.
Leave(c, result) ==
    /\ pc' = [pc EXCEPT ![c] = "settled"]
    /\ outcome' = [outcome EXCEPT ![c] = result]
    /\ slots' = [slots EXCEPT ![Lane(c)] = @ + 1]
    /\ locked' = locked \ {Peer(c)}

SleepThenRetry(c, ticks) ==
    /\ pc' = [pc EXCEPT ![c] = "backoff"]
    /\ sleep' = [sleep EXCEPT ![c] = ticks]
    /\ attempt' = [attempt EXCEPT ![c] = @ + 1]

ReplyOk(c) ==
    /\ pc[c] = "calling"
    /\ applied' = [applied EXCEPT ![c] = @ + 1]
    /\ Leave(c, "ok")
    /\ UNCHANGED <<req, arrivals, arrived, askings, asked, timeVars, attempt, unclear>>

\* A faulty variant: a wait that is not slept through.
ReplyFloodBacksOffOnly(c, seconds) ==
    /\ pc[c] = "calling"
    /\ \/ /\ seconds > MaxWait \/ attempt[c] >= MaxRetries
          /\ Leave(c, "floodTooLong")
          /\ UNCHANGED <<timeVars, attempt>>
       \/ /\ ~(seconds > MaxWait \/ attempt[c] >= MaxRetries)
          /\ owed' = [owed EXCEPT ![c] = seconds]
          /\ SleepThenRetry(c, attempt[c])
          /\ UNCHANGED <<pause, pausedBy, slots, locked, outcome>>
    /\ UNCHANGED <<req, arrivals, arrived, askings, asked, applied, unclear>>

FloodTooLong(c, seconds) == seconds > MaxWait \/ attempt[c] >= MaxRetries

ReplyFlood(c, seconds) ==
    /\ pc[c] = "calling"
    /\ \/ /\ FloodTooLong(c, seconds)
          /\ Leave(c, "floodTooLong")
          /\ UNCHANGED <<timeVars, attempt>>
       \/ /\ ~FloodTooLong(c, seconds)
          /\ pause' = seconds + 1
          /\ pausedBy' = Lane(c)
          /\ owed' = [owed EXCEPT ![c] = seconds]
          /\ SleepThenRetry(c, seconds + 1)
          /\ UNCHANGED <<slots, locked, outcome>>
    /\ UNCHANGED <<req, arrivals, arrived, askings, asked, applied, unclear>>

\* ServerError or TimedOutError: Telegram may have carried the call out.
ReplyServerError(c) ==
    /\ pc[c] = "calling"
    /\ \E carriedOut \in {0, 1} : applied' = [applied EXCEPT ![c] = @ + carriedOut]
    /\ unclear' = [unclear EXCEPT ![c] = @ + 1]
    /\ \/ /\ attempt[c] >= MaxRetries
          /\ Leave(c, "serverError")
          /\ UNCHANGED <<sleep, attempt>>
       \/ /\ attempt[c] < MaxRetries
          /\ SleepThenRetry(c, 2 ^ attempt[c])
          /\ UNCHANGED <<slots, locked, outcome>>
    /\ UNCHANGED <<req, arrivals, arrived, askings, asked, pause, pausedBy, owed>>

\* A faulty variant: every exception is retried like a server error.
RetryOnAnyError(c) ==
    /\ pc[c] = "calling"
    /\ attempt[c] < MaxRetries
    /\ \E carriedOut \in {0, 1} : applied' = [applied EXCEPT ![c] = @ + carriedOut]
    /\ SleepThenRetry(c, 1)
    /\ UNCHANGED <<req, slots, locked, arrivals, arrived, askings, asked, pause, pausedBy, owed, unclear, outcome>>

\* Any other exception leaves _attempt at once: refused by Telegram, or the
\* connection was lost with the call already carried out.
ReplyOtherError(c) ==
    /\ pc[c] = "calling"
    /\ \E carriedOut \in {0, 1} : applied' = [applied EXCEPT ![c] = @ + carriedOut]
    /\ Leave(c, "otherError")
    /\ UNCHANGED <<req, arrivals, arrived, askings, asked, timeVars, attempt, unclear>>

Reply(c) ==
    \/ ReplyOk(c)
    \/ \E s \in FloodSeconds : ReplyFlood(c, s)
    \/ ReplyServerError(c)
    \/ ReplyOtherError(c)

-----------------------------------------------------------------------------
Elapse(n) == IF n = 0 THEN 0 ELSE n - 1

Tick ==
    /\ pause > 0 \/ \E c \in Calls : sleep[c] > 0
    /\ pause' = Elapse(pause)
    /\ sleep' = [c \in Calls |-> Elapse(sleep[c])]
    /\ owed' = [c \in Calls |-> Elapse(owed[c])]
    /\ UNCHANGED <<pc, req, queueVars, pausedBy, callVars>>

\* Every call has been made and answered: the only state with nothing to do.
AllSettled ==
    /\ \A c \in Calls : pc[c] = "settled"
    /\ UNCHANGED vars

Step(c) == TakeSlot(c) \/ TakePeer(c) \/ WakePaused(c) \/ WakeBackoff(c)

Next ==
    \/ \E c \in Calls : Submit(c) \/ Step(c) \/ Reply(c)
    \/ Tick
    \/ AllSettled

Spec == Init /\ [][Next]_vars

\* The event loop runs what is ready, its timers fire, Telegram answers.
LoopFairness ==
    /\ \A c \in Calls : WF_vars(TakeSlot(c)) /\ WF_vars(TakePeer(c))
    /\ \A c \in Calls : WF_vars(WakePaused(c)) /\ WF_vars(WakeBackoff(c))
    /\ WF_vars(Tick)

\* Telegram answers the high lane; a download of the low lane may hang.
FairSpec ==
    Spec /\ LoopFairness /\ \A c \in Calls : WF_vars(Lane(c) = "high" /\ Reply(c))

\* Telegram answers every call, with a result or an error.
TelegramAnswers == \A c \in Calls : WF_vars(Reply(c))

-----------------------------------------------------------------------------
\* Two calls to one peer are never inside the lock together (run, 47-55).
PeerExclusive ==
    \A c, d \in Calls :
        c # d /\ SamePeer(c, d) /\ pc[c] \in Inside => pc[d] \notin Inside

\* The lock and the slot a call took are returned exactly once: a peer is
\* locked while one of its calls is inside, and the free slots of a lane are
\* what its calls past the semaphore have left of it.
HoldsSlot(lane) == {c \in Calls : pc[c] \in Inside \cup {"wantPeer"} /\ Lane(c) = lane}
LocksMatch == locked = {Peer(c) : c \in {d \in Calls : pc[d] \in Inside}} \ {NoPeer}
SlotsMatch == \A l \in Lanes : slots[l] + Cardinality(HoldsSlot(l)) = Slots[l]
NothingLeaks == LocksMatch /\ SlotsMatch

\* Per-peer ordering (README 140): among the calls of one lane to one peer, a
\* call is not attempted before every call that arrived earlier has settled,
\* however often the earlier one was put to sleep and retried.
PeerFifo ==
    \A c, d \in Calls :
        /\ SamePeer(c, d) /\ Lane(c) = Lane(d)
        /\ pc[c] # "idle" /\ pc[d] \in Inside \cup {"settled"}
        /\ arrived[c] < arrived[d]
        => pc[c] = "settled"

\* FLOOD_WAIT (72-74): whatever other calls do to the shared pause meanwhile,
\* a call is not sent again before the wait Telegram asked of it is over.
FloodWaitHonoured == \A c \in Calls : pc[c] = "calling" => owed[c] = 0

\* A call is carried out more than once only if a server error left an earlier
\* attempt in doubt, and a call given up on after FLOOD_WAIT without such an
\* error was not carried out at all (the gateway tells the user so, line 94).
NoDuplicateWithoutServerError ==
    \A c \in Calls :
        /\ applied[c] <= 1 + unclear[c]
        /\ outcome[c] = "ok" => applied[c] >= 1
        /\ outcome[c] = "floodTooLong" => applied[c] <= unclear[c]

\* Every call that was made returns or raises in the end, if Telegram answers.
EveryCallSettles ==
    TelegramAnswers => \A c \in Calls : pc[c] = "wantSlot" ~> pc[c] = "settled"

\* A call of the high lane settles even if Telegram never answers the calls of
\* the low lane, as long as those hold no peer's lock.
SendsSettleDespiteHungDownloads ==
    \A c \in Calls :
        /\ pc[c] = "wantSlot" /\ Lane(c) = "high"
        /\ \A d \in Calls : Lane(d) = "low" => Peer(d) = NoPeer
        ~> pc[c] = "settled"

\* "two lanes so media downloads cannot delay a send" (README 141): a call of
\* the high lane is not put to sleep by a pause that a low-lane call set.
DownloadsNeverDelaySends ==
    [][\A c \in Calls :
         Lane(c) = "high" /\ pc[c] # "paused" /\ pc'[c] = "paused" => pausedBy = "high"]_vars

-----------------------------------------------------------------------------
\* Why those properties hold: the inductive strengthening that the proofs in
\* SchedulerProofs rest on, also checked by TLC.

\* The places in the two queues are distinct and given out in order.
PlacesInOrder ==
    /\ \A c \in Calls : arrived[c] <= arrivals /\ asked[c] <= askings
    /\ \A c \in Calls : pc[c] = "idle" <=> arrived[c] = 0
    /\ \A c \in Calls : pc[c] \in {"idle", "wantSlot"} <=> asked[c] = 0
    /\ \A c, d \in Calls : c # d /\ arrived[c] # 0 => arrived[c] # arrived[d]
    /\ \A c, d \in Calls : c # d /\ asked[c] # 0 => asked[c] # asked[d]

\* The calls of a lane reach the queues of the locks in the order they came.
LaneOrder ==
    \A c, d \in Calls :
        Lane(c) = Lane(d) /\ pc[c] # "idle" /\ asked[d] # 0 /\ arrived[c] < arrived[d]
        => asked[c] # 0 /\ asked[c] < asked[d]

\* A call holds its peer's lock only when all that asked before have left it.
LockOrder ==
    \A c, d \in Calls :
        /\ SamePeer(c, d) /\ pc[d] \in Inside \cup {"settled"}
        /\ asked[c] # 0 /\ asked[c] < asked[d]
        => pc[c] = "settled"

\* A flooded call sleeps at least as long as it was told to wait.
SleepCoversWait ==
    \A c \in Calls : IF pc[c] = "backoff" THEN owed[c] <= sleep[c] ELSE owed[c] = 0

\* Until it returns, a call was carried out only by attempts left in doubt.
AppliedOnlyInDoubt ==
    \A c \in Calls : pc[c] # "settled" => applied[c] <= unclear[c] /\ outcome[c] = "none"

SchedulerInv ==
    /\ TypeOK
    /\ PeerExclusive
    /\ NothingLeaks
    /\ PlacesInOrder
    /\ LaneOrder
    /\ LockOrder
    /\ SleepCoversWait
    /\ AppliedOnlyInDoubt
    /\ NoDuplicateWithoutServerError

-----------------------------------------------------------------------------
\* The scheduler implements CallService.
Status(c) ==
    CASE pc[c] = "idle" -> "new"
      [] pc[c] \in {"wantSlot", "wantPeer"} -> "waiting"
      [] pc[c] = "settled" -> "settled"
      [] OTHER -> "serving"

ArrivedBefore(c) ==
    {d \in Calls : pc[c] # "idle" /\ pc[d] # "idle" /\ arrived[d] < arrived[c]}

Service == INSTANCE CallService WITH
    status <- [c \in Calls |-> Status(c)],
    ahead <- [c \in Calls |-> ArrivedBefore(c)],
    Capacity <- Slots

\* Slots, locks, pauses and retries do not show: seen from outside, the
\* scheduler is the service CallService describes.
ImplementsCallService == Service!Spec
=============================================================================
