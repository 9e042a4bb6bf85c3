----------------------------- MODULE UpdateHub -----------------------------
(***************************************************************************)
(* From the gateway's events to the screen: the hub's fan-out (hub.py),    *)
(* the websocket handler that drains one queue per connection (main.py     *)
(* 499-538), and the browser's subscription with its reconnects (api.js    *)
(* subscribeToUpdates).                                                    *)
(*                                                                         *)
(* A tab uses one connection at a time; the server's handler of an older   *)
(* connection may still be running when the tab has moved on, because the  *)
(* server only learns of a cut link when it next sends.  Events are        *)
(* numbered as they are emitted; a status frame carries HUB.status.        *)
(***************************************************************************)
EXTENDS Naturals, Sequences, SequencesExt

CONSTANTS Tabs,        \* browser tabs that called subscribeToUpdates
          Conns,       \* websocket connections, used once each
          NoConn,
          QueueMax,    \* asyncio.Queue(maxsize=1000)
          WireMax,     \* what the transport buffers before send_text waits
          MaxAttempts, \* reconnects before the tab gives up (8)
          MaxEvents,   \* bound: events the gateway emits
          MaxFaults    \* bound: crashes, cut links and refused dials

ASSUME NoConnIsNone == NoConn \notin Conns
ASSUME BoundsArePositive ==
    /\ QueueMax \in Nat \ {0} /\ WireMax \in Nat \ {0}
    /\ MaxAttempts \in Nat /\ MaxEvents \in Nat /\ MaxFaults \in Nat

VARIABLES process,   \* the server: starting, serving or down
          status,    \* HUB.status
          clients,   \* HUB._clients: the connections whose queue is registered
          queue,     \* queue[k]: the frames emit put for k
          handler,   \* the websocket handler of k: unused, sending, getting, ended
          outgoing,  \* the frame the handler of k is sending
          link,      \* the TCP link of k: unused, up, cut
          wire,      \* frames sent on k that the tab has not read
          tab,       \* the tab: dialing, open, waiting (to retry), gaveUp
          socket,    \* the connection the tab last opened
          attempt,   \* attempt of scheduleRetry
          banner,    \* the last onConnectionChange fired in the tab
          emitted,   \* history: how many events were emitted
          since,     \* history: emitted when k was registered
          received,  \* history: the events the tab got over k
          refused,   \* history: the tab's dials that failed since it was last connected
          faults     \* how many faults happened

serverVars == <<process, status, clients, queue, handler, outgoing>>
tabVars    == <<tab, socket, attempt, banner>>
historyVars == <<emitted, since, received, refused>>
vars == <<serverVars, tabVars, historyVars, link, wire, faults>>

StatusFrame(s) == [event |-> "onConnectionChange", status |-> s]
EventFrame(n)  == [event |-> "update", number |-> n]
NoFrame        == [event |-> "none"]

HubStatus == {"connecting", "online", "offline"}
Frames == {StatusFrame(s) : s \in HubStatus} \cup {EventFrame(n) : n \in 1 .. MaxEvents}

TypeOK ==
    /\ process \in {"starting", "serving", "down"}
    /\ status \in HubStatus
    /\ clients \subseteq Conns
    /\ queue \in [Conns -> Seq(Frames)]
    /\ \A k \in Conns : Len(queue[k]) <= QueueMax /\ Len(wire[k]) <= WireMax
    /\ handler \in [Conns -> {"unused", "sending", "getting", "ended"}]
    /\ outgoing \in [Conns -> Frames \cup {NoFrame}]
    /\ link \in [Conns -> {"unused", "up", "cut"}]
    /\ wire \in [Conns -> Seq(Frames)]
    /\ tab \in [Tabs -> {"dialing", "open", "waiting", "gaveUp"}]
    /\ socket \in [Tabs -> Conns \cup {NoConn}]
    /\ attempt \in [Tabs -> 0 .. MaxAttempts + 1]
    /\ banner \in [Tabs -> HubStatus \cup {"reconnecting"}]
    /\ emitted \in 0 .. MaxEvents
    /\ since \in [Conns -> 0 .. MaxEvents]
    /\ received \in [Conns -> Seq(1 .. MaxEvents)]
    /\ refused \in [Tabs -> Nat]
    /\ faults \in 0 .. MaxFaults

Init ==
    /\ process = "starting"
    /\ status = "connecting"
    /\ clients = {}
    /\ queue = [k \in Conns |-> <<>>]
    /\ handler = [k \in Conns |-> "unused"]
    /\ outgoing = [k \in Conns |-> NoFrame]
    /\ link = [k \in Conns |-> "unused"]
    /\ wire = [k \in Conns |-> <<>>]
    /\ tab = [t \in Tabs |-> "dialing"]
    /\ socket = [t \in Tabs |-> NoConn]
    /\ attempt = [t \in Tabs |-> 0]
    /\ banner = [t \in Tabs |-> "connecting"]
    /\ emitted = 0
    /\ since = [k \in Conns |-> 0]
    /\ received = [k \in Conns |-> <<>>]
    /\ refused = [t \in Tabs |-> 0]
    /\ faults = 0

-----------------------------------------------------------------------------
\* The hub.

\* Faulty variants: a queue without a limit, and a full queue that loses the frame
\* but keeps its client.
EmitUnbounded(frame) ==
    /\ queue' = [k \in Conns |-> IF k \in clients THEN Append(queue[k], frame) ELSE queue[k]]
    /\ UNCHANGED clients

EmitSkipsFull(frame) ==
    /\ queue' = [k \in Conns |-> IF k \in clients /\ Len(queue[k]) < QueueMax
                                THEN Append(queue[k], frame) ELSE queue[k]]
    /\ UNCHANGED clients

\* emit: put_nowait on every queue; a full one is dropped from the set.
Emit(frame) ==
    LET full == {k \in clients : Len(queue[k]) >= QueueMax}
    IN  /\ queue' = [k \in Conns |->
                       IF k \in clients \ full THEN Append(queue[k], frame) ELSE queue[k]]
        /\ clients' = clients \ full

\* set_status: an unchanged status is not announced.
SetStatus(s) ==
    IF s = status
    THEN UNCHANGED <<status, queue, clients>>
    ELSE status' = s /\ Emit(StatusFrame(s))

\* The gateway's update handlers and the RPC methods emit events.
GatewayEmits ==
    /\ process = "serving"
    /\ emitted < MaxEvents
    /\ emitted' = emitted + 1
    /\ Emit(EventFrame(emitted'))
    /\ UNCHANGED <<process, status, handler, outgoing, tabVars, since, received, refused,
                   link, wire, faults>>

\* _startup awaits GW.start before any request is served: the account is
\* online, or it has no session or failed to start and stays offline.
Start ==
    /\ process = "starting"
    /\ process' = "serving"
    /\ \E s \in {"online", "offline"} : SetStatus(s)
    /\ UNCHANGED <<handler, outgoing, tabVars, historyVars, link, wire, faults>>

Restart ==
    /\ process = "down"
    /\ process' = "starting"
    /\ status' = "connecting"
    /\ UNCHANGED <<clients, queue, handler, outgoing, tabVars, historyVars, link, wire, faults>>

\* The process is stopped or dies: queues and handlers are gone, the links are
\* cut.  (The status set by _shutdown reaches nobody: no handler runs by then.)
Crash ==
    /\ process # "down"
    /\ faults < MaxFaults
    /\ faults' = faults + 1
    /\ process' = "down"
    /\ clients' = {}
    /\ queue' = [k \in Conns |-> <<>>]
    /\ handler' = [k \in Conns |-> IF handler[k] = "unused" THEN "unused" ELSE "ended"]
    /\ outgoing' = [k \in Conns |-> NoFrame]
    /\ link' = [k \in Conns |-> IF link[k] = "up" THEN "cut" ELSE link[k]]
    /\ UNCHANGED <<status, tabVars, historyVars, wire>>

-----------------------------------------------------------------------------
\* The websocket handler.

\* A faulty variant: no first frame.
AcceptSilently(t, k) ==
    /\ process = "serving"
    /\ tab[t] = "dialing"
    /\ link[k] = "unused"
    /\ link' = [link EXCEPT ![k] = "up"]
    /\ clients' = clients \cup {k}
    /\ handler' = [handler EXCEPT ![k] = "getting"]
    /\ since' = [since EXCEPT ![k] = emitted]
    /\ tab' = [tab EXCEPT ![t] = "open"]
    /\ socket' = [socket EXCEPT ![t] = k]
    /\ attempt' = [attempt EXCEPT ![t] = 0]
    /\ refused' = [refused EXCEPT ![t] = 0]
    /\ UNCHANGED <<process, status, queue, outgoing, banner, emitted, received, wire, faults>>

\* A faulty variant: a socket that opens does not reset the count of the attempts.
AcceptKeepsCount(t, k) ==
    /\ process = "serving"
    /\ tab[t] = "dialing"
    /\ link[k] = "unused"
    /\ link' = [link EXCEPT ![k] = "up"]
    /\ clients' = clients \cup {k}
    /\ handler' = [handler EXCEPT ![k] = "sending"]
    /\ outgoing' = [outgoing EXCEPT ![k] = StatusFrame(status)]
    /\ since' = [since EXCEPT ![k] = emitted]
    /\ tab' = [tab EXCEPT ![t] = "open"]
    /\ socket' = [socket EXCEPT ![t] = k]
    /\ refused' = [refused EXCEPT ![t] = 0]
    /\ UNCHANGED <<process, status, queue, attempt, banner, emitted, received, wire, faults>>

\* accept and register; the first frame is built before the next await, so no
\* event can be emitted between the registration and the status it reads.
Accept(t, k) ==
    /\ process = "serving"
    /\ tab[t] = "dialing"
    /\ link[k] = "unused"
    /\ link' = [link EXCEPT ![k] = "up"]
    /\ clients' = clients \cup {k}
    /\ handler' = [handler EXCEPT ![k] = "sending"]
    /\ outgoing' = [outgoing EXCEPT ![k] = StatusFrame(status)]
    /\ since' = [since EXCEPT ![k] = emitted]
    /\ tab' = [tab EXCEPT ![t] = "open"]
    /\ socket' = [socket EXCEPT ![t] = k]
    /\ attempt' = [attempt EXCEPT ![t] = 0]
    /\ refused' = [refused EXCEPT ![t] = 0]
    /\ UNCHANGED <<process, status, queue, banner, emitted, received, wire, faults>>

\* queue.get returns.
GetFrame(k) ==
    /\ handler[k] = "getting"
    /\ queue[k] # <<>>
    /\ outgoing' = [outgoing EXCEPT ![k] = Head(queue[k])]
    /\ queue' = [queue EXCEPT ![k] = Tail(@)]
    /\ handler' = [handler EXCEPT ![k] = "sending"]
    /\ UNCHANGED <<process, status, clients, tabVars, historyVars, link, wire, faults>>

\* A faulty variant: the handler sends one frame and returns.
SendFrameOnce(k) ==
    /\ handler[k] = "sending"
    /\ link[k] = "up"
    /\ Len(wire[k]) < WireMax
    /\ wire' = [wire EXCEPT ![k] = Append(@, outgoing[k])]
    /\ outgoing' = [outgoing EXCEPT ![k] = NoFrame]
    /\ handler' = [handler EXCEPT ![k] = "ended"]
    /\ UNCHANGED <<process, status, clients, queue, tabVars, historyVars, link, faults>>

\* send_text returns once the transport has room.
SendFrame(k) ==
    /\ handler[k] = "sending"
    /\ link[k] = "up"
    /\ Len(wire[k]) < WireMax
    /\ wire' = [wire EXCEPT ![k] = Append(@, outgoing[k])]
    /\ outgoing' = [outgoing EXCEPT ![k] = NoFrame]
    /\ handler' = [handler EXCEPT ![k] = "getting"]
    /\ UNCHANGED <<process, status, clients, queue, tabVars, historyVars, link, faults>>

\* A faulty variant: no finally around the loop.
SendFailsWithoutFinally(k) ==
    /\ handler[k] = "sending"
    /\ link[k] = "cut"
    /\ handler' = [handler EXCEPT ![k] = "ended"]
    /\ outgoing' = [outgoing EXCEPT ![k] = NoFrame]
    /\ UNCHANGED <<process, status, clients, queue, tabVars, historyVars, link, wire, faults>>

\* send_text raises on a link that was cut: the finally unregisters.
SendFails(k) ==
    /\ handler[k] = "sending"
    /\ link[k] = "cut"
    /\ handler' = [handler EXCEPT ![k] = "ended"]
    /\ outgoing' = [outgoing EXCEPT ![k] = NoFrame]
    /\ queue' = [queue EXCEPT ![k] = <<>>]
    /\ clients' = clients \ {k}
    /\ UNCHANGED <<process, status, tabVars, historyVars, link, wire, faults>>

-----------------------------------------------------------------------------
\* The browser.

\* onmessage: a status frame goes to the banner, an update to its handler.
Receive(t) ==
    LET k == socket[t] IN
    /\ tab[t] = "open"
    /\ wire[k] # <<>>
    /\ wire' = [wire EXCEPT ![k] = Tail(@)]
    /\ LET frame == Head(wire[k]) IN
         \/ /\ frame.event = "onConnectionChange"
            /\ banner' = [banner EXCEPT ![t] = frame.status]
            /\ UNCHANGED received
         \/ /\ frame.event = "update"
            /\ received' = [received EXCEPT ![k] = Append(@, frame.number)]
            /\ UNCHANGED banner
    /\ UNCHANGED <<serverVars, tab, socket, attempt, emitted, since, refused, link, faults>>

\* scheduleRetry: after MaxAttempts failures in a row the tab stays offline.
ScheduleRetry(t) ==
    /\ attempt' = [attempt EXCEPT ![t] = @ + 1]
    /\ \/ /\ attempt[t] + 1 > MaxAttempts
          /\ tab' = [tab EXCEPT ![t] = "gaveUp"]
          /\ banner' = [banner EXCEPT ![t] = "offline"]
       \/ /\ attempt[t] + 1 <= MaxAttempts
          /\ tab' = [tab EXCEPT ![t] = "waiting"]
          /\ banner' = [banner EXCEPT ![t] = "reconnecting"]

\* onclose of an open socket: what was still on the wire is lost.
NoticeCut(t) ==
    /\ tab[t] = "open"
    /\ link[socket[t]] = "cut"
    /\ wire' = [wire EXCEPT ![socket[t]] = <<>>]
    /\ ScheduleRetry(t)
    /\ UNCHANGED <<serverVars, socket, historyVars, link, faults>>

\* onclose of a socket that never opened: no server there, or it refused.
DialFails(t) ==
    /\ tab[t] = "dialing"
    /\ \/ process # "serving" /\ UNCHANGED faults
       \/ process = "serving" /\ faults < MaxFaults /\ faults' = faults + 1
    /\ refused' = [refused EXCEPT ![t] = @ + 1]
    /\ ScheduleRetry(t)
    /\ UNCHANGED <<serverVars, socket, emitted, since, received, link, wire>>

\* A faulty variant: connect looks at the limit too, one attempt early.
RedialBelowLimit(t) ==
    /\ tab[t] = "waiting"
    /\ attempt[t] < MaxAttempts
    /\ tab' = [tab EXCEPT ![t] = "dialing"]
    /\ banner' = [banner EXCEPT ![t] = "reconnecting"]
    /\ UNCHANGED <<serverVars, socket, attempt, historyVars, link, wire, faults>>

\* The retry timer: connect again; attempt is not 0 here.
Redial(t) ==
    /\ tab[t] = "waiting"
    /\ tab' = [tab EXCEPT ![t] = "dialing"]
    /\ banner' = [banner EXCEPT ![t] = "reconnecting"]
    /\ UNCHANGED <<serverVars, socket, attempt, historyVars, link, wire, faults>>

CutLink(k) ==
    /\ link[k] = "up"
    /\ faults < MaxFaults
    /\ faults' = faults + 1
    /\ link' = [link EXCEPT ![k] = "cut"]
    /\ UNCHANGED <<serverVars, tabVars, historyVars, wire>>

-----------------------------------------------------------------------------
Next ==
    \/ GatewayEmits \/ Start \/ Restart \/ Crash
    \/ \E k \in Conns : GetFrame(k) \/ SendFrame(k) \/ SendFails(k) \/ CutLink(k)
    \/ \E t \in Tabs : Receive(t) \/ NoticeCut(t) \/ DialFails(t) \/ Redial(t)
    \/ \E t \in Tabs, k \in Conns : Accept(t, k)

Spec == Init /\ [][Next]_vars

\* The event loop runs ready handlers, the browser reads its socket, notices a
\* closed one and runs its timers, and a dial is accepted or refused.
FairSpec ==
    /\ Spec
    /\ WF_vars(Start) /\ WF_vars(Restart)
    /\ \A k \in Conns : WF_vars(GetFrame(k)) /\ WF_vars(SendFrame(k)) /\ WF_vars(SendFails(k))
    /\ \A t \in Tabs : WF_vars(Receive(t)) /\ WF_vars(NoticeCut(t)) /\ WF_vars(Redial(t))
    /\ \A t \in Tabs : WF_vars(DialFails(t) \/ \E k \in Conns : Accept(t, k))

-----------------------------------------------------------------------------
\* The frames on their way to the tab over k, oldest first; of what the server
\* still holds for a link that was cut nothing arrives.
Sending(k) == IF handler[k] = "sending" THEN <<outgoing[k]>> ELSE <<>>
Way(k) == IF link[k] = "up" THEN wire[k] \o Sending(k) \o queue[k] ELSE wire[k]

\* Each update is later than update n and comes after all those between.
IsUpdate(frame) == frame.event = "update"
GaplessAfter(frames, n) ==
    \A i \in DOMAIN frames :
        IsUpdate(frames[i]) =>
            /\ frames[i].number > n
            /\ \A j \in 1 .. i - 1 : IsUpdate(frames[j]) => frames[j].number < frames[i].number
            /\ \A m \in n + 1 .. frames[i].number - 1 :
                   \E j \in 1 .. i - 1 : frames[j] = EventFrame(m)

\* What a tab received over a connection is a run of consecutive updates from
\* its registration on, with no gap, duplicate or swap; what is still on its way
\* continues that run, up to the latest update as long as the link is up and the
\* hub has not dropped the queue.
ConsecutiveFrom(updates, n) == updates = [i \in 1 .. Len(updates) |-> n + i]
Latest(k) == since[k] + Len(received[k])
StreamHasNoGap ==
    \A k \in Conns :
        /\ ConsecutiveFrom(received[k], since[k])
        /\ GaplessAfter(Way(k), Latest(k))
        /\ link[k] = "up" /\ k \in clients =>
               \A n \in Latest(k) + 1 .. emitted : Contains(Way(k), EventFrame(n))

\* A tab on a live connection with nothing left to read shows the status the
\* hub has, whatever it showed before it reconnected.
BannerIsCurrent ==
    \A t \in Tabs :
        LET k == socket[t] IN
        tab[t] = "open" /\ link[k] = "up" /\ handler[k] = "getting"
            /\ queue[k] = <<>> /\ wire[k] = <<>> /\ k \in clients
        => banner[t] = status

\* The server keeps no queue for a handler that has ended, and no queue is
\* shared: a registered connection has a running handler.
RegisteredHandlersRun ==
    \A k \in clients : process = "serving" /\ handler[k] \in {"sending", "getting"}

\* A tab says that it is offline for good only when it was refused as often in a row as
\* scheduleRetry allows: cut links and restarts that it came back from do not add up.
NoEarlyGivingUp == \A t \in Tabs : tab[t] = "gaveUp" => refused[t] >= MaxAttempts

\* An update queued for a tab is shown in it, unless the link is cut.
QueuedUpdatesArrive ==
    \A k \in Conns : \A n \in 1 .. MaxEvents :
        Contains(Way(k), EventFrame(n)) ~> Contains(received[k], n) \/ link[k] = "cut"

\* A tab does not stay in between: it is connected again or says offline.
TabsReconnectOrGiveUp ==
    \A t \in Tabs : tab[t] \in {"waiting", "dialing"} ~> tab[t] \in {"open", "gaveUp"}

\* "dropped a websocket client that stopped draining" (hub.py 52): a client
\* the hub dropped is disconnected, so that its tab notices and reconnects.
DroppedClientIsDisconnected ==
    \A k \in Conns :
        link[k] = "up" /\ k \notin clients ~> link[k] = "cut" \/ handler[k] = "ended"
=============================================================================
