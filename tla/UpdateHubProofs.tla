-------------------------- MODULE UpdateHubProofs --------------------------
(***************************************************************************)
(* Machine-checked proofs about UpdateHub, for any number of tabs and      *)
(* connections, any queue and wire size and any number of crashes.  A step *)
(* does one of five things to the frames on their way over a connection    *)
(* (it leaves them, takes the first, adds one, cuts off the end or starts  *)
(* afresh); that is said once, and the stream and the banner follow.       *)
(***************************************************************************)
EXTENDS UpdateHub, SequenceTheorems, TLAPS

-----------------------------------------------------------------------------
\* Sequences.

LEMMA HeadMoves ==
  ASSUME NEW S, NEW w \in Seq(S), NEW q \in Seq(S), q # <<>>
  PROVE  (w \o <<>>) \o q = (w \o <<Head(q)>>) \o Tail(q)
  OBVIOUS

LEMMA EndMoves ==
  ASSUME NEW S, NEW w \in Seq(S), NEW q \in Seq(S), NEW e \in S
  PROVE  (Append(w, e) \o <<>>) \o q = (w \o <<e>>) \o q
  OBVIOUS

LEMMA StartOfConcat ==
  ASSUME NEW S, NEW w \in Seq(S), NEW t \in Seq(S), NEW q \in Seq(S)
  PROVE  /\ Len(w) <= Len((w \o t) \o q)
         /\ \A i \in 1 .. Len(w) : w[i] = ((w \o t) \o q)[i]
  OBVIOUS

LEMMA TailOfConcat ==
  ASSUME NEW S, NEW w \in Seq(S), NEW t \in Seq(S), w # <<>>
  PROVE  /\ w \o t # <<>>
         /\ Head(w \o t) = Head(w)
         /\ Tail(w \o t) = Tail(w) \o t
  OBVIOUS

LEMMA AppendToConcat ==
  ASSUME NEW S, NEW w \in Seq(S), NEW t \in Seq(S), NEW e \in S
  PROVE  w \o Append(t, e) = Append(w \o t, e)
  OBVIOUS

-----------------------------------------------------------------------------
\* Types, with what they need of the handlers and the tabs.

\* A handler runs as long as its link is up, holds a frame exactly while it sends,
\* and before it runs there is nothing on its connection.
HandlersAndLinks ==
    \A k \in Conns :
        /\ handler[k] = "unused" <=> link[k] = "unused"
        /\ link[k] = "unused" => queue[k] = <<>> /\ wire[k] = <<>> /\ received[k] = <<>>
        /\ link[k] = "up" => handler[k] \in {"sending", "getting"}
        /\ handler[k] = "sending" <=> outgoing[k] # NoFrame

\* A tab counts its attempts up to the limit; it has opened its socket, and no
\* other tab has the same one.
TabsAndSockets ==
    \A t \in Tabs :
        /\ tab[t] # "gaveUp" => attempt[t] <= MaxAttempts
        /\ tab[t] = "open" => socket[t] \in Conns
        /\ socket[t] \in Conns => link[socket[t]] # "unused"
        /\ \A u \in Tabs : socket[u] = socket[t] => u = t \/ socket[t] = NoConn

TypeInv == TypeOK /\ HandlersAndLinks /\ TabsAndSockets /\ RegisteredHandlersRun

LEMMA FrameFacts ==
  /\ \A s : StatusFrame(s).event = "onConnectionChange" /\ StatusFrame(s).status = s
  /\ \A n : EventFrame(n).event = "update" /\ EventFrame(n).number = n
  /\ \A s : s \in HubStatus => StatusFrame(s) \in Frames /\ StatusFrame(s) # NoFrame
  /\ \A n \in 1 .. MaxEvents : EventFrame(n) \in Frames /\ EventFrame(n) # NoFrame
  /\ NoFrame \notin Frames
  /\ \A f \in Frames :
        \/ IsUpdate(f) /\ f.number \in 1 .. MaxEvents /\ f = EventFrame(f.number)
        \/ /\ f.event = "onConnectionChange" /\ ~IsUpdate(f)
           /\ f.status \in HubStatus /\ f = StatusFrame(f.status)
  <1>1. \A s : StatusFrame(s).event = "onConnectionChange" /\ StatusFrame(s).status = s
    BY DEF StatusFrame
  <1>2. \A n : EventFrame(n).event = "update" /\ EventFrame(n).number = n
    BY DEF EventFrame
  <1>3. NoFrame.event = "none"
    BY DEF NoFrame
  <1>4. \A s : s \in HubStatus => StatusFrame(s) \in Frames
    BY DEF Frames
  <1>5. \A n \in 1 .. MaxEvents : EventFrame(n) \in Frames
    BY DEF Frames
  <1>6. \A f \in Frames : \/ \E s \in HubStatus : f = StatusFrame(s)
                          \/ \E n \in 1 .. MaxEvents : f = EventFrame(n)
    BY DEF Frames
  <1>7. \A f \in Frames :
          \/ IsUpdate(f) /\ f.number \in 1 .. MaxEvents /\ f = EventFrame(f.number)
          \/ /\ f.event = "onConnectionChange" /\ ~IsUpdate(f)
             /\ f.status \in HubStatus /\ f = StatusFrame(f.status)
    BY <1>1, <1>2, <1>6 DEF IsUpdate
  <1> QED BY <1>1, <1>2, <1>3, <1>4, <1>5, <1>7 DEF IsUpdate

\* emit puts a frame in queues that have room for it.
LEMMA EmitTypes ==
  ASSUME TypeOK, NEW f \in Frames, Emit(f)
  PROVE  /\ queue' \in [Conns -> Seq(Frames)]
         /\ \A k \in Conns : Len(queue'[k]) <= QueueMax
         /\ clients' \subseteq clients
  <1>1. clients' \subseteq clients
    BY DEF Emit
  <1>2. \A k \in Conns : /\ queue[k] \in Seq(Frames)
                         /\ queue'[k] = queue[k] \/ queue'[k] = Append(queue[k], f)
    BY DEF Emit, TypeOK
  <1>3. queue' \in [Conns -> Seq(Frames)]
    BY <1>2 DEF Emit
  <1>4. ASSUME NEW k \in Conns PROVE Len(queue'[k]) <= QueueMax
    <2>1. CASE queue'[k] = queue[k]
      BY <2>1 DEF TypeOK
    <2>2. CASE queue'[k] # queue[k]
      <3>1. k \in clients /\ ~(Len(queue[k]) >= QueueMax) /\ queue'[k] = Append(queue[k], f)
        BY <2>2 DEF Emit, TypeOK
      <3> QED BY <1>2, <3>1, BoundsArePositive, LenProperties
    <2> QED BY <2>1, <2>2
  <1> QED BY <1>1, <1>3, <1>4

\* A tab that retries counts one attempt more, and gives up above the limit.
LEMMA RetryTypes ==
  ASSUME TypeInv, NEW t \in Tabs, tab[t] # "gaveUp", ScheduleRetry(t)
  PROVE  /\ tab' \in [Tabs -> {"dialing", "open", "waiting", "gaveUp"}]
         /\ attempt' \in [Tabs -> 0 .. MaxAttempts + 1]
         /\ banner' \in [Tabs -> HubStatus \cup {"reconnecting"}]
         /\ tab'[t] # "open" /\ \A u \in Tabs \ {t} : tab'[u] = tab[u]
         /\ \A u \in Tabs : tab'[u] # "gaveUp" => attempt'[u] <= MaxAttempts
  <1>1. attempt[t] \in 0 .. MaxAttempts
    BY BoundsArePositive DEF TypeInv, TypeOK, TabsAndSockets
  <1>2. attempt' = [attempt EXCEPT ![t] = attempt[t] + 1]
    BY DEF ScheduleRetry
  <1>3. CASE attempt[t] + 1 > MaxAttempts
    <2>1. tab' = [tab EXCEPT ![t] = "gaveUp"] /\ banner' = [banner EXCEPT ![t] = "offline"]
      BY <1>1, <1>3, BoundsArePositive DEF ScheduleRetry
    <2> QED BY <1>1, <1>2, <2>1, BoundsArePositive
            DEF TypeInv, TypeOK, TabsAndSockets, HubStatus
  <1>4. CASE attempt[t] + 1 <= MaxAttempts
    <2>1. tab' = [tab EXCEPT ![t] = "waiting"] /\ banner' = [banner EXCEPT ![t] = "reconnecting"]
      BY <1>1, <1>4, BoundsArePositive DEF ScheduleRetry
    <2> QED BY <1>1, <1>2, <1>4, <2>1, BoundsArePositive
            DEF TypeInv, TypeOK, TabsAndSockets, HubStatus
  <1> QED BY <1>1, <1>3, <1>4, BoundsArePositive

LEMMA InitTypes == Init => TypeInv
  BY NoConnIsNone, BoundsArePositive
  DEF Init, TypeInv, TypeOK, HandlersAndLinks, TabsAndSockets, RegisteredHandlersRun, HubStatus

\* Every step keeps the types.
LEMMA StepTypes == TypeInv /\ [Next]_vars => TypeInv'
  <1> SUFFICES ASSUME TypeInv, [Next]_vars PROVE TypeInv'
    OBVIOUS
  <1>0. DOMAIN received = Conns
    BY DEF TypeInv, TypeOK
  <1> USE NoConnIsNone, BoundsArePositive
      DEF TypeInv, TypeOK, HandlersAndLinks, TabsAndSockets, RegisteredHandlersRun,
          serverVars, tabVars, historyVars
  <1>1. CASE GatewayEmits
    <2>1. emitted' = emitted + 1 /\ emitted' \in 1 .. MaxEvents
      BY <1>1 DEF GatewayEmits
    <2>2. EventFrame(emitted') \in Frames
      BY <2>1, FrameFacts
    <2>3. Emit(EventFrame(emitted'))
      BY <1>1 DEF GatewayEmits
    <2>4. /\ queue' \in [Conns -> Seq(Frames)] /\ \A k \in Conns : Len(queue'[k]) <= QueueMax
          /\ clients' \subseteq clients
      BY <2>2, <2>3, EmitTypes
    <2>5. \A k \in Conns : link[k] = "unused" => queue'[k] = <<>>
      BY <2>3 DEF Emit
    <2> QED BY <1>1, <2>1, <2>4, <2>5 DEF GatewayEmits
  <1>2. CASE Start
    <2>1. clients = {}
      BY <1>2 DEF Start
    <2>2. PICK s \in {"online", "offline"} : SetStatus(s)
      BY <1>2 DEF Start
    <2>3. clients' = {} /\ queue' = queue /\ status' \in HubStatus
      BY <2>1, <2>2 DEF SetStatus, Emit, HubStatus
    <2> QED BY <1>2, <2>1, <2>3 DEF Start
  <1>3. CASE Restart
    BY <1>3 DEF Restart, HubStatus
  <1>4. CASE Crash
    BY <1>4 DEF Crash
  <1>5. ASSUME NEW t \in Tabs, NEW k \in Conns, Accept(t, k) PROVE TypeInv'
    <2>1. StatusFrame(status) \in Frames /\ StatusFrame(status) # NoFrame
      BY FrameFacts
    <2> QED BY <1>5, <2>1 DEF Accept
  <1>6. ASSUME NEW k \in Conns, GetFrame(k) PROVE TypeInv'
    <2>1. queue[k] \in Seq(Frames) /\ queue[k] # <<>>
      BY <1>6 DEF GetFrame
    <2>2. Head(queue[k]) \in Frames /\ Tail(queue[k]) \in Seq(Frames)
          /\ Len(Tail(queue[k])) = Len(queue[k]) - 1 /\ Len(queue[k]) \in Nat
      BY <2>1, HeadTailProperties, LenProperties
    <2>3. Head(queue[k]) # NoFrame
      BY <2>2, FrameFacts
    <2> QED BY <1>6, <2>2, <2>3 DEF GetFrame
  <1>7. ASSUME NEW k \in Conns, SendFrame(k) PROVE TypeInv'
    <2>1. outgoing[k] \in Frames /\ wire[k] \in Seq(Frames)
      BY <1>7 DEF SendFrame
    <2>2. Append(wire[k], outgoing[k]) \in Seq(Frames)
          /\ Len(Append(wire[k], outgoing[k])) = Len(wire[k]) + 1 /\ Len(wire[k]) \in Nat
      BY <2>1, LenProperties
    <2> QED BY <1>7, <2>2 DEF SendFrame
  <1>8. ASSUME NEW k \in Conns, SendFails(k) PROVE TypeInv'
    BY <1>8 DEF SendFails
  <1>9. ASSUME NEW k \in Conns, CutLink(k) PROVE TypeInv'
    BY <1>9 DEF CutLink
  <1>10. ASSUME NEW t \in Tabs, Receive(t) PROVE TypeInv'
    <2> DEFINE k == socket[t]
    <2>1. k \in Conns /\ wire[k] \in Seq(Frames) /\ wire[k] # <<>> /\ link[k] # "unused"
      BY <1>10 DEF Receive
    <2>2. Head(wire[k]) \in Frames /\ Tail(wire[k]) \in Seq(Frames)
          /\ Len(Tail(wire[k])) = Len(wire[k]) - 1 /\ Len(wire[k]) \in Nat
      BY <2>1, HeadTailProperties, LenProperties
    <2>3. wire' = [wire EXCEPT ![k] = Tail(wire[k])]
      BY <1>10 DEF Receive
    <2>4. \/ /\ banner' = [banner EXCEPT ![t] = Head(wire[k]).status] /\ received' = received
             /\ Head(wire[k]).event = "onConnectionChange"
          \/ /\ received' = [received EXCEPT ![k] = Append(received[k], Head(wire[k]).number)]
             /\ banner' = banner /\ Head(wire[k]).event = "update"
      BY <1>10 DEF Receive
    <2>5. \/ Head(wire[k]).event = "onConnectionChange" /\ Head(wire[k]).status \in HubStatus
          \/ Head(wire[k]).event = "update" /\ Head(wire[k]).number \in 1 .. MaxEvents
      BY <2>2, FrameFacts DEF IsUpdate
    <2>6. UNCHANGED <<process, status, clients, queue, handler, outgoing, tab, socket, attempt,
                      emitted, since, refused, link, faults>>
      BY <1>10 DEF Receive
    <2> HIDE DEF k
    <2>7. banner' \in [Tabs -> HubStatus \cup {"reconnecting"}]
      BY <2>4, <2>5
    <2>8. received' \in [Conns -> Seq(1 .. MaxEvents)]
      <3>1. CASE received' = received
        BY <3>1
      <3>2. CASE /\ received' = [received EXCEPT ![k] = Append(received[k], Head(wire[k]).number)]
                 /\ Head(wire[k]).number \in 1 .. MaxEvents
        <4>1. received[k] \in Seq(1 .. MaxEvents)
          BY <2>1
        <4>2. Append(received[k], Head(wire[k]).number) \in Seq(1 .. MaxEvents)
          BY <3>2, <4>1, AppendProperties
        <4> QED BY <3>2, <4>2
      <3> QED BY <2>4, <2>5, <3>1, <3>2
    <2>9. \A j \in Conns : j # k => received'[j] = received[j]
      <3> HIDE DEF TypeInv, TypeOK, HandlersAndLinks, TabsAndSockets, RegisteredHandlersRun
      <3> QED BY <1>0, <2>4
    <2>10. wire' \in [Conns -> Seq(Frames)] /\ \A j \in Conns : Len(wire'[j]) <= WireMax
      BY <2>1, <2>2, <2>3
    <2>11. TypeOK'
      BY <2>6, <2>7, <2>8, <2>10
    <2>12. HandlersAndLinks' /\ RegisteredHandlersRun'
      BY <2>1, <2>3, <2>6, <2>9
    <2>13. TabsAndSockets'
      BY <2>6
    <2> QED BY <2>11, <2>12, <2>13
  <1>11. ASSUME NEW t \in Tabs, NoticeCut(t) PROVE TypeInv'
    <2>1. ScheduleRetry(t) /\ tab[t] # "gaveUp"
      BY <1>11 DEF NoticeCut
    <2>2. /\ tab' \in [Tabs -> {"dialing", "open", "waiting", "gaveUp"}]
          /\ attempt' \in [Tabs -> 0 .. MaxAttempts + 1]
          /\ banner' \in [Tabs -> HubStatus \cup {"reconnecting"}]
          /\ tab'[t] # "open" /\ \A u \in Tabs \ {t} : tab'[u] = tab[u]
          /\ \A u \in Tabs : tab'[u] # "gaveUp" => attempt'[u] <= MaxAttempts
      BY <2>1, RetryTypes
    <2>3. UNCHANGED <<process, status, clients, queue, handler, outgoing, socket,
                      emitted, since, received, refused, link, faults>>
      BY <1>11 DEF NoticeCut
    <2>4. wire' = [wire EXCEPT ![socket[t]] = <<>>]
      BY <1>11 DEF NoticeCut
    <2>a. \A k \in Conns : wire'[k] = wire[k] \/ wire'[k] = <<>>
      BY <2>4
    <2>b. wire' \in [Conns -> Seq(Frames)]
      <3>1. wire \in [Conns -> Seq(Frames)] /\ <<>> \in Seq(Frames)
        OBVIOUS
      <3> HIDE DEF TypeInv, TypeOK, HandlersAndLinks, TabsAndSockets, RegisteredHandlersRun
      <3> QED BY <2>4, <3>1
    <2>c. \A k \in Conns : Len(wire'[k]) <= WireMax
      BY <2>a, EmptySeq
    <2>5. TypeOK'
      BY <2>2, <2>3, <2>b, <2>c
    <2>6. HandlersAndLinks' /\ RegisteredHandlersRun'
      BY <2>3, <2>a
    <2>7. TabsAndSockets'
      BY <2>2, <2>3
    <2> QED BY <2>5, <2>6, <2>7
  <1>12. ASSUME NEW t \in Tabs, DialFails(t) PROVE TypeInv'
    <2>1. ScheduleRetry(t) /\ tab[t] # "gaveUp"
      BY <1>12 DEF DialFails
    <2>2. /\ tab' \in [Tabs -> {"dialing", "open", "waiting", "gaveUp"}]
          /\ attempt' \in [Tabs -> 0 .. MaxAttempts + 1]
          /\ banner' \in [Tabs -> HubStatus \cup {"reconnecting"}]
          /\ tab'[t] # "open" /\ \A u \in Tabs \ {t} : tab'[u] = tab[u]
          /\ \A u \in Tabs : tab'[u] # "gaveUp" => attempt'[u] <= MaxAttempts
      BY <2>1, RetryTypes
    <2>3. UNCHANGED <<process, status, clients, queue, handler, outgoing, socket,
                      emitted, since, received, link, wire>>
      BY <1>12 DEF DialFails
    <2>4. faults' \in 0 .. MaxFaults /\ refused' \in [Tabs -> Nat]
      BY <1>12 DEF DialFails
    <2>5. TypeOK'
      BY <2>2, <2>3, <2>4
    <2>6. HandlersAndLinks' /\ RegisteredHandlersRun'
      BY <2>3, <2>4
    <2>7. TabsAndSockets'
      BY <2>2, <2>3
    <2> QED BY <2>5, <2>6, <2>7
  <1>13. ASSUME NEW t \in Tabs, Redial(t) PROVE TypeInv'
    BY <1>13 DEF Redial
  <1>14. CASE UNCHANGED vars
    BY <1>14 DEF vars
  <1> QED BY <1>1, <1>2, <1>3, <1>4, <1>5, <1>6, <1>7, <1>8, <1>9, <1>10, <1>11, <1>12,
             <1>13, <1>14 DEF Next

\* The types of the variables: no queue exceeds QueueMax, no wire WireMax, no tab
\* more attempts than the limit (hub.py, main.py, subscribeToUpdates in api.js).
THEOREM TypeCorrect == Spec => []TypeOK
  <1>1. TypeInv => TypeOK
    BY DEF TypeInv
  <1> QED BY <1>1, InitTypes, StepTypes, PTL DEF Spec

\* A registered queue has a running handler (the finally of the websocket handler
\* unregisters it on every way out).
THEOREM RegisteredMeansRunning == Spec => []RegisteredHandlersRun
  <1>1. TypeInv => RegisteredHandlersRun
    BY DEF TypeInv
  <1> QED BY <1>1, InitTypes, StepTypes, PTL DEF Spec

-----------------------------------------------------------------------------
\* Giving up.

\* A tab that is connected has forgotten its attempts, each attempt but the one after a
\* cut link was refused, and only a count above the limit gives up.
Counted ==
    \A t \in Tabs :
        /\ attempt[t] <= refused[t] + 1
        /\ tab[t] = "open" => attempt[t] = 0
        /\ tab[t] = "gaveUp" => attempt[t] > MaxAttempts

LEMMA RetryCounts ==
  ASSUME TypeInv, NEW t \in Tabs, ScheduleRetry(t)
  PROVE  /\ attempt' = [attempt EXCEPT ![t] = attempt[t] + 1]
         /\ \A u \in Tabs \ {t} : tab'[u] = tab[u]
         /\ tab'[t] # "open" /\ (tab'[t] = "gaveUp" => attempt'[t] > MaxAttempts)
  <1>1. attempt[t] \in Nat /\ attempt \in [Tabs -> 0 .. MaxAttempts + 1]
        /\ tab \in [Tabs -> {"dialing", "open", "waiting", "gaveUp"}] /\ MaxAttempts \in Nat
    BY BoundsArePositive DEF TypeInv, TypeOK
  <1> QED BY <1>1 DEF ScheduleRetry

LEMMA InitCounts == Init => Counted
  BY BoundsArePositive DEF Init, Counted

LEMMA StepCounts == TypeInv /\ Counted /\ [Next]_vars => Counted'
  <1> SUFFICES ASSUME TypeInv, Counted, [Next]_vars PROVE Counted'
    OBVIOUS
  <1>0. /\ MaxAttempts \in Nat /\ refused \in [Tabs -> Nat]
        /\ attempt \in [Tabs -> 0 .. MaxAttempts + 1]
        /\ tab \in [Tabs -> {"dialing", "open", "waiting", "gaveUp"}]
        /\ \A u \in Tabs : attempt[u] \in Nat /\ refused[u] \in Nat
    BY BoundsArePositive DEF TypeInv, TypeOK
  <1>1. ASSUME UNCHANGED <<tab, attempt, refused>> PROVE Counted'
    BY <1>1 DEF Counted
  <1>2. ASSUME NEW t \in Tabs, NEW k \in Conns, Accept(t, k) PROVE Counted'
    BY <1>0, <1>2 DEF Accept, Counted
  <1>3. ASSUME NEW t \in Tabs, NoticeCut(t) PROVE Counted'
    <2>1. ScheduleRetry(t) /\ tab[t] = "open" /\ refused' = refused
      BY <1>3 DEF NoticeCut, historyVars
    <2>2. attempt[t] = 0
      BY <2>1 DEF Counted
    <2> QED BY <1>0, <2>1, <2>2, RetryCounts DEF Counted
  <1>4. ASSUME NEW t \in Tabs, DialFails(t) PROVE Counted'
    <2>1. ScheduleRetry(t) /\ refused' = [refused EXCEPT ![t] = refused[t] + 1]
      BY <1>4 DEF DialFails
    <2> QED BY <1>0, <2>1, RetryCounts DEF Counted
  <1>5. ASSUME NEW t \in Tabs, Redial(t) PROVE Counted'
    BY <1>0, <1>5 DEF Redial, Counted, historyVars
  <1>6. ASSUME NEW t \in Tabs, Receive(t) PROVE Counted'
    BY <1>1, <1>6 DEF Receive
  <1>7. CASE GatewayEmits \/ Start \/ Restart \/ Crash
    BY <1>1, <1>7 DEF GatewayEmits, Start, Restart, Crash, tabVars, historyVars
  <1>8. ASSUME NEW k \in Conns, GetFrame(k) \/ SendFrame(k) \/ SendFails(k) \/ CutLink(k)
        PROVE  Counted'
    BY <1>1, <1>8 DEF GetFrame, SendFrame, SendFails, CutLink, tabVars, historyVars
  <1>9. CASE UNCHANGED vars
    BY <1>1, <1>9 DEF vars, tabVars, historyVars
  <1> QED BY <1>2, <1>3, <1>4, <1>5, <1>6, <1>7, <1>8, <1>9 DEF Next

\* A tab gives up only after as many refusals in a row as the limit, whatever links were
\* cut and however often the server was restarted before (scheduleRetry and onopen).
THEOREM GivingUpIsEarned == Spec => []NoEarlyGivingUp
  <1>1. ASSUME TypeInv, Counted PROVE NoEarlyGivingUp
    <2>1. ASSUME NEW t \in Tabs, tab[t] = "gaveUp" PROVE refused[t] >= MaxAttempts
      <3>1. attempt[t] \in Nat /\ refused[t] \in Nat /\ MaxAttempts \in Nat
        BY <1>1, BoundsArePositive DEF TypeInv, TypeOK
      <3>2. attempt[t] <= refused[t] + 1 /\ attempt[t] > MaxAttempts
        BY <1>1, <2>1 DEF Counted
      <3> QED BY <3>1, <3>2
    <2> QED BY <2>1 DEF NoEarlyGivingUp
  <1> QED BY <1>1, InitTypes, StepTypes, InitCounts, StepCounts, PTL DEF Spec

-----------------------------------------------------------------------------
\* What a step does to the frames on their way over k.

Kept(k)  == UNCHANGED <<Way(k), received[k], since[k]>>
Cut(k)   == /\ Len(Way(k)') <= Len(Way(k))
            /\ \A i \in 1 .. Len(Way(k)') : Way(k)'[i] = Way(k)[i]
            /\ UNCHANGED <<received[k], since[k], emitted>>
            /\ k \notin clients' \/ link'[k] # "up"
            /\ k \in clients' => k \in clients
Added(k) == /\ emitted' = emitted + 1
            /\ Way(k)' = Append(Way(k), EventFrame(emitted'))
            /\ UNCHANGED <<received[k], since[k], status>>
            /\ k \in clients /\ link[k] = "up"
Taken(k) == /\ Way(k) # <<>>
            /\ Way(k)' = Tail(Way(k))
            /\ IF IsUpdate(Head(Way(k)))
               THEN received'[k] = Append(received[k], Head(Way(k)).number)
               ELSE received'[k] = received[k]
            /\ UNCHANGED <<since[k], emitted>>
            /\ \E t \in Tabs : Receive(t) /\ socket[t] = k
Fresh(k) == /\ Way(k)' = <<StatusFrame(status)>>
            /\ received'[k] = <<>>
            /\ UNCHANGED <<emitted, status>> /\ since'[k] = emitted
            /\ link[k] = "unused"

\* Nothing is emitted for k, or k has lost its queue; nobody registers k again.
Quiet(k) == /\ emitted' \in {emitted, emitted + 1}
            /\ emitted' # emitted => k \notin clients' \/ link'[k] # "up"
            /\ k \in clients' => k \in clients
            /\ link'[k] = "up" => link[k] = "up"

WayStep(k) ==
    \/ Kept(k) /\ Quiet(k)
    \/ Cut(k)
    \/ Added(k)
    \/ Taken(k) /\ Quiet(k)
    \/ Fresh(k)

LEMMA WayTypes ==
  ASSUME TypeInv, NEW k \in Conns
  PROVE  /\ wire[k] \in Seq(Frames) /\ Sending(k) \in Seq(Frames) /\ queue[k] \in Seq(Frames)
         /\ wire[k] \o Sending(k) \in Seq(Frames)
         /\ Way(k) \in Seq(Frames)
  <1>1. wire[k] \in Seq(Frames) /\ queue[k] \in Seq(Frames)
    BY DEF TypeInv, TypeOK
  <1>2. Sending(k) \in Seq(Frames)
    BY DEF TypeInv, TypeOK, HandlersAndLinks, Sending
  <1>3. wire[k] \o Sending(k) \in Seq(Frames)
    BY <1>1, <1>2, ConcatProperties
  <1>4. (wire[k] \o Sending(k)) \o queue[k] \in Seq(Frames)
    BY <1>1, <1>3, ConcatProperties
  <1> QED BY <1>1, <1>2, <1>3, <1>4 DEF Way

\* Where nothing of k changes, the way does not.
LEMMA SameWay ==
  ASSUME NEW k \in Conns,
         UNCHANGED <<link[k], wire[k], handler[k], outgoing[k], queue[k]>>
  PROVE  UNCHANGED Way(k)
  BY DEF Way, Sending

\* emit adds the frame to the way of a client with room and a live link.
LEMMA EmitStep ==
  ASSUME TypeInv, NEW k \in Conns, GatewayEmits
  PROVE  WayStep(k)
  <1>1. /\ emitted' = emitted + 1 /\ emitted' \in 1 .. MaxEvents
        /\ UNCHANGED <<link, wire, handler, outgoing, received, since, status>>
        /\ clients' = clients \ {j \in clients : Len(queue[j]) >= QueueMax}
    BY BoundsArePositive DEF GatewayEmits, Emit, TypeInv, TypeOK
  <1>2. UNCHANGED Sending(k)
    BY <1>1 DEF Sending
  <1>3. CASE k \in clients /\ ~(Len(queue[k]) >= QueueMax) /\ link[k] = "up"
    <2>1. queue'[k] = Append(queue[k], EventFrame(emitted'))
      BY <1>3 DEF GatewayEmits, Emit
    <2>2. EventFrame(emitted') \in Frames
      BY <1>1, FrameFacts
    <2>3. (wire[k] \o Sending(k)) \o Append(queue[k], EventFrame(emitted'))
            = Append((wire[k] \o Sending(k)) \o queue[k], EventFrame(emitted'))
      <3>1. wire[k] \o Sending(k) \in Seq(Frames) /\ queue[k] \in Seq(Frames)
        BY WayTypes
      <3>2. \A w, t \in Seq(Frames), e \in Frames : w \o Append(t, e) = Append(w \o t, e)
        BY AppendToConcat
      <3> QED BY <2>2, <3>1, <3>2, Zenon
    <2>4. Way(k)' = Append(Way(k), EventFrame(emitted'))
      BY <1>1, <1>2, <1>3, <2>1, <2>3 DEF Way
    <2> QED BY <1>1, <1>3, <2>4 DEF WayStep, Added
  <1>4. CASE ~(k \in clients /\ ~(Len(queue[k]) >= QueueMax) /\ link[k] = "up")
    <2>1. UNCHANGED Way(k)
      BY <1>1, <1>2, <1>4 DEF GatewayEmits, Emit, Way
    <2> QED BY <1>1, <1>4, <2>1 DEF WayStep, Kept, Quiet
  <1> QED BY <1>3, <1>4

\* From the queue into the handler, and from the handler onto the wire.
LEMMA MoveStep ==
  ASSUME TypeInv, NEW k \in Conns, GetFrame(k) \/ SendFrame(k)
  PROVE  UNCHANGED Way(k)
  <1> USE DEF TypeInv, TypeOK
  <1>1. CASE GetFrame(k)
    <2>1. /\ UNCHANGED <<link, wire>> /\ queue[k] # <<>>
          /\ queue'[k] = Tail(queue[k]) /\ Sending(k) = <<>> /\ Sending(k)' = <<Head(queue[k])>>
      BY <1>1 DEF GetFrame, Sending
    <2>2. (wire[k] \o <<>>) \o queue[k] = (wire[k] \o <<Head(queue[k])>>) \o Tail(queue[k])
      BY <2>1, WayTypes, HeadMoves
    <2> QED BY <2>1, <2>2 DEF Way
  <1>2. CASE SendFrame(k)
    <2>1. /\ UNCHANGED <<link, queue>>
          /\ wire'[k] = Append(wire[k], outgoing[k])
          /\ Sending(k) = <<outgoing[k]>> /\ Sending(k)' = <<>>
      BY <1>2 DEF SendFrame, Sending
    <2>2. outgoing[k] \in Frames
      BY <1>2 DEF SendFrame, HandlersAndLinks
    <2>3. (Append(wire[k], outgoing[k]) \o <<>>) \o queue[k]
            = (wire[k] \o <<outgoing[k]>>) \o queue[k]
      <3>1. wire[k] \in Seq(Frames) /\ queue[k] \in Seq(Frames)
        BY WayTypes
      <3> HIDE DEF TypeInv, TypeOK
      <3> QED BY <2>2, <3>1, EndMoves
    <2>4. link[k] = "up"
      BY <1>2 DEF SendFrame
    <2> QED BY <2>1, <2>3, <2>4 DEF Way
  <1> QED BY <1>1, <1>2

\* A crash and a cut leave of the way what is on the wire.
LEMMA CutStep ==
  ASSUME TypeInv, NEW k \in Conns, Way(k)' = wire[k]
  PROVE  /\ Len(Way(k)') <= Len(Way(k))
         /\ \A i \in 1 .. Len(Way(k)') : Way(k)'[i] = Way(k)[i]
  <1>1. CASE link[k] # "up"
    <2>1. Way(k) = wire[k] /\ Len(wire[k]) \in Nat
      BY <1>1, WayTypes, LenProperties DEF Way
    <2> QED BY <2>1
  <1>2. CASE link[k] = "up"
    <2>1. Way(k) = (wire[k] \o Sending(k)) \o queue[k]
      BY <1>2 DEF Way
    <2>2. wire[k] \in Seq(Frames) /\ Sending(k) \in Seq(Frames) /\ queue[k] \in Seq(Frames)
      BY WayTypes
    <2>3. /\ Len(wire[k]) <= Len(Way(k))
          /\ \A i \in 1 .. Len(wire[k]) : wire[k][i] = Way(k)[i]
      <3>1. \A w, t, q \in Seq(Frames) :
              /\ Len(w) <= Len((w \o t) \o q)
              /\ \A i \in 1 .. Len(w) : w[i] = ((w \o t) \o q)[i]
        BY StartOfConcat
      <3>2. /\ Len(wire[k]) <= Len((wire[k] \o Sending(k)) \o queue[k])
            /\ \A i \in 1 .. Len(wire[k]) : wire[k][i] = ((wire[k] \o Sending(k)) \o queue[k])[i]
        BY <2>2, <3>1, Zenon
      <3> QED BY <2>1, <3>2
    <2> QED BY <2>3
  <1> QED BY <1>1, <1>2

\* The tab takes the first frame off the wire of its socket.
LEMMA ReceiveStep ==
  ASSUME TypeInv, NEW t \in Tabs, NEW k \in Conns, Receive(t)
  PROVE  /\ socket[t] # k => UNCHANGED <<Way(k), received[k]>>
         /\ socket[t] = k => Taken(k) /\ Head(Way(k)) = Head(wire[k])
  <1> DEFINE s == socket[t]
  <1>1. /\ s \in Conns /\ wire[s] # <<>> /\ wire' = [wire EXCEPT ![s] = Tail(wire[s])]
        /\ UNCHANGED <<handler, outgoing, queue, link, since, emitted>>
        /\ \/ received' = received /\ Head(wire[s]).event = "onConnectionChange"
           \/ /\ received' = [received EXCEPT ![s] = Append(received[s], Head(wire[s]).number)]
              /\ Head(wire[s]).event = "update"
    BY DEF Receive, TypeInv, TypeOK, TabsAndSockets, serverVars
  <1> HIDE DEF s
  <1>2. DOMAIN received = Conns /\ DOMAIN wire = Conns
    BY DEF TypeInv, TypeOK
  <1>3. ASSUME s # k PROVE UNCHANGED <<Way(k), received[k]>>
    BY <1>1, <1>2, <1>3, SameWay
  <1>4. ASSUME s = k PROVE Taken(k) /\ Head(Way(k)) = Head(wire[k])
    <2>1. wire'[k] = Tail(wire[k]) /\ UNCHANGED Sending(k)
      BY <1>1, <1>2, <1>4 DEF Sending
    <2>2. /\ Way(k) # <<>> /\ Head(Way(k)) = Head(wire[k])
          /\ Way(k)' = Tail(Way(k))
      <3>1. CASE link[k] = "up"
        <4>1. wire[k] \in Seq(Frames) /\ Sending(k) \in Seq(Frames) /\ queue[k] \in Seq(Frames)
              /\ wire[k] \o Sending(k) \in Seq(Frames)
          BY WayTypes
        <4>2. \A w, t1 \in Seq(Frames) : w # <<>> =>
                /\ w \o t1 # <<>>
                /\ Head(w \o t1) = Head(w)
                /\ Tail(w \o t1) = Tail(w) \o t1
          BY TailOfConcat
        <4>3. /\ wire[k] \o Sending(k) # <<>>
              /\ Head(wire[k] \o Sending(k)) = Head(wire[k])
              /\ Tail(wire[k] \o Sending(k)) = Tail(wire[k]) \o Sending(k)
          BY <1>1, <1>4, <4>1, <4>2, Zenon
        <4>4. /\ (wire[k] \o Sending(k)) \o queue[k] # <<>>
              /\ Head((wire[k] \o Sending(k)) \o queue[k]) = Head(wire[k] \o Sending(k))
              /\ Tail((wire[k] \o Sending(k)) \o queue[k]) = Tail(wire[k] \o Sending(k)) \o queue[k]
          BY <4>1, <4>2, <4>3, Zenon
        <4> QED BY <1>1, <2>1, <3>1, <4>3, <4>4 DEF Way
      <3>2. CASE link[k] # "up"
        BY <1>1, <1>4, <2>1, <3>2 DEF Way
      <3> QED BY <3>1, <3>2
    <2>3. \E u \in Tabs : Receive(u) /\ socket[u] = k
      BY <1>4 DEF s
    <2> QED BY <1>1, <1>2, <1>4, <2>2, <2>3 DEF Taken, IsUpdate
  <1> QED BY <1>3, <1>4 DEF s

LEMMA EveryWayStep ==
  ASSUME TypeInv, [Next]_vars, NEW k \in Conns
  PROVE  WayStep(k)
  <1> USE DEF serverVars, tabVars, historyVars
  <1>1. CASE GatewayEmits
    BY <1>1, EmitStep
  <1>2. CASE Start
    <2>1. clients = {}
      BY <1>2 DEF Start, TypeInv, RegisteredHandlersRun
    <2>2. queue' = queue /\ clients' = {}
      BY <1>2, <2>1 DEF Start, SetStatus, Emit, TypeInv, TypeOK
    <2>3. UNCHANGED <<Way(k), received[k], since[k], emitted, link>>
      BY <1>2, <2>2, SameWay DEF Start
    <2> QED BY <2>1, <2>2, <2>3 DEF WayStep, Kept, Quiet
  <1>3. CASE Restart
    BY <1>3, SameWay DEF Restart, WayStep, Kept, Quiet
  <1>4. CASE Crash
    <2>1. Way(k)' = wire[k] /\ clients' = {} /\ UNCHANGED <<received, since, emitted>>
      BY <1>4 DEF Crash, Way, TypeInv, TypeOK
    <2> QED BY <2>1, CutStep DEF WayStep, Cut
  <1>5. ASSUME NEW t \in Tabs, NEW j \in Conns, Accept(t, j) PROVE WayStep(k)
    <2>1. CASE j = k
      <3>1. link[k] = "unused" /\ link'[k] = "up" /\ handler'[k] = "sending"
            /\ outgoing'[k] = StatusFrame(status) /\ since'[k] = emitted
            /\ UNCHANGED <<wire, queue, received, emitted, status>>
        BY <1>5, <2>1 DEF Accept, TypeInv, TypeOK
      <3>2. wire'[k] = <<>> /\ queue'[k] = <<>> /\ received'[k] = <<>>
        BY <3>1 DEF TypeInv, HandlersAndLinks
      <3>3. Way(k)' = (<<>> \o <<StatusFrame(status)>>) \o <<>>
        BY <3>1, <3>2 DEF Way, Sending
      <3>4. StatusFrame(status) \in Frames
        BY FrameFacts DEF TypeInv, TypeOK
      <3>5. Way(k)' = <<StatusFrame(status)>>
        <4>1. <<StatusFrame(status)>> \in Seq(Frames)
          BY <3>4
        <4> QED BY <3>3, <4>1, ConcatEmptySeq
      <3> QED BY <3>1, <3>2, <3>5 DEF WayStep, Fresh
    <2>2. CASE j # k
      <3>1. UNCHANGED <<link[k], handler[k], outgoing[k], wire, queue, since[k], received, emitted>>
            /\ (k \in clients' => k \in clients)
        BY <1>5, <2>2 DEF Accept, TypeInv, TypeOK
      <3> QED BY <3>1, SameWay DEF WayStep, Kept, Quiet
    <2> QED BY <2>1, <2>2
  <1>6. ASSUME NEW j \in Conns, GetFrame(j) \/ SendFrame(j) PROVE WayStep(k)
    <2>1. UNCHANGED <<received, since, emitted, clients, link>>
      BY <1>6 DEF GetFrame, SendFrame
    <2>2. CASE j = k
      BY <1>6, <2>1, <2>2, MoveStep DEF WayStep, Kept, Quiet
    <2>3. CASE j # k
      <3>1. UNCHANGED <<wire[k], handler[k], outgoing[k], queue[k]>>
        BY <1>6, <2>3 DEF GetFrame, SendFrame, TypeInv, TypeOK
      <3> QED BY <2>1, <3>1, SameWay DEF WayStep, Kept, Quiet
    <2> QED BY <2>2, <2>3
  <1>7. ASSUME NEW j \in Conns, SendFails(j) PROVE WayStep(k)
    <2>1. UNCHANGED <<received, since, emitted, link, wire>> /\ clients' \subseteq clients
      BY <1>7 DEF SendFails
    <2>2. UNCHANGED Way(k)
      BY <1>7 DEF SendFails, Way, Sending, TypeInv, TypeOK
    <2> QED BY <2>1, <2>2 DEF WayStep, Kept, Quiet
  <1>8. ASSUME NEW j \in Conns, CutLink(j) PROVE WayStep(k)
    <2>1. UNCHANGED <<received, since, emitted, wire, clients, handler, outgoing, queue>>
      BY <1>8 DEF CutLink
    <2>2. CASE j = k
      <3>1. Way(k)' = wire[k] /\ link'[k] = "cut"
        BY <1>8, <2>1, <2>2 DEF CutLink, Way, TypeInv, TypeOK
      <3> QED BY <2>1, <3>1, CutStep DEF WayStep, Cut
    <2>3. CASE j # k
      <3>1. UNCHANGED link[k]
        BY <1>8, <2>3 DEF CutLink, TypeInv, TypeOK
      <3> QED BY <2>1, <3>1, SameWay DEF WayStep, Kept, Quiet
    <2> QED BY <2>2, <2>3
  <1>9. ASSUME NEW t \in Tabs, Receive(t) PROVE WayStep(k)
    <2>1. UNCHANGED <<since, emitted, clients, link>>
      BY <1>9 DEF Receive
    <2>2. \/ UNCHANGED <<Way(k), received[k]>>
          \/ Taken(k)
      BY <1>9, ReceiveStep
    <2> QED BY <2>1, <2>2 DEF WayStep, Kept, Quiet
  <1>10. ASSUME NEW t \in Tabs, NoticeCut(t) PROVE WayStep(k)
    <2>1. UNCHANGED <<received, since, emitted, clients, handler, outgoing, queue, link>>
      BY <1>10 DEF NoticeCut
    <2>2. CASE socket[t] = k
      <3>1. wire'[k] = <<>> /\ link'[k] = "cut"
        BY <1>10, <2>2 DEF NoticeCut, TypeInv, TypeOK
      <3>2. Way(k)' = <<>> /\ Len(Way(k)) \in Nat
        BY <3>1, WayTypes, LenProperties DEF Way
      <3> QED BY <2>1, <3>1, <3>2, EmptySeq DEF WayStep, Cut
    <2>3. CASE socket[t] # k
      <3>1. UNCHANGED wire[k]
        BY <1>10, <2>3 DEF NoticeCut, TypeInv, TypeOK
      <3> QED BY <2>1, <3>1, SameWay DEF WayStep, Kept, Quiet
    <2> QED BY <2>2, <2>3
  <1>11. ASSUME NEW t \in Tabs, DialFails(t) \/ Redial(t) PROVE WayStep(k)
    <2>1. UNCHANGED <<received, since, emitted, clients, handler, outgoing, queue, link, wire>>
      BY <1>11 DEF DialFails, Redial
    <2> QED BY <2>1, SameWay DEF WayStep, Kept, Quiet
  <1>12. CASE UNCHANGED vars
    BY <1>12, SameWay DEF vars, WayStep, Kept, Quiet
  <1> QED BY <1>1, <1>2, <1>3, <1>4, <1>5, <1>6, <1>7, <1>8, <1>9, <1>10, <1>11, <1>12 DEF Next

-----------------------------------------------------------------------------
\* The stream of updates.

LEMMA GaplessWhenCut ==
  ASSUME NEW w \in Seq(Frames), NEW v \in Seq(Frames), NEW n \in Nat,
         Len(v) <= Len(w), \A i \in 1 .. Len(v) : v[i] = w[i], GaplessAfter(w, n)
  PROVE  GaplessAfter(v, n)
  <1>1. Len(v) \in Nat /\ Len(w) \in Nat /\ DOMAIN v = 1 .. Len(v) /\ DOMAIN w = 1 .. Len(w)
    BY LenProperties
  <1> SUFFICES ASSUME NEW i \in 1 .. Len(v), IsUpdate(v[i])
               PROVE  /\ v[i].number > n
                      /\ \A j \in 1 .. i - 1 : IsUpdate(v[j]) => v[j].number < v[i].number
                      /\ \A m \in n + 1 .. v[i].number - 1 :
                             \E j \in 1 .. i - 1 : v[j] = EventFrame(m)
    BY <1>1 DEF GaplessAfter
  <1>2. i \in 1 .. Len(w) /\ w[i] = v[i] /\ \A j \in 1 .. i - 1 : v[j] = w[j]
    BY <1>1
  <1>3. /\ w[i].number > n
        /\ \A j \in 1 .. i - 1 : IsUpdate(w[j]) => w[j].number < w[i].number
        /\ \A m \in n + 1 .. w[i].number - 1 : \E j \in 1 .. i - 1 : w[j] = EventFrame(m)
    BY <1>1, <1>2 DEF GaplessAfter
  <1> QED BY <1>2, <1>3

LEMMA GaplessWhenAdded ==
  ASSUME NEW w \in Seq(Frames), NEW n \in Nat, NEW e \in Nat, n < e, GaplessAfter(w, n),
         \A i \in DOMAIN w : IsUpdate(w[i]) => w[i].number < e,
         \A m \in n + 1 .. e - 1 : Contains(w, EventFrame(m))
  PROVE  GaplessAfter(Append(w, EventFrame(e)), n)
  <1> DEFINE v == Append(w, EventFrame(e))
  <1>1. /\ Len(w) \in Nat /\ DOMAIN w = 1 .. Len(w) /\ DOMAIN v = 1 .. Len(w) + 1
        /\ v[Len(w) + 1] = EventFrame(e) /\ \A i \in 1 .. Len(w) : v[i] = w[i]
    BY LenProperties
  <1> HIDE DEF v
  <1> SUFFICES ASSUME NEW i \in 1 .. Len(w) + 1, IsUpdate(v[i])
               PROVE  /\ v[i].number > n
                      /\ \A j \in 1 .. i - 1 : IsUpdate(v[j]) => v[j].number < v[i].number
                      /\ \A m \in n + 1 .. v[i].number - 1 :
                             \E j \in 1 .. i - 1 : v[j] = EventFrame(m)
    BY <1>1 DEF GaplessAfter, v
  <1>2. CASE i \in 1 .. Len(w)
    <2>1. v[i] = w[i] /\ \A j \in 1 .. i - 1 : v[j] = w[j]
      BY <1>1, <1>2
    <2>2. /\ w[i].number > n
          /\ \A j \in 1 .. i - 1 : IsUpdate(w[j]) => w[j].number < w[i].number
          /\ \A m \in n + 1 .. w[i].number - 1 : \E j \in 1 .. i - 1 : w[j] = EventFrame(m)
      BY <1>1, <1>2, <2>1 DEF GaplessAfter
    <2> QED BY <2>1, <2>2
  <1>3. CASE i = Len(w) + 1
    <2>1. v[i] = EventFrame(e) /\ v[i].number = e
      BY <1>1, <1>3, FrameFacts
    <2>2. \A m \in n + 1 .. e - 1 : \E j \in 1 .. Len(w) : w[j] = EventFrame(m)
      BY DEF Contains
    <2>3. \A j \in 1 .. i - 1 : j \in 1 .. Len(w) /\ v[j] = w[j]
      BY <1>1, <1>3
    <2>4. 1 .. i - 1 = 1 .. Len(w)
      BY <1>1, <1>3
    <2> QED BY <1>1, <2>1, <2>2, <2>3, <2>4
  <1> QED BY <1>1, <1>2, <1>3

LEMMA GaplessWhenTaken ==
  ASSUME NEW w \in Seq(Frames), w # <<>>, NEW n \in Nat, GaplessAfter(w, n)
  PROVE  IF IsUpdate(Head(w))
         THEN Head(w).number = n + 1 /\ GaplessAfter(Tail(w), n + 1)
         ELSE GaplessAfter(Tail(w), n)
  <1> DEFINE v == Tail(w)
  <1>1. /\ Len(w) \in Nat \ {0} /\ DOMAIN w = 1 .. Len(w) /\ Head(w) = w[1]
        /\ v \in Seq(Frames) /\ DOMAIN v = 1 .. Len(w) - 1
        /\ \A i \in 1 .. Len(w) - 1 : v[i] = w[i + 1]
    BY LenProperties, HeadTailProperties, EmptySeq
  <1>2. w[1] \in Frames
    BY <1>1
  <1>3. \A i \in 1 .. Len(w) : IsUpdate(w[i]) =>
          /\ w[i].number > n
          /\ \A j \in 1 .. i - 1 : IsUpdate(w[j]) => w[j].number < w[i].number
          /\ \A m \in n + 1 .. w[i].number - 1 : \E j \in 1 .. i - 1 : w[j] = EventFrame(m)
    BY <1>1 DEF GaplessAfter
  <1> HIDE DEF v
  <1>4. CASE IsUpdate(w[1])
    <2>1. w[1].number \in Nat /\ w[1].number > n
      BY <1>1, <1>2, <1>3, <1>4, FrameFacts
    <2>2. w[1].number = n + 1
      <3>1. CASE w[1].number > n + 1
        <4>1. n + 1 \in n + 1 .. w[1].number - 1
          BY <2>1, <3>1
        <4>2. \E j \in 1 .. 1 - 1 : w[j] = EventFrame(n + 1)
          BY <1>1, <1>3, <1>4, <4>1
        <4> QED BY <4>2
      <3> QED BY <2>1, <3>1
    <2>3. ASSUME NEW i \in 1 .. Len(w) - 1, IsUpdate(v[i])
          PROVE  /\ v[i].number > n + 1
                 /\ \A j \in 1 .. i - 1 : IsUpdate(v[j]) => v[j].number < v[i].number
                 /\ \A m \in n + 1 + 1 .. v[i].number - 1 :
                        \E j \in 1 .. i - 1 : v[j] = EventFrame(m)
      <3>1. v[i] = w[i + 1] /\ i + 1 \in 1 .. Len(w) /\ IsUpdate(w[i + 1])
        BY <1>1, <2>3
      <3>2. /\ \A j \in 1 .. i : IsUpdate(w[j]) => w[j].number < w[i + 1].number
            /\ \A m \in n + 1 .. w[i + 1].number - 1 : \E j \in 1 .. i : w[j] = EventFrame(m)
        <4>1. 1 .. (i + 1) - 1 = 1 .. i
          BY <1>1
        <4> QED BY <1>3, <3>1, <4>1
      <3>3. w[i + 1].number > n + 1
        BY <1>1, <1>4, <2>2, <3>2
      <3>4. \A j \in 1 .. i - 1 : v[j] = w[j + 1] /\ j + 1 \in 1 .. i
        BY <1>1
      <3>5. ASSUME NEW m \in n + 1 + 1 .. v[i].number - 1
            PROVE  \E j \in 1 .. i - 1 : v[j] = EventFrame(m)
        <4>1. m \in Int /\ m >= n + 2 /\ w[i + 1] \in Frames /\ v[i].number \in Nat
          BY <1>1, <3>1, FrameFacts
        <4>2. m \in n + 1 .. w[i + 1].number - 1
          BY <3>1, <4>1
        <4>3. PICK j \in 1 .. i : w[j] = EventFrame(m)
          BY <3>2, <4>2
        <4>4. j # 1
          BY <2>2, <4>1, <4>3, FrameFacts
        <4>5. j - 1 \in 1 .. i - 1 /\ (j - 1) + 1 = j
          BY <1>1, <4>3, <4>4
        <4>6. v[j - 1] = w[j]
          BY <3>4, <4>5
        <4> QED BY <4>3, <4>5, <4>6
      <3> QED BY <3>1, <3>2, <3>3, <3>4, <3>5
    <2>4. GaplessAfter(v, n + 1)
      BY <1>1, <2>3 DEF GaplessAfter
    <2> QED BY <1>1, <1>4, <2>2, <2>4 DEF v
  <1>5. CASE ~IsUpdate(w[1])
    <2>1. ASSUME NEW i \in 1 .. Len(w) - 1, IsUpdate(v[i])
          PROVE  /\ v[i].number > n
                 /\ \A j \in 1 .. i - 1 : IsUpdate(v[j]) => v[j].number < v[i].number
                 /\ \A m \in n + 1 .. v[i].number - 1 :
                        \E j \in 1 .. i - 1 : v[j] = EventFrame(m)
      <3>1. v[i] = w[i + 1] /\ i + 1 \in 1 .. Len(w) /\ IsUpdate(w[i + 1])
        BY <1>1, <2>1
      <3>2. /\ w[i + 1].number > n
            /\ \A j \in 1 .. i : IsUpdate(w[j]) => w[j].number < w[i + 1].number
            /\ \A m \in n + 1 .. w[i + 1].number - 1 : \E j \in 1 .. i : w[j] = EventFrame(m)
        <4>1. 1 .. (i + 1) - 1 = 1 .. i
          BY <1>1
        <4> QED BY <1>3, <3>1, <4>1
      <3>3. \A j \in 1 .. i - 1 : v[j] = w[j + 1] /\ j + 1 \in 1 .. i
        BY <1>1
      <3>4. ASSUME NEW m \in n + 1 .. v[i].number - 1
            PROVE  \E j \in 1 .. i - 1 : v[j] = EventFrame(m)
        <4>1. PICK j \in 1 .. i : w[j] = EventFrame(m)
          BY <3>1, <3>2
        <4>2. j # 1
          BY <1>5, <4>1, FrameFacts DEF IsUpdate
        <4>3. j - 1 \in 1 .. i - 1 /\ (j - 1) + 1 = j
          BY <1>1, <4>1, <4>2
        <4>4. v[j - 1] = w[j]
          BY <3>3, <4>3
        <4> QED BY <4>1, <4>3, <4>4
      <3> QED BY <3>1, <3>2, <3>3, <3>4
    <2>2. GaplessAfter(v, n)
      BY <1>1, <2>1 DEF GaplessAfter
    <2> QED BY <1>1, <1>5, <2>2 DEF v
  <1> QED BY <1>4, <1>5

\* What is on its way, and what has arrived, has been emitted.
OnlyEmitted ==
    \A k \in Conns :
        /\ Latest(k) <= emitted
        /\ \A i \in DOMAIN Way(k) : IsUpdate(Way(k)[i]) => Way(k)[i].number <= emitted

StreamOf(k) ==
    /\ ConsecutiveFrom(received[k], since[k])
    /\ GaplessAfter(Way(k), Latest(k))
    /\ link[k] = "up" /\ k \in clients =>
           \A n \in Latest(k) + 1 .. emitted : Contains(Way(k), EventFrame(n))
    /\ Latest(k) <= emitted
    /\ \A i \in DOMAIN Way(k) : IsUpdate(Way(k)[i]) => Way(k)[i].number <= emitted

LEMMA StreamOfAll == StreamHasNoGap /\ OnlyEmitted <=> \A k \in Conns : StreamOf(k)
  BY DEF StreamHasNoGap, OnlyEmitted, StreamOf

LEMMA StreamTypes ==
  ASSUME TypeInv, NEW k \in Conns
  PROVE  /\ Way(k) \in Seq(Frames) /\ Len(Way(k)) \in Nat /\ DOMAIN Way(k) = 1 .. Len(Way(k))
         /\ received[k] \in Seq(1 .. MaxEvents) /\ Len(received[k]) \in Nat
         /\ since[k] \in Nat /\ emitted \in Nat /\ Latest(k) \in Nat
  <1>1. Way(k) \in Seq(Frames)
    BY WayTypes
  <1>2. received[k] \in Seq(1 .. MaxEvents) /\ since[k] \in Nat /\ emitted \in Nat
    BY BoundsArePositive DEF TypeInv, TypeOK
  <1> QED BY <1>1, <1>2, LenProperties DEF Latest

StreamsTyped ==
    \A k \in Conns :
        /\ Way(k) \in Seq(Frames) /\ Len(Way(k)) \in Nat /\ DOMAIN Way(k) = 1 .. Len(Way(k))
        /\ received[k] \in Seq(1 .. MaxEvents)
        /\ emitted \in Nat /\ Latest(k) \in Nat

LEMMA AllStreamsTyped == TypeInv => StreamsTyped
  BY StreamTypes DEF StreamsTyped

LEMMA InitStream == Init => \A k \in Conns : StreamOf(k)
  <1> SUFFICES ASSUME Init, NEW k \in Conns PROVE StreamOf(k)
    OBVIOUS
  <1>1. received[k] = <<>> /\ since[k] = 0 /\ emitted = 0 /\ Way(k) = <<>> /\ link[k] # "up"
    BY DEF Init, Way
  <1>2. Latest(k) = 0
    BY <1>1 DEF Latest
  <1> QED BY <1>1, <1>2 DEF StreamOf, ConsecutiveFrom, GaplessAfter

LEMMA StepStream ==
  ASSUME TypeInv, [Next]_vars, NEW k \in Conns, StreamOf(k)
  PROVE  StreamOf(k)'
  <1>0. TypeInv'
    BY StepTypes
  <1>t. /\ Way(k) \in Seq(Frames) /\ Len(Way(k)) \in Nat /\ DOMAIN Way(k) = 1 .. Len(Way(k))
        /\ received[k] \in Seq(1 .. MaxEvents) /\ Len(received[k]) \in Nat
        /\ since[k] \in Nat /\ emitted \in Nat /\ Latest(k) \in Nat
    BY StreamTypes
  <1>u. /\ Way(k)' \in Seq(Frames) /\ Len(Way(k)') \in Nat /\ DOMAIN Way(k)' = 1 .. Len(Way(k)')
        /\ received'[k] \in Seq(1 .. MaxEvents) /\ emitted' \in Nat /\ Latest(k)' \in Nat
    <2>1. StreamsTyped'
      BY <1>0, AllStreamsTyped, PTL
    <2> QED BY <2>1 DEF StreamsTyped
  <1>1. CASE Kept(k) /\ Quiet(k)
    <2>1. /\ UNCHANGED <<Way(k), received[k], since[k], Latest(k)>> /\ emitted <= emitted'
          /\ link'[k] = "up" /\ k \in clients' =>
                 emitted' = emitted /\ link[k] = "up" /\ k \in clients
      BY <1>t, <1>1 DEF Kept, Quiet, Latest
    <2>2. /\ ConsecutiveFrom(received[k], since[k])' /\ GaplessAfter(Way(k), Latest(k))'
      BY <2>1 DEF StreamOf, ConsecutiveFrom, GaplessAfter
    <2>3. link'[k] = "up" /\ k \in clients' =>
            \A n \in Latest(k)' + 1 .. emitted' : Contains(Way(k)', EventFrame(n))
      BY <2>1 DEF StreamOf
    <2>4. /\ Latest(k)' <= emitted'
          /\ \A i \in DOMAIN Way(k)' : IsUpdate(Way(k)'[i]) => Way(k)'[i].number <= emitted'
      <3>1. /\ Latest(k) <= emitted
            /\ \A i \in DOMAIN Way(k) : IsUpdate(Way(k)[i]) =>
                  Way(k)[i].number <= emitted /\ Way(k)[i].number \in Nat
        BY <1>t, FrameFacts DEF StreamOf
      <3> QED BY <1>t, <1>u, <2>1, <3>1
    <2> QED BY <2>2, <2>3, <2>4 DEF StreamOf
  <1>2. CASE Cut(k)
    <2>1. /\ UNCHANGED <<received[k], since[k], Latest(k), emitted>>
          /\ ~(link'[k] = "up" /\ k \in clients')
      BY <1>2 DEF Cut, Latest
    <2>2. GaplessAfter(Way(k)', Latest(k))
      BY <1>t, <1>u, <1>2, GaplessWhenCut DEF StreamOf, Cut
    <2>3. \A i \in DOMAIN Way(k)' : IsUpdate(Way(k)'[i]) => Way(k)'[i].number <= emitted
      BY <1>t, <1>u, <1>2 DEF StreamOf, Cut
    <2>4. ConsecutiveFrom(received[k], since[k])' /\ Latest(k)' <= emitted'
      BY <2>1 DEF StreamOf, ConsecutiveFrom
    <2>5. GaplessAfter(Way(k), Latest(k))'
      BY <2>1, <2>2 DEF GaplessAfter
    <2> QED BY <2>1, <2>3, <2>4, <2>5 DEF StreamOf
  <1>3. CASE Added(k)
    <2> DEFINE e == emitted + 1
    <2>1. /\ emitted' = e /\ Way(k)' = Append(Way(k), EventFrame(e))
          /\ UNCHANGED <<received[k], since[k], Latest(k)>> /\ k \in clients /\ link[k] = "up"
      BY <1>3 DEF Added, Latest
    <2>2. /\ Latest(k) < e /\ e \in Nat
          /\ \A i \in DOMAIN Way(k) : IsUpdate(Way(k)[i]) => Way(k)[i].number < e
          /\ \A m \in Latest(k) + 1 .. e - 1 : Contains(Way(k), EventFrame(m))
      <3>1. \A i \in DOMAIN Way(k) : IsUpdate(Way(k)[i]) =>
                Way(k)[i].number <= emitted /\ Way(k)[i].number \in Nat
        BY <1>t, FrameFacts DEF StreamOf
      <3>2. e - 1 = emitted
        BY <1>t
      <3> QED BY <1>t, <2>1, <3>1, <3>2 DEF StreamOf
    <2> HIDE DEF e
    <2>3. GaplessAfter(Append(Way(k), EventFrame(e)), Latest(k))
      BY <1>t, <2>2, GaplessWhenAdded DEF StreamOf
    <2>4. GaplessAfter(Way(k), Latest(k))'
      BY <2>1, <2>3 DEF GaplessAfter
    <2>5. /\ Len(Way(k)') = Len(Way(k)) + 1 /\ Way(k)'[Len(Way(k)) + 1] = EventFrame(e)
          /\ \A i \in 1 .. Len(Way(k)) : Way(k)'[i] = Way(k)[i]
      BY <1>t, <1>u, <2>1
    <2>6. \A n \in Latest(k) + 1 .. e : Contains(Way(k)', EventFrame(n))
      BY <1>t, <2>2, <2>5 DEF Contains
    <2>7. \A i \in DOMAIN Way(k)' : IsUpdate(Way(k)'[i]) => Way(k)'[i].number <= e
      <3>1. EventFrame(e).number = e
        BY FrameFacts
      <3>2. \A i \in 1 .. Len(Way(k)) : IsUpdate(Way(k)[i]) =>
                Way(k)[i].number < e /\ Way(k)[i].number \in Nat
        BY <1>t, <2>2, FrameFacts
      <3> QED BY <1>t, <1>u, <2>2, <2>5, <3>1, <3>2
    <2>8. ConsecutiveFrom(received[k], since[k])' /\ Latest(k)' <= emitted'
      BY <1>t, <2>1, <2>2 DEF StreamOf, ConsecutiveFrom
    <2> QED BY <2>1, <2>4, <2>6, <2>7, <2>8 DEF StreamOf
  <1>4. CASE Taken(k) /\ Quiet(k)
    <2>1. /\ Way(k) # <<>> /\ Way(k)' = Tail(Way(k)) /\ UNCHANGED <<since[k], emitted>>
          /\ link'[k] = "up" /\ k \in clients' => link[k] = "up" /\ k \in clients
      BY <1>4 DEF Taken, Quiet
    <2>2. IF IsUpdate(Head(Way(k)))
          THEN Head(Way(k)).number = Latest(k) + 1 /\ GaplessAfter(Way(k)', Latest(k) + 1)
          ELSE GaplessAfter(Way(k)', Latest(k))
      BY <1>t, <2>1, GaplessWhenTaken DEF StreamOf
    <2>3. /\ Len(Way(k)) \in Nat \ {0} /\ Head(Way(k)) = Way(k)[1]
          /\ Len(Way(k)') = Len(Way(k)) - 1
          /\ \A i \in 1 .. Len(Way(k)) - 1 : Way(k)'[i] = Way(k)[i + 1]
      BY <1>t, <2>1, HeadTailProperties, EmptySeq
    <2>4. \A i \in DOMAIN Way(k)' : IsUpdate(Way(k)'[i]) => Way(k)'[i].number <= emitted'
      BY <1>t, <1>u, <2>1, <2>3 DEF StreamOf
    <2>5. ASSUME NEW n, Contains(Way(k), EventFrame(n)), EventFrame(n) # Head(Way(k))
          PROVE  Contains(Way(k)', EventFrame(n))
      <3>1. PICK i \in 1 .. Len(Way(k)) : Way(k)[i] = EventFrame(n)
        BY <2>5 DEF Contains
      <3>2. i # 1
        BY <2>3, <2>5, <3>1
      <3>3. i - 1 \in 1 .. Len(Way(k)') /\ (i - 1) + 1 = i
        BY <2>3, <3>1, <3>2
      <3> QED BY <2>3, <3>1, <3>3 DEF Contains
    <2>6. CASE IsUpdate(Head(Way(k)))
      <3>1. received'[k] = Append(received[k], Latest(k) + 1)
        BY <1>4, <2>2, <2>6 DEF Taken
      <3>2. Len(received'[k]) = Len(received[k]) + 1
            /\ received'[k][Len(received[k]) + 1] = Latest(k) + 1
            /\ \A i \in 1 .. Len(received[k]) : received'[k][i] = received[k][i]
        BY <1>t, <3>1
      <3>3. Latest(k)' = Latest(k) + 1
        <4>1. Latest(k)' = since[k] + (Len(received[k]) + 1)
          BY <2>1, <3>2 DEF Latest
        <4> QED BY <1>t, <4>1 DEF Latest
      <3>4. ConsecutiveFrom(received'[k], since[k])
        <4>1. received'[k] \in Seq(1 .. MaxEvents)
          BY <1>0 DEF TypeInv, TypeOK
        <4>2. \A i \in 1 .. Len(received[k]) : received[k][i] = since[k] + i
          <5>1. received[k] = [i \in 1 .. Len(received[k]) |-> since[k] + i]
            BY DEF StreamOf, ConsecutiveFrom
          <5> QED BY <5>1, Zenon
        <4>3. Latest(k) + 1 = since[k] + (Len(received[k]) + 1)
          BY <1>t DEF Latest
        <4>4. ASSUME NEW i \in 1 .. Len(received'[k]) PROVE received'[k][i] = since[k] + i
          <5>1. i \in 1 .. Len(received[k]) \/ i = Len(received[k]) + 1
            BY <1>t, <3>2
          <5>2. CASE i \in 1 .. Len(received[k])
            BY <3>2, <4>2, <5>2
          <5>3. CASE i = Len(received[k]) + 1
            <6>1. received'[k][i] = Latest(k) + 1
              BY <3>2, <5>3
            <6> QED BY <4>3, <5>3, <6>1
          <5> QED BY <5>1, <5>2, <5>3
        <4>5. received'[k] = [i \in 1 .. Len(received'[k]) |-> received'[k][i]]
          BY <4>1, LenProperties
        <4> QED BY <4>4, <4>5 DEF ConsecutiveFrom
      <3>5. Latest(k) + 1 <= emitted
        <4>1. 1 \in DOMAIN Way(k) /\ IsUpdate(Way(k)[1])
          BY <1>t, <2>3, <2>6
        <4> QED BY <2>2, <2>3, <2>6, <4>1 DEF StreamOf
      <3>6. \A n \in Latest(k) + 1 + 1 .. emitted : EventFrame(n) # Head(Way(k))
        BY <1>t, <2>2, <2>6, FrameFacts
      <3>7. link'[k] = "up" /\ k \in clients' =>
              \A n \in Latest(k)' + 1 .. emitted' : Contains(Way(k)', EventFrame(n))
        <4> SUFFICES ASSUME link[k] = "up", k \in clients, NEW n \in Latest(k) + 1 + 1 .. emitted
                     PROVE  Contains(Way(k)', EventFrame(n))
          BY <2>1, <3>3
        <4>1. n \in Latest(k) + 1 .. emitted
          BY <1>t
        <4>2. Contains(Way(k), EventFrame(n))
          BY <4>1 DEF StreamOf
        <4> QED BY <2>5, <3>6, <4>2
      <3>8. GaplessAfter(Way(k), Latest(k))'
        BY <2>2, <2>6, <3>3 DEF GaplessAfter
      <3>9. ConsecutiveFrom(received[k], since[k])'
        BY <2>1, <3>4 DEF ConsecutiveFrom
      <3> QED BY <2>1, <2>4, <3>3, <3>5, <3>7, <3>8, <3>9 DEF StreamOf
    <2>7. CASE ~IsUpdate(Head(Way(k)))
      <3>1. received'[k] = received[k] /\ Latest(k)' = Latest(k)
        BY <1>4, <2>1, <2>7 DEF Taken, Latest
      <3>2. \A n : EventFrame(n) # Head(Way(k))
        BY <2>7, FrameFacts DEF IsUpdate
      <3>3. link'[k] = "up" /\ k \in clients' =>
              \A n \in Latest(k)' + 1 .. emitted' : Contains(Way(k)', EventFrame(n))
        BY <2>1, <2>5, <3>1, <3>2 DEF StreamOf
      <3>4. GaplessAfter(Way(k), Latest(k))'
        BY <2>2, <2>7, <3>1 DEF GaplessAfter
      <3>5. ConsecutiveFrom(received[k], since[k])' /\ Latest(k)' <= emitted'
        BY <2>1, <3>1 DEF StreamOf, ConsecutiveFrom
      <3> QED BY <2>4, <3>3, <3>4, <3>5 DEF StreamOf
    <2> QED BY <2>6, <2>7
  <1>5. CASE Fresh(k)
    <2>1. /\ Way(k)' = <<StatusFrame(status)>> /\ received'[k] = <<>> /\ since'[k] = emitted
          /\ emitted' = emitted
      BY <1>5 DEF Fresh
    <2>2. Latest(k)' = emitted
      BY <1>t, <2>1 DEF Latest
    <2>3. Len(Way(k)') = 1 /\ Way(k)'[1] = StatusFrame(status) /\ ~IsUpdate(StatusFrame(status))
      BY <2>1, FrameFacts DEF IsUpdate
    <2>4. \A i \in DOMAIN Way(k)' : ~IsUpdate(Way(k)'[i])
      BY <1>u, <2>3
    <2>5. GaplessAfter(Way(k), Latest(k))'
      BY <2>4 DEF GaplessAfter
    <2>6. ConsecutiveFrom(received[k], since[k])'
      BY <2>1 DEF ConsecutiveFrom
    <2>7. Latest(k)' + 1 .. emitted' = {}
      BY <1>t, <2>1, <2>2
    <2> QED BY <1>t, <2>1, <2>2, <2>4, <2>5, <2>6, <2>7 DEF StreamOf
  <1> QED BY <1>1, <1>2, <1>3, <1>4, <1>5, EveryWayStep DEF WayStep

\* What a tab receives over a connection is a run of consecutive updates from its
\* registration on, and what is on its way continues it up to the latest, as long
\* as the link is up and the hub has not dropped the queue.
THEOREM StreamIsGapless == Spec => []StreamHasNoGap
  <1> DEFINE Streams == \A k \in Conns : StreamOf(k)
  <1>1. Init => TypeInv /\ Streams
    BY InitTypes, InitStream
  <1>2. TypeInv /\ Streams /\ [Next]_vars => (TypeInv /\ Streams)'
    BY StepTypes, StepStream
  <1>3. Streams => StreamHasNoGap
    BY StreamOfAll
  <1> HIDE DEF Streams
  <1> QED BY <1>1, <1>2, <1>3, PTL DEF Spec

-----------------------------------------------------------------------------
\* The banner.

\* Every status frame on its way to a client carries the status the hub has.
StatusOf(k) ==
    k \in clients =>
        \A i \in DOMAIN Way(k) : IsUpdate(Way(k)[i]) \/ Way(k)[i] = StatusFrame(status)

\* A tab shows that status, or it is still on its way.
BannerOf(t) ==
    tab[t] = "open" /\ link[socket[t]] = "up" /\ socket[t] \in clients =>
        \/ banner[t] = status
        \/ \E i \in DOMAIN Way(socket[t]) : Way(socket[t])[i] = StatusFrame(status)

\* As long as a client is registered the status does not change.
LEMMA StatusStays ==
  ASSUME TypeInv, [Next]_vars, NEW k \in Conns, k \in clients'
  PROVE  UNCHANGED status
  <1>1. ~Start
    <2> SUFFICES ASSUME Start PROVE FALSE
      OBVIOUS
    <2>1. clients = {}
      BY DEF Start, TypeInv, RegisteredHandlersRun
    <2> QED BY <2>1 DEF Start, SetStatus, Emit
  <1>2. ~Restart
    BY DEF Restart, TypeInv, RegisteredHandlersRun
  <1> QED BY <1>1, <1>2 DEF Next, GatewayEmits, Crash, GetFrame, SendFrame, SendFails, CutLink,
             Receive, NoticeCut, DialFails, Redial, Accept, vars, serverVars

LEMMA StepStatus ==
  ASSUME TypeInv, [Next]_vars, NEW k \in Conns, StatusOf(k)
  PROVE  StatusOf(k)'
  <1> SUFFICES ASSUME k \in clients'
               PROVE  \A i \in DOMAIN Way(k)' :
                          IsUpdate(Way(k)'[i]) \/ Way(k)'[i] = StatusFrame(status)
    BY StatusStays DEF StatusOf
  <1>0. StreamsTyped'
    BY StepTypes, AllStreamsTyped, PTL
  <1>t. /\ Way(k) \in Seq(Frames) /\ Len(Way(k)) \in Nat /\ DOMAIN Way(k) = 1 .. Len(Way(k))
        /\ DOMAIN Way(k)' = 1 .. Len(Way(k)')
        /\ Len(Way(k)') \in Nat
    BY <1>0, StreamTypes DEF StreamsTyped
  <1>1. CASE Kept(k) /\ Quiet(k)
    BY <1>1 DEF Kept, Quiet, StatusOf
  <1>2. CASE Cut(k)
    <2>1. \A i \in 1 .. Len(Way(k)') : i \in DOMAIN Way(k) /\ Way(k)'[i] = Way(k)[i]
      BY <1>t, <1>2 DEF Cut
    <2> QED BY <1>t, <1>2, <2>1 DEF Cut, StatusOf
  <1>3. CASE Added(k)
    <2>1. \A i \in DOMAIN Way(k)' :
            \/ i \in DOMAIN Way(k) /\ Way(k)'[i] = Way(k)[i]
            \/ Way(k)'[i] = EventFrame(emitted')
      BY <1>t, <1>3 DEF Added
    <2> QED BY <1>3, <2>1, FrameFacts DEF Added, StatusOf, IsUpdate
  <1>4. CASE Taken(k) /\ Quiet(k)
    <2>1. \A i \in DOMAIN Way(k)' : i + 1 \in DOMAIN Way(k) /\ Way(k)'[i] = Way(k)[i + 1]
      BY <1>t, <1>4, HeadTailProperties DEF Taken
    <2> QED BY <1>4, <2>1 DEF Quiet, StatusOf
  <1>5. CASE Fresh(k)
    BY <1>t, <1>5 DEF Fresh
  <1> QED BY <1>1, <1>2, <1>3, <1>4, <1>5, EveryWayStep DEF WayStep

LEMMA StepBanner ==
  ASSUME TypeInv, [Next]_vars, NEW t \in Tabs, BannerOf(t), \A k \in Conns : StatusOf(k)
  PROVE  BannerOf(t)'
  <1> SUFFICES ASSUME tab'[t] = "open", NEW k, k = socket'[t], link'[k] = "up", k \in clients'
               PROVE  \/ banner'[t] = status'
                      \/ \E i \in DOMAIN Way(k)' : Way(k)'[i] = StatusFrame(status')
    BY DEF BannerOf
  <1>0. TypeInv' /\ StreamsTyped'
    BY StepTypes, AllStreamsTyped, PTL
  <1>k. k \in Conns
    BY <1>0 DEF TypeInv, TabsAndSockets
  <1>t. /\ Way(k) \in Seq(Frames) /\ Len(Way(k)) \in Nat /\ DOMAIN Way(k) = 1 .. Len(Way(k))
        /\ DOMAIN Way(k)' = 1 .. Len(Way(k)')
        /\ Len(Way(k)') \in Nat
    BY <1>0, <1>k, StreamTypes DEF StreamsTyped
  <1>s. status' = status
    BY <1>k, StatusStays
  <1>1. ASSUME NEW u \in Tabs, NEW j \in Conns, Accept(u, j), u = t
        PROVE  \E i \in DOMAIN Way(k)' : Way(k)'[i] = StatusFrame(status')
    <2>1. j = k /\ outgoing'[k] = StatusFrame(status) /\ handler'[k] = "sending"
          /\ UNCHANGED <<wire, queue>> /\ link[k] = "unused"
      BY <1>1 DEF Accept, TypeInv, TypeOK
    <2>2. wire'[k] = <<>> /\ queue'[k] = <<>>
      BY <1>k, <2>1 DEF TypeInv, HandlersAndLinks
    <2>3. Way(k)' = (<<>> \o <<StatusFrame(status)>>) \o <<>>
      BY <2>1, <2>2 DEF Way, Sending
    <2>4. Way(k)' = <<StatusFrame(status)>>
      <3>1. <<StatusFrame(status)>> \in Seq(Frames)
        BY FrameFacts DEF TypeInv, TypeOK
      <3> QED BY <2>3, <3>1, ConcatEmptySeq
    <2> QED BY <1>t, <1>s, <2>4
  <1>2. CASE Receive(t)
    <2>1. /\ k = socket[t] /\ tab[t] = "open" /\ UNCHANGED <<link, clients>>
          /\ Taken(k) /\ Head(Way(k)) = Head(wire[k])
      BY <1>k, <1>2, ReceiveStep DEF Receive, serverVars
    <2>2. /\ Len(Way(k)) \in Nat \ {0} /\ Head(Way(k)) = Way(k)[1] /\ 1 \in DOMAIN Way(k)
          /\ Len(Way(k)') = Len(Way(k)) - 1
          /\ \A i \in 1 .. Len(Way(k)) - 1 : Way(k)'[i] = Way(k)[i + 1]
      BY <1>t, <2>1, HeadTailProperties, EmptySeq DEF Taken
    <2>3. \/ Head(Way(k)).event = "onConnectionChange" /\ banner'[t] = Head(Way(k)).status
          \/ IsUpdate(Head(Way(k))) /\ banner'[t] = banner[t]
      BY <1>2, <2>1 DEF Receive, IsUpdate, TypeInv, TypeOK
    <2>4. IsUpdate(Head(Way(k))) \/ Head(Way(k)) = StatusFrame(status)
      BY <1>k, <2>1, <2>2 DEF StatusOf
    <2>5. CASE Head(Way(k)).event = "onConnectionChange" /\ banner'[t] = Head(Way(k)).status
      BY <1>s, <2>4, <2>5, FrameFacts DEF IsUpdate
    <2>6. CASE IsUpdate(Head(Way(k))) /\ banner'[t] = banner[t]
      <3>1. CASE banner[t] = status
        BY <1>s, <2>6, <3>1
      <3>2. CASE \E i \in DOMAIN Way(k) : Way(k)[i] = StatusFrame(status)
        <4>1. PICK i \in DOMAIN Way(k) : Way(k)[i] = StatusFrame(status)
          BY <3>2
        <4>2. i # 1
          BY <2>2, <2>6, <4>1, FrameFacts DEF IsUpdate
        <4>3. i - 1 \in DOMAIN Way(k)' /\ i - 1 \in 1 .. Len(Way(k)) - 1 /\ (i - 1) + 1 = i
          BY <1>t, <2>2, <4>1, <4>2
        <4>4. Way(k)'[i - 1] = Way(k)[i]
          BY <2>2, <4>3
        <4> QED BY <1>s, <4>1, <4>3, <4>4
      <3> QED BY <2>1, <3>1, <3>2 DEF BannerOf
    <2> QED BY <2>3, <2>5, <2>6
  <1>3. CASE ~Receive(t) /\ ~\E j \in Conns : Accept(t, j)
    <2>1. tab[t] = "open" /\ socket[t] = k /\ banner'[t] = banner[t]
      <3> USE DEF TypeInv, TypeOK
      <3>1. ASSUME NEW u \in Tabs, NEW j \in Conns, Accept(u, j)
            PROVE  tab[t] = "open" /\ socket[t] = k /\ banner'[t] = banner[t]
        BY <1>3, <3>1 DEF Accept
      <3>2. ASSUME NEW u \in Tabs, Receive(u)
            PROVE  tab[t] = "open" /\ socket[t] = k /\ banner'[t] = banner[t]
        BY <1>3, <3>2 DEF Receive
      <3>3. ASSUME NEW u \in Tabs, NoticeCut(u) \/ DialFails(u)
            PROVE  tab[t] = "open" /\ socket[t] = k /\ banner'[t] = banner[t]
        BY <3>3 DEF NoticeCut, DialFails, ScheduleRetry
      <3>4. ASSUME NEW u \in Tabs, Redial(u)
            PROVE  tab[t] = "open" /\ socket[t] = k /\ banner'[t] = banner[t]
        BY <3>4 DEF Redial
      <3>5. CASE UNCHANGED tabVars
        BY <3>5 DEF tabVars
      <3> QED BY <3>1, <3>2, <3>3, <3>4, <3>5
              DEF Next, GatewayEmits, Start, Restart, Crash, GetFrame, SendFrame, SendFails,
                  CutLink, vars
    <2>2. link[k] # "unused"
      BY <1>k, <2>1 DEF TypeInv, TabsAndSockets
    <2>3. CASE Kept(k) /\ Quiet(k)
      BY <1>s, <2>1, <2>3 DEF Kept, Quiet, BannerOf
    <2>4. CASE Added(k)
      <3>1. \A i \in DOMAIN Way(k) : i \in DOMAIN Way(k)' /\ Way(k)'[i] = Way(k)[i]
        BY <1>t, <2>4 DEF Added
      <3> QED BY <1>s, <2>1, <2>4, <3>1 DEF Added, BannerOf
    <2>5. CASE Taken(k)
      <3>1. PICK u \in Tabs : Receive(u) /\ socket[u] = k
        BY <2>5 DEF Taken
      <3>2. u = t
        BY <1>k, <2>1, <3>1, NoConnIsNone DEF TypeInv, TabsAndSockets
      <3> QED BY <1>3, <3>1, <3>2
    <2> QED BY <1>k, <2>2, <2>3, <2>4, <2>5, EveryWayStep DEF WayStep, Cut, Fresh
  <1> QED BY <1>1, <1>2, <1>3

\* A tab on a live connection with nothing left to read shows the status the hub
\* has, whatever it showed before it reconnected.
THEOREM BannersAreCurrent == Spec => []BannerIsCurrent
  <1> DEFINE Banners == (\A k \in Conns : StatusOf(k)) /\ (\A t \in Tabs : BannerOf(t))
  <1>1. Init => TypeInv /\ Banners
    BY InitTypes DEF Init, StatusOf, BannerOf
  <1>2. TypeInv /\ Banners /\ [Next]_vars => (TypeInv /\ Banners)'
    BY StepTypes, StepStatus, StepBanner
  <1>3. TypeInv /\ Banners => BannerIsCurrent
    <2> SUFFICES ASSUME TypeInv, NEW t \in Tabs, BannerOf(t), NEW k \in Conns, k = socket[t],
                        tab[t] = "open", link[k] = "up", handler[k] = "getting",
                        queue[k] = <<>>, wire[k] = <<>>, k \in clients
                 PROVE  banner[t] = status
      BY DEF BannerIsCurrent, TypeInv, TabsAndSockets
    <2>1. Way(k) = (<<>> \o <<>>) \o <<>>
      BY DEF Way, Sending
    <2>2. Way(k) = <<>>
      BY <2>1, ConcatEmptySeq, EmptySeq
    <2> QED BY <2>2 DEF BannerOf
  <1> HIDE DEF Banners
  <1> QED BY <1>1, <1>2, <1>3, PTL DEF Spec

=============================================================================
