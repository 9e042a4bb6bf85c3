------------------------------ MODULE Timeline ------------------------------
(***************************************************************************)
(* How a message of Telegram becomes a bubble of the open chat, and stops  *)
(* being one.  Three parties run at once:                                  *)
(*   - Telethon's update handlers (telethon_gw.py _register_handlers), one *)
(*     task per update, which await the database and Telegram in between   *)
(*     and end with a frame on the tab's websocket;                        *)
(*   - the RPCs of the tab (get_messages, send_message, edit_message,      *)
(*     delete_message, clear_history), whose answers travel over HTTP;     *)
(*   - the tab itself (Messenger.dc.html, api.js), which keeps one list of *)
(*     bubbles, whatever chat is open, and finds them by the message's id. *)
(*                                                                         *)
(* Message n of chat c is <<c, n>>; its id in the tab is "m<n>" whatever   *)
(* the chat (ids.msg_cid), as every channel numbers its own messages.      *)
(* The websocket is in order and loses nothing while it lasts: UpdateHub   *)
(* shows when.  Chats come and go as in ChatLifecycle; here a command is   *)
(* there for what it does to the messages.                                 *)
(***************************************************************************)
EXTENDS Naturals, Sequences, FiniteSets, SequencesExt

CONSTANTS Chats,
          None,      \* no chat is open
          Slots,     \* RPCs of the tab that may be under way at once
          MaxPosts,  \* bound: messages of a chat
          MaxNow,    \* bound: the clock, in seconds
          MaxMoves   \* bound: RPCs the tab makes, and posts, edits and deletions
                     \* in Telegram

ASSUME BoundsAreNaturals == {MaxNow, MaxMoves} \subseteq Nat /\ MaxPosts \in Nat \ {0}
ASSUME NoneIsNoChat == None \notin Chats
ASSUME ChatsAreFinite == IsFiniteSet(Chats)

VARIABLES log,       \* Telegram: the messages of each chat
          now,       \* the clock of all parties
          enabled,   \* enabled_chats.enabled
          hide,      \* enabled_chats.hide_before: the first second not hidden
          filtered,  \* filtered_msgs
          tasks,     \* the update handlers that run
          rpc,       \* the RPC in each slot
          wire,      \* frames emitted and not yet handled by the tab
          active,    \* the open chat: state.activeId
          msgs,      \* the bubbles: state.msgs
          echoes,    \* ownEchoes: the messages this tab has sent; api.js knows the ids
          asks,      \* how many RPCs the tab made
          calm,      \* history: since the open chat was loaded with nothing else
                     \* under way, did each thing wait for the one before
          strayed    \* history: did an answer or a frame for another chat touch
                     \* the bubbles since they were last loaded

telegram == <<log, now>>
tables == <<enabled, hide, filtered>>
tab == <<active, msgs, echoes>>
history == <<calm, strayed>>
vars == <<telegram, tables, tasks, rpc, wire, tab, asks, history>>

Kinds == {"text", "addweb", "delweb"}
Message == [kind : Kinds, date : 0 .. MaxNow, ver : 0 .. MaxMoves, gone : BOOLEAN]
Bubble == [chat : Chats, n : 1 .. MaxPosts, ver : 0 .. MaxMoves]
Task(k, c, n, v, a) == [kind |-> k, chat |-> c, n |-> n, ver |-> v, at |-> a]
Updates == [kind : {"new", "command", "edit", "delete"}, chat : Chats, n : 1 .. MaxPosts,
            ver : 0 .. MaxMoves, at : {"filter", "row", "emit"}]
Frames == [event : {"new", "edited", "deleted", "removed"}, chat : Chats,
           n : 1 .. MaxPosts, ver : 0 .. MaxMoves]
Ops == {"load", "send", "edit", "delete", "clear"}
Idle == [op |-> "none", chat |-> None, n |-> 0, ver |-> 0, at |-> "idle",
         hide |-> 0, list |-> <<>>]
Calls == [op : Ops, chat : Chats, n : 0 .. MaxPosts, ver : 0 .. MaxMoves,
          at : {"asked", "checked", "called", "ok", "failed"},
          hide : 0 .. MaxNow + 1, list : Seq(Bubble)]

Still == tasks = {} /\ wire = <<>> /\ \A s \in Slots : rpc[s] = Idle
Known == {m \in Chats \X (1 .. MaxPosts) : m[2] \in DOMAIN log[m[1]]}
Edits == {e \in Known \X (1 .. MaxMoves) : e[2] <= log[e[1][1]][e[1][2]].ver}

TypeOK ==
    /\ log \in [Chats -> Seq(Message)]
    /\ now \in 0 .. MaxNow
    /\ enabled \in [Chats -> BOOLEAN]
    /\ hide \in [Chats -> 0 .. MaxNow + 1]
    /\ filtered \subseteq Chats \X (1 .. MaxPosts)
    /\ tasks \subseteq Updates
    /\ rpc \in [Slots -> {Idle} \cup Calls]
    /\ wire \in Seq(Frames)
    /\ active \in Chats \cup {None}
    /\ msgs \in Seq(Bubble)
    /\ echoes \subseteq Chats \X (1 .. MaxPosts)
    /\ asks \in 0 .. MaxMoves
    /\ calm \in BOOLEAN /\ strayed \in BOOLEAN

BubbleOf(c, n) == [chat |-> c, n |-> n, ver |-> log[c][n].ver]

\* What a filter leaves of a list: the entries at these places, in their order.
Only(seq, places) ==
    LET kept[n \in 0 .. Len(seq)] ==
            IF n = 0 THEN <<>>
            ELSE IF n \in places THEN Append(kept[n - 1], seq[n]) ELSE kept[n - 1]
    IN  kept[Len(seq)]

\* What getMessages returns of chat c for a watermark and the filtered messages.
History(c) == Only([n \in DOMAIN log[c] |-> BubbleOf(c, n)],
                   {n \in DOMAIN log[c] : ~log[c][n].gone})
Passes(b, h) == /\ <<b.chat, b.n>> \notin filtered
                /\ log[b.chat][b.n].date >= h
Passing(bubbles, h) == Only(bubbles, {i \in DOMAIN bubbles : Passes(bubbles[i], h)})
Visible(c) == Passing(History(c), hide[c])

\* Every chat has one message, and the tab has just loaded one of them.
Init ==
    /\ log = [c \in Chats |-> <<[kind |-> "text", date |-> 0, ver |-> 0, gone |-> FALSE]>>]
    /\ now = 0
    /\ enabled = [c \in Chats |-> TRUE]
    /\ hide = [c \in Chats |-> 0]
    /\ filtered = {}
    /\ tasks = {}
    /\ rpc = [s \in Slots |-> Idle]
    /\ wire = <<>>
    /\ active \in Chats
    /\ msgs = Visible(active)
    /\ echoes = {}
    /\ asks = 0
    /\ calm = TRUE
    /\ strayed = FALSE

-----------------------------------------------------------------------------
(* Telegram: what others, and this account's other devices, do. *)

\* The handlers of a new message.  _maybe_command returns at once for a text, and
\* _on_new_message for a command, so that one of them is left.
HandlersOf(c, n, k) ==
    {Task(IF k = "text" THEN "new" ELSE "command", c, n, 0, "filter")}

PostTo(c, k) == log' = [log EXCEPT ![c] =
                          Append(@, [kind |-> k, date |-> now, ver |-> 0, gone |-> FALSE])]
EditIn(c, n) == log' = [log EXCEPT ![c][n].ver = @ + 1]
DeleteIn(c, n) == log' = [log EXCEPT ![c][n].gone = TRUE]

Changes == Cardinality(Edits) + Cardinality({m \in Known : m[2] > 1})
                              + Cardinality({m \in Known : log[m[1]][m[2]].gone})

Present(c, n) == <<c, n>> \in Known /\ ~log[c][n].gone
CanPost(c) == Len(log[c]) < MaxPosts /\ asks + Changes < MaxMoves
CanEdit(c, n) == /\ Present(c, n)
                 /\ log[c][n].kind = "text"
                 /\ asks + Changes < MaxMoves

\* Something starts: the list stays calm if nothing else was under way.
Begin == calm' = (calm /\ Still)

Posted(c, k) ==
    /\ CanPost(c)
    /\ PostTo(c, k)
    /\ tasks' = tasks \cup HandlersOf(c, Len(log[c]) + 1, k)
    /\ Begin
    /\ UNCHANGED <<now, tables, rpc, wire, tab, asks, strayed>>

Edited(c, n) ==
    /\ CanEdit(c, n)
    /\ EditIn(c, n)
    /\ tasks' = tasks \cup {Task("edit", c, n, log[c][n].ver + 1, "row")}
    /\ Begin
    /\ UNCHANGED <<now, tables, rpc, wire, tab, asks, strayed>>

Deleted(c, n) ==
    /\ Present(c, n) /\ asks + Changes < MaxMoves
    /\ DeleteIn(c, n)
    /\ tasks' = tasks \cup {Task("delete", c, n, 0, "row")}
    /\ Begin
    /\ UNCHANGED <<now, tables, rpc, wire, tab, asks, strayed>>

Tick ==
    /\ now < MaxNow
    /\ now' = now + 1
    /\ UNCHANGED <<log, tables, tasks, rpc, wire, tab, asks, history>>

-----------------------------------------------------------------------------
(* The update handlers.  Each action is one of their database reads or writes *)
(* with the code up to the next one; Emit comes after the awaits of           *)
(* _message_shape.                                                            *)

Goto(t, a) == tasks' = (tasks \ {t}) \cup {[t EXCEPT !.at = a]}
Return(t) == tasks' = tasks \ {t}
Send(f) == wire' = Append(wire, f)
Frame(e, t) == [event |-> e, chat |-> t.chat, n |-> t.n, ver |-> t.ver]

\* _is_filtered of _on_new and _on_edit; _maybe_command records the command.
Filter(t) ==
    /\ t.at = "filter"
    /\ \/ /\ t.kind = "command"
          /\ filtered' = filtered \cup {<<t.chat, t.n>>}
          /\ Goto(t, "row")
       \/ /\ t.kind # "command"
          /\ IF <<t.chat, t.n>> \in filtered THEN Return(t)
             ELSE Goto(t, IF t.kind = "new" THEN "row" ELSE "emit")
          /\ UNCHANGED filtered
    /\ UNCHANGED <<telegram, enabled, hide, rpc, wire, tab, asks, history>>

\* A faulty variant: only getMessages knows the watermark.
RowWithoutWatermark(t) ==
    /\ t.kind = "new" /\ t.at = "row"
    /\ IF enabled[t.chat] THEN Goto(t, "emit") ELSE Return(t)
    /\ UNCHANGED <<telegram, tables, rpc, wire, tab, asks, history>>

\* The row of _on_new_message, with its watermark.
RowOfNew(t) ==
    /\ t.kind = "new" /\ t.at = "row"
    /\ IF enabled[t.chat] /\ log[t.chat][t.n].date >= hide[t.chat]
       THEN Goto(t, "emit") ELSE Return(t)
    /\ UNCHANGED <<telegram, tables, rpc, wire, tab, asks, history>>

RowOfEdit(t) ==
    /\ t.kind = "edit" /\ t.at = "row"
    /\ IF enabled[t.chat] THEN Goto(t, "filter") ELSE Return(t)
    /\ UNCHANGED <<telegram, tables, rpc, wire, tab, asks, history>>

\* _on_delete awaits the row and nothing after it.
RowOfDelete(t) ==
    /\ t.kind = "delete" /\ t.at = "row"
    /\ IF enabled[t.chat] THEN Send(Frame("deleted", t)) ELSE UNCHANGED wire
    /\ Return(t)
    /\ UNCHANGED <<telegram, tables, rpc, tab, asks, history>>

\* The command sets the row: every chat here has one.  Of .addweb's statements
\* only the one that enables is left, of .delweb's the one that disables.
RowOfCommand(t) ==
    /\ t.kind = "command" /\ t.at = "row"
    /\ enabled' = [enabled EXCEPT ![t.chat] = log[t.chat][t.n].kind = "addweb"]
    /\ IF log[t.chat][t.n].kind = "delweb" THEN Goto(t, "emit") ELSE Return(t)
    /\ UNCHANGED <<telegram, hide, filtered, rpc, wire, tab, asks, history>>

Emit(t) ==
    /\ t.at = "emit"
    /\ Send(Frame(CASE t.kind = "new"     -> "new"
                    [] t.kind = "edit"    -> "edited"
                    [] t.kind = "command" -> "removed", t))
    /\ Return(t)
    /\ UNCHANGED <<telegram, tables, rpc, tab, asks, history>>

Handle(t) ==
    \/ Filter(t) \/ RowOfNew(t) \/ RowOfEdit(t) \/ RowOfDelete(t)
    \/ RowOfCommand(t) \/ Emit(t)

-----------------------------------------------------------------------------
(* The RPCs: what the user does, the gateway's steps, the answer in the tab. *)

Ask(s, op, c, n) ==
    /\ rpc[s] = Idle
    /\ asks + Changes < MaxMoves
    /\ asks' = asks + 1
    /\ rpc' = [rpc EXCEPT ![s] = [Idle EXCEPT !.op = op, !.chat = c, !.n = n, !.at = "asked"]]

\* A faulty variant: the bubbles stay until the answer replaces them.
OpenChatOverBubbles(s, c) ==
    /\ Ask(s, "load", c, 0)
    /\ active' = c
    /\ calm' = Still
    /\ strayed' = FALSE
    /\ UNCHANGED <<telegram, tables, tasks, wire, msgs, echoes>>

\* openChat: the bubbles go at once.  A load that starts alone restores calm.
OpenChat(s, c) ==
    /\ Ask(s, "load", c, 0)
    /\ active' = c
    /\ msgs' = <<>>
    /\ calm' = Still
    /\ strayed' = FALSE
    /\ UNCHANGED <<telegram, tables, tasks, wire, echoes>>

\* loadMessages of the open chat: the retry button, and after pinning.
Reload(s) ==
    /\ active # None
    /\ Ask(s, "load", active, 0)
    /\ calm' = Still
    /\ UNCHANGED <<telegram, tables, tasks, wire, tab, strayed>>

\* send() with an empty or a running edit, the menu's delete, and clear of a chat.
AskChange(s) ==
    /\ active # None
    /\ \/ Ask(s, "send", active, 0)
       \/ \E i \in DOMAIN msgs : \E op \in {"edit", "delete"} : Ask(s, op, active, msgs[i].n)
       \/ \E c \in Chats : Ask(s, "clear", c, 0)
    /\ Begin
    /\ UNCHANGED <<telegram, tables, tasks, wire, tab, strayed>>

Step(s, from, r) == rpc[s].at = from /\ rpc' = [rpc EXCEPT ![s] = r]
To(s, a) == [rpc[s] EXCEPT !.at = a]

\* The endpoint refuses: the rate limit, the session, an unreachable bridge.
Refuse(s) ==
    /\ Step(s, "asked", To(s, "failed"))
    /\ UNCHANGED <<telegram, tables, tasks, wire, tab, asks, history>>

\* The RPC was carried out, but the tab never learns: NETWORK_ERROR.
LoseAnswer(s) ==
    /\ Step(s, "ok", To(s, "failed"))
    /\ calm' = FALSE
    /\ UNCHANGED <<telegram, tables, tasks, wire, tab, asks, strayed>>

\* _enabled_row, before anything else of the handler.
CheckRow(s) ==
    /\ Step(s, "asked", IF enabled[rpc[s].chat]
                        THEN [To(s, "checked") EXCEPT !.hide = hide[rpc[s].chat]]
                        ELSE To(s, "failed"))
    /\ UNCHANGED <<telegram, tables, tasks, wire, tab, asks, history>>

\* Telegram answers get_messages.  The other RPCs have done all they change when
\* their call returns, so that for them "ok" stands for the rest of the handler
\* and for the answer's way to the tab.
Snapshot(s) ==
    /\ rpc[s].op = "load"
    /\ Step(s, "checked", [To(s, "called") EXCEPT !.list = History(rpc[s].chat)])
    /\ UNCHANGED <<telegram, tables, tasks, wire, tab, asks, history>>

\* Telethon may or may not hand the gateway an update for its own request.
MaybeUpdate(ts) == tasks' \in {tasks, tasks \cup ts}

PostMine(s) ==
    LET c == rpc[s].chat IN
    /\ rpc[s].op = "send" /\ CanPost(c)
    /\ PostTo(c, "text")
    /\ MaybeUpdate(HandlersOf(c, Len(log[c]) + 1, "text"))
    /\ Step(s, "checked", [To(s, "ok") EXCEPT !.n = Len(log[c]) + 1])
    /\ UNCHANGED <<now, tables, wire, tab, asks, history>>

EditMine(s) ==
    LET c == rpc[s].chat
        n == rpc[s].n IN
    /\ rpc[s].op = "edit" /\ CanEdit(c, n)
    /\ EditIn(c, n)
    /\ MaybeUpdate({Task("edit", c, n, log[c][n].ver + 1, "row")})
    /\ Step(s, "checked", [To(s, "ok") EXCEPT !.ver = log[c][n].ver + 1])
    /\ UNCHANGED <<now, tables, wire, tab, asks, history>>

\* Telegram answers the deletion of what is gone, or never was, in the same way.
DeleteMine(s) ==
    LET c == rpc[s].chat
        n == rpc[s].n IN
    /\ rpc[s].op = "delete"
    /\ IF Present(c, n)
       THEN /\ asks + Changes < MaxMoves
            /\ DeleteIn(c, n)
            /\ MaybeUpdate({Task("delete", c, n, 0, "row")})
       ELSE UNCHANGED <<log, tasks>>
    /\ Step(s, "checked", To(s, "ok"))
    /\ UNCHANGED <<now, tables, wire, tab, asks, history>>

\* A faulty variant: the watermark keeps its unit and is compared with the date's.
HideMilliseconds(s) ==
    /\ rpc[s].op = "clear"
    /\ hide' = [hide EXCEPT ![rpc[s].chat] = 1000 * (now + 1)]
    /\ Step(s, "checked", To(s, "ok"))
    /\ UNCHANGED <<telegram, enabled, filtered, tasks, wire, tab, asks, history>>

\* clear_history: the watermark is the time in milliseconds, and the date of a
\* message whole seconds, so all of the running second is hidden, posts to come
\* included.  (Not if the call falls into that second's first millisecond.)
HideHistory(s) ==
    /\ rpc[s].op = "clear"
    /\ hide' = [hide EXCEPT ![rpc[s].chat] = now + 1]
    /\ Step(s, "checked", To(s, "ok"))
    /\ UNCHANGED <<telegram, enabled, filtered, tasks, wire, tab, asks, history>>

\* The call to Telegram fails, and nothing has changed there.
CallFails(s) ==
    /\ rpc[s].op # "clear"
    /\ Step(s, "checked", To(s, "failed"))
    /\ UNCHANGED <<telegram, tables, tasks, wire, tab, asks, history>>

\* get_messages looks up each message among the filtered ones only now, and
\* compares its date with the watermark it read first.
Answer(s) ==
    /\ Step(s, "called", [To(s, "ok") EXCEPT !.list = Passing(@, rpc[s].hide)])
    /\ UNCHANGED <<telegram, tables, tasks, wire, tab, asks, history>>

-----------------------------------------------------------------------------
(* The tab. *)

Patched(b) == [i \in DOMAIN msgs |-> IF msgs[i].n = b.n THEN b ELSE msgs[i]]
Without(n) == Only(msgs, {i \in DOMAIN msgs : msgs[i].n # n})
Free(s) == rpc' = [rpc EXCEPT ![s] = Idle]

\* Another chat's bubble has the id: what is meant for <<c, n>> meets it instead.
Crosses(c, n) == \E i \in DOMAIN msgs : msgs[i].n = n /\ msgs[i].chat # c
Sending(c, n) == \E s \in Slots : /\ rpc[s].op = "send" /\ rpc[s].at = "ok"
                                  /\ rpc[s].chat = c /\ rpc[s].n = n

\* Whatever chat is open by now, the answer becomes its list.
ShowLoad(s) ==
    /\ rpc[s].op = "load" /\ rpc[s].at = "ok"
    /\ Free(s)
    /\ msgs' = rpc[s].list
    /\ strayed' = (rpc[s].chat # active)
    /\ UNCHANGED <<telegram, tables, tasks, wire, active, echoes, asks, calm>>

\* A faulty variant: the tab does not note what it has painted.
ShowSendUnnoted(s) ==
    LET c == rpc[s].chat
        n == rpc[s].n IN
    /\ rpc[s].op = "send" /\ rpc[s].at = "ok"
    /\ Free(s)
    /\ msgs' = Append(msgs, [chat |-> c, n |-> n, ver |-> rpc[s].ver])
    /\ strayed' = (strayed \/ c # active)
    /\ calm' = (calm /\ log[c][n].date >= hide[c])
    /\ UNCHANGED <<telegram, tables, tasks, wire, active, echoes, asks>>

ShowSend(s) ==
    LET c == rpc[s].chat
        n == rpc[s].n IN
    /\ rpc[s].op = "send" /\ rpc[s].at = "ok"
    /\ Free(s)
    /\ echoes' = echoes \cup {<<c, n>>}
    /\ msgs' = Append(msgs, [chat |-> c, n |-> n, ver |-> rpc[s].ver])
    /\ strayed' = (strayed \/ c # active)
    /\ calm' = (calm /\ log[c][n].date >= hide[c])
    /\ UNCHANGED <<telegram, tables, tasks, wire, active, asks>>

ShowEdit(s) ==
    LET b == [chat |-> rpc[s].chat, n |-> rpc[s].n, ver |-> rpc[s].ver] IN
    /\ rpc[s].op = "edit" /\ rpc[s].at = "ok"
    /\ Free(s)
    /\ msgs' = Patched(b)
    /\ strayed' = (strayed \/ Crosses(b.chat, b.n))
    /\ calm' = (calm /\ ~Crosses(b.chat, b.n))
    /\ UNCHANGED <<telegram, tables, tasks, wire, active, echoes, asks>>

\* msgAction does not look whether the deletion succeeded.
ShowDelete(s) ==
    /\ rpc[s].op = "delete" /\ rpc[s].at \in {"ok", "failed"}
    /\ Free(s)
    /\ msgs' = Without(rpc[s].n)
    /\ calm' = (calm /\ rpc[s].at = "ok" /\ ~Crosses(rpc[s].chat, rpc[s].n))
    /\ UNCHANGED <<telegram, tables, tasks, wire, active, echoes, asks, strayed>>

\* Nor does chatAction for the watermark.
ShowClear(s) ==
    /\ rpc[s].op = "clear" /\ rpc[s].at \in {"ok", "failed"}
    /\ Free(s)
    /\ msgs' = IF rpc[s].chat = active THEN <<>> ELSE msgs
    /\ calm' = (calm /\ rpc[s].at = "ok")
    /\ UNCHANGED <<telegram, tables, tasks, wire, active, echoes, asks, strayed>>

\* A failed load, send or edit leaves the bubbles as they are.
ShowFailure(s) ==
    /\ rpc[s].op \in {"load", "send", "edit"} /\ rpc[s].at = "failed"
    /\ Free(s)
    /\ calm' = (calm /\ rpc[s].op # "load")
    /\ UNCHANGED <<telegram, tables, tasks, wire, tab, asks, strayed>>

NextFrame(e) == wire # <<>> /\ Head(wire).event = e /\ wire' = Tail(wire)

\* api.js drops what it takes for its own echo; the tab appends to the open chat.
OnNewMessage ==
    LET c == Head(wire).chat
        n == Head(wire).n
        own == {d \in Chats : <<d, n>> \in echoes} IN
    /\ NextFrame("new")
    /\ msgs' = IF own = {} /\ c = active
               THEN Append(msgs, [chat |-> c, n |-> n, ver |-> Head(wire).ver]) ELSE msgs
    /\ calm' = (calm /\ own \subseteq {c} /\ ~Sending(c, n))
    /\ UNCHANGED <<telegram, tables, tasks, rpc, active, echoes, asks, strayed>>

OnMessageEdited ==
    LET b == [chat |-> Head(wire).chat, n |-> Head(wire).n, ver |-> Head(wire).ver] IN
    /\ NextFrame("edited")
    /\ msgs' = Patched(b)
    /\ strayed' = (strayed \/ Crosses(b.chat, b.n))
    /\ calm' = (calm /\ ~Crosses(b.chat, b.n))
    /\ UNCHANGED <<telegram, tables, tasks, rpc, active, echoes, asks>>

OnMessageDeleted ==
    /\ NextFrame("deleted")
    /\ msgs' = Without(Head(wire).n)
    /\ calm' = (calm /\ ~Crosses(Head(wire).chat, Head(wire).n))
    /\ UNCHANGED <<telegram, tables, tasks, rpc, active, echoes, asks, strayed>>

\* The bubbles of a chat that was removed stay until another one is opened.
OnChatRemoved ==
    /\ NextFrame("removed")
    /\ active' = IF active = Head(wire).chat THEN None ELSE active
    /\ UNCHANGED <<telegram, tables, tasks, rpc, msgs, echoes, asks, history>>

HandleFrame == OnNewMessage \/ OnMessageEdited \/ OnMessageDeleted \/ OnChatRemoved

\* What an RPC that was asked goes through.
Serve(s) ==
    \/ Refuse(s) \/ CheckRow(s) \/ Snapshot(s) \/ PostMine(s) \/ EditMine(s) \/ DeleteMine(s)
    \/ HideHistory(s) \/ CallFails(s) \/ Answer(s) \/ LoseAnswer(s)
    \/ ShowLoad(s) \/ ShowSend(s) \/ ShowEdit(s) \/ ShowDelete(s) \/ ShowClear(s)
    \/ ShowFailure(s)

Next ==
    \/ \E c \in Chats : \/ \E k \in Kinds : Posted(c, k)
                        \/ \E n \in 1 .. MaxPosts : Edited(c, n) \/ Deleted(c, n)
    \/ Tick
    \/ \E t \in tasks : Handle(t)
    \/ \E s \in Slots : \/ \E c \in Chats : OpenChat(s, c)
                        \/ Reload(s) \/ AskChange(s) \/ Serve(s)
    \/ HandleFrame

Spec == Init /\ [][Next]_vars

-----------------------------------------------------------------------------
Shown(c, n) == \E i \in DOMAIN msgs : msgs[i].chat = c /\ msgs[i].n = n

\* Where the bubbles end up when things wait for one another: if the open chat
\* was loaded with nothing else under way, and each post, edit, deletion, .addweb
\* and RPC since then began after the one before had reached the tab, then the
\* bubbles are what a reload would show, in its order and its versions; unless a
\* load or a deletion failed, an answer was lost, an id was another chat's as well,
\* an echo overtook the answer to its own sendMessage, or the tab sent within the
\* second of a clear.
CalmListIsExact ==
    calm /\ Still /\ active # None /\ enabled[active] => msgs = Visible(active)

\* Only an answer that came after the user had left its chat, or an edit in
\* another chat of a message with the same number, puts a bubble of one chat
\* among those of another: without them a deletion or an edit asked for at a
\* bubble is for that bubble's message.
OnlyStraysMixChats ==
    ~strayed /\ active # None => \A i \in DOMAIN msgs : msgs[i].chat = active

Out(c, n) == <<c, n>> \in filtered \/ log[c][n].date < hide[c]

\* Message <<c, n>> is in the bubbles, or on its way from before it was out.
Pending(c, n) ==
    \/ Shown(c, n)
    \/ Sending(c, n)
    \/ \E i \in DOMAIN wire : wire[i] = [event |-> "new", chat |-> c, n |-> n, ver |-> 0]
    \/ Task("new", c, n, 0, "emit") \in tasks
    \/ \E s \in Slots :
          /\ rpc[s].op = "load" /\ rpc[s].chat = c
          /\ \/ /\ rpc[s].at \in {"checked", "called"}
                /\ <<c, n>> \notin filtered /\ log[c][n].date >= rpc[s].hide
             \/ rpc[s].at = "ok" /\ \E i \in DOMAIN rpc[s].list : rpc[s].list[i].n = n

\* A message that is a recorded command, or older than the watermark, and that
\* nothing carries any more, is never carried or shown again, by any handler, load
\* or retry; but an edit puts it in the place of another chat's bubble of its number.
OutStaysOut ==
    [][\A c \in Chats, n \in 1 .. MaxPosts :
          <<c, n>> \in Known /\ Out(c, n) /\ ~Pending(c, n) /\ ~Crosses(c, n)
          => ~Pending(c, n)']_vars

\* "recorded in filtered_msgs before any handler fires and excluded from history"
\* (README.md 130): no answer of getMessages holds a command.
CommandNeverShown ==
    \A s \in Slots : \A i \in DOMAIN rpc[s].list :
        rpc[s].at = "ok" => log[rpc[s].chat][rpc[s].list[i].n].kind = "text"

=============================================================================
