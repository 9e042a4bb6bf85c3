--------------------------- MODULE ChatLifecycle ---------------------------
(***************************************************************************)
(* How a chat enters and leaves the web client: the .addweb and .delweb    *)
(* commands (telethon_gw.py _maybe_command), deleteChat and createChat     *)
(* (disable_chat, create_chat), the enabled_chats table they share, and    *)
(* the chat list of the browser tab, which follows onChatAdded and         *)
(* onChatRemoved and is replaced by every getChats (Messenger.dc.html).    *)
(*                                                                         *)
(* Telethon runs the handlers of different updates as separate tasks, and  *)
(* each RPC is a task of its own: every database statement and every       *)
(* Telegram call in between is a point where another task runs.  So each   *)
(* statement, with the code up to the next one, is one action.             *)
(***************************************************************************)
EXTENDS Naturals, Sequences, FiniteSets, SequencesExt

CONSTANTS Chats,
          Tasks,      \* the commands and calls made, used once each
          TaskKinds,  \* what the tasks may be
          MaxRefresh  \* bound: getChats calls the tab makes

ASSUME ChatsAreFinite == IsFiniteSet(Chats)

VARIABLES row,       \* enabled_chats: none, enabled or disabled, one row per chat
          step,      \* what task h does next
          kind,      \* what task h does: addweb, delweb, deleteChat, createGroup, openPrivate
          chat,      \* the chat task h is about, once it has started
          inbox,     \* events emitted and not yet handled by the tab
          list,      \* the chat list of the tab
          refresh,   \* the getChats under way: the rows each has read, and two pieces of
                     \* history: the chats whose events it crossed, and was it read while
                     \* nothing ran and has no task started since
          refreshes, \* how many getChats the tab made
          lost,      \* history: the chats that the last answer left out, until the tab
                     \* hears of them again
          loose      \* history: the chats with tasks that got in each other's way, or told
                     \* the tab nothing, or with an answer that crossed their events, since
                     \* the last quiet reload

vars == <<row, step, kind, chat, inbox, list, refresh, refreshes, lost, loose>>

Kinds == {"addweb", "delweb", "deleteChat", "createGroup", "openPrivate"}
ASSUME BoundsAreTyped == TaskKinds \subseteq Kinds /\ MaxRefresh \in Nat

Steps == {"unused", "check", "ensure", "update", "insert", "lookup", "announce",
          "disable", "announceRemoved", "done", "failed", "cut"}

Running(h) == step[h] \notin {"unused", "done", "failed", "cut"}
Busy(c) == \E h \in Tasks : chat[h] = c /\ Running(h)
Quiet == inbox = <<>> /\ \A h \in Tasks : ~Running(h)
Enabled == {c \in Chats : row[c] = "enabled"}
Listed(c) == {i \in DOMAIN list : list[i] = c}

\* createChat of a private chat enables the row and tells nobody.
Tells(h) == kind[h] # "openPrivate"

\* Task h has changed the row, and the event is still to come.
Telling(h) == step[h] = "announceRemoved" \/ (step[h] \in {"lookup", "announce"} /\ Tells(h))
Untold(c) == \/ \E i \in DOMAIN inbox : inbox[i].chat = c
             \/ \E h \in Tasks : chat[h] = c /\ Telling(h)

TypeOK ==
    /\ row \in [Chats -> {"none", "enabled", "disabled"}]
    /\ step \in [Tasks -> Steps]
    /\ kind \in [Tasks -> Kinds \cup {"none"}]
    /\ chat \in [Tasks -> Chats]
    /\ inbox \in Seq([event : {"added", "removed"}, chat : Chats])
    /\ list \in Seq(Chats)
    /\ refresh \in Seq([rows : SUBSET Chats, crossed : SUBSET Chats, quiet : BOOLEAN])
    /\ refreshes \in 0 .. MaxRefresh
    /\ lost \subseteq Chats
    /\ loose \subseteq Chats

\* The tab has just loaded its list from the table.
Init ==
    /\ row \in [Chats -> {"none", "enabled", "disabled"}]
    /\ step = [h \in Tasks |-> "unused"]
    /\ kind = [h \in Tasks |-> "none"]
    /\ chat \in [Tasks -> Chats]
    /\ inbox = <<>>
    /\ lost \in SUBSET Enabled
    /\ list = SetToSeq(Enabled \ lost)
    /\ refresh = <<>>
    /\ refreshes = 0
    /\ loose = {}

-----------------------------------------------------------------------------
Goto(h, s) == step' = [step EXCEPT ![h] = s]
tabVars == <<list, refreshes, lost>>
taskVars == <<kind, chat>>
history == <<refresh, loose>>

\* Two tasks of a chat get in each other's way unless one of them only looks or both
\* remove.  Every row and every event of the chat lies behind the SELECT of Check.
Adding(g) == \/ step[g] \in {"ensure", "update", "insert"}
             \/ step[g] \in {"lookup", "announce"} /\ Tells(g)
Removing(g) == step[g] \in {"disable", "announceRemoved"}
Meets(c, s) == \E g \in Tasks : chat[g] = c /\ \/ s \in {"ensure", "disable"} /\ Adding(g)
                                               \/ s = "ensure" /\ Removing(g)
Enter(h, s) ==
    /\ Goto(h, s)
    /\ loose' = IF Meets(chat[h], s) THEN loose \cup {chat[h]} ELSE loose

\* The getChats under way have crossed an event of c.
Crossed(c) == [i \in DOMAIN refresh |-> [refresh[i] EXCEPT !.crossed = @ \cup {c}]]
Undisturbed == UNCHANGED history
EndUntold(c) == refresh' = Crossed(c) /\ loose' = loose \cup {c}

\* A message, or an RPC, starts a task.  createChat of a group or a channel is
\* for a chat that has just been created, so it has no row.  The names of the tasks
\* mean nothing, so any unused one will do.
Unused == CHOOSE h \in Tasks : step[h] = "unused"
StartTask(h) ==
    /\ step[h] = "unused" /\ h = Unused
    /\ \E k \in TaskKinds :
          /\ k = "createGroup" => row[chat[h]] = "none" /\ ~Busy(chat[h])
          /\ kind' = [kind EXCEPT ![h] = k]
          /\ Enter(h, CASE k \in {"addweb", "delweb"}           -> "check"
                        [] k = "deleteChat"                     -> "disable"
                        [] k \in {"createGroup", "openPrivate"} -> "ensure")
    /\ refresh' = [i \in DOMAIN refresh |-> [refresh[i] EXCEPT !.quiet = FALSE]]
    /\ UNCHANGED <<row, chat, inbox, tabVars>>

\* _maybe_command reads the row: .addweb on an enabled chat and .delweb on an
\* unknown one return here.
Check(h) ==
    /\ step[h] = "check"
    /\ Enter(h, IF kind[h] = "addweb"
                THEN IF row[chat[h]] = "enabled" THEN "done" ELSE "ensure"
                ELSE IF row[chat[h]] = "none" THEN "done" ELSE "disable")
    /\ UNCHANGED <<row, taskVars, inbox, tabVars, refresh>>

\* _ensure_enabled reads the row once more.
Ensure(h) ==
    /\ step[h] = "ensure"
    /\ Goto(h, CASE row[chat[h]] = "enabled"  -> "lookup"
                 [] row[chat[h]] = "disabled" -> "update"
                 [] row[chat[h]] = "none"     -> "insert")
    /\ UNCHANGED <<row, taskVars, inbox, tabVars, history>>

\* The row is enabled from here on.
Enable(h) ==
    /\ row' = [row EXCEPT ![chat[h]] = "enabled"]
    /\ Goto(h, "lookup")
    /\ IF Tells(h) THEN Undisturbed ELSE EndUntold(chat[h])

\* A faulty variant: the UPDATE forgets enabled=1.
UpdateRowOnly(h) ==
    /\ step[h] = "update"
    /\ Goto(h, "lookup")
    /\ UNCHANGED <<row, taskVars, inbox, tabVars, history>>

EnableRow(h) ==
    /\ step[h] = "update"
    /\ Enable(h)
    /\ UNCHANGED <<taskVars, inbox, tabVars>>

\* INSERT on the unique index: it raises if another task inserted first.
InsertRow(h) ==
    /\ step[h] = "insert"
    /\ \/ /\ row[chat[h]] = "none"
          /\ Enable(h)
       \/ /\ row[chat[h]] # "none"
          /\ Goto(h, "failed")
          /\ UNCHANGED <<row, history>>
    /\ UNCHANGED <<taskVars, inbox, tabVars>>

\* get_chat: _enabled_row raises unless the row is enabled at this moment.
LookUp(h) ==
    /\ step[h] = "lookup"
    /\ \/ /\ row[chat[h]] = "enabled"
          /\ Goto(h, IF Tells(h) THEN "announce" ELSE "done")
          /\ Undisturbed
       \/ /\ row[chat[h]] # "enabled"
          /\ Goto(h, "failed")
          /\ refresh' = IF Tells(h) THEN Crossed(chat[h]) ELSE refresh
          /\ UNCHANGED loose
    /\ UNCHANGED <<row, taskVars, inbox, tabVars>>

\* The Telegram call that refreshes the dialogs before get_chat may fail, or the
\* shaping of the chat may raise: the row stays enabled, and nobody is told.
TellingFails(h) ==
    /\ step[h] \in {"lookup", "announce"} /\ Tells(h)
    /\ Goto(h, "cut")
    /\ EndUntold(chat[h])
    /\ UNCHANGED <<row, taskVars, inbox, tabVars>>

\* The chat has been shaped, with awaits since LookUp: emit onChatAdded.
AnnounceAdded(h) ==
    /\ step[h] = "announce"
    /\ inbox' = Append(inbox, [event |-> "added", chat |-> chat[h]])
    /\ Goto(h, "done")
    /\ UNCHANGED <<row, taskVars, tabVars, history>>

\* A faulty variant: the row is marked in a way nothing else knows.
MarkRowDeleted(h) ==
    /\ step[h] = "disable"
    /\ row' = [row EXCEPT ![chat[h]] = IF @ = "none" THEN "none" ELSE "deleted"]
    /\ Goto(h, "announceRemoved")
    /\ UNCHANGED <<taskVars, inbox, tabVars, history>>

DisableRow(h) ==
    /\ step[h] = "disable"
    /\ row' = [row EXCEPT ![chat[h]] = IF @ = "none" THEN "none" ELSE "disabled"]
    /\ Goto(h, "announceRemoved")
    /\ UNCHANGED <<taskVars, inbox, tabVars, history>>

\* A faulty variant: only deleteChat tells the client.
AnnounceOnlyFromWeb(h) ==
    /\ step[h] = "announceRemoved"
    /\ inbox' = IF kind[h] = "deleteChat"
                THEN Append(inbox, [event |-> "removed", chat |-> chat[h]]) ELSE inbox
    /\ Goto(h, "done")
    /\ UNCHANGED <<row, taskVars, tabVars, history>>

\* The audit entry has been written since DisableRow: emit onChatRemoved.
AnnounceRemoved(h) ==
    /\ step[h] = "announceRemoved"
    /\ inbox' = Append(inbox, [event |-> "removed", chat |-> chat[h]])
    /\ Goto(h, "done")
    /\ UNCHANGED <<row, taskVars, tabVars, history>>

-----------------------------------------------------------------------------
\* The tab.

\* chats.filter((c) => c.id !== chatId)
Without(chats, c) ==
    LET kept[n \in 0 .. Len(chats)] ==
            IF n = 0 THEN <<>>
            ELSE IF chats[n] = c THEN kept[n - 1] ELSE Append(kept[n - 1], chats[n])
    IN  kept[Len(chats)]

HandleEvent ==
    /\ inbox # <<>>
    /\ inbox' = Tail(inbox)
    /\ LET e == Head(inbox) IN
         /\ list' = IF e.event = "added" THEN Append(list, e.chat)
                    ELSE Without(list, e.chat)
         /\ refresh' = Crossed(e.chat)
         /\ lost' = lost \ {e.chat}
    /\ UNCHANGED <<row, step, taskVars, refreshes, loose>>

\* refreshChats: getChats reads the enabled rows.  Nothing keeps the tab from
\* asking again before it has the answer: every new message does.  The answer has
\* crossed the events of the changes that it knows and the tab does not.
StartRefresh ==
    /\ refreshes < MaxRefresh
    /\ refreshes' = refreshes + 1
    /\ refresh' = Append(refresh, [rows |-> Enabled, crossed |-> {c \in Chats : Untold(c)},
                                   quiet |-> Quiet])
    /\ UNCHANGED <<row, step, taskVars, inbox, list, lost, loose>>

\* Each row that was read is shaped with more awaits, a different number for each
\* getChats, so the answers may overtake each other; a row whose shaping raises is left
\* out.  The answer replaces the list.
FinishRefresh ==
    /\ \E i \in DOMAIN refresh : \E unshaped \in SUBSET refresh[i].rows :
          /\ list' = SetToSeq(refresh[i].rows \ unshaped)
          /\ lost' = unshaped
          /\ loose' = IF refresh[i].quiet THEN {} ELSE loose \cup refresh[i].crossed
          /\ refresh' = RemoveAt(refresh, i)
    /\ UNCHANGED <<row, step, taskVars, inbox, refreshes>>

\* _dialogs raises, or the answer is lost: the tab keeps the list it has.
RefreshFails ==
    /\ \E i \in DOMAIN refresh : refresh' = RemoveAt(refresh, i)
    /\ UNCHANGED <<row, step, taskVars, inbox, tabVars, loose>>

Step(h) ==
    \/ Check(h) \/ Ensure(h) \/ EnableRow(h) \/ InsertRow(h) \/ LookUp(h)
    \/ AnnounceAdded(h) \/ DisableRow(h) \/ AnnounceRemoved(h)

Next ==
    \/ \E h \in Tasks : StartTask(h) \/ Step(h) \/ TellingFails(h)
    \/ HandleEvent \/ StartRefresh \/ FinishRefresh \/ RefreshFails

Spec == Init /\ [][Next]_vars

\* A task that was started runs on, and the tab handles what it receives.
FairSpec ==
    /\ Spec
    /\ \A h \in Tasks : WF_vars(Step(h))
    /\ WF_vars(HandleEvent)

-----------------------------------------------------------------------------
\* The events keep the list exact, whatever the tab reloads meanwhile: when nothing
\* runs, an enabled chat is in the list once and any other chat is not in it.
\* An enabled chat that the last answer could not shape is missing.  The chats of which
\* nothing is said are those where something went wrong since the last reload in a quiet
\* moment: an adding task met another one that changed the row; a task enabled the row
\* and told nobody (it failed after the UPDATE, or opened a private chat); or an answer
\* crossed an event: it was read between a change and its event, or before an event
\* that was handled before it.  A quiet reload makes up for all of it.
ListFollowsTheTable ==
    Quiet =>
        \A c \in Chats \ loose :
            IF c \in Enabled \ lost THEN \E i \in DOMAIN list : Listed(c) = {i} ELSE Listed(c) = {}

\* .addweb on a chat that was not enabled puts it into the list, also if it loses the
\* race for the row; unless Telegram fails it or the one it lost to after the row was
\* enabled ("cut"), the winner opens the chat privately, or the chat is being removed.
AddwebReachesTheTab ==
    \A c \in Chats :
        (\E h \in Tasks : chat[h] = c /\ kind[h] = "addweb" /\ step[h] = "ensure")
        ~> \/ Listed(c) # {}
           \/ \E g \in Tasks : /\ chat[g] = c
                               /\ step[g] \in {"cut", "announceRemoved"} \/ kind[g] = "openPrivate"

\* "idempotent: no duplicate row in the client" (telethon_gw.py 1472): no chat
\* is twice in the list.
NoDuplicateRow == IsInjective(list)

=============================================================================
