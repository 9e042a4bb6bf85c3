------------------------------ MODULE Dialogs ------------------------------
(***************************************************************************)
(* The cache of dialogs and the calls that go through it: the chat list,   *)
(* marking as read, changing rights, and the toggles (pin, mute, archive,  *)
(* and the reaction to a message), which negate what they read             *)
(* (telethon_gw.py, with MIRROR_DIALOG_STATE on).  Every call to Telegram  *)
(* is a scheduled one: it is carried out at some moment, answers at a      *)
(* later one, and is repeated when the answer is lost.  Other devices      *)
(* change the same account.                                                *)
(*                                                                         *)
(* One chat and one message stand for all.  Telegram's state is a switch   *)
(* for the dialog (pinned, muted and archived are alike), one for the      *)
(* reaction, whether the chat is among the 200 dialogs that get_dialogs    *)
(* asks for, and the number of changes so far, which the snapshots carry:  *)
(* a snapshot shows a change when its number is not below.                 *)
(***************************************************************************)
EXTENDS Naturals

CONSTANTS Calls,      \* the rpc calls that may be under way at once
          MaxAge,     \* how long the cache is good for: 20 seconds, in ticks
          MaxRetries, \* how often the scheduler repeats a call
          MaxChanges  \* bound: the changes asked for, here or elsewhere

ASSUME BoundsAreNumbers == {MaxAge, MaxRetries, MaxChanges} \subseteq Nat

VARIABLES tg,      \* the truth at Telegram
          changes, \* the changes asked for so far
          news,    \* new messages on their way to _on_new_message
          cache,   \* _dialog_cache
          age,     \* how old _dialog_cache_at is; MaxAge + 1: expired
          call,    \* what each rpc call has done so far
          floor,   \* history: the last change that was made known here
          stray    \* history: the cache was filled by a fetch that had been overtaken

known == <<cache, age, floor, stray>>
vars == <<tg, changes, news, known, call>>

Expired == MaxAge + 1
Toggles == {"pin", "react"}
Changing == Toggles \cup {"read", "rights", "vote"}
OfMessage == {"react", "vote"}
Kinds == Changing \cup {"list"}
OwnChange == Toggles \cup {"vote"}
Snapshots == [on : [Toggles -> BOOLEAN], listed : BOOLEAN, ver : Nat]
Nothing == [on |-> [k \in Toggles |-> FALSE], listed |-> FALSE, ver |-> 0]

\* A call wants to look at the state, act on it (act: the change is scheduled, acted:
\* Telegram has made it), force the cache, or show the state; for this it may have
\* to fetch a snapshot (sent: Telegram has been asked, served: it has given one,
\* overtaken: and since then, somebody else has stored one or invalidated the cache).
\* snap: what it has seen last.  History: was, the switch when the call came in; alone,
\* nobody else has turned it and no snapshot belied it; due, the last change that was
\* known here when the call came in, or that it has made itself; astray, it answers from
\* a stray cache.
Idle == [at |-> "idle"]
Stages == [kind : Kinds, at : {"look", "act", "acted", "force", "show", "answered"},
           fetch : {"none", "sent", "served", "overtaken"}, snap : Snapshots,
           retries : 0 .. MaxRetries, was : BOOLEAN, alone : BOOLEAN,
           due : Nat, astray : BOOLEAN]

TypeOK ==
    /\ tg \in Snapshots
    /\ changes \in 0 .. MaxChanges
    /\ news \subseteq 1 .. tg.ver
    /\ cache \in Snapshots
    /\ age \in 0 .. Expired
    /\ call \in [Calls -> {Idle} \cup Stages]
    /\ floor \in 0 .. tg.ver
    /\ stray \in BOOLEAN

Init ==
    /\ tg \in {Nothing, [Nothing EXCEPT !.listed = TRUE]}
    /\ changes = 0
    /\ news = {}
    /\ cache = Nothing
    /\ age = Expired
    /\ call = [c \in Calls |-> Idle]
    /\ floor = 0
    /\ stray = FALSE

-----------------------------------------------------------------------------
\* Telegram.

\* Whoever is under way with the same switch is no longer alone with it.
Disturb(kind, others) ==
    [d \in Calls |-> IF d \in others /\ call[d] # Idle /\ call[d].kind = kind
                     THEN [call[d] EXCEPT !.alone = FALSE] ELSE call[d]]

Turned(kind, value) == [on |-> [tg.on EXCEPT ![kind] = value], listed |-> tg.listed, ver |-> tg.ver + 1]
Placed(listed) == [on |-> tg.on, listed |-> listed, ver |-> tg.ver + 1]
Touched == Placed(tg.listed)

CountChange == changes < MaxChanges /\ changes' = changes + 1

\* Another device turns a switch.
Elsewhere(kind) ==
    /\ CountChange
    /\ tg' = Turned(kind, ~tg.on[kind])
    /\ call' = Disturb(kind, Calls)
    /\ UNCHANGED <<news, known>>

\* It brings the chat to the top of the dialogs.
NewMessage ==
    /\ CountChange
    /\ tg' = Placed(TRUE)
    /\ news' = news \cup {tg.ver + 1}
    /\ UNCHANGED <<known, call>>

\* Other dialogs come before the chat, or go.
Moved ==
    /\ CountChange
    /\ tg' = Placed(~tg.listed)
    /\ UNCHANGED <<news, known, call>>

-----------------------------------------------------------------------------
\* The cache.

Later(a, b) == IF a < b THEN b ELSE a

\* What mark_read does when its call has answered, and _on_new_message with a
\* message of an enabled chat: the next one who asks fetches.
\* A faulty variant: it is forgotten.
KeepCache(ver) ==
    /\ floor' = Later(floor, ver)
    /\ UNCHANGED <<cache, age, stray>>
Invalidate(ver) ==
    /\ age' = Expired
    /\ floor' = Later(floor, ver)
    /\ UNCHANGED <<cache, stray>>

\* The fetches that have been served are older than what is known from here on.
Overtaken == [d \in Calls |-> IF call[d] # Idle /\ call[d].fetch = "served"
                             THEN [call[d] EXCEPT !.fetch = "overtaken"] ELSE call[d]]

HandleNews(ver) ==
    /\ ver \in news
    /\ news' = news \ {ver}
    /\ Invalidate(ver)
    /\ call' = Overtaken
    /\ UNCHANGED <<tg, changes>>

\* _dialogs after a fetch.
StoreDialogs(x) ==
    /\ cache' = x.snap
    /\ age' = 0
    /\ floor' = Later(floor, x.snap.ver)
    /\ stray' = (x.fetch = "overtaken")

\* What a snapshot says of a switch of the dialog: a chat that is not in it is neither
\* pinned, muted nor archived.
Reads(snap, kind) == snap.on[kind] /\ (kind \in OfMessage \/ snap.listed)

\* What the caller does with what it has got.
Onward(c, snap, wrong) ==
    CASE call[c].at = "look"  -> [call[c] EXCEPT !.at = "act", !.fetch = "none", !.snap = snap,
                                      !.alone = IF Reads(snap, call[c].kind) = tg.on[call[c].kind]
                                                THEN call[c].alone ELSE FALSE]
      [] call[c].at = "force" -> [call[c] EXCEPT !.at = "show", !.fetch = "none"]
      [] call[c].at = "show"  -> [call[c] EXCEPT !.at = "answered", !.fetch = "none", !.snap = snap,
                                      !.astray = wrong]

Wants(c) == call[c].at \in {"look", "show"} /\ call[c].fetch = "none"

\* _dialogs within the 20 seconds.
\* A faulty variant: being asked keeps the cache young.
HitAndRenew(c) ==
    /\ Wants(c) /\ call[c].kind \notin OfMessage
    /\ age <= MaxAge
    /\ age' = 0
    /\ call' = [call EXCEPT ![c] = Onward(c, cache, stray)]
    /\ UNCHANGED <<tg, changes, news, cache, floor, stray>>
Hit(c) ==
    /\ Wants(c) /\ call[c].kind \notin OfMessage
    /\ age <= MaxAge
    /\ call' = [call EXCEPT ![c] = Onward(c, cache, stray)]
    /\ UNCHANGED <<tg, changes, news, known>>

\* _dialogs after them, and react, vote_poll and pin_message, which ask for the message.
Fetch(c) ==
    /\ Wants(c)
    /\ age > MaxAge \/ call[c].kind \in OfMessage
    /\ call' = [call EXCEPT ![c].fetch = "sent"]
    /\ UNCHANGED <<tg, changes, news, known>>

Serve(c) ==
    /\ call[c] # Idle /\ call[c].fetch = "sent"
    /\ call' = [call EXCEPT ![c].fetch = "served", ![c].snap = tg]
    /\ UNCHANGED <<tg, changes, news, known>>

\* Between the snapshot and the end of _dialogs every entity is written to the
\* database; others may ask, fetch and store meanwhile.
Got(c) ==
    /\ call[c] # Idle /\ call[c].fetch \in {"served", "overtaken"}
    /\ IF call[c].kind \in OfMessage
       THEN /\ call' = [call EXCEPT ![c] = Onward(c, call[c].snap, FALSE)]
            /\ UNCHANGED known
       ELSE /\ call' = [Overtaken EXCEPT ![c] = Onward(c, call[c].snap, FALSE)]
            /\ StoreDialogs(call[c])
    /\ UNCHANGED <<tg, changes, news>>

-----------------------------------------------------------------------------
\* The calls of a tab.

Ask(c, kind) ==
    /\ call[c] = Idle
    /\ IF kind \in Changing THEN CountChange ELSE UNCHANGED changes
    /\ call' = [call EXCEPT ![c] =
         [kind |-> kind,
          at |-> IF kind \in Toggles THEN "look" ELSE IF kind = "list" THEN "show" ELSE "act",
          fetch |-> "none", snap |-> Nothing, retries |-> 0,
          was |-> kind \in Toggles /\ tg.on[kind], alone |-> TRUE,
          due |-> floor, astray |-> FALSE]]
    /\ UNCHANGED <<tg, news, known>>

\* Telegram carries out the change.  The negation was worked out before the call
\* was scheduled.
\* A faulty variant: it is worked out by every attempt.
NegatedAnew(c) == Turned(call[c].kind, ~tg.on[call[c].kind])
Negated(c) == LET read == Reads(call[c].snap, call[c].kind)
              IN  IF read # tg.on[call[c].kind] THEN tg ELSE Turned(call[c].kind, ~read)

Act(c) ==
    /\ call[c].at = "act"
    /\ IF call[c].kind \in Toggles
       THEN /\ tg' = Negated(c)
            /\ call' = [Disturb(call[c].kind, Calls \ {c})
                           EXCEPT ![c] = [call[c] EXCEPT !.at = "acted", !.due = tg'.ver]]
       ELSE /\ tg' = Touched
            /\ call' = [call EXCEPT ![c] = [call[c] EXCEPT !.at = "acted", !.snap = Touched,
                  !.due = IF call[c].kind \in OwnChange THEN Touched.ver ELSE call[c].due]]
    /\ UNCHANGED <<changes, news, known>>

\* The answer is lost: the scheduler calls again.
Retry(c) ==
    /\ call[c].at = "acted"
    /\ call[c].retries < MaxRetries
    /\ call' = [call EXCEPT ![c].at = "act", ![c].retries = @ + 1]
    /\ UNCHANGED <<tg, changes, news, known>>

\* A pinned chat is fetched by force, and then every call looks again as if it came in
\* now.
Looks(c) ==
    IF call[c].kind = "pin"
    THEN [call[c] EXCEPT !.at = "force", !.fetch = "sent", !.snap = Nothing, !.retries = 0]
    ELSE [call[c] EXCEPT !.at = "show", !.snap = Nothing, !.retries = 0]

\* The answer has come.
ActReturns(c) ==
    /\ call[c].at = "acted"
    /\ IF call[c].kind = "read"
       THEN /\ Invalidate(call[c].snap.ver)
            /\ call' = [Overtaken EXCEPT ![c] = Idle]
       ELSE /\ call' = [call EXCEPT ![c] = Looks(c)]
            /\ UNCHANGED known
    /\ UNCHANGED <<tg, changes, news>>

\* A call of the scheduler gives up, carried out or not: the tab gets an error.
Fails(c) ==
    /\ call[c] # Idle
    /\ call[c].at \in {"act", "acted"} \/ call[c].fetch = "sent"
    /\ call' = [call EXCEPT ![c] = Idle]
    /\ UNCHANGED <<tg, changes, news, known>>

Shown(c) ==
    /\ call[c].at = "answered"
    /\ call' = [call EXCEPT ![c] = Idle]
    /\ UNCHANGED <<tg, changes, news, known>>

-----------------------------------------------------------------------------
Tick ==
    /\ age <= MaxAge
    /\ age' = age + 1
    /\ UNCHANGED <<tg, changes, news, cache, call, floor, stray>>

Goes(c) == Hit(c) \/ Fetch(c) \/ Serve(c) \/ Got(c) \/ Act(c) \/ Retry(c) \/ ActReturns(c)
           \/ Fails(c) \/ Shown(c)

Next ==
    \/ \E c \in Calls : Goes(c) \/ \E kind \in Kinds : Ask(c, kind)
    \/ \E kind \in Toggles : Elsewhere(kind)
    \/ NewMessage \/ Moved
    \/ \E ver \in news : HandleNews(ver)
    \/ Tick

Spec == Init /\ [][Next]_vars
\* Time passes, and a call that is under way goes on; nobody has to ask.
FairSpec == Spec /\ WF_vars(Tick) /\ \A c \in Calls : WF_vars(Goes(c))

-----------------------------------------------------------------------------
\* A toggle with the switch to itself turns it, once, however often its call is
\* repeated (pin_chat, mute_chat, archive_chat, react): Telegram ends up with the
\* opposite of what it had when the call came in.  Two at a time may cancel out, and so
\* may one that reads a switch wrongly, from an old cache or for want of the dialog.
AloneTurnsOnce ==
    \A c \in Calls :
        call[c] # Idle /\ call[c].kind \in Toggles /\ call[c].at = "acted" /\ call[c].alone
            => tg.on[call[c].kind] = ~call[c].was

\* An answer is never older than what was known here when its call came in, nor, for
\* the calls that look again (pin, mute, archive, react, vote), than their own change:
\* whatever other calls fetch, store and invalidate between the steps of this one.  Only
\* a cache that was filled by a fetch which had been overtaken may make it so.
AnswersKeepUp ==
    \A c \in Calls :
        call[c] # Idle /\ call[c].at = "answered" /\ ~call[c].astray
            => call[c].snap.ver >= call[c].due

\* The list heals: when the account has come to rest, the chat is among the 200 dialogs
\* and the tab keeps asking, it is eventually shown what Telegram has, whatever was
\* stored in the wrong order.  (Any other chat is shown with nothing set, for ever.)
ListHeals ==
    /\ []<>(\E c \in Calls : call[c].at = "answered" /\ call[c].kind = "list")
    /\ <>[]tg.listed
    => <>[](\A c \in Calls : call[c] # Idle /\ call[c].at = "answered"
                => /\ call[c].snap.ver = tg.ver
                   /\ \A k \in Toggles : Reads(call[c].snap, k) = tg.on[k])
=============================================================================
