# Telethongram bridge: TLA+ models, checks and proofs

Telethongram is a bridge between one Telegram account (through Telethon) and a
web client: an asyncio process (`src/backend/app`) with an RPC endpoint, a
websocket that pushes updates, a SQLite file and a media cache, and a browser
shell (`src/frontend`). There are no threads in the bridge's own code: everything
that can go wrong between two of its activities goes wrong at an `await`, in the
browser between a request and its answer, or because a process or a link dies.

The models take that as their grain: **one action is the code from one `await` to
the next**. A statement of the database is one atomic step, because `db.py` runs
it as a whole on one connection, whose thread (aiosqlite) takes the statements of
all tasks in the order in which they are submitted.

## 1. Inventory

| Component | Source | State | Operations | Talks to |
| --- | --- | --- | --- | --- |
| Outbound scheduler | `floodqueue.py` | two semaphores (lanes), a lock per peer, `_paused_until` | `run`, `_attempt` | called by every gateway method that calls Telegram (`_call`) |
| Update hub | `hub.py`, `/ws` in `main.py` | set of queues (1000 frames each), `status` | `register`, `unregister`, `emit`, `set_status`; the handler that drains one queue | gateway handlers emit; each websocket handler reads |
| Browser subscription | `api.js` `subscribeToUpdates` | socket, `attempt`, what the banner shows | connect, message, close, retry with backoff, give up after 8 | the websocket |
| Chat lifecycle | `telethon_gw.py` `_maybe_command`, `_ensure_enabled`, `create_chat`, `disable_chat`, `get_chats` | table `enabled_chats`; the tab's list | `.addweb`, `.delweb`, deleteChat, createChat, getChats | hub events, dialog cache |
| Message visibility | `telethon_gw.py` handlers, `get_messages`, searches, shared media | `filtered_msgs`, `hide_before`, `enabled` | live updates, history, search, clear | scheduler, hub |
| Message list in the tab | `Messenger.dc.html`, `api.js` | `msgs`, `activeId`, `ownEchoes` | open chat, load, page, send, update handlers | RPC, websocket |
| Media cache | `media.py`, media route | table `media_cache`, files, per-key locks | lookup, store, get_or_fetch, sweep | scheduler (low lane) |
| Uploads | upload route in `main.py`, `_send_upload`, second half of the sweeper in `media.py` | table `upload_handles`, files | upload, send, mark consumed, expire | scheduler, media sweeper |
| Access | `security.py`, login routes | `login_attempts`, `web_sessions`, token buckets | throttle, log in, load/destroy session, `allow` | every route |
| Dialog cache and toggles | `telethon_gw.py` `_dialogs`, pin/mute/archive, react, vote, rights | cache and its age | fetch, store, invalidate, negate what was read | scheduler, new-message handler |
| Typing indicators | `_emit_typing` | timers | emit, expire | hub |
| Settings, profile | `settings_store.py`, `update_settings` | table `settings` | sanitize, load, save | scheduler, hub |
| Ids, crypto, config, logging, cli, db | the modules of those names | none that interacts | pure or one-shot | - |
| Fake gateway, smoke script | `fake.py`, `smoke.sh` | - | test doubles | - |
| `support.js`, `_ds` | vendored view layer | - | - | - |

### What makes each of them hard, and what makes it correct

* **Scheduler.** A call waits in two queues, sleeps while it holds what it waited
  for, and can leave by four exits. Correct: a peer's calls are exclusive and keep
  their order; nothing leaks; a flood wait is kept; only a server error may
  duplicate; every call settles; sends do not wait for hung downloads.
* **Hub and websocket.** A slow tab, a link cut with frames in flight, two
  handlers for one tab, a restart. Correct: no gap, duplicate or swap within a
  connection; the banner converges; a full queue costs only its owner; a tab is
  connected again or says that it is not.
* **Chat lifecycle.** Commands, RPCs and reloads are separate tasks that share a
  row and a list, and a reload may fail or leave a chat out. Correct: the events keep
  the list exact whatever is reloaded meanwhile, but for overlaps and failures that the
  next quiet reload repairs; what `.addweb` enables reaches the list; a chat is
  announced once.
* **Messages.** Handlers shape a message with awaits after deciding to show it;
  history answers and pushed updates travel on different connections. Correct:
  nothing filtered or hidden is shown, and an open chat shows each message once.
* **Media.** Requests look a key up before and under its lock, store what they
  fetched, purge rows without a file; a sweeper deletes files and rows next to
  them. Correct: one fetch per key and only for what is not cached; a row and its
  file part only in a crash; a sweep ends below its target, or above it by no more
  than it counted twice; whoever found a file is refused only if it is gone by then;
  every request ends.
* **Uploads.** A file and a row written apart and removed apart; a send that waits
  in the scheduler for minutes and is repeated, while the sweeper expires what it is
  about to read. Correct: file and row part only in a crash; what was sent stays;
  a send loses only what had become old; what is never sent goes.
* **Access.** Count, verify, record with awaits between; read a session, renew it an
  await later. Correct: concurrent attempts get past the backoff and the hourly limit
  by one each and no further; a lockout ends; a logout is not undone.
* **Dialog cache.** An invalidation races a fetch, a fetch races another; toggles
  negate what they read from a cache up to 20 seconds old, in a call that is repeated.
  Correct: a toggle that is alone with its switch turns it once; no answer is older than
  what was known when its call came in, unless an overtaken fetch has filled the cache;
  the list heals, for chats among the 200 dialogs that are asked for.

`PROJECT.json` lists the hazards line by line with the property that covers each.

## 2. Modules

### Scheduler.tla, CallService.tla, SchedulerProofs.tla

`Scheduler` models `Scheduler.run` and `_attempt`. `pc[c]` is the await a call is
at: `wantSlot` (the semaphore), `wantPeer` (the lock), `paused` (the sleep at the
top of the loop), `calling` (`await fn()`), `backoff` (the sleep after a flood or
a server error). `req[c]` is its lane and peer. `asyncio.Semaphore` and
`asyncio.Lock` serve waiters first come, first served, so `arrived` and `asked`
are the places in the two queues; they are also what the ordering properties are
stated with. `pause` is `_paused_until - now` and `sleep[c]` what is left of a
sleep, both in ticks; `Tick` may come at any time and a due timer may fire late,
which covers the jitter. `Reply*` are Telegram's answers: a result, `FLOOD_WAIT`
of some seconds, a server error or timeout (carried out or not), any other
exception. `owed`, `applied`, `unclear`, `pausedBy` are history.

`CallService` is the abstract promise: a call is waiting, in service or settled;
a peer serves one call at a time; the calls of one lane to one peer are served in
the order they arrived; nobody settles without having been served. `Scheduler`
maps to it by `Status(c)` and `ArrivedBefore(c)`, and `ImplementsCallService` is
checked as a property and proved.

### UpdateHub.tla, UpdateHubProofs.tla

The hub's fan-out, the websocket handlers, the links and the tabs. `queue[k]` is
the `asyncio.Queue` of connection `k`, `clients` is `HUB._clients`, `handler[k]`
says whether the coroutine waits in `queue.get` or in `send_text`, `wire[k]` is
what the transport has taken and the browser has not read. `Accept` is one action
from `ws.accept()` to the `await` of the first `send_text`: `HUB.status` is read
there, right after `register`. The server learns of a cut link only when it sends
(`SendFails`), so the handler of an old connection may live on beside the new one.
`Crash` and `Restart` model the process and systemd's `Restart=always`. `Way(k)` is
everything that is still on its way to the tab, in order: the wire, the frame that is
being sent, the queue; `since`, `emitted`, `received` and `refused` (the dials of a tab that
failed since it was last connected) are history.

### ChatLifecycle.tla, ChatLifecycleProofs.tla

A row of `enabled_chats` per chat, tasks that are commands or RPCs, and a tab.
`step[h]` is the statement task `h` executes next: `Check` (the `SELECT` of
`_maybe_command`), `Ensure` (the `SELECT` of `_ensure_enabled`), `EnableRow` or
`InsertRow`, `LookUp` (`_enabled_row` inside `get_chat`), `AnnounceAdded`;
`DisableRow` and `AnnounceRemoved` for both ways of removing. The tab appends on
`onChatAdded`, filters on `onChatRemoved`, and replaces its list with every
`getChats`, of which several may be under way and be answered in any order. A
private chat opened with createChat enables the row and announces nothing.
The websocket is taken as reliable here; what it may lose is UpdateHub's subject.
`getChats` may fail as a whole, because `_dialogs` raises or the answer is lost, and the
tab keeps its list (`RefreshFails`); or it leaves out every row whose shaping raises
(`FinishRefresh` chooses which). The Telegram calls between the UPDATE and the event may
fail too (`TellingFails`): the row stays enabled and nobody is told (`step` is `cut`).

`lost` and `loose` are history. `lost` are the chats that the last answer left out and
of which no event has come since. `loose` are the chats with which something went wrong
since the last reload that was read in a quiet moment and answered before the next task
started: an adding task met another one that changed the row (`Meets`), a task enabled
the row and told nobody (it was cut, or opened a private chat), or an answer crossed an
event of the chat, being read between the change of the row and its event or before an
event that the tab handled before the answer (`crossed`). A quiet reload empties it.
The filter of `onChatRemoved` is the recursive function `Without`, so that it can be
proved about.

### MediaCache.tla, FileCache.tla, MediaCacheProofs.tla

`rows` is the table `media_cache` as a sequence in the order of `last_access`
(`Latest` is the effect of the UPDATE and of the INSERT), `files` the keys whose
file exists, `saved` the table as of the last commit. `step[r]` is the await a
request is at: the SELECT of the first or second lookup (`probe1`, `probe2`), the
DELETE of a row whose file is gone (`purge`), the UPDATE of a hit (`touch`), the
lock, the producer (`fetch`), the INSERT (`store`), the response about to open the
file (`open`). `line[k]` is the lock of a key with its waiters.

A statement is submitted in the same stretch of code as the file operation next to
it (`unlink` and DELETE, `os.replace` and INSERT, `exists` and DELETE), and the
statements of all tasks are executed in the order of submission; so file and
statement take effect together, and the commit comes with the next step of the
task. A commit is the connection's and saves what other tasks have executed too:
`saved' = rows`. `Crash` keeps the files and falls back to `saved`, or to `rows` if
the commit got through. A process starts with one of the caches that `Earlier`
allows. The sweeper's SELECT is read in two steps (`SweepFirst`, `SweepRest`): the
statement stops at its first row, and fetchall goes on from there as a task of its
own. SQLite walks the index of `last_access`, so if a lookup touches that first row
in between (`Move`), the walk goes through all rows and meets it again; `twice` is
that row. It is so even if it was the only row. Timestamps are taken as distinct.

`FileCache` is the abstract promise: a set of files that can be served, and requests
that are asking, fetching, answered (they have been told where the file is) and then
served or refused. `present` maps to `Servable`, the keys with a row and a file, and
`stage` to `Stage(r)`; statements, commits, locks, purges and the sweeper's bookkeeping
are stutters. The promise is exact at the moment of each step: a hit is there, a fetch
is for a key that is not there and that nobody else fetches, and the response that
opens the file fails only if it has been forgotten since. A restart may forget but
brings nothing that was not there.

### Timeline.tla, TimelineProofs.tla

How a message becomes a bubble and stops being one. `log` is Telegram; `tasks` are
the running update handlers with the await they are at (`filter`, `row`, `emit`);
`filtered`, `hide`, `enabled` are the tables they read; `rpc[s]` is a request of the
tab with its stage (`asked`, `checked` by `_enabled_row`, `called`, `ok` or
`failed`); `wire` is the websocket, `msgs` the tab's bubbles, `echoes` what it
noted as its own. A load carries the watermark it read first (`hide`) and the
history it got (`list`), and looks at `filtered` last, as the code does. (The
filter of each message is a read of its own; messages do not depend on each other,
so one step reads for all.) Answers come over HTTP and frames over the websocket,
in no order between them.

An id in the tab is the message's number without its chat, and every channel
numbers its own messages, so both chats of the model have an `m1` and an `m2`: the
handlers of the tab find bubbles by the number, as the code does. Telethon may or
may not hand the gateway an update for its own request (`MaybeUpdate`).

`hide` counts in whole seconds: the date of a message is in seconds, the watermark
in milliseconds, so a clear hides all of its second, what is posted later included.
`calm` and `strayed` are history: whether each thing since the last undisturbed
load waited for the one before, and whether something meant for another chat has
touched the bubbles. What a filter leaves of a list (get_messages', the tab's on
deletion) is `Only`, a recursive function, so that it can be proved about.

A new message of mine is `PostMine` whatever its kind: text, poll, contact, location,
sticker and upload differ in what they refuse and in the request they build, and each
posts at most one message before `send_message` shapes it.

### Uploads.tla, UploadsProofs.tla

`upload[h]` is where the request that uploads handle `h` stands: the file is open
(`writing`), complete (`written`), and the row is inserted (`over`). `send[s]` is a
`_send_upload`: the row was read (`found`), `path.exists` was true and the call is in
the scheduler (`scheduled`), an attempt has read the file (`sent`); from there it is
repeated (`Again`), given up, or its UPDATE marks the row consumed. `todo` are the rows
the sweeper's SELECT returned and it has not come to, `gone` the one whose file is
unlinked and whose DELETE is next. An `unlink` that raises ends the round. `Crash` ends
all three. `torn` and `safe` are history: what a crash left halfway, and what was
marked consumed before the sweeper had chosen it.

### Access.tla, AccessProofs.tla

`fails[ip]` is the part of `login_attempts` that counts: how many failures of each
age, in ticks. A login is a task with three stretches: the token bucket and the SELECT
for the address (`Login`), the SELECT over all addresses (`CountAll`), and the
verification with the INSERT (`WrongPassphrase`, `RightPassphrase`, which goes on to
`create_session`). A route is `Load` (the SELECT of `load_session`), then `DropExpired`
or `Renew`, then `Refuse`, `Serve` or `ApiLogout`. `/logout` destroys a session without
loading it. `out` is history: the tokens whose logout has been carried out; a request
carries whether it began after that (`late`). The backoff doubles up to `MaxShift`
times and is capped by the window, as in the code; `TwoTo` is the power, as a
recursive function.

### Dialogs.tla, DialogsProofs.tla

`tg` is Telegram's truth: a switch for the dialog (pinned, muted and archived work
alike), one for the reaction to a message, and a number that every change raises, so
that a snapshot tells which changes it shows. `tg.listed` says whether the chat is
among the 200 dialogs that `get_dialogs` asks for; it comes in with a new message and
goes as other chats do (`Moved`). A chat that is not there has no dialog, and
everything of it reads as not set (`Reads`, `getattr(None, "pinned", False)` in the
code). `cache` and `age` are `_dialog_cache` and what has passed since
`_dialog_cache_at`. `call[c]` is an RPC: a toggle looks, acts, perhaps forces a fetch,
shows; `read`, `rights` and `vote` act and show; `list` only shows. A fetch is asked,
served by Telegram and stored in three steps, since `_dialogs` writes every entity to
the database before it stores the result. `Retry` is the scheduler repeating a call
whose answer was lost: the factory closes over the negation worked out before.
`Elsewhere` is another device. `MIRROR_DIALOG_STATE` is on, which is the default; with
it off a toggle changes nothing and only fetches. When its change has been answered a
call looks again as if it had just come in (`Looks`): pin, mute and archive fetch by
force first, react and vote read the message, the others shape the chat from the cache.

The rest is history. `floor` is the last change that was made known here: by a stored
snapshot, by the handler of a new message, by `mark_read`. A fetch that has been served
becomes `overtaken` when another snapshot is stored or the cache is invalidated before
it is stored itself; `stray` says that the cache was filled by such a fetch, and
`astray` that a call answers from it. `due` is what a call has to know: `floor` when it
came in, and for those that look again their own change. `was` and `alone` belong to the
toggles: the switch when the call came in, and that nobody else has turned it nor a
snapshot belied it.

### MC modules

One for each module above gives the constants their values; a cfg sets only constants.

## 3. Runs

| Run | Configuration | Shows |
| --- | --- | --- |
| `scheduler` | `MCScheduler.cfg` | two calls, every lane with and without a peer, one slot per lane, two retries, floods of 1 (slept through) and 2 (too long): `NothingLeaks`, `PeerFifo`, `FloodWaitHonoured`, `NoDuplicateWithoutServerError`, the inductive `SchedulerInv`, the refinement of `CallService`, `EveryCallSettles`, `SendsSettleDespiteHungDownloads` |
| `scheduler_lanes` | `MCSchedulerLanes.cfg` | **violated**: `DownloadsNeverDelaySends` |
| `hub` | `MCUpdateHub.cfg` | one tab, three connections, queues of 2, three updates, two faults, two retries: `StreamHasNoGap`, `BannerIsCurrent`, `RegisteredHandlersRun`, `NoEarlyGivingUp`, `QueuedUpdatesArrive`, `TabsReconnectOrGiveUp` |
| `hub_dropped` | `MCUpdateHubDropped.cfg` | **violated**: `DroppedClientIsDisconnected`, with no fault at all |
| `chats` | `MCChatLifecycle.cfg` | one chat, three tasks of every kind, two getChats that may fail or leave chats out: `ListFollowsTheTable`, `AddwebReachesTheTab` |
| `chats_duplicate` | `MCChatLifecycleDuplicate.cfg` | **violated**: `NoDuplicateRow` by two `.addweb` |
| `media` | `MCMediaCache.cfg` | two requests, two keys (sizes 2 and 1, budget 2), two crashes, a cache that is empty or full at the start: `SingleFlight`, the inductive `MediaInv`, the refinement of `FileCache`, `OnlyCrashesTear`, `SweepReachesTarget`, `RequestsEnd` |
| `uploads` | `MCUploads.cfg` | two uploads, two sends, two faults (crashes, failed unlinks): `FilesAndRowsAgree`, `SentUploadsStay`, `SendsLoseOnlyOldFiles`, `UnsentUploadsGo` |
| `access` | `MCAccess.cfg` | two addresses, one token, two requests, limits of 1 and 4, backoff 1, 2, 3: `BackoffHolds`, `HourIsBounded`, `LogoutIsFinal`, `LockoutEnds` |
| `dialogs` | `MCDialogs.cfg` | two calls, one retry, two changes, a cache good for one tick, a chat inside or outside the 200 dialogs: `AloneTurnsOnce`, `AnswersKeepUp`, `ListHeals` |
| `timeline` | `MCTimeline.cfg` | two chats with two messages each, two RPCs at once, three moves (RPCs, posts, edits, deletions), two seconds: `CalmListIsExact`, `OnlyStraysMixChats`, `OutStaysOut` |
| `timeline_command` | `MCTimelineCommand.cfg` | **violated**: `CommandNeverShown`, by one command and one load |

`hub`, `chats` and `timeline` check their `TypeOK` too; that of the other modules is
part of an inductive invariant or proved as a theorem.

**Bounds.** Scheduler: two calls meet in each queue and on each lock with every pair
of lanes and peers; a third would queue behind a waiter, which the proofs cover, for
they hold for any number of calls. `MaxRetries` of two lets a flood follow an error and
an error a flood. UpdateHub: `QueueMax`, `WireMax`, `MaxEvents`, `MaxFaults` and
`MaxAttempts` are constants and small: a queue of two overflows within three updates;
two faults allow a crash after a cut, so that two dead handlers exist beside a live
one. Tabs share only the loop of `emit`, so one tab with several connections shows what
several tabs would. ChatLifecycle: chats share no state but the list's order; the races
need two tasks, and a third one makes the one whose effect is seen afterwards.
`MaxRefresh` bounds the reloads: two is the least that can overtake one another.
MediaCache: two requests meet on the lock of one key, or one touches the row the
sweeper has just read while the other stores; a cache that is full at the start lets
a sweep run next to both. Of the two keys one alone is above the target, so a sweep
evicts one or both. `MaxCrashes` of two lets a crash follow what a crash has torn.
A third request multiplies the states by more than twenty-five; the proofs hold for
any number. Uploads: two handles let
the sweeper have one removed and one to come; two sends can share a handle or hold one
each; `MaxBad` of two lets a failed unlink follow a crash. Access: each address is
held by its own backoff, and `LoginMaxAll` of 4 is within reach of the two; with `Window` = `Hour`
= 3 ticks and `Base` = 1 the backoff takes all its values, the cap included; `Rate` = 1
lets a login through in every tick. Dialogs: a fetch, and a change or a second fetch
that overtakes it, are two calls; `MaxChanges` of two makes one turn the switch and the
other race it. Timeline: three moves are a send and its echo with a switch of the chat,
a clear between a post and a load, or a post, an edit and a deletion in a row; a fourth
multiplies the states by more than ten. Symmetry is used in Timeline alone, which
checks no liveness: over the chats and the slots.

**Deadlock** is checked for the scheduler, where `AllSettled` is the only state
with nothing to do, and for access, dialogs and uploads, where time or a new request
always goes on. The hub, chat, media and timeline runs switch it off because there a
quiet system whose bounded events, faults, tasks and requests are used up may stop.

**Fairness.** The event loop runs what is ready and fires due timers: weak
fairness of `TakeSlot`, `TakePeer`, the wakes and `Tick`, of the websocket
handlers and of a task's next step. systemd restarts the process. A browser reads
its socket, notices that it closed and runs its timers. Answers of Telegram are
not a property of this code: `EveryCallSettles` states them as its premise
(`TelegramAnswers`), and `FairSpec` grants them to the high lane only, which is
what lets downloads hang. In MediaCache the producer returns or raises, which
`EveryCallSettles` gives for a call that Telegram answers. Access assumes that time
passes and nothing of any request. In Uploads time passes and the sweeper, which runs
at an interval whatever its last round met, takes its steps; sends may hang. In Dialogs
a call that is under way goes on, which is again `EveryCallSettles`. No fairness is assumed
of the media sweep, of users, of updates, of faults, of `TellingFails` and
`RefreshFails`, or of a tab asking for a reload and getting its answer.

### What the violations show

* **The lanes share the pause** (`floodqueue.py:63,72`). README.md:140-141 promises
  "two lanes so media downloads cannot delay a send". They have separate slots;
  but a flooded download sets the one `_paused_until`, and a send that starts an
  attempt within it sleeps, up to five minutes.
* **A dropped client stays connected** (`hub.py:51`). The queue leaves the set; the
  handler sends what is left and then waits for ever in `queue.get`; the socket
  is not closed, so the tab neither notices nor reconnects.
* **Two `.addweb` in flight give two rows** (`telethon_gw.py:1468-1475`), although
  the comment there says "no duplicate row in the client". The duplicate goes
  with the next quiet reload, after which the list is exact (`ListFollowsTheTable`).
* **A fresh command can be shown** (`telethon_gw.py:357`). README.md:130-131 says that
  commands are recorded "before any handler fires and excluded from history". The
  recording is a handler itself, and comes after two awaits in it: a getMessages
  that has the message from Telegram and filters before the INSERT returns it.

### Properties read with their premises

`SendsSettleDespiteHungDownloads` assumes that no low-lane call has a peer:
`mark_read` is such a call, and one that hangs holds the lock that sends to the
same chat wait for. `ListFollowsTheTable` says nothing of a chat that is `loose`;
`chats_duplicate` shows what the exception is for, and so does a `.delweb` that runs
while `.addweb` shapes its chat. It does speak of chats whose tasks overlap in other
ways (two removals, a check that returns early), of reloads that overlap events of
other chats or one another, of reloads that fail, and of every chat again once a quiet
reload was answered; a chat that this answer could not shape is expected to be missing
(`lost`) until its next event. `AddwebReachesTheTab` begins where `.addweb` has found
the chat not enabled, and is not excused by losing the race for the row: then the task
it lost to has to announce the chat. It excuses a Telegram call that fails after the
row was enabled (nothing but a reload brings the chat in then, which
`ListFollowsTheTable` says), a private chat opened at the same time, and a removal that
is about to be announced.
`CalmListIsExact` names what makes the bubbles differ from a reload: two things under
way at once (a handler overtaking another, an event during a load, an answer for a
chat that was left), a load or a deletion that failed (the tab removes the bubble
without looking at the answer), a lost answer, a number that two chats share, an
echo that comes before the answer to its own send, and a send within the second
of a clear. Without them the list is exact, in order and version.
`OnlyStraysMixChats` is why a deletion goes to the message it was asked for: the
tab sends the number of the bubble and the chat that is open.
`OutStaysOut` allows what was decided before: a handler past its row, a load that
has read the old watermark, a frame on its way; and the edit of a hidden message,
which the tab puts in place of any bubble with its number.
`SweepReachesTarget` speaks of a sweep into which no store and no failed unlink
fell: a store adds bytes the sweep did not count, and a file that cannot be
removed is skipped. What lookups do under it, touching and purging, it must bear:
only the bytes of the row that it read twice, which it takes for freed twice, may
remain above the target.

`AloneTurnsOnce` speaks of a toggle whose switch nobody else turned meanwhile and whose
snapshot was true; two at a time may cancel out, and a chat outside the 200 dialogs is
always turned on. `AnswersKeepUp` excuses an answer from a `stray` cache, and that only:
a fetch that Telegram had served before something was made known here, and that was
stored after it, is taken as fresh for 20 seconds. (Without the exception TLC finds
such an answer in the code as it is.) The calls that shape the chat from the
cache after a change of rights do not owe their own change, see below. `ListHeals` is
for a tab that keeps asking, which every new message makes it do, and for a chat that
stays among the 200 dialogs: any other is shown with nothing set, for ever.
`NoEarlyGivingUp` counts refusals since the tab was last connected; that of a cut link
is not among them. `SendsLoseOnlyOldFiles` allows a send
that waited until its upload was more than an hour old. `BackoffHolds` counts the
requests that had passed the count: each may add one failure within a backoff.

Faulty variants (`LockIgnored`, `LeaveWithoutFinally`, `EmitSkipsFull`, ...) stand
next to the definitions they vary; each property is violated under the variant
that `PROJECT.json` names for it, so none of them holds by the shape of the model.

## 4. Proofs

`SchedulerProofs` proves, for every set of calls, peers, slots, retries and waits,
under the assumptions named in `Scheduler` (`NoPeer` is no peer, requests are
lane-peer pairs, limits are natural numbers, the calls are finitely many):

| Theorem | Statement |
| --- | --- |
| `TypeCorrect` | `Spec => []TypeOK` |
| `InvariantHolds` | `Spec => []SchedulerInv` |
| `PeersAreExclusive`, `PeerCallsKeepOrder` | `[]PeerExclusive`, `[]PeerFifo` |
| `SlotsAndLocksNeverLeak` | `[]NothingLeaks` |
| `FloodWaitsAreHonoured` | `[]FloodWaitHonoured` |
| `DuplicatesNeedServerErrors` | `[]NoDuplicateWithoutServerError` |
| `SchedulerImplementsCallService` | `Spec => ImplementsCallService` |

None of the safety properties is inductive. `PeerFifo` speaks of arrival at the
*semaphore*, the lock knows only who asked *it* first; `LaneOrder` says that the
second queue is entered in the order of the first, `LockOrder` that a holder of
the lock has no unsettled predecessor in the second, and together with
`PlacesInOrder` (places are distinct and handed out in order) they give it.
`NothingLeaks` is the accounting of slots and locks against the calls that hold
them; `SleepCoversWait` says that a flooded call sleeps at least what it owes,
whatever happens to the pause; `AppliedOnlyInDoubt` bounds how often a call in
progress was carried out. Their conjunction with `PeerExclusive` and `TypeOK` is
`SchedulerInv`, which TLC checks too.

Most conjuncts look only at the queues, the lock and the slots. The lemma
`StepShape` says once what any step does to those: it is `Submit`, `TakeSlot`,
`TakePeer`, a call leaving, or a quiet step; each conjunct then has one lemma
with these five cases. `SlotStep` rests on the cardinality lemmas `HoldersAdd`
and `HoldersRemove`. The refinement maps the five cases to the steps of
`CallService` or to a stutter.

`MediaCacheProofs` proves, for every set of requests and keys, all sizes, every
budget, any number of crashes and every cache of distinct rows at the start
(assumptions `SizesAreNumbers`, `EarlierAreCaches`):

| Theorem | Statement |
| --- | --- |
| `InvariantHolds` | `Spec => []MediaInv` |
| `OneProducerPerKey` | `[]SingleFlight` |
| `RowsAndFilesAgree` | `Spec => OnlyCrashesTear` |
| `MediaCacheImplementsFileCache` | `Spec => ImplementsFileCache` |
| `SweepsReachTheirTarget` | `Spec => SweepReachesTarget` |
| `TypeCorrect` | `[]TypeOK` |

`SingleFlight` is not inductive: that only one request fetches a key, and only while it
has no row, follows from who is in its line. `LinesMatch` says that the line is made of
exactly those who wait or hold, `HolderIsHead` that the holder is its head,
`MissedStaysAbsent` that a holder that found nothing keeps the key without a row:
purges and evictions only remove rows, touches only move them, a crash ends the
request, and the one step that adds a row is the holder's own. `StepShape` again sorts
the steps by what they do to lines and requests. The lemmas about sequences
(`RemoveFirstProperties`, `AppendToLine`, `TailOfLine`) say what deleting by key,
joining and leaving do to a sequence without repetitions.

The refinement needs more: a lookup looks at a row that the database read an await
earlier, and a response opens a file that was there awaits ago. `FoundFilesHaveRows`
says that what a request has seen in the table, or stored, has its row whenever its file
is there: purges are for rows without a file, evictions take both, and a store brings
both (`FilesKeepRows`). `SavedFilesHaveRows` says the same of what the last commit
saved, so that a crash cannot bring back what was removed. `RequestMoves` says once how
a step of a request looks to `FileCache`; then there is a case per action.

That a sweep reaches its target rests on `SweepCounts`: as long as nothing disturbs it,
every row of the table is in the list that the sweep goes through, and what it has
freed and what it still lists add up to at most the sum it read, plus `Bytes(twice)`.
Between the two halves of the SELECT the first row counts as listed even if it is
purged (`First1`); while a DELETE is under way its row is gone and not yet counted.
`SweepCounts` says so with the variables, `CountsAt` with arguments, so that `CountsRead`,
`CountsNext` and `CountsShrink` are lemmas about sequences and sums alone. When the
sweep stops, what is left is part of what it has not looked at, and that is at most
the sum less what was freed. `Bytes` is a recursive sum whose order of summands is
left open; `BytesRemove` shows that the order does not matter, `BytesAdd` and
`BytesGrow` are what the lemmas use of it.

`UploadsProofs`, for any handles, sends, hour and number of faults; `DialogsProofs`,
for any number of calls, retries and changes and any lifetime of the cache;
`AccessProofs`, for any addresses, tokens, requests and limits under the assumptions
of `Access`:

| Theorem | Statement |
| --- | --- |
| `UploadsProofs!TypeCorrect`, `OnlyCrashesOrphan` | `[]TypeOK`, `[]FilesAndRowsAgree` |
| `SentUploadsAreKept`, `YoungUploadsSurviveSends` | `[]SentUploadsStay`, `[]SendsLoseOnlyOldFiles` |
| `DialogsProofs!TypeCorrect`, `TogglesTurnOnce` | `[]TypeOK`, `[]AloneTurnsOnce` |
| `AnswersAreNotOld` | `[]AnswersKeepUp` |
| `AccessProofs!TypeCorrect`, `LogoutIsForGood` | `[]TypeOK`, `[]LogoutIsFinal` |
| `BackoffIsKept`, `HourIsKept` | `[]BackoffHolds`, `[]HourIsBounded` |

`UploadsInv` adds to the properties what they rest on: which halves of an upload exist
at each stage of its request (`UploadOrder`), that the sweeper holds only open or
consumed rows that are old (`SweepOrder`), what a crash may leave (`TornHalves`), that
a send is about an upload whose row was inserted and stops at one that a crash tore
(`SendOrder`), and that a safe upload is never among the chosen (`SafeUnchosen`). Ages
only grow, so old is old for good. `DialogsInv` is `TypeOK`, a cache that is not from
the future, `CacheKnows` (a good cache that is not stray is not older than `floor`) and
`CallsKnow`: what a call knows at each stage. Of its switch, as long as it is alone
with it: a repeated attempt finds the switch as the first one left it, because the
negation is in the call's snapshot and not worked out anew. Of what it owes: what has
been served to it is not older than `due`, because Telegram serves after the call came
in and after its own change; what is in the cache is not, because a call that looks
into a cache does not owe more than `floor`, or has fetched by force since its change,
which raised `floor`. The step that needs all of it is a store by one call between two
steps of another. `AccessInv` says that a token that is out has no row and no request
that began afterwards has got past `Load`; it holds because the renewal updates and
never inserts, and a token is issued once.

The two bounds of the throttle speak of sums over ages and addresses. Their inductive
invariant `Throttle` counts what is still to come: a request of an address that has
been counted (`Waiting`) may add one failure, and so may one that has been cleared
(`Cleared`) to the hour's total. `Waited(F, n)`, for the failures `F` of an address
with `n` requests waiting, says of every split of its window: if the older part
reaches the limit with `k` more, the younger part is no longer than that backoff,
and anything has failed in it, then the failures in it and those that wait are at
most `Requests` together.
It is `Login` that establishes it: a request gets past the count only if the younger
part is empty (`PassingWaited`; that later backoffs are no shorter, `BackoffGrows`,
makes one comparison enough for every `k`). A failure moves one from waiting to
failed (`FailingWaited`), a tick moves the split (`TickWaited`). `Apart` is the
property itself for every place of the window: what a failure changes is the split
at 0, where `Waited` gives it, and a tick only shifts the rest.
`InAll + Cardinality(Cleared)` stays within the hourly bound, because a request is
cleared only while the total is below it.

`UpdateHubProofs`, for any tabs, connections, queue and wire lengths, events, faults
and attempts, under `BoundsArePositive` and `NoConnIsNone`; `ChatLifecycleProofs`, for
any finite set of chats (`ChatsAreFinite`), any tasks and number of reloads:

| Theorem | Statement |
| --- | --- |
| `UpdateHubProofs!TypeCorrect`, `RegisteredMeansRunning` | `[]TypeOK`, `[]RegisteredHandlersRun` |
| `StreamIsGapless`, `BannersAreCurrent` | `[]StreamHasNoGap`, `[]BannerIsCurrent` |
| `GivingUpIsEarned` | `[]NoEarlyGivingUp` |
| `ChatLifecycleProofs!TypeCorrect` | `[]TypeOK` |
| `EventsKeepTheList` | `[]ListFollowsTheTable` |

`TypeInv` of the hub adds to the types which handlers and links go together
(`HandlersAndLinks`) and which connection a tab has (`TabsAndSockets`). `WayStep` sorts
every step by what it does to the frames on their way to one tab: one is added at the
end, one is taken from the front, the way is new or cut, or nothing changes; sending a
frame moves it within the way. The stream is then one invariant (`StreamOf`: the run
received, the run on its way, and that nothing carries an update that was not
emitted) with one lemma for these cases, and so is the banner: every status
frame on its way to a registered tab carries the hub's status (`StatusOf`), and the
banner shows that status or the frame is still on its way (`BannerOf`).

`Counted` is what giving up rests on: a tab that is connected has forgotten its
attempts, and every attempt but the one after a cut link was refused.

`ListFollowsTheTable` speaks of quiet moments alone; `IInv` says what holds between
them. `Settled` is about a chat that is not loose: a task that adds meets no other that
changes the row (`AddersAlone`); what has been done and not announced is known at each
stage of a task (`AtStage`); the events on the websocket fit each other and the list, an
addition only of what will be absent by then (`Fits`); what the list will be once they
are handled agrees with the row unless a task has still to tell (`Agree`); and each
answer under way says of the chat what the tab has, or has crossed an event of it
(`Told`). `Due` is about every chat, loose or not: an answer under way says what the row
is, or an event is still to come, so that an answer that is wrong is known to have
crossed something. `QuietAnswers` says that what was read in a quiet moment is what the
table holds for as long as the moment lasts, which is why such an answer makes every
chat settled again. One group of lemmas is about events in a queue (`KnowsAppend`,
`FitsAppend`, `HandleKnows`), one about places in lists (`WithoutFacts`, `RowsOnce`),
and then there is a case per step. TLC checked `IInv` on small instances first.

`TimelineProofs`, for any finite set of chats, any requests at a time and any bounds
(`BoundsAreNaturals`, `NoneIsNoChat`, `ChatsAreFinite`):

| Theorem | Statement |
| --- | --- |
| `TimelineProofs!TypeCorrect` | `[]TypeOK` |
| `BubblesAreOfTheOpenChat` | `[]OnlyStraysMixChats` |
| `WhatIsOutStaysOut` | `Spec => OutStaysOut` |
| `CalmListsAreExact` | `[]CalmListIsExact` |

`TimelineInv` adds to the types that a handler is about a message that is in the log and
of its kind (`TaskOK`: announced messages are texts, with their first version), that what
is recorded is a command (`RecordsOK`), that a call that was carried out has a message
and a load brings bubbles of its chat alone (`CallOK`). TLC checked it on the instance of
the run first. That a version stays within its bound is not plain, as the guards bound
the number of moves: `VersionsBounded` counts the edits of a message among them.
`OutStaysOut` is proved from `Away`, four statements that together say that nothing
carries the message: not shown, no call that would bring it, no frame, no handler past
its row. `StepKeeps` says that messages keep kind and date and that records stay, hence a
load that is barred from a message stays barred (`StaysAway`); then each group of steps
has one lemma (`OutTelegram` to `OutFrame`). A handler cannot bring back a recorded
command, because what it announces is a text; a load cannot, because it compares with a
watermark that was there when it began; an edit can only put it in the place of a bubble
with its number, which without a crossing is its own, and is not there.

`CalmListIsExact` speaks of still states alone. `CalmInv` says what holds on the way
from one to the next. `View` gathers what the tab shows and what a reload is made of;
in a calm state at most one call is under way and at most one handler or frame, which
is then that call's own (`Alone`, `OneEvent`, `OwnEvents`), and what the view still
lacks is exactly what that one thing brings: an append after a post (`NewDue`), a patch
after an edit, a drop after a deletion or a command, the answer of a load (`EditDue`,
`DeleteDue`, `CommandDue`, `LoadDue`), everything after a clear (`ClearDue`). What a
reload shows is one filter of the log (`Vis`), so that each of these is a lemma about
filters (`VisPost`, `VisEdit`, `VisDelete`, `VisFilter`, `VisHidden`): a message
appended to the log is appended to the list or not at all, an edit patches the one
bubble in its place, a deletion or a record drops it. That an event may come beside the
answer to its own call rests on patching and dropping twice being the same as once
(`PatchTwice`, `DropTwice`), and on echoes for a send. `Pasts` keeps what a clear needs,
that nothing is dated later than now, and what an echo needs, that its message was
posted. TLC checked `CalmInv` and `Pasts` on the run's instance and on one with three
moves first.

Sums, the filters of the tab and of get_messages and the powers of the backoff are
defined by recursion. The
library's induction theorems take a predicate as a parameter, which the provers at
hand do not instantiate; where induction is needed it is done by hand, over a *set*
of good arguments that has a least element outside it otherwise (`Induction`,
`SetInduction`, from `WFMin`), after a proof that the recursive function exists
(`Unfolds`, `Adds`, `FilterExists`).

Only model-checked: liveness (`EveryCallSettles`, `SendsSettleDespiteHungDownloads`,
`RequestsEnd`, `UnsentUploadsGo`, `LockoutEnds`, `ListHeals` and the leads-to properties
of `UpdateHub` and `ChatLifecycle`), which needs ENABLED and fairness that the proof
system does not handle. Every invariant and every action property that a passing run
checks has a theorem.

## 5. Not modelled

* Cancellation of a call that waits in the scheduler: no caller cancels one.
* Origin, csrf token and user agent, which are refusals that look at the request
  alone (`Refuse` stands for them where a session has been loaded).
* Paging, searches and shared media, reactions in the bubbles, receipts, the forgetting
  of echoes after 120 seconds, and commands typed by others or in the web client itself
  (which get_messages and send_message do not hold back); deletions in private chats,
  whose updates carry no peer, so that `_enabled_cid` drops them.
* Forwarding, albums, contacts and polls beyond their guard: one scheduled call each.
* Reconnecting: Timeline and ChatLifecycle have one connection that is not cut, and
  nothing in the shell reloads when a socket opens again.
* Typing indicators: a timer that emits the end of typing, on which nothing depends.
* Settings, profile and privacy: value checks and sequences of calls without state.
* Formatting, message shapes, ids, configuration, cryptography, rendering.
* `outbox` and `msg_ids`: the tables exist and nothing writes them.
* The fake gateway, which only the smoke script runs.

### What was seen on the way

Behaviour met while reading, which the models take as it is:

* `media.py:108` says that files in flight are not removed, but nothing calls
  `mark_inflight`: a sweep can take a file between the lookup that found it and the
  response that opens it. The request fails, row and file still agree
  (`OnlyCrashesTear`), and the next one fetches again.
* The same docstring promises "eviction down to the byte budget". A lookup that touches
  the least recently used row between the first step of the sweeper's SELECT and its
  fetchall makes that row appear twice in the list, whose second visit unlinks nothing
  and counts its bytes as freed again: the sweep may end above its target by the size of
  that row, and so above the budget if the row is large. The next sweep, ten minutes
  later, makes up for it. `SweepReachesTarget` has the term `Bytes(twice)` for it, without
  which it does not hold. (Nor could it be proved: this is how it was found.)
* `set_permission`, `set_sign_messages` and `add_members` answer with a chat shaped from
  a cache of up to 20 seconds, so the answer may show the rights of before the change.
* `_dialogs` asks for the 200 latest dialogs (`telethon_gw.py:165`). An enabled chat
  that is not among them is shaped without a dialog, for as long as it stays out: unread
  0, not pinned, muted or archived, no last message; and pin, mute and archive then
  always turn on, never off. `ListHeals` has the premise `tg.listed` for it.
* The file a download is written to is named after message and variant
  (`.dl-{msg}-{variant}`, `telethon_gw.py:1284`) and not after the chat, so that the
  downloads of two chats with a message of the same number can meet in one file. The
  producers' files are not in MediaCache.
* Two toggles of one switch at a time may cancel out, and so may one here and one on
  the phone; `AloneTurnsOnce` is what is left.
* A websocket asks for the session when it connects and not again; it outlives a logout.
* An upload that was sent is never removed, and its handle can be sent a second time.
* Searches look at `enabled` and `filtered_msgs` but not at the watermark of
  `clear_history`, shared media at neither table; the comment at `telethon_gw.py:1062`
  says only "hide everything up to now in this client".

## 6. Plan

What is left, in the order of importance; each with its mutants and hazards.

1. An abstract specification of the hub (a stream per connection that is a run of
   what was emitted), with its refinement.
2. `Timeline`, the rest: paging with `before` in whole seconds, reactions and read
   receipts, searches against the watermark.
3. Composition of `UpdateHub`'s stream with `Timeline` and `ChatLifecycle`: what a
   reconnect without a reload leaves stale.
4. Pure algorithms: `decode_waveform`'s downsampling, `ids`, `human_size`, `sanitize`
   against reference definitions.
