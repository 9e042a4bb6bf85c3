----------------------------- MODULE MediaCache -----------------------------
(***************************************************************************)
(* The media cache of media.py: requests that look a key up, fetch it      *)
(* under a lock per key and serve the file (get_or_fetch, lookup, store,   *)
(* main.py _file_response), and the sweeper that evicts the least recently *)
(* used files down to a budget (sweep).                                    *)
(*                                                                         *)
(* aiosqlite runs the statements of all tasks on one thread, in the order  *)
(* they are submitted, so a statement takes effect together with the code  *)
(* that submits it, file operations included; its result and its commit    *)
(* come later.  Only a crash separates a file from the row that describes  *)
(* it: a row not yet committed is lost, what was done to the file is not.  *)
(***************************************************************************)
EXTENDS Integers, SequencesExt

CONSTANTS Requests,  \* requests of the media route, used once each
          Keys,      \* cache keys; path_for gives each its own file
          Size,      \* Size[k]: the bytes of the file of k
          Budget,    \* media_cache_max_bytes
          Earlier,   \* the caches that earlier processes may have left behind
          MaxCrashes \* bound: how often the process dies

ASSUME SizesAreNumbers ==
    Size \in [Keys -> Nat \ {0}] /\ Budget \in Nat /\ MaxCrashes \in Nat

ASSUME EarlierAreCaches ==
    \A c \in Earlier : c.files \subseteq Keys /\ c.rows \in Seq(Keys) /\ IsInjective(c.rows)

VARIABLES files,     \* the keys whose file exists
          rows,      \* media_cache, least recently used first
          saved,     \* media_cache as of the last commit
          step,      \* what request r does next
          key,       \* the key request r is about, once it has started
          saw,       \* did the SELECT of r find a row?
          line,      \* line[k]: the lock of k, the holder first, then its waiters
          sweeping,  \* the sweeper: asleep, listing, reading, evicting, deleting
          total,     \* the sum it read
          freed,     \* the bytes it has evicted
          todo,      \* the rows it read and has not looked at
          twice,     \* the row it reads twice, if there is one
          disturbed, \* history: did a store or a failed unlink fall into this sweep?
          crashes

requestVars == <<step, key, saw, line>>
sweepVars == <<sweeping, total, freed, todo, twice, disturbed>>
vars == <<files, rows, saved, requestVars, sweepVars, crashes>>

\* The two lookups of get_or_fetch, outside and under the lock.
Outside == {"probe1", "purge1", "touch1"}
Holding == {"probe2", "purge2", "touch2", "fetch", "store"}
Found == {"touch1", "touch2", "store", "open"}
Ended == {"served", "gone", "error", "failed", "lost"}

HasRow(k) == Contains(rows, k)
Bytes(keys) == MapThenSumSet(LAMBDA k : Size[k], keys)

CacheTypeOK ==
    /\ files \subseteq Keys
    /\ rows \in Seq(Keys) /\ IsInjective(rows)
    /\ saved \in Seq(Keys) /\ IsInjective(saved)
    /\ step \in [Requests -> {"unused", "lock", "open"} \cup Outside \cup Holding \cup Ended]
    /\ key \in [Requests -> Keys]
    /\ saw \in [Requests -> BOOLEAN]
    /\ line \in [Keys -> Seq(Requests)]
    /\ crashes \in 0 .. MaxCrashes

SweepTypeOK ==
    /\ sweeping \in {"asleep", "listing", "reading", "evicting", "deleting"}
    /\ total \in Nat /\ freed \in Nat
    /\ todo \in Seq(Keys) /\ (sweeping = "deleting" => todo # <<>>)
    /\ twice \in {{}} \cup {{k} : k \in Keys}
    /\ disturbed \in BOOLEAN

TypeOK == CacheTypeOK /\ SweepTypeOK

Init ==
    /\ \E c \in Earlier : files = c.files /\ rows = c.rows /\ saved = c.rows
    /\ step = [r \in Requests |-> "unused"]
    /\ key \in [Requests -> Keys]
    /\ saw = [r \in Requests |-> FALSE]
    /\ line = [k \in Keys |-> <<>>]
    /\ sweeping = "asleep"
    /\ total = 0
    /\ freed = 0
    /\ todo = <<>>
    /\ twice = {}
    /\ disturbed = FALSE
    /\ crashes = 0

-----------------------------------------------------------------------------
\* Requests.

Goto(r, s) == step' = [step EXCEPT ![r] = s]
Without(k) == RemoveFirst(rows, k)
Latest(k) == Append(Without(k), k)

\* The row of k becomes the latest: if it is the one the sweep stands on, the
\* sweep will meet it again.
Move(k) ==
    /\ rows' = Latest(k)
    /\ twice' = IF sweeping = "reading" /\ todo = <<k>> THEN {k} ELSE twice

JoinLine(r) == line' = [line EXCEPT ![key[r]] = Append(@, r)]
LeaveLine(r) == line' = [line EXCEPT ![key[r]] = Tail(@)]

\* The first lookup submits its SELECT.
Ask(r) ==
    /\ step[r] = "unused"
    /\ saw' = [saw EXCEPT ![r] = HasRow(key[r])]
    /\ Goto(r, "probe1")
    /\ UNCHANGED <<files, rows, saved, key, line, sweepVars, crashes>>

\* Faulty variants: the lock ignored, and no second lookup.
AcquireAnyTime(r) ==
    /\ step[r] = "lock"
    /\ saw' = [saw EXCEPT ![r] = HasRow(key[r])]
    /\ Goto(r, "probe2")
    /\ UNCHANGED <<files, rows, saved, key, line, sweepVars, crashes>>

AcquireAndFetch(r) ==
    /\ step[r] = "lock"
    /\ Head(line[key[r]]) = r
    /\ Goto(r, "fetch")
    /\ UNCHANGED <<files, rows, saved, key, saw, line, sweepVars, crashes>>

\* The lock is granted in turn; the second lookup submits its SELECT.
Acquire(r) ==
    /\ step[r] = "lock"
    /\ Head(line[key[r]]) = r
    /\ saw' = [saw EXCEPT ![r] = HasRow(key[r])]
    /\ Goto(r, "probe2")
    /\ UNCHANGED <<files, rows, saved, key, line, sweepVars, crashes>>

\* What follows a lookup without a hit: wait for the lock, or call the producer.
Miss(r) ==
    \/ /\ step[r] \in Outside
       /\ Goto(r, "lock")
       /\ JoinLine(r)
    \/ /\ step[r] \in Holding
       /\ Goto(r, "fetch")
       /\ UNCHANGED line

\* The row of the SELECT is there: does it exist, and does its file?
ProbeMiss(r) ==
    /\ step[r] \in {"probe1", "probe2"} /\ ~saw[r]
    /\ Miss(r)
    /\ UNCHANGED <<files, rows, saved, key, saw, sweepVars, crashes>>

ProbeGhost(r) ==
    /\ step[r] \in {"probe1", "probe2"} /\ saw[r]
    /\ key[r] \notin files
    /\ rows' = Without(key[r])
    /\ Goto(r, IF step[r] = "probe1" THEN "purge1" ELSE "purge2")
    /\ UNCHANGED <<files, saved, key, saw, line, sweepVars, crashes>>

ProbeHit(r) ==
    /\ step[r] \in {"probe1", "probe2"} /\ saw[r]
    /\ key[r] \in files
    /\ IF HasRow(key[r]) THEN Move(key[r]) ELSE UNCHANGED <<rows, twice>>
    /\ Goto(r, IF step[r] = "probe1" THEN "touch1" ELSE "touch2")
    /\ UNCHANGED <<files, saved, key, saw, line, sweeping, total, freed, todo, disturbed, crashes>>

\* The DELETE of a ghost is committed.
Purged(r) ==
    /\ step[r] \in {"purge1", "purge2"}
    /\ saved' = rows
    /\ Miss(r)
    /\ UNCHANGED <<files, rows, key, saw, sweepVars, crashes>>

\* get_or_fetch returns the path and _file_response looks for the file.
Answer(r) == Goto(r, IF key[r] \in files THEN "open" ELSE "gone")

Touched(r) ==
    /\ step[r] \in {"touch1", "touch2"}
    /\ saved' = rows
    /\ \/ step[r] = "touch1" /\ UNCHANGED line
       \/ step[r] = "touch2" /\ LeaveLine(r)
    /\ Answer(r)
    /\ UNCHANGED <<files, rows, key, saw, sweepVars, crashes>>

\* The producer returns: os.replace, then the INSERT.
Fetched(r) ==
    /\ step[r] = "fetch"
    /\ files' = files \cup {key[r]}
    /\ Move(key[r])
    /\ disturbed' = (sweeping # "asleep")
    /\ Goto(r, "store")
    /\ UNCHANGED <<saved, key, saw, line, sweeping, total, freed, todo, crashes>>

\* A faulty variant: an exception of the producer leaves the lock taken.
FetchFailsLocked(r) ==
    /\ step[r] = "fetch"
    /\ Goto(r, "failed")
    /\ UNCHANGED <<files, rows, saved, key, saw, line, sweepVars, crashes>>

FetchFails(r) ==
    /\ step[r] = "fetch"
    /\ LeaveLine(r)
    /\ Goto(r, "failed")
    /\ UNCHANGED <<files, rows, saved, key, saw, sweepVars, crashes>>

Stored(r) ==
    /\ step[r] = "store"
    /\ saved' = rows
    /\ LeaveLine(r)
    /\ Answer(r)
    /\ UNCHANGED <<files, rows, key, saw, sweepVars, crashes>>

\* FileResponse opens the file; from then on an unlink does not disturb it.
Open(r) ==
    /\ step[r] = "open"
    /\ Goto(r, IF key[r] \in files THEN "served" ELSE "error")
    /\ UNCHANGED <<files, rows, saved, key, saw, line, sweepVars, crashes>>

-----------------------------------------------------------------------------
\* The sweeper.

SweepSum ==
    /\ sweeping = "asleep"
    /\ Bytes(ToSet(rows)) > Budget
    /\ total' = Bytes(ToSet(rows))
    /\ sweeping' = "listing"
    /\ UNCHANGED <<files, rows, saved, requestVars, freed, todo, twice, disturbed, crashes>>

\* The SELECT is submitted and steps to the first row; fetchall, submitted later,
\* steps along the index of last_access through the rows as they are by then: past
\* the first one if that is still in its place, else through all of them, and so to
\* the first one again if it was touched in between.
SweepFirst ==
    /\ sweeping = "listing"
    /\ todo' = IF rows = <<>> THEN <<>> ELSE <<Head(rows)>>
    /\ freed' = 0
    /\ twice' = {}
    /\ sweeping' = "reading"
    /\ UNCHANGED <<files, rows, saved, requestVars, total, disturbed, crashes>>

SweepRest ==
    /\ sweeping = "reading"
    /\ todo' = IF todo = <<>> THEN <<>>
               ELSE IF HasRow(Head(todo)) /\ twice = {} THEN rows ELSE todo \o rows
    /\ sweeping' = "evicting"
    /\ UNCHANGED <<files, rows, saved, requestVars, total, freed, twice, disturbed, crashes>>

AboveTarget == 10 * (total - freed) > 9 * Budget

\* A faulty variant: the row stays.
EvictFileOnly ==
    /\ sweeping = "evicting" /\ todo # <<>> /\ AboveTarget
    /\ files' = files \ {Head(todo)}
    /\ todo' = Tail(todo)
    /\ freed' = freed + Size[Head(todo)]
    /\ UNCHANGED <<rows, saved, requestVars, sweeping, total, twice, disturbed, crashes>>

\* unlink, then the DELETE.  _inflight_paths is always empty.
Evict ==
    /\ sweeping = "evicting" /\ todo # <<>> /\ AboveTarget
    /\ files' = files \ {Head(todo)}
    /\ rows' = Without(Head(todo))
    /\ sweeping' = "deleting"
    /\ UNCHANGED <<saved, requestVars, total, freed, todo, twice, disturbed, crashes>>

\* unlink raised: the row is skipped.
EvictFails ==
    /\ sweeping = "evicting" /\ todo # <<>> /\ AboveTarget
    /\ todo' = Tail(todo)
    /\ disturbed' = TRUE
    /\ UNCHANGED <<files, rows, saved, requestVars, sweeping, total, freed, twice, crashes>>

\* A faulty variant: the bytes are counted twice.
EvictedTwice ==
    /\ sweeping = "deleting"
    /\ saved' = rows
    /\ freed' = freed + 2 * Size[Head(todo)]
    /\ todo' = Tail(todo)
    /\ sweeping' = "evicting"
    /\ UNCHANGED <<files, rows, requestVars, total, twice, disturbed, crashes>>

\* The DELETE is committed.
Evicted ==
    /\ sweeping = "deleting"
    /\ saved' = rows
    /\ freed' = freed + Size[Head(todo)]
    /\ todo' = Tail(todo)
    /\ sweeping' = "evicting"
    /\ UNCHANGED <<files, rows, requestVars, total, twice, disturbed, crashes>>

NoSweep ==
    /\ sweeping' = "asleep"
    /\ total' = 0 /\ freed' = 0 /\ todo' = <<>> /\ twice' = {}
    /\ disturbed' = FALSE

SweepEnds ==
    /\ sweeping = "evicting" /\ (todo = <<>> \/ ~AboveTarget)
    /\ NoSweep
    /\ UNCHANGED <<files, rows, saved, requestVars, crashes>>

-----------------------------------------------------------------------------
\* The process dies and is started again: what is not committed is lost, unless
\* the commit was under way.
Crash ==
    /\ crashes < MaxCrashes
    /\ crashes' = crashes + 1
    /\ rows' \in {rows, saved}
    /\ saved' = rows'
    /\ step' = [r \in Requests |-> IF step[r] \in Ended \cup {"unused"} THEN step[r] ELSE "lost"]
    /\ line' = [k \in Keys |-> <<>>]
    /\ NoSweep
    /\ UNCHANGED <<files, key, saw>>

Step(r) ==
    \/ Acquire(r) \/ ProbeMiss(r) \/ ProbeGhost(r) \/ ProbeHit(r) \/ Purged(r)
    \/ Touched(r) \/ Stored(r) \/ Open(r)

Produce(r) == Fetched(r) \/ FetchFails(r)

Next ==
    \/ \E r \in Requests : Ask(r) \/ Step(r) \/ Produce(r)
    \/ SweepSum \/ SweepFirst \/ SweepRest
    \/ Evict \/ EvictFails \/ Evicted \/ SweepEnds
    \/ Crash

Spec == Init /\ [][Next]_vars

\* A request runs on, and its producer returns or raises.
FairSpec == Spec /\ \A r \in Requests : WF_vars(Step(r)) /\ WF_vars(Produce(r))

-----------------------------------------------------------------------------
\* "Called at most once per key at a time" (get_or_fetch), and only for what is not
\* cached: while a producer runs, no other one does and its key has no row.
SingleFlight ==
    \A r \in Requests : step[r] = "fetch" =>
        /\ ~HasRow(key[r])
        /\ \A q \in Requests \ {r} : key[q] = key[r] => step[q] # "fetch"

\* What makes it inductive: the line of a key is made of the requests that
\* wait for its lock or hold it, the holder is at its head, and a holder whose
\* lookup found nothing keeps the key without a row until its own store.
LinesMatch ==
    \A k \in Keys :
        /\ IsInjective(line[k])
        /\ \A r \in Requests :
               Contains(line[k], r) <=> key[r] = k /\ step[r] \in {"lock"} \cup Holding

HolderIsHead == \A r \in Requests : step[r] \in Holding => Head(line[key[r]]) = r

Missed(r) == step[r] \in {"purge2", "fetch"} \/ (step[r] = "probe2" /\ ~saw[r])
MissedStaysAbsent == \A r \in Requests : Missed(r) => ~HasRow(key[r])

\* A file that a request has found or stored, or whose row was saved, has its row
\* as long as it is there.
FoundFilesHaveRows ==
    \A r \in Requests :
        step[r] \in Found \/ (step[r] \in {"probe1", "probe2"} /\ saw[r])
        => (key[r] \in files => HasRow(key[r]))

SavedFilesHaveRows == \A k \in files : Contains(saved, k) => HasRow(k)

\* What the sweep has counted: every row is in its list, and what it has freed and
\* still lists is what it summed, but for a row that is listed twice.
SweepCounts ==
    ~disturbed =>
        /\ sweeping = "listing" => Bytes(ToSet(rows)) <= total
        /\ sweeping = "reading" =>
               /\ freed = 0
               /\ \/ todo = <<>> /\ rows = <<>>
                  \/ \E k \in Keys : /\ todo = <<k>> /\ twice \subseteq {k}
                                     /\ Bytes({k} \cup ToSet(rows)) <= total
        /\ sweeping \in {"evicting", "deleting"} =>
               /\ ToSet(rows) \subseteq ToSet(todo)
               /\ todo # <<>> =>
                      /\ IsInjective(Tail(todo))
                      /\ freed + Size[Head(todo)] + Bytes(ToSet(Tail(todo))) <= total + Bytes(twice)
        /\ sweeping = "deleting" => ~HasRow(Head(todo))

MediaInv ==
    /\ TypeOK /\ LinesMatch /\ HolderIsHead /\ MissedStaysAbsent
    /\ FoundFilesHaveRows /\ SavedFilesHaveRows /\ SweepCounts

\* The cache that its users see: what has a row and a file can be served.
Servable == {k \in files : HasRow(k)}
Stage(r) ==
    IF step[r] \in {"unused", "served", "failed", "lost"} THEN step[r]
    ELSE IF step[r] \in {"gone", "error"} THEN "refused"
    ELSE IF step[r] \in Found THEN "answered"
    ELSE IF step[r] = "fetch" THEN "fetching"
    ELSE "asking"

Cache == INSTANCE FileCache WITH
    present <- Servable, wants <- key, stage <- [r \in Requests |-> Stage(r)]

\* Behind two lookups, a lock, statements that are committed later, a sweeper that
\* unlinks what was just found, and crashes, media.py is the cache of FileCache:
\* whoever finds a file is refused only if it is gone from the cache by then.
ImplementsFileCache == Cache!Spec

\* A row without a file, or a file that no row accounts for, is left behind by
\* a crash and by nothing else, whatever requests and the sweeper do at once.
Torn == {k \in Keys : ~(HasRow(k) <=> k \in files)}
OnlyCrashesTear == [][crashes' = crashes => Torn' \subseteq Torn]_vars

\* A sweep that no store and no failed unlink fell into ends below 90 percent
\* of the budget, although rows may be touched and purged under it; but for the
\* row it read twice, whose bytes it has counted twice.
SweepReachesTarget ==
    [][sweeping = "evicting" /\ sweeping' = "asleep" /\ crashes' = crashes /\ ~disturbed
       => 10 * Bytes(ToSet(rows)) <= 9 * Budget + 10 * Bytes(twice)]_vars

\* Every request ends: served, refused, failed, or lost with the process.
RequestsEnd == \A r \in Requests : step[r] = "probe1" ~> step[r] \in Ended
=============================================================================
