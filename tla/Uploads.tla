------------------------------ MODULE Uploads ------------------------------
(***************************************************************************)
(* The files people attach: the upload route writes a file and then its    *)
(* row (main.py), a message that is sent reads the row, looks for the file *)
(* and leaves it to a scheduled call (telethon_gw.py), and the sweeper     *)
(* removes what was never sent within the hour (media.py).  The three      *)
(* share no lock; a crash may come between any two steps.                  *)
(*                                                                         *)
(* A handle is used once.  A statement takes effect when it is submitted;  *)
(* the database itself does not fail, but the file system may.             *)
(***************************************************************************)
EXTENDS Naturals

CONSTANTS Handles,  \* the handles of uploads
          Sends,    \* the messages with an attachment that may be under way
          Old,      \* an hour, in ticks
          MaxBad    \* bound: how often the process crashes or an unlink fails

ASSUME OldIsANumber == Old \in Nat
ASSUME MaxBadIsANumber == MaxBad \in Nat

VARIABLES upload, \* where the request that uploads stands
          file,   \* whether the file is in uploads/
          row,    \* upload_handles: none, open (consumed = 0) or consumed
          age,    \* how long ago created_at is
          send,   \* where a send stands
          todo,   \* the rows the sweeper has chosen and not yet come to
          gone,   \* the one whose file it has just removed
          bad,    \* crashes and failed unlinks so far
          torn,   \* history: what a crash left halfway
          safe    \* history: the uploads sent in time, before the sweeper chose them

sweeper == <<todo, gone>>
stored == <<file, row>>
vars == <<upload, stored, age, send, sweeper, bad, torn, safe>>

Idle == [at |-> "idle"]
Stages == [at : {"found", "scheduled", "sent"}, of : Handles]

TypeOK ==
    /\ upload \in [Handles -> {"new", "writing", "written", "over"}]
    /\ file \in [Handles -> BOOLEAN]
    /\ row \in [Handles -> {"none", "open", "consumed"}]
    /\ age \in [Handles -> 0 .. Old + 1]
    /\ send \in [Sends -> {Idle} \cup Stages]
    /\ todo \subseteq Handles
    /\ gone \subseteq Handles
    /\ bad \in 0 .. MaxBad
    /\ torn \subseteq Handles
    /\ safe \subseteq Handles

Init ==
    /\ upload = [h \in Handles |-> "new"]
    /\ file = [h \in Handles |-> FALSE]
    /\ row = [h \in Handles |-> "none"]
    /\ age = [h \in Handles |-> 0]
    /\ send = [s \in Sends |-> Idle]
    /\ todo = {}
    /\ gone = {}
    /\ bad = 0
    /\ torn = {}
    /\ safe = {}

Put(f, h, value) == [f EXCEPT ![h] = value]

-----------------------------------------------------------------------------
\* upload

Open(h) ==
    /\ upload[h] = "new"
    /\ upload' = Put(upload, h, "writing")
    /\ file' = Put(file, h, TRUE)
    /\ UNCHANGED <<row, age, send, sweeper, bad, torn, safe>>

\* The file is too large, or writing it fails: it is removed again.
GiveUp(h) ==
    /\ upload[h] = "writing"
    /\ upload' = Put(upload, h, "over")
    /\ file' = Put(file, h, FALSE)
    /\ UNCHANGED <<row, age, send, sweeper, bad, torn, safe>>

Written(h) ==
    /\ upload[h] = "writing"
    /\ upload' = Put(upload, h, "written")
    /\ UNCHANGED <<stored, age, send, sweeper, bad, torn, safe>>

InsertRow(h) ==
    /\ upload[h] = "written"
    /\ upload' = Put(upload, h, "over")
    /\ row' = Put(row, h, "open")
    /\ UNCHANGED <<file, age, send, sweeper, bad, torn, safe>>

-----------------------------------------------------------------------------
\* _send_upload

Goto(s, stage) == send' = [send EXCEPT ![s] = stage]
At(s, a) == send[s].at = a

\* The row is read; without one nothing is sent.
FindRow(s, h) ==
    /\ send[s] = Idle
    /\ row[h] # "none"
    /\ Goto(s, [at |-> "found", of |-> h])
    /\ UNCHANGED <<upload, stored, age, sweeper, bad, torn, safe>>

\* path.exists, and the call is handed to the scheduler.
Schedule(s) ==
    /\ At(s, "found")
    /\ Goto(s, IF file[send[s].of] THEN [send[s] EXCEPT !.at = "scheduled"] ELSE Idle)
    /\ UNCHANGED <<upload, stored, age, sweeper, bad, torn, safe>>

\* An attempt reads the file by its path; if it is gone by now, the send fails.
Attempt(s) ==
    /\ At(s, "scheduled")
    /\ Goto(s, IF file[send[s].of] THEN [send[s] EXCEPT !.at = "sent"] ELSE Idle)
    /\ UNCHANGED <<upload, stored, age, sweeper, bad, torn, safe>>

\* The attempt ends without an answer: the scheduler tries again, or gives up.
Again(s) ==
    /\ At(s, "sent")
    /\ send' = [send EXCEPT ![s].at = "scheduled"]
    /\ UNCHANGED <<upload, stored, age, sweeper, bad, torn, safe>>

SendFails(s) ==
    /\ At(s, "sent")
    /\ Goto(s, Idle)
    /\ UNCHANGED <<upload, stored, age, sweeper, bad, torn, safe>>

\* The UPDATE: it changes nothing when the row is gone.
\* A faulty variant: it brings the row back.
ConsumeAnyway(s) ==
    /\ At(s, "sent")
    /\ row' = Put(row, send[s].of, "consumed")
    /\ Goto(s, Idle)
    /\ UNCHANGED <<upload, file, age, sweeper, bad, torn, safe>>
Consume(s) ==
    /\ At(s, "sent")
    /\ LET h == send[s].of
       IN IF row[h] = "none" THEN UNCHANGED <<row, safe>>
          ELSE /\ row' = Put(row, h, "consumed")
               /\ safe' = safe \cup ({h} \ (todo \cup gone))
    /\ Goto(s, Idle)
    /\ UNCHANGED <<upload, file, age, sweeper, bad, torn>>

-----------------------------------------------------------------------------
\* sweeper_task

Stale(h) == row[h] = "open" /\ age[h] > Old

\* Faulty variants: everything unsent; everything old; what has become old just now.
ChooseUnsent ==
    /\ todo = {} /\ gone = {}
    /\ todo' = {h \in Handles : row[h] = "open"}
    /\ UNCHANGED <<upload, stored, age, send, gone, bad, torn, safe>>
ChooseOld ==
    /\ todo = {} /\ gone = {}
    /\ todo' = {h \in Handles : row[h] # "none" /\ age[h] > Old}
    /\ UNCHANGED <<upload, stored, age, send, gone, bad, torn, safe>>
ChooseJustOld ==
    /\ todo = {} /\ gone = {}
    /\ todo' = {h \in Handles : row[h] = "open" /\ age[h] = Old}
    /\ UNCHANGED <<upload, stored, age, send, gone, bad, torn, safe>>
Choose ==
    /\ todo = {} /\ gone = {}
    /\ todo' = {h \in Handles : Stale(h)}
    /\ UNCHANGED <<upload, stored, age, send, gone, bad, torn, safe>>

Unlink(h) ==
    /\ gone = {} /\ h \in todo
    /\ file' = Put(file, h, FALSE)
    /\ todo' = todo \ {h}
    /\ gone' = {h}
    /\ UNCHANGED <<upload, row, age, send, bad, torn, safe>>

\* An unlink raises: the round is over, the next one begins after the interval.
UnlinkFails ==
    /\ gone = {} /\ todo # {} /\ bad < MaxBad
    /\ bad' = bad + 1
    /\ todo' = {}
    /\ UNCHANGED <<upload, stored, age, send, gone, torn, safe>>

DeleteRow(h) ==
    /\ h \in gone
    /\ row' = Put(row, h, "none")
    /\ gone' = gone \ {h}
    /\ UNCHANGED <<upload, file, age, send, todo, bad, torn, safe>>

-----------------------------------------------------------------------------
\* The process stops and starts again: what was under way is forgotten.
Crash ==
    /\ bad < MaxBad
    /\ bad' = bad + 1
    /\ torn' = torn \cup gone \cup {h \in Handles : upload[h] \in {"writing", "written"}}
    /\ upload' = [h \in Handles |-> IF upload[h] = "new" THEN "new" ELSE "over"]
    /\ send' = [s \in Sends |-> Idle]
    /\ todo' = {}
    /\ gone' = {}
    /\ UNCHANGED <<stored, age, safe>>

Tick ==
    /\ \E h \in Handles : row[h] = "open" /\ age[h] <= Old
    /\ age' = [h \in Handles |-> IF row[h] = "open" /\ age[h] <= Old THEN age[h] + 1 ELSE age[h]]
    /\ UNCHANGED <<upload, stored, send, sweeper, bad, torn, safe>>

Sweeps == Choose \/ UnlinkFails \/ \E h \in Handles : Unlink(h) \/ DeleteRow(h)

Next ==
    \/ \E h \in Handles : Open(h) \/ GiveUp(h) \/ Written(h) \/ InsertRow(h)
    \/ \E s \in Sends :
         \/ \E h \in Handles : FindRow(s, h)
         \/ Schedule(s) \/ Attempt(s) \/ Again(s) \/ SendFails(s) \/ Consume(s)
    \/ Sweeps
    \/ Crash
    \/ Tick

Spec == Init /\ [][Next]_vars
\* Time passes and the sweeper runs; nobody has to send, and a call may hang.
FairSpec == Spec /\ WF_vars(Tick) /\ WF_vars(Sweeps)

-----------------------------------------------------------------------------
\* Files and rows go together.  A file without a row is being uploaded, a row without
\* a file is about to be removed by the sweeper; anything else is what a crash left.
FilesAndRowsAgree ==
    \A h \in Handles \ torn :
        /\ file[h] /\ row[h] = "none" => upload[h] \in {"writing", "written"}
        /\ row[h] # "none" /\ ~file[h] => h \in gone

\* An upload that was sent stays, for the bubble that links to it: the sweeper takes
\* away only one that it had chosen before the send came to its end.
SentUploadsStay ==
    \A h \in safe : file[h] /\ row[h] = "consumed"

\* A send loses its file underway, after path.exists has seen it, only when the upload
\* is more than an hour old by then: the sweeper knows nothing of sends.
SendsLoseOnlyOldFiles ==
    \A s \in Sends :
        send[s] # Idle /\ send[s].at # "found" /\ ~file[send[s].of] => age[send[s].of] > Old

\* What nobody has sent goes: an open row that is an hour old is eventually removed or
\* consumed, although an unlink may fail and the process may crash halfway.
UnsentUploadsGo ==
    \A h \in Handles : Stale(h) ~> row[h] # "open"
=============================================================================
