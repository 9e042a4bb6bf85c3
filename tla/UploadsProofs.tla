---------------------------- MODULE UploadsProofs ----------------------------
(***************************************************************************)
(* Machine-checked proofs about Uploads, for any handles and sends, any    *)
(* hour and any number of crashes and failed unlinks.                      *)
(***************************************************************************)
EXTENDS Uploads, TLAPS

-----------------------------------------------------------------------------
\* What the sources keep true beside the properties.

\* A row is written once the file is, and nothing of an upload that has not ended
\* is torn.
UploadOrder ==
    \A h \in Handles :
        /\ upload[h] = "new" => ~file[h]
        /\ upload[h] \in {"writing", "written"} => file[h]
        /\ upload[h] # "over" => row[h] = "none" /\ h \notin torn

\* What the sweeper has chosen is old and has its row until it comes to it.
SweepOrder ==
    \A h \in Handles :
        /\ h \in todo => row[h] # "none" /\ age[h] > Old /\ h \notin gone
        /\ h \in gone => row[h] # "none" /\ age[h] > Old /\ ~file[h]

TornHalves == \A h \in torn : ~file[h] \/ row[h] = "none"

\* A send is about an upload that had its row; it does not get past a torn one.
SendOrder ==
    \A s \in Sends :
        send[s] # Idle =>
            /\ upload[send[s].of] = "over"
            /\ send[s].of \in torn => send[s].at = "found" /\ ~file[send[s].of]

SafeUnchosen == \A h \in safe : h \notin todo \cup gone

UploadsInv ==
    /\ TypeOK
    /\ UploadOrder
    /\ SweepOrder
    /\ TornHalves
    /\ SendOrder
    /\ SafeUnchosen
    /\ FilesAndRowsAgree
    /\ SentUploadsStay
    /\ SendsLoseOnlyOldFiles

LEMMA InitInv == Init => UploadsInv
  BY OldIsANumber, MaxBadIsANumber
  DEF Init, UploadsInv, TypeOK, Idle, UploadOrder, SweepOrder, TornHalves, SendOrder,
      SafeUnchosen, FilesAndRowsAgree, SentUploadsStay, SendsLoseOnlyOldFiles

\* Every step keeps the types.
LEMMA StepTypes == TypeOK /\ [Next]_vars => TypeOK'
  <1> SUFFICES ASSUME TypeOK, [Next]_vars PROVE TypeOK'
    OBVIOUS
  <1> USE OldIsANumber, MaxBadIsANumber DEF TypeOK, stored, sweeper
  <1>1. ASSUME NEW h \in Handles, Open(h) \/ GiveUp(h) \/ Written(h) \/ InsertRow(h)
        PROVE  TypeOK'
    BY <1>1 DEF Open, GiveUp, Written, InsertRow, Put
  <1>2. ASSUME NEW s \in Sends, NEW h \in Handles, FindRow(s, h)
        PROVE  TypeOK'
    BY <1>2 DEF FindRow, Goto, Stages
  <1>3. ASSUME NEW s \in Sends, Schedule(s) \/ Attempt(s) \/ Again(s)
        PROVE  TypeOK'
    <2>1. PICK h \in Handles, a \in {"found", "scheduled", "sent"} :
             send[s] = [at |-> a, of |-> h]
      BY <1>3 DEF Schedule, Attempt, Again, At, Idle, Stages
    <2>2. \A b \in {"found", "scheduled", "sent"} :
             [send[s] EXCEPT !.at = b] = [at |-> b, of |-> h]
      BY <2>1
    <2>3. \A b \in {"found", "scheduled", "sent"} : [send[s] EXCEPT !.at = b] \in Stages
      BY <2>2 DEF Stages
    <2> QED BY <1>3, <2>3 DEF Schedule, Attempt, Again, Goto
  <1>4. ASSUME NEW s \in Sends, SendFails(s) \/ Consume(s)
        PROVE  TypeOK'
    <2>1. send[s] \in Stages
      BY <1>4 DEF SendFails, Consume, At, Idle
    <2>2. send[s].of \in Handles
      BY <2>1 DEF Stages
    <2> QED BY <1>4, <2>2 DEF SendFails, Consume, Goto, Put
  <1>5. CASE Choose
    BY <1>5 DEF Choose
  <1>6. ASSUME NEW h \in Handles, Unlink(h) \/ DeleteRow(h)
        PROVE  TypeOK'
    BY <1>6 DEF Unlink, DeleteRow, Put
  <1>7. CASE UnlinkFails \/ Crash
    BY <1>7 DEF UnlinkFails, Crash
  <1>8. CASE Tick
    BY <1>8 DEF Tick
  <1>9. CASE UNCHANGED vars
    BY <1>9 DEF vars
  <1> QED BY <1>1, <1>2, <1>3, <1>4, <1>5, <1>6, <1>7, <1>8, <1>9 DEF Next, Sweeps

\* The types of the variables, for every set of handles and sends.
THEOREM TypeCorrect == Spec => []TypeOK
  <1>1. Init => TypeOK
    BY InitInv DEF UploadsInv
  <1> QED BY <1>1, StepTypes, PTL DEF Spec

\* Every step keeps the invariant.
LEMMA StepInv == UploadsInv /\ [Next]_vars => UploadsInv'
  <1> SUFFICES ASSUME UploadsInv, [Next]_vars PROVE UploadsInv'
    OBVIOUS
  <1>0. TypeOK'
    BY StepTypes DEF UploadsInv
  <1>t. /\ \A s \in Sends : send[s] # Idle => send[s].of \in Handles
        /\ \A s \in Sends : send[s] # Idle => send[s].at \in {"found", "scheduled", "sent"}
    BY DEF UploadsInv, TypeOK, Stages
  <1> USE OldIsANumber DEF UploadsInv, UploadOrder, SweepOrder, TornHalves, SendOrder,
      SafeUnchosen, FilesAndRowsAgree, SentUploadsStay, SendsLoseOnlyOldFiles, stored, sweeper
  <1>1. ASSUME NEW h \in Handles, Open(h) \/ GiveUp(h) \/ Written(h) \/ InsertRow(h)
        PROVE  UploadsInv'
    BY <1>0, <1>t, <1>1 DEF Open, GiveUp, Written, InsertRow, Put, TypeOK
  <1>2. ASSUME NEW s \in Sends, NEW h \in Handles, FindRow(s, h)
        PROVE  UploadsInv'
    BY <1>0, <1>t, <1>2 DEF FindRow, Goto, TypeOK
  <1>3. ASSUME NEW s \in Sends, Schedule(s) \/ Attempt(s) \/ Again(s)
        PROVE  UploadsInv'
    <2>1. send[s] # Idle /\ send[s] \in Stages
      BY <1>3 DEF Schedule, Attempt, Again, At, Idle, TypeOK
    <2>2. \A b \in {"scheduled", "sent"} :
            [send[s] EXCEPT !.at = b] = [at |-> b, of |-> send[s].of]
      BY <2>1 DEF Stages
    <2>3. UNCHANGED <<upload, file, row, age, todo, gone, torn, safe>>
      BY <1>3 DEF Schedule, Attempt, Again
    <2>4. \A r \in Sends : r # s => send'[r] = send[r]
      BY <1>3 DEF Schedule, Attempt, Again, Goto, TypeOK
    <2>5. \/ send'[s] = Idle
          \/ /\ send'[s].of = send[s].of
             /\ file[send[s].of] \/ send[s].at = "sent"
      BY <1>3, <2>2 DEF Schedule, Attempt, Again, At, Goto, TypeOK
    <2>6. send[s].at = "sent" /\ ~file[send[s].of] => age[send[s].of] > Old
      BY <2>1
    <2> QED BY <1>0, <1>t, <2>1, <2>3, <2>4, <2>5, <2>6
  <1>4. ASSUME NEW s \in Sends, SendFails(s) \/ Consume(s)
        PROVE  UploadsInv'
    BY <1>0, <1>t, <1>4 DEF SendFails, Consume, At, Idle, Goto, Put, TypeOK
  <1>5. CASE Choose
    BY <1>0, <1>t, <1>5 DEF Choose, Stale, TypeOK
  <1>6. ASSUME NEW h \in Handles, Unlink(h) \/ DeleteRow(h)
        PROVE  UploadsInv'
    BY <1>0, <1>t, <1>6 DEF Unlink, DeleteRow, Put, TypeOK
  <1>7. CASE UnlinkFails \/ Crash
    BY <1>0, <1>t, <1>7 DEF UnlinkFails, Crash, TypeOK
  <1>8. CASE Tick
    BY <1>0, <1>t, <1>8 DEF Tick, TypeOK
  <1>9. CASE UNCHANGED vars
    BY <1>0, <1>9 DEF vars
  <1> QED BY <1>1, <1>2, <1>3, <1>4, <1>5, <1>6, <1>7, <1>8, <1>9 DEF Next, Sweeps

LEMMA InvAlways == Spec => []UploadsInv
  BY InitInv, StepInv, PTL DEF Spec

\* No file stays without a row, and no row without a file, but for what a crash left
\* (upload writes before it inserts, the sweeper unlinks before it deletes).
THEOREM OnlyCrashesOrphan == Spec => []FilesAndRowsAgree
  <1>1. UploadsInv => FilesAndRowsAgree
    BY DEF UploadsInv
  <1> QED BY <1>1, InvAlways, PTL

\* A sent upload keeps its file and its row (consumed = 1 keeps the sweeper away).
THEOREM SentUploadsAreKept == Spec => []SentUploadsStay
  <1>1. UploadsInv => SentUploadsStay
    BY DEF UploadsInv
  <1> QED BY <1>1, InvAlways, PTL

\* A send that has seen its file loses it only to the hour.
THEOREM YoungUploadsSurviveSends == Spec => []SendsLoseOnlyOldFiles
  <1>1. UploadsInv => SendsLoseOnlyOldFiles
    BY DEF UploadsInv
  <1> QED BY <1>1, InvAlways, PTL
=============================================================================
