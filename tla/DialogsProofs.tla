---------------------------- MODULE DialogsProofs ----------------------------
(***************************************************************************)
(* Machine-checked proofs about Dialogs, for any calls at a time, any age  *)
(* of the cache and any number of retries and changes.                     *)
(***************************************************************************)
EXTENDS Dialogs, TLAPS

-----------------------------------------------------------------------------
\* Records of calls.

Ats == {"look", "act", "acted", "force", "show", "answered"}
Fetches == {"none", "sent", "served", "overtaken"}

\* A call under way is what its fields are.
LEMMA StageFields ==
  ASSUME NEW x \in Stages
  PROVE  /\ x # Idle /\ x.kind \in Kinds /\ x.at \in Ats /\ x.fetch \in Fetches
         /\ x.snap \in Snapshots /\ x.retries \in 0 .. MaxRetries
         /\ x.was \in BOOLEAN /\ x.alone \in BOOLEAN /\ x.due \in Nat /\ x.astray \in BOOLEAN
  BY DEF Stages, Idle, Ats, Fetches

-----------------------------------------------------------------------------
\* Types.

LEMMA InitTyped == Init => TypeOK
  <1> SUFFICES ASSUME Init PROVE TypeOK
    OBVIOUS
  <1>1. Nothing \in Snapshots /\ Nothing.ver = 0
    BY DEF Nothing, Snapshots
  <1>2. tg \in Snapshots /\ tg.ver = 0
    <2>1. ASSUME NEW s, s = [Nothing EXCEPT !.listed = TRUE]
          PROVE  s \in Snapshots /\ s.ver = 0
      BY <2>1 DEF Nothing, Snapshots
    <2> QED BY <1>1, <2>1 DEF Init
  <1>3. Expired \in 0 .. Expired
    BY BoundsAreNumbers DEF Expired
  <1>4. 0 \in 0 .. MaxChanges /\ 0 \in 0 .. 0 /\ {} \subseteq 1 .. 0
    BY BoundsAreNumbers
  <1>5. call \in [Calls -> {Idle} \cup Stages] /\ \A c \in Calls : call[c] = Idle
    BY DEF Init
  <1> QED BY <1>1, <1>2, <1>3, <1>4, <1>5 DEF Init, TypeOK

LEMMA SnapshotFields ==
  ASSUME NEW s \in Snapshots
  PROVE  s.ver \in Nat /\ s.listed \in BOOLEAN /\ \A k \in Toggles : s.on[k] \in BOOLEAN
  BY DEF Snapshots

\* The changes at Telegram count, and turn at most the switch they are about.
LEMMA TurnTypes ==
  ASSUME tg \in Snapshots, NEW kind \in Toggles, NEW value \in BOOLEAN
  PROVE  /\ Turned(kind, value) \in Snapshots /\ Turned(kind, value).ver = tg.ver + 1
         /\ Turned(kind, value).on[kind] = value
         /\ \A k \in Toggles : k # kind => Turned(kind, value).on[k] = tg.on[k]
  BY DEF Turned, Snapshots

LEMMA PlaceTypes ==
  ASSUME tg \in Snapshots, NEW listed \in BOOLEAN
  PROVE  /\ Placed(listed) \in Snapshots /\ Placed(listed).ver = tg.ver + 1
         /\ Placed(listed).on = tg.on
  BY DEF Placed, Snapshots

LEMMA TouchTypes ==
  ASSUME tg \in Snapshots
  PROVE  Touched \in Snapshots /\ Touched.ver = tg.ver + 1 /\ Touched.on = tg.on
  BY SnapshotFields, PlaceTypes DEF Touched

LEMMA ReadTypes ==
  ASSUME NEW snap \in Snapshots, NEW kind \in Toggles
  PROVE  Reads(snap, kind) \in BOOLEAN
  BY DEF Reads

-----------------------------------------------------------------------------
\* What a call knows when Telegram's state is t and f was made known here.  Its snapshot
\* is not from the future, and only while it reads is a fetch under way.  What it has
\* been served is not older than what it has to know, nor, unless it was overtaken, than
\* what was made known; a cache that it may look into is not older than that either.
\* When it has its switch to itself: while it looks, the switch is as it was; once it has
\* looked, its snapshot says so; once it has acted, the switch is turned.
Knows(x, t, f) ==
    /\ x.snap.ver <= t.ver /\ x.due <= t.ver
    /\ x.fetch # "none" => x.at \in {"look", "force", "show"}
    /\ x.fetch \in {"served", "overtaken"} => x.due <= x.snap.ver
    /\ x.fetch = "served" => f <= x.snap.ver
    /\ x.kind \notin OwnChange \/ (x.at = "show" /\ x.kind \notin OfMessage) => x.due <= f
    /\ x.at = "answered" /\ ~x.astray => x.due <= x.snap.ver
    /\ x.kind \in Toggles /\ x.alone =>
         /\ x.at = "look" => t.on[x.kind] = x.was
         /\ x.at \in {"act", "acted"} => Reads(x.snap, x.kind) = x.was
         /\ x.at = "acted" => t.on[x.kind] = ~x.was

CallsKnow == \A c \in Calls : call[c] # Idle => Knows(call[c], tg, floor)
CacheKnows == age <= MaxAge /\ ~stray => floor <= cache.ver

\* The inductive invariant.
DialogsInv == TypeOK /\ cache.ver <= tg.ver /\ CacheKnows /\ CallsKnow

\* The part of it that is about the calls.
CallInv == call \in [Calls -> {Idle} \cup Stages] /\ CallsKnow

LEMMA InitKnows == Init => DialogsInv
  <1> SUFFICES ASSUME Init PROVE DialogsInv
    OBVIOUS
  <1>1. TypeOK
    BY InitTyped
  <1>2. \A c \in Calls : call[c] = Idle
    BY DEF Init
  <1>3. Nothing.ver = 0 /\ cache = Nothing /\ floor = 0 /\ tg.ver = 0
    BY <1>1 DEF Init, Nothing
  <1> QED BY <1>1, <1>2, <1>3 DEF DialogsInv, CallsKnow, CacheKnows

\* What a call knows stays true as Telegram and what is known here move on, as long as
\* nobody turns the switch that it has to itself.
LEMMA KnowsOn ==
  ASSUME NEW x \in Stages, NEW t \in Snapshots, NEW u \in Snapshots, NEW f \in Nat,
         NEW g \in Nat, Knows(x, t, f), t.ver <= u.ver, f <= g,
         x.fetch = "served" => g = f,
         x.kind \in Toggles /\ x.alone => u.on[x.kind] = t.on[x.kind]
  PROVE  Knows(x, u, g)
  <1>1. x.snap.ver \in Nat /\ x.due \in Nat /\ t.ver \in Nat /\ u.ver \in Nat
    BY StageFields, SnapshotFields
  <1> QED BY <1>1 DEF Knows

LEMMA DisturbKnows ==
  ASSUME DialogsInv, NEW kind, NEW others, NEW d \in Calls, call[d] # Idle,
         NEW u \in Snapshots, tg.ver <= u.ver,
         \A k \in Toggles : k # kind \/ d \notin others => u.on[k] = tg.on[k]
  PROVE  Disturb(kind, others)[d] \in Stages /\ Knows(Disturb(kind, others)[d], u, floor)
  <1>1. /\ call[d] \in Stages /\ Knows(call[d], tg, floor) /\ tg \in Snapshots /\ floor \in Nat
    BY DEF DialogsInv, TypeOK, CallsKnow
  <1>2. CASE d \in others /\ call[d].kind = kind
    <2> DEFINE x == [call[d] EXCEPT !.alone = FALSE]
    <2>1. Disturb(kind, others)[d] = x
      BY <1>2 DEF Disturb
    <2>2. /\ x \in Stages /\ x.kind = call[d].kind /\ x.at = call[d].at
          /\ x.fetch = call[d].fetch /\ x.snap = call[d].snap /\ ~x.alone
          /\ x.due = call[d].due /\ x.astray = call[d].astray
      BY <1>1 DEF Stages
    <2> HIDE DEF x
    <2>3. Knows(x, tg, floor)
      BY <1>1, <2>2 DEF Knows
    <2> QED BY <1>1, <2>1, <2>2, <2>3, KnowsOn
  <1>3. CASE ~(d \in others /\ call[d].kind = kind)
    <2>1. Disturb(kind, others)[d] = call[d]
      BY <1>3 DEF Disturb
    <2> QED BY <1>1, <1>3, <2>1, KnowsOn
  <1> QED BY <1>2, <1>3

LEMMA OvertakenKnows ==
  ASSUME DialogsInv, NEW d \in Calls, call[d] # Idle, NEW g \in Nat, floor <= g
  PROVE  Overtaken[d] \in Stages /\ Knows(Overtaken[d], tg, g)
  <1>1. /\ call[d] \in Stages /\ Knows(call[d], tg, floor) /\ tg \in Snapshots /\ floor \in Nat
    BY DEF DialogsInv, TypeOK, CallsKnow
  <1>2. CASE call[d].fetch = "served"
    <2> DEFINE x == [call[d] EXCEPT !.fetch = "overtaken"]
    <2>1. Overtaken[d] = x
      BY <1>2 DEF Overtaken
    <2>2. /\ x \in Stages /\ x.kind = call[d].kind /\ x.at = call[d].at
          /\ x.fetch = "overtaken" /\ x.snap = call[d].snap /\ x.was = call[d].was
          /\ x.alone = call[d].alone /\ x.due = call[d].due /\ x.astray = call[d].astray
      BY <1>1 DEF Stages
    <2> HIDE DEF x
    <2>3. Knows(x, tg, floor)
      BY <1>1, <1>2, <2>2 DEF Knows
    <2> QED BY <1>1, <2>1, <2>2, <2>3, KnowsOn, SnapshotFields
  <1>3. CASE call[d].fetch # "served"
    <2>1. Overtaken[d] = call[d]
      BY <1>3 DEF Overtaken
    <2> QED BY <1>1, <1>3, <2>1, KnowsOn, SnapshotFields
  <1> QED BY <1>2, <1>3

\* A step that changes one call and not Telegram, and makes nothing known, has to look
\* at that call only; and so has one that overtakes the fetches of the others.
LEMMA OneCall ==
  ASSUME DialogsInv, NEW c \in Calls, NEW x \in {Idle} \cup Stages,
         call' = [call EXCEPT ![c] = x], tg' = tg, floor' = floor,
         x # Idle => Knows(x, tg, floor)
  PROVE  CallInv'
  <1>1. call \in [Calls -> {Idle} \cup Stages]
    BY DEF DialogsInv, TypeOK
  <1>2. \A d \in Calls : call'[d] = IF d = c THEN x ELSE call[d]
    BY <1>1
  <1>3. \A d \in Calls : call[d] # Idle => Knows(call[d], tg, floor)
    BY DEF DialogsInv, CallsKnow
  <1>4. \A d \in Calls : call'[d] # Idle => Knows(call'[d], tg', floor')
    BY <1>2, <1>3
  <1> QED BY <1>1, <1>4 DEF CallInv, CallsKnow

LEMMA OvertakenTypes ==
  ASSUME DialogsInv
  PROVE  /\ Overtaken \in [Calls -> {Idle} \cup Stages]
         /\ \A d \in Calls : call[d] = Idle => Overtaken[d] = Idle
  <1>1. \A d \in Calls : call[d] = Idle => Overtaken[d] = Idle
    BY DEF Overtaken
  <1>2. \A d \in Calls : call[d] # Idle => Overtaken[d] \in Stages
    BY OvertakenKnows DEF DialogsInv, TypeOK
  <1>3. \A d \in Calls : Overtaken[d] \in {Idle} \cup Stages
    BY <1>1, <1>2
  <1> QED BY <1>1, <1>3 DEF Overtaken

LEMMA OneCallOvertakes ==
  ASSUME DialogsInv, NEW c \in Calls, NEW x \in {Idle} \cup Stages,
         call' = [Overtaken EXCEPT ![c] = x], tg' = tg, floor' \in Nat, floor <= floor',
         x # Idle => Knows(x, tg, floor')
  PROVE  CallInv'
  <1>1. \A d \in Calls : call'[d] = IF d = c THEN x ELSE Overtaken[d]
    BY OvertakenTypes
  <1>2. \A d \in Calls : Overtaken[d] # Idle => Knows(Overtaken[d], tg, floor')
    BY OvertakenTypes, OvertakenKnows
  <1>3. \A d \in Calls : call'[d] # Idle => Knows(call'[d], tg', floor')
    BY <1>1, <1>2
  <1> QED BY <1>3, OvertakenTypes DEF CallInv, CallsKnow

-----------------------------------------------------------------------------
\* The steps that leave Telegram as it is.

\* What a caller knows with what it has got: g is what is known here by then.
LEMMA OnwardKnows ==
  ASSUME DialogsInv, NEW c \in Calls, call[c] # Idle,
         call[c].at \in {"look", "force", "show"},
         NEW snap \in Snapshots, NEW wrong \in BOOLEAN, NEW g \in Nat,
         snap.ver <= tg.ver, floor <= g,
         call[c].at = "show" /\ ~wrong => call[c].due <= snap.ver,
         call[c].at = "force" /\ call[c].kind \notin OfMessage => call[c].due <= g
  PROVE  Onward(c, snap, wrong) \in Stages /\ Knows(Onward(c, snap, wrong), tg, g)
  <1>1. /\ call[c] \in Stages /\ Knows(call[c], tg, floor) /\ tg \in Snapshots /\ floor \in Nat
    BY DEF DialogsInv, TypeOK, CallsKnow
  <1>2. call[c].due \in Nat /\ tg.ver \in Nat /\ snap.ver \in Nat
    BY <1>1, StageFields, SnapshotFields
  <1>3. CASE call[c].at = "look"
    <2>1. ASSUME NEW alone,
                 alone = IF Reads(snap, call[c].kind) = tg.on[call[c].kind]
                         THEN call[c].alone ELSE FALSE
          PROVE  /\ alone \in BOOLEAN
                 /\ alone => call[c].alone /\ Reads(snap, call[c].kind) = tg.on[call[c].kind]
      BY <1>1, <2>1, StageFields
    <2>2. ASSUME NEW alone \in BOOLEAN, NEW x,
                 alone => call[c].alone /\ Reads(snap, call[c].kind) = tg.on[call[c].kind],
                 x = [call[c] EXCEPT !.at = "act", !.fetch = "none", !.snap = snap,
                                     !.alone = alone]
          PROVE  x \in Stages /\ Knows(x, tg, g)
      <3>1. /\ x \in Stages /\ x.kind = call[c].kind /\ x.at = "act" /\ x.fetch = "none"
            /\ x.snap = snap /\ x.was = call[c].was /\ x.due = call[c].due
            /\ x.alone => call[c].alone /\ Reads(snap, call[c].kind) = tg.on[call[c].kind]
        BY <1>1, <2>2 DEF Stages
      <3> QED BY <1>1, <1>2, <1>3, <3>1 DEF Knows
    <2> QED BY <1>3, <2>1, <2>2 DEF Onward
  <1>4. CASE call[c].at = "force"
    <2>1. ASSUME NEW x, x = [call[c] EXCEPT !.at = "show", !.fetch = "none"]
          PROVE  x \in Stages /\ Knows(x, tg, g)
      <3>1. /\ x \in Stages /\ x.kind = call[c].kind /\ x.at = "show" /\ x.fetch = "none"
            /\ x.snap = call[c].snap /\ x.was = call[c].was /\ x.due = call[c].due
        BY <1>1, <2>1 DEF Stages
      <3> QED BY <1>1, <1>2, <1>4, <3>1 DEF Knows
    <2> QED BY <1>4, <2>1 DEF Onward
  <1>5. CASE call[c].at = "show"
    <2>1. ASSUME NEW x, x = [call[c] EXCEPT !.at = "answered", !.fetch = "none",
                                            !.snap = snap, !.astray = wrong]
          PROVE  x \in Stages /\ Knows(x, tg, g)
      <3>1. /\ x \in Stages /\ x.kind = call[c].kind /\ x.at = "answered" /\ x.fetch = "none"
            /\ x.snap = snap /\ x.was = call[c].was /\ x.due = call[c].due
            /\ x.astray = wrong
        BY <1>1, <2>1 DEF Stages
      <3> QED BY <1>1, <1>2, <1>5, <3>1 DEF Knows
    <2> QED BY <1>5, <2>1 DEF Onward
  <1> QED BY <1>3, <1>4, <1>5

LEMMA HitStep ==
  ASSUME DialogsInv, NEW c \in Calls, Hit(c)
  PROVE  CallInv'
  <1>1. /\ call[c] # Idle /\ call[c].at \in {"look", "show"} /\ call[c].kind \notin OfMessage
        /\ age <= MaxAge /\ call' = [call EXCEPT ![c] = Onward(c, cache, stray)]
        /\ tg' = tg /\ floor' = floor
    BY DEF Hit, Wants, Idle, known
  <1>2. /\ cache \in Snapshots /\ stray \in BOOLEAN /\ floor \in Nat /\ cache.ver <= tg.ver
        /\ ~stray => floor <= cache.ver
        /\ Knows(call[c], tg, floor) /\ call[c].due \in Nat /\ cache.ver \in Nat
    BY <1>1, StageFields, SnapshotFields DEF DialogsInv, TypeOK, CallsKnow, CacheKnows
  <1>3. call[c].at = "show" /\ ~stray => call[c].due <= cache.ver
    BY <1>1, <1>2 DEF Knows
  <1>4. Onward(c, cache, stray) \in Stages /\ Knows(Onward(c, cache, stray), tg, floor)
    BY <1>1, <1>2, <1>3, OnwardKnows
  <1> QED BY <1>1, <1>4, OneCall

LEMMA GotStep ==
  ASSUME DialogsInv, NEW c \in Calls, Got(c)
  PROVE  CallInv'
  <1>1. /\ call[c] # Idle /\ call[c].fetch \in {"served", "overtaken"}
        /\ call[c].at \in {"look", "force", "show"} /\ call[c].snap.ver <= tg.ver
        /\ call[c].due <= call[c].snap.ver /\ tg' = tg
    BY DEF Got, DialogsInv, CallsKnow, Knows
  <1>2. /\ call[c].snap \in Snapshots /\ call[c].due \in Nat /\ floor \in Nat
        /\ call[c].snap.ver \in Nat
    BY <1>1, StageFields, SnapshotFields DEF DialogsInv, TypeOK
  <1> DEFINE x == Onward(c, call[c].snap, FALSE)
  <1>3. CASE call[c].kind \in OfMessage
    <2>1. x \in Stages /\ Knows(x, tg, floor)
      <3>1. ASSUME NEW wrong \in BOOLEAN
            PROVE  LET y == Onward(c, call[c].snap, wrong)
                   IN  y \in Stages /\ Knows(y, tg, floor)
        BY <1>1, <1>2, <1>3, OnwardKnows
      <3> QED BY <3>1
    <2> QED BY <1>1, <1>3, <2>1, OneCall DEF Got, known
  <1>4. CASE call[c].kind \notin OfMessage
    <2>1. floor' = Later(floor, call[c].snap.ver) /\ call' = [Overtaken EXCEPT ![c] = x]
      BY <1>4 DEF Got, StoreDialogs
    <2>2. floor' \in Nat /\ floor <= floor' /\ call[c].due <= floor'
      BY <1>1, <1>2, <2>1 DEF Later
    <2>3. PICK g \in Nat : g = floor'
      BY <2>2
    <2>4. x \in Stages /\ Knows(x, tg, g)
      BY <1>1, <1>2, <2>2, <2>3, OnwardKnows
    <2> QED BY <1>1, <2>1, <2>2, <2>3, <2>4, OneCallOvertakes
  <1> QED BY <1>3, <1>4

LEMMA FetchStep ==
  ASSUME DialogsInv, NEW c \in Calls, Fetch(c) \/ Serve(c)
  PROVE  CallInv'
  <1>1. CASE Fetch(c)
    <2>1. call[c] # Idle /\ call[c] \in Stages /\ Knows(call[c], tg, floor)
          /\ call[c].at \in {"look", "show"}
      BY <1>1 DEF Fetch, Wants, Idle, DialogsInv, TypeOK, CallsKnow
    <2>2. ASSUME NEW x, x = [call[c] EXCEPT !.fetch = "sent"]
          PROVE  x \in Stages /\ Knows(x, tg, floor)
      <3>1. /\ x \in Stages /\ x.kind = call[c].kind /\ x.at = call[c].at /\ x.fetch = "sent"
            /\ x.snap = call[c].snap /\ x.was = call[c].was /\ x.due = call[c].due
            /\ x.alone = call[c].alone
        BY <2>1, <2>2 DEF Stages
      <3> QED BY <2>1, <3>1 DEF Knows
    <2> QED BY <1>1, <2>2, OneCall DEF Fetch, known
  <1>2. CASE Serve(c)
    <2>1. /\ call[c] # Idle /\ call[c] \in Stages /\ Knows(call[c], tg, floor)
          /\ call[c].at \in {"look", "force", "show"} /\ tg \in Snapshots /\ floor <= tg.ver
          /\ tg.ver \in Nat
      BY <1>2, SnapshotFields DEF Serve, DialogsInv, TypeOK, CallsKnow, Knows
    <2>2. ASSUME NEW x, x = [[call[c] EXCEPT !.fetch = "served"] EXCEPT !.snap = tg]
          PROVE  x \in Stages /\ Knows(x, tg, floor)
      <3>1. /\ x \in Stages /\ x.kind = call[c].kind /\ x.at = call[c].at
            /\ x.fetch = "served" /\ x.snap = tg /\ x.was = call[c].was
            /\ x.due = call[c].due /\ x.alone = call[c].alone
        BY <2>1, <2>2 DEF Stages
      <3> QED BY <2>1, <3>1 DEF Knows
    <2>3. call' = [call EXCEPT ![c] = [[call[c] EXCEPT !.fetch = "served"] EXCEPT !.snap = tg]]
          /\ tg' = tg /\ floor' = floor
      BY <1>2 DEF Serve, known
    <2> QED BY <2>2, <2>3, OneCall
  <1> QED BY <1>1, <1>2

\* What a call that has made its change looks for is still what it has to know.
LEMMA LooksKnows ==
  ASSUME DialogsInv, NEW c \in Calls, call[c] # Idle, call[c].at = "acted",
         call[c].kind # "read"
  PROVE  Looks(c) \in Stages /\ Knows(Looks(c), tg, floor)
  <1>1. /\ call[c] \in Stages /\ Knows(call[c], tg, floor) /\ tg.ver \in Nat
        /\ call[c].kind \in Kinds /\ call[c].fetch = "none" /\ call[c].fetch \in Fetches
        /\ Nothing \in Snapshots /\ Nothing.ver = 0 /\ 0 \in 0 .. MaxRetries
    BY StageFields, SnapshotFields, BoundsAreNumbers
       DEF DialogsInv, TypeOK, CallsKnow, Knows, Nothing, Snapshots
  <1>2. CASE call[c].kind = "pin"
    <2>1. ASSUME NEW x, x = [call[c] EXCEPT !.at = "force", !.fetch = "sent",
                                            !.snap = Nothing, !.retries = 0]
          PROVE  x \in Stages /\ Knows(x, tg, floor)
      <3>1. /\ x \in Stages /\ x.kind = call[c].kind /\ x.at = "force" /\ x.fetch = "sent"
            /\ x.snap = Nothing /\ x.was = call[c].was /\ x.due = call[c].due
        BY <1>1, <2>1 DEF Stages
      <3> QED BY <1>1, <1>2, <3>1 DEF Knows
    <2> QED BY <1>2, <2>1 DEF Looks
  <1>3. CASE call[c].kind # "pin"
    <2>1. ASSUME NEW x, x = [call[c] EXCEPT !.at = "show", !.snap = Nothing, !.retries = 0]
          PROVE  x \in Stages /\ Knows(x, tg, floor)
      <3>1. /\ x \in Stages /\ x.kind = call[c].kind /\ x.at = "show"
            /\ x.fetch = call[c].fetch /\ x.snap = Nothing /\ x.was = call[c].was
            /\ x.due = call[c].due
        BY <1>1, <2>1 DEF Stages
      <3> QED BY <1>1, <1>3, <3>1 DEF Knows, OwnChange, OfMessage, Toggles
    <2> QED BY <1>3, <2>1 DEF Looks
  <1> QED BY <1>2, <1>3

LEMMA ActReturnsStep ==
  ASSUME DialogsInv, NEW c \in Calls, ActReturns(c)
  PROVE  CallInv'
  <1>1. /\ call[c] # Idle /\ call[c] \in Stages /\ call[c].at = "acted" /\ tg' = tg
        /\ Knows(call[c], tg, floor) /\ floor \in Nat /\ call[c].snap.ver \in Nat
    BY StageFields, SnapshotFields DEF ActReturns, Idle, DialogsInv, TypeOK, CallsKnow
  <1>2. CASE call[c].kind = "read"
    <2>1. floor' = Later(floor, call[c].snap.ver) /\ call' = [Overtaken EXCEPT ![c] = Idle]
      BY <1>1, <1>2 DEF ActReturns, Invalidate
    <2>2. floor' \in Nat /\ floor <= floor'
      BY <1>1, <2>1 DEF Later
    <2> QED BY <1>1, <2>1, <2>2, OneCallOvertakes
  <1>3. CASE call[c].kind # "read"
    <2>1. Looks(c) \in Stages /\ Knows(Looks(c), tg, floor)
      BY <1>1, <1>3, LooksKnows
    <2>2. call' = [call EXCEPT ![c] = Looks(c)] /\ floor' = floor
      BY <1>1, <1>3 DEF ActReturns, known
    <2> QED BY <1>1, <2>1, <2>2, OneCall
  <1> QED BY <1>2, <1>3

LEMMA ReadStep ==
  ASSUME DialogsInv, NEW c \in Calls, Retry(c) \/ Fails(c) \/ Shown(c)
  PROVE  CallInv'
  <1>1. CASE Retry(c)
    <2>1. /\ call[c] # Idle /\ call[c] \in Stages /\ Knows(call[c], tg, floor)
          /\ call[c].at = "acted" /\ call[c].retries + 1 \in 0 .. MaxRetries
      BY <1>1, StageFields, BoundsAreNumbers DEF Retry, Idle, DialogsInv, TypeOK, CallsKnow
    <2>2. ASSUME NEW x,
                 x = [[call[c] EXCEPT !.at = "act"] EXCEPT !.retries = call[c].retries + 1]
          PROVE  x \in Stages /\ Knows(x, tg, floor)
      <3>1. /\ x \in Stages /\ x.kind = call[c].kind /\ x.at = "act"
            /\ x.fetch = call[c].fetch /\ x.snap = call[c].snap /\ x.was = call[c].was
            /\ x.due = call[c].due /\ x.alone = call[c].alone
        BY <2>1, <2>2 DEF Stages
      <3> QED BY <2>1, <3>1 DEF Knows
    <2>3. /\ call' = [call EXCEPT ![c] =
                [[call[c] EXCEPT !.at = "act"] EXCEPT !.retries = call[c].retries + 1]]
          /\ tg' = tg /\ floor' = floor
      BY <1>1 DEF Retry, known
    <2> QED BY <2>2, <2>3, OneCall
  <1>2. CASE Fails(c) \/ Shown(c)
    BY <1>2, OneCall DEF Fails, Shown, known
  <1> QED BY <1>1, <1>2

LEMMA AskStep ==
  ASSUME DialogsInv, NEW c \in Calls, NEW kind \in Kinds, Ask(c, kind)
  PROVE  CallInv'
  <1>1. /\ tg \in Snapshots /\ tg.ver \in Nat /\ floor \in Nat /\ floor <= tg.ver
        /\ Nothing \in Snapshots /\ Nothing.ver = 0 /\ 0 \in 0 .. MaxRetries
        /\ tg' = tg /\ floor' = floor
    BY SnapshotFields, BoundsAreNumbers DEF DialogsInv, TypeOK, Nothing, Snapshots, Ask, known
  <1>2. PICK was \in BOOLEAN : was = (kind \in Toggles /\ tg.on[kind])
    BY <1>1, SnapshotFields
  <1>3. PICK at \in {"look", "show", "act"} :
          at = IF kind \in Toggles THEN "look" ELSE IF kind = "list" THEN "show" ELSE "act"
    OBVIOUS
  <1>4. ASSUME NEW x,
               x = [kind |-> kind, at |-> at, fetch |-> "none", snap |-> Nothing,
                    retries |-> 0, was |-> was, alone |-> TRUE, due |-> floor,
                    astray |-> FALSE]
        PROVE  x \in Stages /\ Knows(x, tg, floor)
    <2>1. x \in Stages
      BY <1>1, <1>4 DEF Stages
    <2>2. /\ x.kind = kind /\ x.at = at /\ x.fetch = "none" /\ x.snap = Nothing
          /\ x.due = floor
      BY <1>4
    <2>3. kind \in Toggles => (x.was <=> tg.on[kind])
      BY <1>2, <1>4
    <2>4. kind \in Toggles => tg.on[kind] = x.was
      BY <1>1, <2>1, <2>3, SnapshotFields, StageFields
    <2>5. x.at # "act" \/ x.kind \notin Toggles
      BY <1>3, <2>2
    <2> QED BY <1>1, <1>3, <2>1, <2>2, <2>4, <2>5 DEF Knows
  <1>5. call' = [call EXCEPT ![c] =
                 [kind |-> kind, at |-> at, fetch |-> "none", snap |-> Nothing,
                    retries |-> 0, was |-> was, alone |-> TRUE, due |-> floor,
                    astray |-> FALSE]]
    BY <1>2, <1>3 DEF Ask
  <1> QED BY <1>1, <1>4, <1>5, OneCall

LEMMA NewsStep ==
  ASSUME DialogsInv, NEW ver \in news, HandleNews(ver)
  PROVE  CallInv'
  <1>1. /\ floor \in Nat /\ ver \in Nat /\ tg' = tg /\ call' = Overtaken
        /\ floor' = Later(floor, ver)
    BY DEF HandleNews, Invalidate, DialogsInv, TypeOK
  <1>2. floor' \in Nat /\ floor <= floor'
    BY <1>1 DEF Later
  <1>3. \A d \in Calls : Overtaken[d] # Idle => Knows(Overtaken[d], tg, floor')
    BY <1>2, OvertakenTypes, OvertakenKnows
  <1> QED BY <1>1, <1>3, OvertakenTypes DEF CallInv, CallsKnow

-----------------------------------------------------------------------------
\* The changes at Telegram.

LEMMA ElsewhereStep ==
  ASSUME DialogsInv, NEW kind \in Toggles, Elsewhere(kind)
  PROVE  CallInv'
  <1>1. tg \in Snapshots /\ tg.ver \in Nat
    BY SnapshotFields DEF DialogsInv, TypeOK
  <1>2. PICK value \in BOOLEAN : value = ~tg.on[kind]
    OBVIOUS
  <1>3. /\ tg' \in Snapshots /\ tg.ver <= tg'.ver /\ floor' = floor
        /\ \A k \in Toggles : k # kind => tg'.on[k] = tg.on[k]
    <2>1. tg' = Turned(kind, value) /\ floor' = floor
      BY <1>2 DEF Elsewhere, known
    <2>2. /\ Turned(kind, value) \in Snapshots /\ Turned(kind, value).ver = tg.ver + 1
          /\ \A k \in Toggles : k # kind => Turned(kind, value).on[k] = tg.on[k]
      BY <1>1, TurnTypes
    <2> HIDE DEF Turned
    <2> QED BY <1>1, <2>1, <2>2
  <1>4. call' = Disturb(kind, Calls)
    BY DEF Elsewhere
  <1>5. \A d \in Calls : call[d] = Idle => Disturb(kind, Calls)[d] = Idle
    BY DEF Disturb
  <1>6. PICK u \in Snapshots : u = tg'
    BY <1>3
  <1>7. ASSUME NEW d \in Calls, call[d] # Idle
        PROVE  Disturb(kind, Calls)[d] \in Stages /\ Knows(Disturb(kind, Calls)[d], u, floor)
    BY <1>1, <1>3, <1>6, <1>7, DisturbKnows
  <1>8. Disturb(kind, Calls) \in [Calls -> {Idle} \cup Stages]
    <2>1. \A d \in Calls : Disturb(kind, Calls)[d] \in {Idle} \cup Stages
      BY <1>5, <1>7
    <2> QED BY <2>1 DEF Disturb
  <1>9. \A d \in Calls : call'[d] # Idle => Knows(call'[d], tg', floor')
    BY <1>3, <1>4, <1>5, <1>6, <1>7
  <1> QED BY <1>4, <1>8, <1>9 DEF CallInv, CallsKnow

\* A change that turns no switch.
LEMMA PlaceKnows ==
  ASSUME DialogsInv, NEW d \in Calls, call[d] # Idle, NEW u \in Snapshots,
         tg.ver <= u.ver, u.on = tg.on
  PROVE  Knows(call[d], u, floor)
  <1>1. /\ call[d] \in Stages /\ Knows(call[d], tg, floor) /\ tg \in Snapshots /\ floor \in Nat
    BY DEF DialogsInv, TypeOK, CallsKnow
  <1> QED BY <1>1, KnowsOn

LEMMA NewMessageStep ==
  ASSUME DialogsInv, NewMessage \/ Moved
  PROVE  CallInv'
  <1>1. tg \in Snapshots /\ tg.ver \in Nat /\ call \in [Calls -> {Idle} \cup Stages]
    BY SnapshotFields DEF DialogsInv, TypeOK
  <1>2. /\ tg' \in Snapshots /\ tg.ver <= tg'.ver /\ tg'.on = tg.on
        /\ floor' = floor /\ call' = call
    <2>1. PICK listed \in BOOLEAN : tg' = Placed(listed)
      BY <1>1, SnapshotFields DEF NewMessage, Moved
    <2>2. Placed(listed) \in Snapshots /\ Placed(listed).ver = tg.ver + 1
          /\ Placed(listed).on = tg.on
      BY <1>1, PlaceTypes
    <2>3. floor' = floor /\ call' = call
      BY DEF NewMessage, Moved, known
    <2> QED BY <1>1, <2>1, <2>2, <2>3
  <1>3. PICK u \in Snapshots : u = tg'
    BY <1>2
  <1>4. \A d \in Calls : call[d] # Idle => Knows(call[d], u, floor)
    BY <1>2, <1>3, PlaceKnows
  <1>5. \A d \in Calls : call'[d] # Idle => Knows(call'[d], tg', floor')
    BY <1>2, <1>3, <1>4
  <1> QED BY <1>1, <1>2, <1>5 DEF CallInv, CallsKnow

\* What Telegram makes of a toggle: the negation of what the call has seen.
LEMMA NegatedTypes ==
  ASSUME tg \in Snapshots, NEW c \in Calls, call[c] \in Stages, call[c].kind \in Toggles
  PROVE  /\ Negated(c) \in Snapshots /\ Negated(c).ver \in {tg.ver, tg.ver + 1}
         /\ Negated(c).on[call[c].kind] = ~Reads(call[c].snap, call[c].kind)
         /\ \A k \in Toggles : k # call[c].kind => Negated(c).on[k] = tg.on[k]
  <1>1. PICK k \in Toggles, read \in BOOLEAN :
          k = call[c].kind /\ read = Reads(call[c].snap, call[c].kind)
    BY StageFields, ReadTypes
  <1>2. tg.on[k] \in BOOLEAN
    BY SnapshotFields
  <1>3. Negated(c) = IF read # tg.on[k] THEN tg ELSE Turned(k, ~read)
    BY <1>1 DEF Negated
  <1>4. CASE read # tg.on[k]
    <2>1. Negated(c) = tg /\ tg.on[k] = ~read
      BY <1>2, <1>3, <1>4
    <2> QED BY <1>1, <2>1
  <1>5. CASE read = tg.on[k]
    <2>1. PICK value \in BOOLEAN : value = ~read
      OBVIOUS
    <2>2. Negated(c) = Turned(k, value)
      BY <1>3, <1>5, <2>1
    <2>3. /\ Turned(k, value) \in Snapshots /\ Turned(k, value).ver = tg.ver + 1
          /\ Turned(k, value).on[k] = value
          /\ \A j \in Toggles : j # k => Turned(k, value).on[j] = tg.on[j]
      BY TurnTypes
    <2> QED BY <1>1, <2>1, <2>2, <2>3
  <1> QED BY <1>4, <1>5

\* A toggle disturbs the others that are under way with its switch.
LEMMA ToggleStep ==
  ASSUME DialogsInv, NEW c \in Calls, Act(c), call[c].kind \in Toggles
  PROVE  CallInv'
  <1> DEFINE k == call[c].kind
             rest == Disturb(k, Calls \ {c})
  <1>1. /\ call[c] # Idle /\ call[c] \in Stages /\ Knows(call[c], tg, floor)
        /\ call[c].at = "act" /\ tg \in Snapshots /\ tg.ver \in Nat
    BY SnapshotFields DEF Act, Idle, DialogsInv, TypeOK, CallsKnow
  <1>2. /\ tg' = Negated(c) /\ floor' = floor
        /\ call' = [rest EXCEPT ![c] = [call[c] EXCEPT !.at = "acted", !.due = tg'.ver]]
    BY DEF Act, known
  <1>3. PICK u \in Snapshots : u = tg'
    BY <1>1, <1>2, NegatedTypes
  <1>4. /\ u.ver \in {tg.ver, tg.ver + 1} /\ u.ver \in Nat
        /\ u.on[k] = ~Reads(call[c].snap, k)
        /\ \A j \in Toggles : j # k => u.on[j] = tg.on[j]
    BY <1>1, <1>2, <1>3, NegatedTypes, SnapshotFields
  <1>5. ASSUME NEW x, x = [call[c] EXCEPT !.at = "acted", !.due = u.ver]
        PROVE  x \in Stages /\ Knows(x, u, floor)
    <2>1. /\ x \in Stages /\ x.kind = k /\ x.at = "acted" /\ x.fetch = call[c].fetch
          /\ x.snap = call[c].snap /\ x.was = call[c].was /\ x.due = u.ver
          /\ x.alone = call[c].alone
      BY <1>1, <1>4, <1>5 DEF Stages
    <2>2. call[c].fetch = "none" /\ call[c].snap.ver <= u.ver /\ x.kind \in OwnChange
      <3>1. call[c].snap.ver \in Nat
        BY <1>1, StageFields, SnapshotFields
      <3> QED BY <1>1, <1>4, <2>1, <3>1, StageFields DEF Knows, Fetches, OwnChange
    <2>3. x.alone => Reads(x.snap, k) = x.was
      BY <1>1, <2>1 DEF Knows
    <2> QED BY <1>4, <2>1, <2>2, <2>3 DEF Knows
  <1>6. ASSUME NEW d \in Calls, d # c, call[d] # Idle
        PROVE  rest[d] \in Stages /\ Knows(rest[d], u, floor)
    BY <1>1, <1>4, <1>6, DisturbKnows
  <1>7. /\ rest[c] = call[c]
        /\ \A d \in Calls : call[d] = Idle => rest[d] = Idle
    BY DEF Disturb
  <1>8. rest \in [Calls -> {Idle} \cup Stages]
    <2>1. \A d \in Calls : rest[d] \in {Idle} \cup Stages
      BY <1>1, <1>6, <1>7
    <2> QED BY <2>1 DEF Disturb
  <1>9. PICK x \in Stages : x = [call[c] EXCEPT !.at = "acted", !.due = u.ver]
    BY <1>5
  <1>10. call' = [rest EXCEPT ![c] = x] /\ Knows(x, u, floor)
    BY <1>2, <1>3, <1>5, <1>9
  <1> HIDE DEF rest
  <1>11. \A d \in Calls : call'[d] = IF d = c THEN x ELSE rest[d]
    BY <1>8, <1>10
  <1>12. \A d \in Calls : call'[d] # Idle => Knows(call'[d], tg', floor')
    BY <1>2, <1>3, <1>6, <1>7, <1>10, <1>11
  <1> QED BY <1>8, <1>10, <1>12 DEF CallInv, CallsKnow

LEMMA ChangeStep ==
  ASSUME DialogsInv, NEW c \in Calls, Act(c), call[c].kind \notin Toggles
  PROVE  CallInv'
  <1>1. /\ call[c] # Idle /\ call[c] \in Stages /\ Knows(call[c], tg, floor)
        /\ call[c].at = "act" /\ tg \in Snapshots /\ tg.ver \in Nat
        /\ call \in [Calls -> {Idle} \cup Stages] /\ floor \in Nat
    BY SnapshotFields DEF Act, Idle, DialogsInv, TypeOK, CallsKnow
  <1>2. PICK u \in Snapshots : u = Touched
    BY <1>1, TouchTypes
  <1>3. u.ver = tg.ver + 1 /\ u.on = tg.on
    BY <1>1, <1>2, TouchTypes
  <1>4. PICK due : due = IF call[c].kind \in OwnChange THEN u.ver ELSE call[c].due
    OBVIOUS
  <1>5. /\ tg' = u /\ floor' = floor
        /\ call' = [call EXCEPT ![c] =
                     [call[c] EXCEPT !.at = "acted", !.snap = u, !.due = due]]
    <2>1. /\ tg' = Touched /\ floor' = floor
          /\ call' = [call EXCEPT ![c] =
               [call[c] EXCEPT !.at = "acted", !.snap = Touched,
                  !.due = IF call[c].kind \in OwnChange THEN Touched.ver ELSE call[c].due]]
      BY DEF Act, known
    <2> QED BY <1>2, <1>4, <2>1
  <1>6. /\ due \in Nat /\ due <= u.ver /\ call[c].fetch = "none"
        /\ call[c].kind \notin OwnChange => due <= floor
    <2>1. /\ call[c].due \in Nat /\ call[c].due <= tg.ver /\ call[c].fetch = "none"
          /\ call[c].kind \notin OwnChange => call[c].due <= floor
      BY <1>1, StageFields DEF Knows
    <2> QED BY <1>1, <1>3, <1>4, <2>1
  <1>7. ASSUME NEW x, x = [call[c] EXCEPT !.at = "acted", !.snap = u, !.due = due]
        PROVE  x \in Stages /\ Knows(x, u, floor)
    <2>1. /\ x \in Stages /\ x.kind = call[c].kind /\ x.at = "acted"
          /\ x.fetch = call[c].fetch /\ x.snap = u /\ x.due = due
      BY <1>1, <1>6, <1>7 DEF Stages
    <2> QED BY <1>1, <1>3, <1>6, <2>1 DEF Knows
  <1>8. PICK x \in Stages : x = [call[c] EXCEPT !.at = "acted", !.snap = u, !.due = due]
    BY <1>7
  <1>9. call' = [call EXCEPT ![c] = x] /\ Knows(x, u, floor)
    BY <1>5, <1>7, <1>8
  <1>10. \A d \in Calls : call[d] # Idle => Knows(call[d], u, floor)
    BY <1>1, <1>3, PlaceKnows
  <1>11. \A d \in Calls : call'[d] # Idle => Knows(call'[d], tg', floor')
    BY <1>1, <1>5, <1>9, <1>10
  <1> QED BY <1>1, <1>9, <1>11 DEF CallInv, CallsKnow

LEMMA ActStep ==
  ASSUME DialogsInv, NEW c \in Calls, Act(c)
  PROVE  CallInv'
  BY ToggleStep, ChangeStep

-----------------------------------------------------------------------------
\* The whole invariant.

\* The part of it that is not about the calls.
Rest ==
    /\ tg \in Snapshots
    /\ changes \in 0 .. MaxChanges
    /\ news \subseteq 1 .. tg.ver
    /\ cache \in Snapshots /\ cache.ver <= tg.ver
    /\ age \in 0 .. Expired
    /\ floor \in 0 .. tg.ver
    /\ stray \in BOOLEAN
    /\ CacheKnows

LEMMA Parts == DialogsInv <=> CallInv /\ Rest
  BY DEF DialogsInv, CallInv, Rest, TypeOK

\* An expired cache is asked by nobody.
LEMMA InvalidateRest ==
  ASSUME DialogsInv, NEW ver \in 0 .. tg.ver, Invalidate(ver),
         tg' = tg, changes' = changes, news' \subseteq news
  PROVE  Rest'
  BY BoundsAreNumbers
     DEF DialogsInv, TypeOK, Rest, CacheKnows, Invalidate, Later, Expired, Snapshots

\* What changes Telegram leaves the cache.
LEMMA ChangeRest ==
  ASSUME DialogsInv, tg' \in Snapshots, tg'.ver \in {tg.ver, tg.ver + 1},
         changes' \in 0 .. MaxChanges, news' \subseteq 1 .. tg'.ver, UNCHANGED known
  PROVE  Rest'
  BY DEF DialogsInv, TypeOK, Rest, CacheKnows, known, Snapshots

\* A fetch that was not overtaken stores all that is known.
LEMMA StoreRest ==
  ASSUME DialogsInv, NEW c \in Calls, Got(c)
  PROVE  Rest'
  <1>1. /\ call[c] # Idle /\ call[c].snap \in Snapshots /\ call[c].snap.ver <= tg.ver
        /\ call[c].snap.ver \in Nat /\ floor \in Nat /\ tg.ver \in Nat
        /\ floor <= tg.ver /\ MaxAge \in Nat
        /\ call[c].fetch # "overtaken" => floor <= call[c].snap.ver
    BY StageFields, SnapshotFields, BoundsAreNumbers
       DEF Got, DialogsInv, TypeOK, CallsKnow, Knows
  <1>2. /\ tg' = tg /\ changes' = changes /\ news' = news /\ Rest
    BY Parts DEF Got
  <1>3. CASE call[c].kind \in OfMessage
    BY <1>2, <1>3 DEF Got, Rest, CacheKnows, known
  <1>4. CASE call[c].kind \notin OfMessage
    <2>1. /\ cache' = call[c].snap /\ age' = 0 /\ floor' = Later(floor, call[c].snap.ver)
          /\ stray' = (call[c].fetch = "overtaken")
      BY <1>4 DEF Got, StoreDialogs
    <2>2. floor' \in 0 .. tg.ver
      BY <1>1, <2>1 DEF Later
    <2>3. ~stray' => call[c].fetch # "overtaken"
      BY <2>1
    <2>4. ~stray' => floor' <= call[c].snap.ver
      BY <1>1, <2>1, <2>3 DEF Later
    <2>5. 0 \in 0 .. Expired /\ stray' \in BOOLEAN
      BY <1>1, <2>1 DEF Expired
    <2> QED BY <1>1, <1>2, <2>1, <2>2, <2>4, <2>5 DEF Rest, CacheKnows
  <1> QED BY <1>3, <1>4

LEMMA RestStep ==
  ASSUME DialogsInv, [Next]_vars
  PROVE  Rest'
  <1>n. /\ MaxAge \in Nat /\ MaxChanges \in Nat /\ tg \in Snapshots /\ tg.ver \in Nat
        /\ TypeOK /\ Rest /\ CallsKnow
    BY BoundsAreNumbers, Parts DEF DialogsInv, TypeOK, Snapshots
  <1>c. CountChange => changes' \in 0 .. MaxChanges
    BY <1>n DEF CountChange, TypeOK
  <1>s. \A m \in {tg.ver, tg.ver + 1} : news \subseteq 1 .. m
    BY <1>n DEF TypeOK
  <1>1. ASSUME NEW c \in Calls, ActReturns(c) PROVE Rest'
    <2>1. CASE call[c].kind = "read"
      <3>1. call[c].snap.ver \in 0 .. tg.ver
        <4>1. call[c] # Idle /\ call[c] \in Stages
          BY <1>1, <1>n DEF ActReturns, TypeOK, Idle
        <4>2. call[c].snap.ver \in Nat /\ call[c].snap.ver <= tg.ver
          BY <1>n, <4>1, StageFields, SnapshotFields DEF CallsKnow, Knows
        <4> QED BY <1>n, <4>2
      <3>2. Invalidate(call[c].snap.ver) /\ tg' = tg /\ changes' = changes /\ news' = news
        BY <1>1, <2>1 DEF ActReturns
      <3> QED BY <3>1, <3>2, InvalidateRest
    <2>2. CASE call[c].kind # "read"
      BY <1>1, <1>n, <2>2 DEF ActReturns, Rest, CacheKnows, known
    <2> QED BY <2>1, <2>2
  <1>2. ASSUME NEW c \in Calls,
               Hit(c) \/ Fetch(c) \/ Serve(c) \/ Retry(c) \/ Fails(c) \/ Shown(c)
        PROVE  Rest'
    BY <1>2, <1>n DEF Hit, Fetch, Serve, Retry, Fails, Shown, Rest, CacheKnows, known
  <1>3. ASSUME NEW c \in Calls, Act(c) PROVE Rest'
    <2>1. call[c] # Idle /\ call[c] \in Stages
      BY <1>3, <1>n DEF Act, TypeOK, Idle
    <2>2. tg' \in Snapshots /\ tg'.ver \in {tg.ver, tg.ver + 1}
      BY <1>3, <1>n, <2>1, NegatedTypes, TouchTypes DEF Act
    <2> QED BY <1>3, <1>n, <1>s, <2>2, ChangeRest DEF Act, TypeOK
  <1>4. ASSUME NEW c \in Calls, NEW kind \in Kinds, Ask(c, kind) PROVE Rest'
    <2>1. changes' \in 0 .. MaxChanges
      BY <1>4, <1>n, <1>c DEF Ask, TypeOK
    <2> QED BY <1>4, <1>n, <2>1 DEF Ask, Rest, CacheKnows, known
  <1>5. ASSUME NEW kind \in Toggles, Elsewhere(kind) PROVE Rest'
    <2>1. PICK value \in BOOLEAN : tg' = Turned(kind, value)
      BY <1>5 DEF Elsewhere
    <2>2. Turned(kind, value) \in Snapshots /\ Turned(kind, value).ver = tg.ver + 1
      BY <1>n, TurnTypes
    <2>3. tg' \in Snapshots /\ tg'.ver = tg.ver + 1
      BY <2>1, <2>2
    <2>4. changes' \in 0 .. MaxChanges /\ news' \subseteq 1 .. tg'.ver /\ UNCHANGED known
      BY <1>5, <1>c, <1>s, <2>3 DEF Elsewhere
    <2> QED BY <2>3, <2>4, ChangeRest
  <1>6. CASE NewMessage \/ Moved
    <2>1. PICK listed \in BOOLEAN : tg' = Placed(listed)
      BY <1>6, <1>n, SnapshotFields DEF NewMessage, Moved
    <2>2. Placed(listed) \in Snapshots /\ Placed(listed).ver = tg.ver + 1
      BY <1>n, PlaceTypes
    <2>3. tg' \in Snapshots /\ tg'.ver = tg.ver + 1
      BY <2>1, <2>2
    <2>4. news' \subseteq 1 .. (tg.ver + 1)
      <3>1. news \subseteq 1 .. (tg.ver + 1) /\ tg.ver + 1 \in 1 .. (tg.ver + 1)
        BY <1>n, <1>s
      <3>2. news' = news \/ news' = news \cup {tg.ver + 1}
        BY <1>6 DEF NewMessage, Moved
      <3> QED BY <3>1, <3>2
    <2>5. changes' \in 0 .. MaxChanges /\ UNCHANGED known
      BY <1>6, <1>c DEF NewMessage, Moved
    <2> QED BY <2>3, <2>4, <2>5, ChangeRest
  <1>7. ASSUME NEW ver \in news, HandleNews(ver) PROVE Rest'
    <2>1. ver \in 0 .. tg.ver
      BY <1>n DEF TypeOK
    <2> QED BY <1>7, <2>1, InvalidateRest DEF HandleNews
  <1>8. CASE Tick
    BY <1>8, <1>n DEF Tick, Rest, CacheKnows, Expired
  <1>9. CASE UNCHANGED vars
    BY <1>9, <1>n DEF vars, known, Rest, CacheKnows
  <1> QED BY <1>1, <1>2, <1>3, <1>4, <1>5, <1>6, <1>7, <1>8, <1>9, StoreRest DEF Next, Goes

LEMMA InvStep == DialogsInv /\ [Next]_vars => DialogsInv'
  <1> SUFFICES ASSUME DialogsInv, [Next]_vars PROVE CallInv'
    BY RestStep DEF DialogsInv, CallInv, Rest, TypeOK
  <1>1. CallInv
    BY Parts
  <1>2. ASSUME UNCHANGED <<tg, call, floor>> PROVE CallInv'
    BY <1>1, <1>2 DEF CallInv, CallsKnow
  <1>3. CASE Tick
    BY <1>2, <1>3 DEF Tick
  <1>4. CASE UNCHANGED vars
    BY <1>2, <1>4 DEF vars, known
  <1> QED BY <1>3, <1>4, HitStep, FetchStep, GotStep, ActStep, ActReturnsStep, ReadStep,
             AskStep, ElsewhereStep, NewMessageStep, NewsStep
          DEF Next, Goes

LEMMA Invariance == Spec => []DialogsInv
  BY InitKnows, InvStep, PTL DEF Spec

\* Every state of the cache and of the calls is well-typed.
THEOREM TypeCorrect == Spec => []TypeOK
  <1>1. DialogsInv => TypeOK
    BY DEF DialogsInv
  <1> QED BY <1>1, Invariance, PTL

\* A toggle that has its switch to itself turns it once, with any number of other calls
\* under way and of repetitions: what it negates is what it has read, and every attempt
\* writes the same.
THEOREM TogglesTurnOnce == Spec => []AloneTurnsOnce
  <1>1. ASSUME DialogsInv PROVE AloneTurnsOnce
    <2> SUFFICES ASSUME NEW c \in Calls, call[c] # Idle, call[c].kind \in Toggles,
                        call[c].at = "acted", call[c].alone
                 PROVE  tg.on[call[c].kind] = ~call[c].was
      BY DEF AloneTurnsOnce
    <2> QED BY <1>1 DEF DialogsInv, CallsKnow, Knows
  <1> QED BY <1>1, Invariance, PTL

\* No answer is older than what was known when its call came in, nor than the call's own
\* change, for any number of calls that fetch, store and invalidate at the same time:
\* only a cache that an overtaken fetch has filled can make it so.
THEOREM AnswersAreNotOld == Spec => []AnswersKeepUp
  <1>1. ASSUME DialogsInv PROVE AnswersKeepUp
    <2> SUFFICES ASSUME NEW c \in Calls, call[c] # Idle, call[c].at = "answered",
                        ~call[c].astray
                 PROVE  call[c].snap.ver >= call[c].due
      BY DEF AnswersKeepUp
    <2>1. call[c].snap.ver \in Nat /\ call[c].due \in Nat
      BY <1>1, StageFields, SnapshotFields DEF DialogsInv, TypeOK
    <2>2. call[c].due <= call[c].snap.ver
      BY <1>1 DEF DialogsInv, CallsKnow, Knows
    <2> QED BY <2>1, <2>2
  <1> QED BY <1>1, Invariance, PTL
=============================================================================
