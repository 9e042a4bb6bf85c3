--------------------------- MODULE TimelineProofs ---------------------------
(***************************************************************************)
(* Machine-checked proofs about Timeline, for any finite set of chats, any *)
(* requests at a time and any bounds.                                      *)
(***************************************************************************)
EXTENDS Timeline, SequenceTheorems, FiniteSetTheorems, WellFoundedInduction, TLAPS

-----------------------------------------------------------------------------
\* Induction over the natural numbers, for sets.

LEMMA SmallestNumber ==
  ASSUME NEW T \in SUBSET Nat, T # {}
  PROVE  \E n \in T : \A m \in T : n <= m
  <1>1. PICK n \in T : \A m \in T : <<m, n>> \notin OpToRel(<, Nat)
    BY NatLessThanWellFounded, WFMin
  <1>2. \A m \in T : ~(m < n)
    BY <1>1 DEF OpToRel
  <1> QED BY <1>2

LEMMA Induction ==
  ASSUME NEW T, 0 \in T, \A n \in Nat : n \in T => n + 1 \in T
  PROVE  Nat \subseteq T
  <1> SUFFICES ASSUME Nat \ T # {} PROVE FALSE
    OBVIOUS
  <1>1. PICK n \in Nat \ T : \A m \in Nat \ T : n <= m
    BY SmallestNumber
  <1>2. n # 0
    BY <1>1
  <1>3. n - 1 \in Nat \ T
    BY <1>1, <1>2
  <1> QED BY <1>1, <1>3

-----------------------------------------------------------------------------
\* Filters.

\* What the filter has kept of the first n entries, for every n up to the length.
Keeps(g, seq, places, N) ==
    \A n \in 0 .. N :
        g[n] = IF n = 0 THEN <<>>
               ELSE IF n \in places THEN Append(g[n - 1], seq[n]) ELSE g[n - 1]

IsFilter(g, seq, places, N) ==
    g = [n \in 0 .. N |->
            IF n = 0 THEN <<>>
            ELSE IF n \in places THEN Append(g[n - 1], seq[n]) ELSE g[n - 1]]

LEMMA FilterExists ==
  ASSUME NEW seq, NEW places, NEW N \in Nat
  PROVE  \E g : IsFilter(g, seq, places, N)
  <1> DEFINE Body(g, m) == IF m = 0 THEN <<>>
                           ELSE IF m \in places THEN Append(g[m - 1], seq[m]) ELSE g[m - 1]
             T == {n \in Nat : \E g : IsFilter(g, seq, places, n)}
  <1>1. 0 \in T
    <2> DEFINE g == [m \in 0 .. 0 |-> <<>>]
    <2>1. IsFilter(g, seq, places, 0)
      BY DEF IsFilter
    <2> QED BY <2>1
  <1>2. ASSUME NEW n \in Nat, n \in T PROVE n + 1 \in T
    <2>1. PICK g : IsFilter(g, seq, places, n)
      BY <1>2
    <2> DEFINE h == [m \in 0 .. n + 1 |-> IF m = n + 1 THEN Body(g, m) ELSE g[m]]
    <2>2. \A m \in 0 .. n : h[m] = g[m]
      OBVIOUS
    <2>3. \A m \in 0 .. n + 1 : Body(h, m) = Body(g, m)
      <3>1. \A m \in 0 .. n + 1 : m # 0 => h[m - 1] = g[m - 1]
        BY <2>2
      <3> HIDE DEF h
      <3> QED BY <3>1
    <2>4. \A m \in 0 .. n + 1 : h[m] = Body(g, m)
      <3>1. \A m \in 0 .. n : g[m] = Body(g, m)
        BY <2>1 DEF IsFilter
      <3> HIDE DEF Body
      <3> QED BY <3>1
    <2>5. h = [m \in 0 .. n + 1 |-> h[m]]
      OBVIOUS
    <2> HIDE DEF h
    <2>6. h = [m \in 0 .. n + 1 |-> Body(h, m)]
      <3> HIDE DEF Body
      <3>1. \A m \in 0 .. n + 1 : h[m] = Body(h, m)
        BY <2>3, <2>4
      <3>2. [m \in 0 .. n + 1 |-> h[m]] = [m \in 0 .. n + 1 |-> Body(h, m)]
        BY <3>1, Zenon
      <3> QED BY <2>5, <3>2, Zenon
    <2>7. IsFilter(h, seq, places, n + 1)
      BY <2>6 DEF IsFilter
    <2> QED BY <2>7
  <1>3. N \in T
    <2> HIDE DEF T
    <2> QED BY <1>1, <1>2, Induction
  <1> QED BY <1>3

LEMMA FilterUnfolds ==
  ASSUME NEW seq, NEW places, Len(seq) \in Nat
  PROVE  \E g : Only(seq, places) = g[Len(seq)] /\ Keeps(g, seq, places, Len(seq))
  <1> DEFINE N == Len(seq)
             kept == CHOOSE g : IsFilter(g, seq, places, N)
  <1>1. \E g : IsFilter(g, seq, places, N)
    BY FilterExists
  <1>2. IsFilter(kept, seq, places, N)
    BY <1>1
  <1>3. Only(seq, places) = kept[N]
    BY DEF Only, IsFilter
  <1> HIDE DEF kept
  <1>4. Keeps(kept, seq, places, N)
    BY <1>2 DEF IsFilter, Keeps
  <1> QED BY <1>3, <1>4

\* The list s has only entries of the first n of seq, from these places.
From(s, seq, places, n) ==
    \A j \in DOMAIN s : \E i \in 1 .. n : i \in places /\ s[j] = seq[i]

\* A filter keeps entries of the list that it was asked to keep.
LEMMA OnlyKeeps ==
  ASSUME NEW S, NEW seq \in Seq(S), NEW places
  PROVE  /\ Only(seq, places) \in Seq(S)
         /\ \A j \in DOMAIN Only(seq, places) :
              \E i \in DOMAIN seq : i \in places /\ Only(seq, places)[j] = seq[i]
  <1> DEFINE N == Len(seq)
  <1>0. N \in Nat /\ DOMAIN seq = 1 .. N /\ \A i \in 1 .. N : seq[i] \in S
    BY LenProperties
  <1>1. PICK g : Only(seq, places) = g[N] /\ Keeps(g, seq, places, N)
    BY <1>0, FilterUnfolds
  <1> DEFINE T == {n \in Nat : n <= N => g[n] \in Seq(S) /\ From(g[n], seq, places, n)}
  <1>2. 0 \in T
    <2>1. g[0] = <<>>
      BY <1>0, <1>1 DEF Keeps
    <2>2. g[0] \in Seq(S) /\ DOMAIN g[0] = {}
      BY <2>1
    <2> QED BY <2>2 DEF From
  <1>3. ASSUME NEW n \in Nat, n \in T PROVE n + 1 \in T
    <2> SUFFICES ASSUME n + 1 <= N
                 PROVE  g[n + 1] \in Seq(S) /\ From(g[n + 1], seq, places, n + 1)
      OBVIOUS
    <2>1. g[n] \in Seq(S) /\ From(g[n], seq, places, n)
      BY <1>0, <1>3
    <2>2. g[n + 1] = IF n + 1 \in places THEN Append(g[n], seq[n + 1]) ELSE g[n]
      <3>1. n + 1 \in 0 .. N /\ n + 1 # 0 /\ (n + 1) - 1 = n
        BY <1>0
      <3> HIDE DEF N
      <3> QED BY <1>1, <3>1 DEF Keeps
    <2>3. CASE n + 1 \notin places
      BY <2>1, <2>2, <2>3 DEF From
    <2>4. CASE n + 1 \in places
      <3> DEFINE u == g[n]
                 v == Append(u, seq[n + 1])
      <3>1. seq[n + 1] \in S
        BY <1>0
      <3>2. /\ v \in Seq(S) /\ Len(u) \in Nat /\ DOMAIN u = 1 .. Len(u) /\ DOMAIN v = 1 .. Len(u) + 1
            /\ \A j \in 1 .. Len(u) : v[j] = u[j]
            /\ v[Len(u) + 1] = seq[n + 1]
        BY <2>1, <3>1, LenProperties, AppendProperties
      <3>3. From(u, seq, places, n)
        BY <2>1
      <3> HIDE DEF u, v
      <3>4. From(v, seq, places, n + 1)
        <4> SUFFICES ASSUME NEW j \in 1 .. Len(u) + 1
                     PROVE  \E i \in 1 .. n + 1 : i \in places /\ v[j] = seq[i]
          BY <3>2 DEF From
        <4>1. CASE j = Len(u) + 1
          BY <2>4, <3>2, <4>1
        <4>2. CASE j # Len(u) + 1
          <5>1. j \in 1 .. Len(u)
            BY <3>2, <4>2
          <5>2. \E i \in 1 .. n : i \in places /\ u[j] = seq[i]
            BY <3>2, <3>3, <5>1 DEF From
          <5> QED BY <3>2, <5>1, <5>2
        <4> QED BY <4>1, <4>2
      <3>5. g[n + 1] = v
        BY <2>2, <2>4 DEF u, v
      <3> QED BY <3>2, <3>4, <3>5
    <2> QED BY <2>3, <2>4
  <1>4. N \in T
    <2> HIDE DEF T, N
    <2> QED BY <1>0, <1>2, <1>3, Induction
  <1>5. g[N] \in Seq(S) /\ From(g[N], seq, places, N)
    BY <1>0, <1>4
  <1> HIDE DEF N
  <1> QED BY <1>0, <1>1, <1>5 DEF From

-----------------------------------------------------------------------------
\* The inductive invariant, in parts.

LogOK ==
    /\ log \in [Chats -> Seq(Message)] /\ now \in 0 .. MaxNow
    /\ \A c \in Chats : Len(log[c]) <= MaxPosts
TablesOK ==
    /\ enabled \in [Chats -> BOOLEAN] /\ hide \in [Chats -> 0 .. MaxNow + 1]
    /\ filtered \subseteq Chats \X (1 .. MaxPosts)
CountsOK == asks \in 0 .. MaxMoves /\ calm \in BOOLEAN /\ strayed \in BOOLEAN
TabOK == active \in Chats \cup {None} /\ msgs \in Seq(Bubble) /\ echoes \subseteq Chats \X (1 .. MaxPosts)

\* What is recorded is a command.
RecordOK(m) == m[2] \in DOMAIN log[m[1]] /\ log[m[1]][m[2]].kind # "text"
RecordsOK == \A m \in filtered : RecordOK(m)

\* A handler is about a message of its kind; new ones carry the first version, as do
\* the frames that announce them; a deletion is emitted without another await.
TaskOK(t, l) ==
    /\ t \in Updates /\ t.n \in DOMAIN l[t.chat]
    /\ t.kind = "new"     => t.ver = 0 /\ l[t.chat][t.n].kind = "text"
    /\ t.kind = "command" => l[t.chat][t.n].kind # "text"
    /\ t.kind = "delete"  => t.at = "row"
TasksOK == \A t \in tasks : TaskOK(t, log)
WireOK == wire \in Seq(Frames) /\ \A i \in DOMAIN wire : wire[i].event = "new" => wire[i].ver = 0

\* A load brings bubbles of its chat, and only a load is answered in two steps; an edit,
\* and a send that was carried out, have a message.
CallOK(r) ==
    \/ r = Idle
    \/ /\ r \in Calls
       /\ r.op = "edit" => r.n # 0
       /\ r.op = "send" /\ r.at = "ok" => r.n # 0
       /\ r.at = "called" => r.op = "load"
       /\ r.op = "load" => \A i \in DOMAIN r.list : r.list[i].chat = r.chat
RpcOK == rpc \in [Slots -> {Idle} \cup Calls] /\ \A s \in Slots : CallOK(rpc[s])

TimelineInv ==
    /\ LogOK /\ TablesOK /\ CountsOK /\ TabOK /\ RecordsOK
    /\ TasksOK /\ WireOK /\ RpcOK /\ OnlyStraysMixChats

LEMMA InvTypes == TimelineInv => TypeOK
  BY DEF TimelineInv, TypeOK, LogOK, TablesOK, CountsOK, TabOK, TasksOK, TaskOK, WireOK, RpcOK

LEMMA Bounds ==
  /\ MaxPosts \in Nat \ {0} /\ MaxNow \in Nat /\ MaxMoves \in Nat
  /\ None \notin Chats /\ IsFiniteSet(Chats)
  BY BoundsAreNaturals, NoneIsNoChat, ChatsAreFinite

-----------------------------------------------------------------------------
\* The log: messages keep their kind and their date.

LogKept ==
    \A c \in Chats : \A n \in DOMAIN log[c] :
        /\ n \in DOMAIN log'[c]
        /\ log'[c][n].kind = log[c][n].kind /\ log'[c][n].date = log[c][n].date

LEMMA LogTypes ==
  ASSUME LogOK, NEW c \in Chats
  PROVE  /\ log[c] \in Seq(Message) /\ Len(log[c]) \in 0 .. MaxPosts
         /\ DOMAIN log[c] = 1 .. Len(log[c]) /\ DOMAIN log[c] \subseteq 1 .. MaxPosts
         /\ \A n \in DOMAIN log[c] : log[c][n] \in Message
  <1>1. log[c] \in Seq(Message) /\ Len(log[c]) <= MaxPosts
    BY DEF LogOK
  <1>2. /\ Len(log[c]) \in Nat /\ DOMAIN log[c] = 1 .. Len(log[c])
        /\ \A n \in 1 .. Len(log[c]) : log[c][n] \in Message
    BY <1>1, LenProperties
  <1> QED BY <1>1, <1>2, Bounds

LEMMA LogSame ==
  ASSUME LogOK, UNCHANGED <<log, now>>
  PROVE  LogOK' /\ LogKept
  BY DEF LogOK, LogKept

LEMMA LogPosts ==
  ASSUME LogOK, NEW c \in Chats, Len(log[c]) < MaxPosts, NEW k \in Kinds, PostTo(c, k), now' = now
  PROVE  /\ LogOK' /\ LogKept
         /\ Len(log[c]) + 1 \in 1 .. MaxPosts /\ Len(log[c]) + 1 \in DOMAIN log'[c]
         /\ Len(log[c]) + 1 \notin DOMAIN log[c]
         /\ log'[c][Len(log[c]) + 1].kind = k
  <1> DEFINE m == [kind |-> k, date |-> now, ver |-> 0, gone |-> FALSE]
  <1>1. /\ log[c] \in Seq(Message) /\ Len(log[c]) \in 0 .. MaxPosts /\ DOMAIN log[c] = 1 .. Len(log[c])
        /\ MaxPosts \in Nat
    BY LogTypes, Bounds
  <1>2. m \in Message /\ m.kind = k
    BY Bounds DEF Message, LogOK
  <1>3. log' = [log EXCEPT ![c] = Append(log[c], m)]
    BY DEF PostTo
  <1> HIDE DEF m
  <1>4. /\ Append(log[c], m) \in Seq(Message) /\ Len(Append(log[c], m)) = Len(log[c]) + 1
        /\ DOMAIN Append(log[c], m) = 1 .. Len(log[c]) + 1
        /\ \A n \in 1 .. Len(log[c]) : Append(log[c], m)[n] = log[c][n]
        /\ Append(log[c], m)[Len(log[c]) + 1] = m
    BY <1>1, <1>2, AppendProperties, LenProperties
  <1>5. log'[c] = Append(log[c], m) /\ \A d \in Chats \ {c} : log'[d] = log[d]
    BY <1>3 DEF LogOK
  <1>6. LogOK'
    <2>1. log' \in [Chats -> Seq(Message)]
      BY <1>3, <1>4 DEF LogOK
    <2>2. Len(log'[c]) <= MaxPosts
      <3>1. Len(log'[c]) = Len(log[c]) + 1
        BY <1>4, <1>5
      <3> QED BY <1>1, <3>1
    <2>3. ASSUME NEW d \in Chats, d # c PROVE Len(log'[d]) <= MaxPosts
      BY <1>5, <2>3 DEF LogOK
    <2> QED BY <2>1, <2>2, <2>3 DEF LogOK
  <1>7. LogKept
    <2>1. \A n \in DOMAIN log[c] : n \in DOMAIN log'[c] /\ log'[c][n] = log[c][n]
      BY <1>1, <1>4, <1>5
    <2> QED BY <1>5, <2>1 DEF LogKept
  <1> QED BY <1>1, <1>2, <1>4, <1>5, <1>6, <1>7

\* One message changes, but neither its kind nor its date.
LEMMA LogChanges ==
  ASSUME LogOK, NEW c \in Chats, NEW n \in DOMAIN log[c], NEW m \in Message,
         m.kind = log[c][n].kind, m.date = log[c][n].date,
         log' = [log EXCEPT ![c] = [log[c] EXCEPT ![n] = m]], now' = now
  PROVE  LogOK' /\ LogKept
  <1>1. log[c] \in Seq(Message) /\ n \in 1 .. Len(log[c]) /\ DOMAIN log[c] = 1 .. Len(log[c])
    BY LogTypes
  <1> DEFINE s == [log[c] EXCEPT ![n] = m]
  <1>2. /\ s \in Seq(Message) /\ Len(s) = Len(log[c]) /\ DOMAIN s = 1 .. Len(log[c])
        /\ \A i \in 1 .. Len(log[c]) : s[i] = IF i = n THEN m ELSE log[c][i]
    BY <1>1, ExceptSeq, LenProperties
  <1>3. log' = [log EXCEPT ![c] = s]
    OBVIOUS
  <1> HIDE DEF s
  <1>4. log'[c] = s /\ \A d \in Chats \ {c} : log'[d] = log[d]
    BY <1>3 DEF LogOK
  <1>5. LogOK'
    <2>1. log' \in [Chats -> Seq(Message)]
      BY <1>2, <1>3 DEF LogOK
    <2>2. \A d \in Chats : Len(log'[d]) <= MaxPosts
      BY <1>2, <1>4 DEF LogOK
    <2> QED BY <2>1, <2>2 DEF LogOK
  <1>6. LogKept
    <2>1. \A i \in DOMAIN log[c] : /\ i \in DOMAIN log'[c] /\ log'[c][i].kind = log[c][i].kind
                                   /\ log'[c][i].date = log[c][i].date
      BY <1>1, <1>2, <1>4
    <2> QED BY <1>4, <2>1 DEF LogKept
  <1> QED BY <1>5, <1>6

LEMMA KnownTypes ==
  ASSUME LogOK, NEW c, NEW n, <<c, n>> \in Known
  PROVE  c \in Chats /\ n \in 1 .. MaxPosts /\ n \in DOMAIN log[c] /\ log[c][n] \in Message
  BY LogTypes DEF Known

LEMMA LogEdits ==
  ASSUME LogOK, NEW c, NEW n, <<c, n>> \in Known, log[c][n].ver + 1 \in 0 .. MaxMoves,
         EditIn(c, n), now' = now
  PROVE  LogOK' /\ LogKept
  <1>1. c \in Chats /\ n \in DOMAIN log[c] /\ log[c][n] \in Message
    BY KnownTypes
  <1> DEFINE m == [log[c][n] EXCEPT !.ver = @ + 1]
  <1>2. m \in Message /\ m.kind = log[c][n].kind /\ m.date = log[c][n].date
    BY <1>1 DEF Message
  <1>3. log' = [log EXCEPT ![c] = [log[c] EXCEPT ![n] = m]]
    BY DEF EditIn
  <1> HIDE DEF m
  <1> QED BY <1>1, <1>2, <1>3, LogChanges

LEMMA LogDeletes ==
  ASSUME LogOK, NEW c, NEW n, <<c, n>> \in Known, DeleteIn(c, n), now' = now
  PROVE  LogOK' /\ LogKept
  <1>1. c \in Chats /\ n \in DOMAIN log[c] /\ log[c][n] \in Message
    BY KnownTypes
  <1> DEFINE m == [log[c][n] EXCEPT !.gone = TRUE]
  <1>2. m \in Message /\ m.kind = log[c][n].kind /\ m.date = log[c][n].date
    BY <1>1 DEF Message
  <1>3. log' = [log EXCEPT ![c] = [log[c] EXCEPT ![n] = m]]
    BY DEF DeleteIn
  <1> HIDE DEF m
  <1> QED BY <1>1, <1>2, <1>3, LogChanges

\* The bound on the moves bounds the versions: each edit counts.
LEMMA VersionsBounded ==
  ASSUME LogOK, asks \in Nat, asks + Changes < MaxMoves
  PROVE  /\ asks + 1 \in 0 .. MaxMoves
         /\ \A c, n : <<c, n>> \in Known => log[c][n].ver + 1 \in 0 .. MaxMoves
  <1>1. IsFiniteSet(Known) /\ IsFiniteSet(Edits)
    <2>0. IsFiniteSet(1 .. MaxPosts) /\ IsFiniteSet(1 .. MaxMoves)
      <3>1. 1 \in Int /\ MaxPosts \in Int /\ MaxMoves \in Int
        BY Bounds
      <3> QED BY <3>1, FS_Interval
    <2>1. IsFiniteSet(Chats \X (1 .. MaxPosts))
      BY <2>0, Bounds, FS_Product
    <2>2. Known \subseteq Chats \X (1 .. MaxPosts)
      BY DEF Known
    <2>3. IsFiniteSet(Known)
      BY <2>1, <2>2, FS_Subset
    <2>4. IsFiniteSet(Known \X (1 .. MaxMoves))
      BY <2>0, <2>3, FS_Product
    <2>5. Edits \subseteq Known \X (1 .. MaxMoves)
      BY DEF Edits
    <2> QED BY <2>3, <2>4, <2>5, FS_Subset
  <1>2. Cardinality(Edits) \in Nat /\ Cardinality(Edits) <= Changes /\ Changes \in Nat
    <2>1. /\ Cardinality({m \in Known : m[2] > 1}) \in Nat
          /\ Cardinality({m \in Known : log[m[1]][m[2]].gone}) \in Nat
      BY <1>1, FS_Subset, FS_CardinalityType
    <2>2. Cardinality(Edits) \in Nat
      BY <1>1, FS_CardinalityType
    <2> QED BY <2>1, <2>2 DEF Changes
  <1>3. asks + 1 \in 0 .. MaxMoves
    BY <1>2, Bounds
  <1>4. ASSUME NEW c, NEW n, <<c, n>> \in Known
        PROVE  log[c][n].ver + 1 \in 0 .. MaxMoves
    <2> DEFINE v == log[c][n].ver
               f == [i \in 1 .. v |-> <<<<c, n>>, i>>]
    <2>1. v \in 0 .. MaxMoves
      BY <1>4, KnownTypes DEF Message
    <2>2. \A i \in 1 .. v : <<<<c, n>>, i>> \in Edits
      <3> SUFFICES ASSUME NEW i \in 1 .. v PROVE <<<<c, n>>, i>> \in Edits
        OBVIOUS
      <3>1. i \in 1 .. MaxMoves /\ i <= v
        BY <2>1, Bounds
      <3>2. <<<<c, n>>, i>> \in Known \X (1 .. MaxMoves)
        BY <1>4, <3>1
      <3>3. <<<<c, n>>, i>>[1][1] = c /\ <<<<c, n>>, i>>[1][2] = n /\ <<<<c, n>>, i>>[2] = i
        OBVIOUS
      <3> QED BY <3>1, <3>2, <3>3 DEF Edits
    <2>3. f \in Injection(1 .. v, Edits)
      <3>1. f \in [1 .. v -> Edits]
        BY <2>2
      <3>2. \A i, j \in 1 .. v : f[i] = f[j] => i = j
        OBVIOUS
      <3> HIDE DEF f
      <3> QED BY <3>1, <3>2 DEF Injection, IsInjective
    <2>4. Cardinality(1 .. v) <= Cardinality(Edits)
      <3> HIDE DEF f, v
      <3> QED BY <1>1, <2>3, FS_Injection
    <2>5. Cardinality(1 .. v) = v
      <3> HIDE DEF v
      <3>1. v \in Nat
        BY <2>1, Bounds
      <3> QED BY <3>1, FS_Interval
    <2> HIDE DEF v
    <2>6. v + 1 \in 0 .. MaxMoves
      BY <1>2, <2>1, <2>4, <2>5, Bounds
    <2> QED BY <2>6 DEF v
  <1> QED BY <1>3, <1>4

-----------------------------------------------------------------------------
\* What the parts of the invariant need of a step.

LEMMA Unmoved ==
  ASSUME TimelineInv
  PROVE  /\ UNCHANGED tables /\ LogKept => TablesOK' /\ RecordsOK'
         /\ UNCHANGED wire => WireOK'
         /\ UNCHANGED rpc => RpcOK'
         /\ UNCHANGED <<active, msgs, echoes>> => TabOK'
         /\ UNCHANGED <<active, msgs, strayed>> => OnlyStraysMixChats'
  <1>1. ASSUME UNCHANGED tables, LogKept PROVE TablesOK' /\ RecordsOK'
    <2>1. TablesOK' /\ filtered' = filtered
      BY <1>1 DEF tables, TimelineInv, TablesOK
    <2>2. ASSUME NEW m \in filtered PROVE RecordOK(m)'
      <3>1. m[1] \in Chats /\ RecordOK(m)
        BY DEF TimelineInv, TablesOK, RecordsOK
      <3> QED BY <1>1, <3>1 DEF LogKept, RecordOK
    <2> QED BY <2>1, <2>2 DEF RecordsOK
  <1>2. UNCHANGED wire => WireOK'
    BY DEF TimelineInv, WireOK
  <1>3. UNCHANGED rpc => RpcOK'
    BY DEF TimelineInv, RpcOK
  <1>4. UNCHANGED <<active, msgs, echoes>> => TabOK'
    BY DEF TimelineInv, TabOK
  <1>5. UNCHANGED <<active, msgs, strayed>> => OnlyStraysMixChats'
    BY DEF TimelineInv, OnlyStraysMixChats
  <1> QED BY <1>1, <1>2, <1>3, <1>4, <1>5

\* Handlers that were running go on being about their message.
LEMMA TasksLess ==
  ASSUME TasksOK, LogKept, tasks' \subseteq tasks
  PROVE  TasksOK'
  <1>1. ASSUME NEW t \in tasks PROVE TaskOK(t, log')
    <2>1. TaskOK(t, log) /\ t.chat \in Chats
      BY DEF TasksOK, TaskOK, Updates
    <2> QED BY <2>1 DEF LogKept, TaskOK
  <1> QED BY <1>1 DEF TasksOK

LEMMA TasksMore ==
  ASSUME TasksOK, LogKept, NEW t, TaskOK(t, log'), tasks' \subseteq tasks \cup {t}
  PROVE  TasksOK'
  <1>1. ASSUME NEW u \in tasks PROVE TaskOK(u, log')
    <2>1. TaskOK(u, log) /\ u.chat \in Chats
      BY DEF TasksOK, TaskOK, Updates
    <2> QED BY <2>1 DEF LogKept, TaskOK
  <1> QED BY <1>1 DEF TasksOK

\* Only the call in one slot changes.
LEMMA RpcNext ==
  ASSUME RpcOK, NEW s \in Slots, NEW r, CallOK(r), rpc' = [rpc EXCEPT ![s] = r]
  PROVE  RpcOK'
  <1>1. r \in {Idle} \cup Calls
    BY DEF CallOK
  <1>2. \A q \in Slots : rpc'[q] = IF q = s THEN r ELSE rpc[q]
    BY DEF RpcOK
  <1> QED BY <1>1, <1>2 DEF RpcOK

\* A frame more at the end, or one less at the front.
LEMMA WireNext ==
  ASSUME WireOK
  PROVE  /\ \A f \in Frames : (f.event = "new" => f.ver = 0) /\ Send(f) => WireOK'
         /\ wire # <<>> /\ wire' = Tail(wire) => WireOK'
         /\ wire # <<>> => Head(wire) \in Frames /\ (Head(wire).event = "new" => Head(wire).ver = 0)
  <1>0. wire \in Seq(Frames) /\ Len(wire) \in Nat /\ DOMAIN wire = 1 .. Len(wire)
    BY LenProperties DEF WireOK
  <1>1. ASSUME NEW f \in Frames, f.event = "new" => f.ver = 0, Send(f) PROVE WireOK'
    <2>1. /\ wire' \in Seq(Frames) /\ DOMAIN wire' = 1 .. Len(wire) + 1
          /\ \A i \in 1 .. Len(wire) : wire'[i] = wire[i]
          /\ wire'[Len(wire) + 1] = f
      BY <1>0, <1>1, AppendProperties, LenProperties DEF Send
    <2>2. \A i \in 1 .. Len(wire) + 1 : i \in 1 .. Len(wire) \/ i = Len(wire) + 1
      BY <1>0
    <2> QED BY <1>0, <1>1, <2>1, <2>2 DEF WireOK
  <1>2. ASSUME wire # <<>>, wire' = Tail(wire) PROVE WireOK'
    <2>1. /\ wire' \in Seq(Frames) /\ DOMAIN wire' = 1 .. Len(wire) - 1
          /\ \A i \in 1 .. Len(wire) - 1 : wire'[i] = wire[i + 1]
      BY <1>0, <1>2, HeadTailProperties, LenProperties
    <2>2. \A i \in 1 .. Len(wire) - 1 : i + 1 \in 1 .. Len(wire)
      BY <1>0
    <2> QED BY <1>0, <2>1, <2>2 DEF WireOK
  <1>3. ASSUME wire # <<>>
        PROVE  Head(wire) \in Frames /\ (Head(wire).event = "new" => Head(wire).ver = 0)
    <2>1. Head(wire) = wire[1] /\ 1 \in DOMAIN wire /\ Head(wire) \in Frames
      BY <1>0, <1>3, HeadTailProperties
    <2> QED BY <2>1 DEF WireOK
  <1> QED BY <1>1, <1>2, <1>3

\* The history of a chat, and what passes the filter, are bubbles of the chat.
LEMMA HistoryTypes ==
  ASSUME LogOK, NEW c \in Chats
  PROVE  /\ History(c) \in Seq(Bubble)
         /\ \A i \in DOMAIN History(c) : History(c)[i].chat = c
  <1> DEFINE all == [n \in DOMAIN log[c] |-> BubbleOf(c, n)]
             places == {n \in DOMAIN log[c] : ~log[c][n].gone}
  <1>1. /\ Len(log[c]) \in Nat /\ DOMAIN log[c] = 1 .. Len(log[c])
        /\ \A n \in DOMAIN log[c] : BubbleOf(c, n) \in Bubble /\ BubbleOf(c, n).chat = c
    BY LogTypes DEF BubbleOf, Bubble, Message
  <1>2. all \in Seq(Bubble) /\ \A n \in DOMAIN all : all[n].chat = c
    BY <1>1
  <1>3. History(c) = Only(all, places)
    BY DEF History
  <1> HIDE DEF all, places
  <1>4. /\ Only(all, places) \in Seq(Bubble)
        /\ \A j \in DOMAIN Only(all, places) : \E i \in DOMAIN all : Only(all, places)[j] = all[i]
    BY <1>2, OnlyKeeps
  <1> QED BY <1>2, <1>3, <1>4

LEMMA PassingKeeps ==
  ASSUME NEW bubbles \in Seq(Bubble), NEW h
  PROVE  /\ Passing(bubbles, h) \in Seq(Bubble)
         /\ \A j \in DOMAIN Passing(bubbles, h) :
              \E i \in DOMAIN bubbles : Passing(bubbles, h)[j] = bubbles[i] /\ Passes(bubbles[i], h)
  <1> DEFINE places == {i \in DOMAIN bubbles : Passes(bubbles[i], h)}
  <1>1. Passing(bubbles, h) = Only(bubbles, places)
    BY DEF Passing
  <1>2. \A i \in places : Passes(bubbles[i], h)
    OBVIOUS
  <1> HIDE DEF places
  <1> QED BY <1>1, <1>2, OnlyKeeps

LEMMA WithoutKeeps ==
  ASSUME TabOK, NEW n
  PROVE  /\ Without(n) \in Seq(Bubble)
         /\ \A j \in DOMAIN Without(n) : \E i \in DOMAIN msgs : Without(n)[j] = msgs[i] /\ msgs[i].n # n
  <1> DEFINE places == {i \in DOMAIN msgs : msgs[i].n # n}
  <1>1. Without(n) = Only(msgs, places) /\ msgs \in Seq(Bubble)
    BY DEF Without, TabOK
  <1>2. \A i \in places : msgs[i].n # n
    OBVIOUS
  <1> HIDE DEF places
  <1> QED BY <1>1, <1>2, OnlyKeeps

LEMMA InitInv == Init => TimelineInv
  <1> SUFFICES ASSUME Init PROVE TimelineInv
    OBVIOUS
  <1>1. LogOK
    <2> DEFINE m == [kind |-> "text", date |-> 0, ver |-> 0, gone |-> FALSE]
    <2>1. m \in Message
      BY Bounds DEF Message, Kinds
    <2>2. log = [c \in Chats |-> <<m>>]
      BY DEF Init
    <2> HIDE DEF m
    <2>3. <<m>> \in Seq(Message) /\ Len(<<m>>) = 1
      BY <2>1
    <2>4. now \in 0 .. MaxNow
      BY Bounds DEF Init
    <2> QED BY <2>2, <2>3, <2>4, Bounds DEF LogOK
  <1>2. TablesOK /\ CountsOK /\ RecordsOK
    <2>1. 0 \in 0 .. MaxNow + 1 /\ 0 \in 0 .. MaxMoves
      BY Bounds
    <2>2. TablesOK
      BY <2>1 DEF Init, TablesOK
    <2>3. CountsOK
      BY <2>1 DEF Init, CountsOK
    <2> QED BY <2>2, <2>3 DEF Init, RecordsOK
  <1>3. TasksOK /\ WireOK /\ RpcOK
    BY DEF Init, TasksOK, WireOK, RpcOK, CallOK
  <1>4. TabOK /\ OnlyStraysMixChats
    <2>1. active \in Chats /\ msgs = Passing(History(active), hide[active]) /\ echoes = {}
      BY DEF Init, Visible
    <2>2. /\ History(active) \in Seq(Bubble)
          /\ \A i \in DOMAIN History(active) : History(active)[i].chat = active
      BY <1>1, <2>1, HistoryTypes
    <2>3. /\ msgs \in Seq(Bubble)
          /\ \A j \in DOMAIN msgs : \E i \in DOMAIN History(active) : msgs[j] = History(active)[i]
      BY <2>1, <2>2, PassingKeeps
    <2> QED BY <2>1, <2>2, <2>3 DEF TabOK, OnlyStraysMixChats
  <1> QED BY <1>1, <1>2, <1>3, <1>4 DEF TimelineInv

-----------------------------------------------------------------------------
\* The steps.

LEMMA Parts ==
  ASSUME TimelineInv
  PROVE  /\ LogOK /\ TablesOK /\ CountsOK /\ TabOK /\ RecordsOK
         /\ TasksOK /\ WireOK /\ RpcOK /\ OnlyStraysMixChats
         /\ asks \in Nat /\ now \in Nat
  BY Bounds DEF TimelineInv, CountsOK, LogOK

LEMMA TaskTypes ==
  ASSUME NEW c, NEW n, <<c, n>> \in Known, LogOK, NEW v \in 0 .. MaxMoves, NEW k, NEW a,
         k \in {"edit", "delete"}, a \in {"filter", "row", "emit"}, k = "delete" => a = "row",
         LogKept
  PROVE  TaskOK(Task(k, c, n, v, a), log')
  <1>1. c \in Chats /\ n \in 1 .. MaxPosts /\ n \in DOMAIN log[c]
    BY KnownTypes
  <1>2. n \in DOMAIN log'[c]
    BY <1>1 DEF LogKept
  <1> QED BY <1>1, <1>2 DEF TaskOK, Task, Updates

\* What others do in Telegram, and the clock.
LEMMA TelegramStep ==
  ASSUME TimelineInv,
         \/ \E c \in Chats : \/ \E k \in Kinds : Posted(c, k)
                           \/ \E n \in 1 .. MaxPosts : Edited(c, n) \/ Deleted(c, n)
         \/ Tick
  PROVE  TimelineInv'
  <1>0. LogOK /\ TasksOK /\ CountsOK /\ asks \in Nat
    BY Parts
  <1>1. UNCHANGED <<tables, rpc, wire, active, msgs, echoes, asks, strayed>>
    BY DEF Posted, Edited, Deleted, Tick, tables, tab, history
  <1>2. CountsOK'
    <2>1. calm' = calm \/ calm' = (calm /\ Still)
      BY DEF Posted, Edited, Deleted, Tick, Begin, history
    <2>2. calm' \in BOOLEAN
      BY <1>0, <2>1 DEF CountsOK
    <2> QED BY <1>0, <1>1, <2>2 DEF CountsOK
  <1>3. ASSUME LogOK', LogKept, TasksOK' PROVE TimelineInv'
    BY <1>1, <1>2, <1>3, Unmoved DEF TimelineInv
  <1>4. ASSUME NEW c \in Chats, NEW k \in Kinds, Posted(c, k) PROVE TimelineInv'
    <2> DEFINE n == Len(log[c]) + 1
               t == Task(IF k = "text" THEN "new" ELSE "command", c, n, 0, "filter")
    <2>1. LogOK' /\ LogKept /\ n \in 1 .. MaxPosts /\ n \in DOMAIN log'[c] /\ log'[c][n].kind = k
      BY <1>0, <1>4, LogPosts DEF Posted, CanPost
    <2>2. tasks' = tasks \cup {t}
      BY <1>4 DEF Posted, HandlersOf
    <2>3. TaskOK(t, log')
      <3> HIDE DEF n
      <3> QED BY <2>1, Bounds DEF TaskOK, Task, Updates, Kinds
    <2> HIDE DEF t, n
    <2>4. TasksOK'
      BY <1>0, <2>1, <2>2, <2>3, TasksMore
    <2> QED BY <1>3, <2>1, <2>4
  <1>5. ASSUME NEW c \in Chats, NEW n \in 1 .. MaxPosts, Edited(c, n) PROVE TimelineInv'
    <2> DEFINE t == Task("edit", c, n, log[c][n].ver + 1, "row")
    <2>1. <<c, n>> \in Known /\ asks + Changes < MaxMoves /\ EditIn(c, n) /\ now' = now
      BY <1>5 DEF Edited, CanEdit, Present
    <2>2. log[c][n].ver + 1 \in 0 .. MaxMoves
      BY <1>0, <2>1, VersionsBounded
    <2>3. LogOK' /\ LogKept
      BY <1>0, <2>1, <2>2, LogEdits
    <2>4. TaskOK(t, log')
      BY <1>0, <2>1, <2>2, <2>3, TaskTypes
    <2>5. tasks' = tasks \cup {t}
      BY <1>5 DEF Edited
    <2> HIDE DEF t
    <2>6. TasksOK'
      BY <1>0, <2>3, <2>4, <2>5, TasksMore
    <2> QED BY <1>3, <2>3, <2>6
  <1>6. ASSUME NEW c \in Chats, NEW n \in 1 .. MaxPosts, Deleted(c, n) PROVE TimelineInv'
    <2> DEFINE t == Task("delete", c, n, 0, "row")
    <2>1. <<c, n>> \in Known /\ DeleteIn(c, n) /\ now' = now
      BY <1>6 DEF Deleted, Present
    <2>2. LogOK' /\ LogKept
      BY <1>0, <2>1, LogDeletes
    <2>3. 0 \in 0 .. MaxMoves
      BY Bounds
    <2>4. TaskOK(t, log')
      BY <1>0, <2>1, <2>2, <2>3, TaskTypes
    <2>5. tasks' = tasks \cup {t}
      BY <1>6 DEF Deleted
    <2> HIDE DEF t
    <2>6. TasksOK'
      BY <1>0, <2>2, <2>4, <2>5, TasksMore
    <2> QED BY <1>3, <2>2, <2>6
  <1>7. CASE Tick
    <2>1. LogOK' /\ LogKept
      <3>1. log' = log /\ now' \in 0 .. MaxNow
        BY <1>7, Parts, Bounds DEF Tick
      <3> QED BY <1>0, <3>1 DEF LogOK, LogKept
    <2>2. TasksOK'
      <3>1. tasks' \subseteq tasks
        BY <1>7 DEF Tick
      <3> QED BY <1>0, <2>1, <3>1, TasksLess
    <2> QED BY <1>3, <2>1, <2>2
  <1> QED BY <1>4, <1>5, <1>6, <1>7

\* The handlers.
LEMMA HandlerStep ==
  ASSUME TimelineInv, NEW t \in tasks, Handle(t)
  PROVE  TimelineInv'
  <1>0. LogOK /\ TablesOK /\ RecordsOK /\ TasksOK /\ WireOK /\ CountsOK /\ TaskOK(t, log)
    BY Parts DEF TasksOK
  <1>1. UNCHANGED <<log, now, rpc, active, msgs, echoes, asks, calm, strayed, hide>>
    BY DEF Handle, Filter, RowOfNew, RowOfEdit, RowOfDelete, RowOfCommand, Emit, telegram, tables, tab, history
  <1>2. LogOK' /\ LogKept /\ CountsOK'
    BY <1>0, <1>1, LogSame DEF CountsOK
  <1>3. ASSUME TablesOK', RecordsOK', TasksOK', WireOK' PROVE TimelineInv'
    BY <1>1, <1>2, <1>3, Unmoved DEF TimelineInv
  <1>4. ASSUME Return(t) PROVE TasksOK'
    <2>1. tasks' \subseteq tasks
      BY <1>4 DEF Return
    <2> QED BY <1>0, <1>2, <2>1, TasksLess
  <1>5. ASSUME NEW a \in {"filter", "row", "emit"}, Goto(t, a), t.kind = "delete" => a = "row" PROVE TasksOK'
    <2> DEFINE u == [t EXCEPT !.at = a]
    <2>1. TaskOK(u, log)
      BY <1>0, <1>5 DEF TaskOK, Updates
    <2>2. TaskOK(u, log')
      BY <1>1, <2>1
    <2>3. tasks' \subseteq tasks \cup {u}
      BY <1>5 DEF Goto
    <2> HIDE DEF u
    <2> QED BY <1>0, <1>2, <2>2, <2>3, TasksMore
  <1>6. ASSUME NEW e \in {"new", "edited", "deleted", "removed"}, Send(Frame(e, t)),
               e = "new" => t.kind = "new"
        PROVE  WireOK'
    <2>1. Frame(e, t) \in Frames /\ (Frame(e, t).event = "new" => Frame(e, t).ver = 0)
      BY <1>0, <1>6 DEF Frame, Frames, TaskOK, Updates
    <2> QED BY <1>0, <1>6, <2>1, WireNext
  <1>7. CASE Filter(t)
    <2>1. UNCHANGED <<wire, enabled, hide>> /\ t.at = "filter"
      BY <1>7 DEF Filter
    <2>2. WireOK'
      BY <2>1, Unmoved
    <2>3. CASE t.kind = "command"
      <3>1. filtered' = filtered \cup {<<t.chat, t.n>>} /\ Goto(t, "row")
        BY <1>7, <2>3 DEF Filter
      <3>2. TablesOK' /\ RecordsOK'
        <4>1. RecordOK(<<t.chat, t.n>>) /\ <<t.chat, t.n>> \in Chats \X (1 .. MaxPosts)
          BY <1>0, <2>3 DEF TaskOK, Updates, RecordOK
        <4>2. \A m \in filtered' : RecordOK(m)'
          BY <1>0, <1>1, <3>1, <4>1 DEF RecordsOK, RecordOK
        <4>3. TablesOK'
          BY <1>0, <2>1, <3>1, <4>1 DEF TablesOK
        <4> QED BY <4>2, <4>3 DEF RecordsOK
      <3> QED BY <1>3, <1>5, <2>2, <3>1, <3>2
    <2>4. CASE t.kind # "command"
      <3>1. UNCHANGED tables /\ (Return(t) \/ Goto(t, "row") \/ Goto(t, "emit"))
        BY <1>7, <2>1, <2>4 DEF Filter, tables
      <3>2. t.kind # "delete"
        BY <1>0, <2>1 DEF TaskOK
      <3>3. TasksOK'
        BY <1>4, <1>5, <3>1, <3>2
      <3> QED BY <1>2, <1>3, <2>2, <3>1, <3>3, Unmoved
    <2> QED BY <2>3, <2>4
  <1>8. CASE RowOfNew(t) \/ RowOfEdit(t)
    <2>1. UNCHANGED tables /\ UNCHANGED wire /\ t.kind # "delete"
          /\ (Return(t) \/ Goto(t, "filter") \/ Goto(t, "emit"))
      BY <1>8 DEF RowOfNew, RowOfEdit
    <2>2. TasksOK'
      BY <1>4, <1>5, <2>1
    <2> QED BY <1>2, <1>3, <2>1, <2>2, Unmoved
  <1>9. CASE RowOfDelete(t)
    <2>1. UNCHANGED tables /\ Return(t) /\ (UNCHANGED wire \/ Send(Frame("deleted", t)))
      BY <1>9 DEF RowOfDelete
    <2>2. WireOK'
      BY <1>6, <2>1, Unmoved
    <2> QED BY <1>2, <1>3, <1>4, <2>1, <2>2, Unmoved
  <1>10. CASE RowOfCommand(t)
    <2>1. /\ UNCHANGED <<hide, filtered, wire>> /\ t.kind # "delete" /\ (Return(t) \/ Goto(t, "emit"))
          /\ enabled' = [enabled EXCEPT ![t.chat] = log[t.chat][t.n].kind = "addweb"]
      BY <1>10 DEF RowOfCommand
    <2>2. TablesOK'
      BY <1>0, <2>1 DEF TablesOK
    <2>3. RecordsOK'
      BY <1>0, <1>1, <2>1 DEF RecordsOK, RecordOK
    <2>4. TasksOK' /\ WireOK'
      BY <1>4, <1>5, <2>1, Unmoved
    <2> QED BY <1>3, <2>2, <2>3, <2>4
  <1>11. CASE Emit(t)
    <2>1. UNCHANGED tables /\ Return(t) /\ t.at = "emit"
      BY <1>11 DEF Emit
    <2>2. t.kind \in {"new", "edit", "command"}
      BY <1>0, <2>1 DEF TaskOK, Updates
    <2>3. \E e \in {"new", "edited", "removed"} : Send(Frame(e, t)) /\ (e = "new" => t.kind = "new")
      <3>1. CASE t.kind = "new"
        BY <1>11, <3>1 DEF Emit
      <3>2. CASE t.kind = "edit"
        BY <1>11, <3>2 DEF Emit
      <3>3. CASE t.kind = "command"
        BY <1>11, <3>3 DEF Emit
      <3> QED BY <2>2, <3>1, <3>2, <3>3
    <2> QED BY <1>2, <1>3, <1>4, <1>6, <2>1, <2>3, Unmoved
  <1> QED BY <1>7, <1>8, <1>9, <1>10, <1>11 DEF Handle

\* The tab asks for an RPC.
LEMMA AskRpc ==
  ASSUME TimelineInv, NEW s \in Slots, NEW op \in Ops, NEW c \in Chats, NEW n \in 0 .. MaxPosts,
         op = "edit" => n # 0, Ask(s, op, c, n)
  PROVE  RpcOK' /\ asks' \in 0 .. MaxMoves
  <1> DEFINE r == [Idle EXCEPT !.op = op, !.chat = c, !.n = n, !.at = "asked"]
  <1>1. CallOK(r)
    <2>1. 0 \in 0 .. MaxMoves /\ 0 \in 0 .. MaxNow + 1 /\ <<>> \in Seq(Bubble)
      BY Bounds
    <2>2. Idle \in [op : Ops \cup {"none"}, chat : Chats \cup {None}, n : 0 .. MaxPosts,
                   ver : {0}, at : {"idle"}, hide : {0}, list : {<<>>}]
      BY Bounds DEF Idle
    <2>3. /\ r \in [op : {op}, chat : {c}, n : {n}, ver : {0}, at : {"asked"}, hide : {0}, list : {<<>>}]
      BY <2>2
    <2> HIDE DEF r
    <2>4. r \in Calls /\ r.op = op /\ r.n = n /\ r.at = "asked" /\ r.list = <<>>
      BY <2>1, <2>3 DEF Calls
    <2> QED BY <2>4 DEF CallOK
  <1>2. rpc' = [rpc EXCEPT ![s] = r] /\ asks' = asks + 1 /\ asks + Changes < MaxMoves
    BY DEF Ask
  <1> HIDE DEF r
  <1>3. RpcOK'
    BY <1>1, <1>2, Parts, RpcNext
  <1> QED BY <1>2, <1>3, Parts, VersionsBounded

LEMMA AskStep ==
  ASSUME TimelineInv, NEW s \in Slots,
         (\E c \in Chats : OpenChat(s, c)) \/ Reload(s) \/ AskChange(s)
  PROVE  TimelineInv'
  <1>0. TabOK /\ CountsOK /\ TasksOK /\ LogOK /\ 0 \in 0 .. MaxPosts
    BY Parts, Bounds
  <1>1. UNCHANGED <<log, now, enabled, hide, filtered, tasks, wire, echoes>>
    BY DEF OpenChat, Reload, AskChange, telegram, tables, tab
  <1>2. LogOK' /\ LogKept /\ TablesOK' /\ RecordsOK' /\ WireOK' /\ TasksOK'
    <2>1. LogOK' /\ LogKept
      BY <1>0, <1>1, LogSame
    <2>2. TasksOK'
      BY <1>0, <1>1, <2>1, TasksLess
    <2> QED BY <1>1, <2>1, <2>2, Unmoved DEF tables
  <1>3. calm' \in BOOLEAN
    BY <1>0 DEF OpenChat, Reload, AskChange, Begin, Still, CountsOK
  <1>4. ASSUME RpcOK', asks' \in 0 .. MaxMoves, UNCHANGED <<active, msgs, strayed>>
        PROVE  TimelineInv'
    <2>1. TabOK' /\ CountsOK' /\ OnlyStraysMixChats'
      BY <1>0, <1>1, <1>3, <1>4, Unmoved DEF CountsOK
    <2> QED BY <1>2, <1>4, <2>1 DEF TimelineInv
  <1>5. ASSUME NEW c \in Chats, OpenChat(s, c) PROVE TimelineInv'
    <2>1. Ask(s, "load", c, 0) /\ active' = c /\ msgs' = <<>> /\ strayed' = FALSE
      BY <1>5 DEF OpenChat
    <2>2. RpcOK' /\ asks' \in 0 .. MaxMoves
      BY <1>0, <2>1, AskRpc DEF Ops
    <2>3. TabOK' /\ OnlyStraysMixChats'
      BY <1>0, <1>1, <2>1 DEF TabOK, OnlyStraysMixChats
    <2>4. CountsOK'
      BY <1>3, <2>1, <2>2 DEF CountsOK
    <2> QED BY <1>2, <2>2, <2>3, <2>4 DEF TimelineInv
  <1>6. ASSUME Reload(s) PROVE TimelineInv'
    <2>1. Ask(s, "load", active, 0) /\ active \in Chats /\ UNCHANGED <<active, msgs, strayed>>
      BY <1>0, <1>6 DEF Reload, tab, TabOK
    <2>2. RpcOK' /\ asks' \in 0 .. MaxMoves
      BY <1>0, <2>1, AskRpc DEF Ops
    <2> QED BY <1>4, <2>1, <2>2
  <1>7. ASSUME AskChange(s) PROVE TimelineInv'
    <2>1. active \in Chats /\ UNCHANGED <<active, msgs, strayed>>
      BY <1>0, <1>7 DEF AskChange, tab, TabOK
    <2>2. \A i \in DOMAIN msgs : msgs[i].n \in 0 .. MaxPosts /\ msgs[i].n # 0
      <3>1. \A i \in DOMAIN msgs : msgs[i] \in Bubble
        BY <1>0, LenProperties DEF TabOK
      <3> QED BY <3>1, Bounds DEF Bubble
    <2>3. \E op \in Ops, c \in Chats, n \in 0 .. MaxPosts : Ask(s, op, c, n) /\ (op = "edit" => n # 0)
      <3>1. CASE Ask(s, "send", active, 0)
        BY <1>0, <2>1, <3>1 DEF Ops
      <3>2. CASE \E i \in DOMAIN msgs : \E op \in {"edit", "delete"} : Ask(s, op, active, msgs[i].n)
        BY <2>1, <2>2, <3>2 DEF Ops
      <3>3. CASE \E c \in Chats : Ask(s, "clear", c, 0)
        BY <1>0, <3>3 DEF Ops
      <3> QED BY <1>7, <3>1, <3>2, <3>3 DEF AskChange
    <2>4. RpcOK' /\ asks' \in 0 .. MaxMoves
      BY <2>3, AskRpc
    <2> QED BY <1>4, <2>1, <2>4
  <1> QED BY <1>5, <1>6, <1>7

\* What is known of a call that a step moves on.
LEMMA CallTypes ==
  ASSUME TimelineInv, NEW s \in Slots, rpc[s].at # "idle" \/ rpc[s].op # "none"
  PROVE  rpc[s] \in Calls /\ CallOK(rpc[s])
  <1>1. CallOK(rpc[s])
    BY Parts DEF RpcOK
  <1>2. rpc[s] # Idle
    BY DEF Idle
  <1> QED BY <1>1, <1>2 DEF CallOK

LEMMA CallMoves ==
  ASSUME NEW r \in Calls, CallOK(r), NEW a \in {"checked", "called", "ok", "failed"},
         a = "called" => r.op = "load", a = "ok" => r.op # "send"
  PROVE  [r EXCEPT !.at = a] \in Calls /\ CallOK([r EXCEPT !.at = a])
  <1> DEFINE q == [r EXCEPT !.at = a]
  <1>1. r # Idle
    BY DEF Idle, Calls, Ops
  <1>2. /\ q \in Calls /\ q.op = r.op /\ q.n = r.n /\ q.at = a /\ q.list = r.list
        /\ q.chat = r.chat
    BY DEF Calls
  <1>3. /\ r.op = "edit" => r.n # 0
        /\ r.op = "load" => \A i \in DOMAIN r.list : r.list[i].chat = r.chat
    BY <1>1 DEF CallOK
  <1> HIDE DEF q
  <1>4. CallOK(q)
    BY <1>2, <1>3 DEF CallOK
  <1> QED BY <1>2, <1>4 DEF q

\* A step of an RPC that leaves the tables, the wire and the tab alone.
LEMMA ServedQuietly ==
  ASSUME TimelineInv, NEW s \in Slots, NEW r, CallOK(r), rpc' = [rpc EXCEPT ![s] = r],
         LogOK', LogKept, TasksOK', calm' \in BOOLEAN,
         UNCHANGED <<tables, wire, active, msgs, echoes, asks, strayed>>
  PROVE  TimelineInv'
  <1>1. RpcOK'
    BY Parts, RpcNext
  <1>2. CountsOK'
    BY Parts DEF CountsOK
  <1>3. TablesOK' /\ RecordsOK' /\ WireOK' /\ TabOK' /\ OnlyStraysMixChats'
    BY Unmoved
  <1> QED BY <1>1, <1>2, <1>3 DEF TimelineInv

LEMMA NothingPosted ==
  ASSUME TimelineInv, UNCHANGED <<log, now, tasks>>
  PROVE  LogOK' /\ LogKept /\ TasksOK'
  <1>1. LogOK' /\ LogKept
    BY Parts, LogSame
  <1> QED BY <1>1, Parts, TasksLess

\* The steps that only read, and the ones that fail.
LEMMA ReadStep ==
  ASSUME TimelineInv, NEW s \in Slots,
         \/ Refuse(s) \/ LoseAnswer(s) \/ CheckRow(s) \/ Snapshot(s) \/ CallFails(s) \/ Answer(s)
  PROVE  TimelineInv'
  <1>1. UNCHANGED <<log, now, tasks, tables, wire, active, msgs, echoes, asks, strayed>>
    BY DEF Refuse, LoseAnswer, CheckRow, Snapshot, CallFails, Answer, telegram, tab, history
  <1>2. calm' \in BOOLEAN
    BY Parts DEF Refuse, LoseAnswer, CheckRow, Snapshot, CallFails, Answer, history, CountsOK
  <1>3. LogOK' /\ LogKept /\ TasksOK'
    BY <1>1, NothingPosted
  <1>4. rpc[s] \in Calls /\ CallOK(rpc[s])
    <2>1. rpc[s].at # "idle"
      BY DEF Refuse, LoseAnswer, CheckRow, Snapshot, CallFails, Answer, Step
    <2> QED BY <2>1, CallTypes
  <1>5. ASSUME NEW r, CallOK(r), rpc' = [rpc EXCEPT ![s] = r] PROVE TimelineInv'
    BY <1>1, <1>2, <1>3, <1>5, ServedQuietly
  <1>6. CASE Refuse(s) \/ LoseAnswer(s) \/ CallFails(s)
    <2>1. rpc' = [rpc EXCEPT ![s] = To(s, "failed")]
      BY <1>6 DEF Refuse, LoseAnswer, CallFails, Step
    <2>2. CallOK(To(s, "failed"))
      BY <1>4, CallMoves DEF To
    <2> QED BY <1>5, <2>1, <2>2
  <1>7. CASE CheckRow(s)
    <2>1. CallOK(To(s, "failed")) /\ CallOK(To(s, "checked")) /\ To(s, "checked") \in Calls
      BY <1>4, CallMoves DEF To
    <2>2. \A h \in 0 .. MaxNow + 1 : CallOK([To(s, "checked") EXCEPT !.hide = h])
      <3> TAKE h \in 0 .. MaxNow + 1
      <3> DEFINE p == To(s, "checked")
                 q == [p EXCEPT !.hide = h]
      <3>1. p # Idle
        BY <1>4 DEF Idle, To, Calls
      <3>2. CallOK(p) /\ p \in Calls
        BY <2>1
      <3> HIDE DEF p
      <3>3. /\ q \in Calls /\ q.op = p.op /\ q.n = p.n /\ q.at = p.at /\ q.list = p.list
            /\ q.chat = p.chat
        BY <3>2 DEF Calls
      <3> HIDE DEF q
      <3>4. CallOK(q)
        BY <3>1, <3>2, <3>3 DEF CallOK
      <3> QED BY <3>4 DEF q, p
    <2>3. hide[rpc[s].chat] \in 0 .. MaxNow + 1
      BY <1>4, Parts DEF Calls, TablesOK
    <2>4. \/ rpc' = [rpc EXCEPT ![s] = To(s, "failed")]
          \/ rpc' = [rpc EXCEPT ![s] = [To(s, "checked") EXCEPT !.hide = hide[rpc[s].chat]]]
      BY <1>7 DEF CheckRow, Step
    <2> QED BY <1>5, <2>1, <2>2, <2>3, <2>4
  <1>8. ASSUME NEW bubbles \in Seq(Bubble), NEW a \in {"called", "ok"}, rpc[s].op = "load",
               \A i \in DOMAIN bubbles : bubbles[i].chat = rpc[s].chat
        PROVE  CallOK([To(s, a) EXCEPT !.list = bubbles])
    <2> DEFINE p == To(s, a)
               q == [p EXCEPT !.list = bubbles]
    <2>1. p \in Calls /\ p.op = "load" /\ p.chat = rpc[s].chat
      BY <1>4, <1>8, CallMoves DEF To, Calls
    <2> HIDE DEF p
    <2>2. q \in Calls /\ q.op = p.op /\ q.chat = p.chat /\ q.list = bubbles
      BY <2>1 DEF Calls
    <2> HIDE DEF q
    <2>3. CallOK(q)
      BY <1>8, <2>1, <2>2 DEF CallOK
    <2> QED BY <2>3 DEF p, q
  <1>9. CASE Snapshot(s)
    <2>1. /\ rpc[s].op = "load"
          /\ rpc' = [rpc EXCEPT ![s] = [To(s, "called") EXCEPT !.list = History(rpc[s].chat)]]
      BY <1>9 DEF Snapshot, Step
    <2>2. History(rpc[s].chat) \in Seq(Bubble)
          /\ \A i \in DOMAIN History(rpc[s].chat) : History(rpc[s].chat)[i].chat = rpc[s].chat
      BY <1>4, Parts, HistoryTypes DEF Calls
    <2> QED BY <1>5, <1>8, <2>1, <2>2
  <1>10. CASE Answer(s)
    <2> DEFINE l == Passing(rpc[s].list, rpc[s].hide)
    <2>1. /\ rpc[s].at = "called"
          /\ rpc' = [rpc EXCEPT ![s] = [To(s, "ok") EXCEPT !.list = Passing(@, rpc[s].hide)]]
      BY <1>10 DEF Answer, Step
    <2>2. To(s, "ok").list = rpc[s].list
      BY <1>4 DEF To, Calls
    <2>3. rpc' = [rpc EXCEPT ![s] = [To(s, "ok") EXCEPT !.list = l]]
      BY <2>1, <2>2
    <2>4. /\ rpc[s].list \in Seq(Bubble) /\ rpc[s].op = "load"
          /\ \A i \in DOMAIN rpc[s].list : rpc[s].list[i].chat = rpc[s].chat
      BY <1>4, <2>1 DEF Calls, CallOK, Idle
    <2>5. l \in Seq(Bubble) /\ \A j \in DOMAIN l : \E i \in DOMAIN rpc[s].list : l[j] = rpc[s].list[i]
      BY <2>4, PassingKeeps
    <2> HIDE DEF l
    <2>6. \A j \in DOMAIN l : l[j].chat = rpc[s].chat
      BY <2>4, <2>5
    <2> QED BY <1>5, <1>8, <2>3, <2>4, <2>5, <2>6
  <1> QED BY <1>6, <1>7, <1>9, <1>10

\* What Telegram may hand back for the tab's own request.
LEMMA TasksMaybe ==
  ASSUME TasksOK, LogKept, NEW t, TaskOK(t, log'), MaybeUpdate({t})
  PROVE  TasksOK'
  <1>1. tasks' \subseteq tasks \cup {t}
    BY DEF MaybeUpdate
  <1> QED BY <1>1, TasksMore

\* The steps that change Telegram or the watermark.
LEMMA ChangeStep ==
  ASSUME TimelineInv, NEW s \in Slots,
         PostMine(s) \/ EditMine(s) \/ DeleteMine(s) \/ HideHistory(s)
  PROVE  TimelineInv'
  <1>0. LogOK /\ TasksOK /\ CountsOK /\ asks \in Nat /\ TablesOK
    BY Parts
  <1>1. UNCHANGED <<now, enabled, filtered, wire, active, msgs, echoes, asks, calm, strayed>>
    BY DEF PostMine, EditMine, DeleteMine, HideHistory, telegram, tables, tab, history
  <1>2. rpc[s] \in Calls /\ CallOK(rpc[s]) /\ rpc[s].chat \in Chats /\ rpc[s].n \in 0 .. MaxPosts
    <2>1. rpc[s].op # "none"
      BY DEF PostMine, EditMine, DeleteMine, HideHistory
    <2> QED BY <2>1, CallTypes DEF Calls
  <1>3. ASSUME UNCHANGED hide, NEW r, CallOK(r), rpc' = [rpc EXCEPT ![s] = r], LogOK', LogKept, TasksOK'
        PROVE  TimelineInv'
    <2>1. UNCHANGED tables /\ calm' \in BOOLEAN
      BY <1>0, <1>1, <1>3 DEF tables, CountsOK
    <2> QED BY <1>1, <1>3, <2>1, ServedQuietly
  <1>4. CASE PostMine(s)
    <2>1. PICK c, n : c \in Chats /\ c = rpc[s].chat /\ n = Len(log[c]) + 1
      BY <1>2
    <2>2. /\ rpc[s].op = "send" /\ CanPost(c) /\ PostTo(c, "text") /\ MaybeUpdate(HandlersOf(c, n, "text"))
          /\ rpc' = [rpc EXCEPT ![s] = [To(s, "ok") EXCEPT !.n = n]] /\ UNCHANGED hide
      BY <1>4, <2>1 DEF PostMine, Step, tables
    <2>3. LogOK' /\ LogKept /\ n \in 1 .. MaxPosts /\ n \in DOMAIN log'[c] /\ log'[c][n].kind = "text"
      BY <1>0, <1>1, <2>1, <2>2, LogPosts DEF CanPost, Kinds
    <2>4. TasksOK'
      <3>1. PICK t : t = Task("new", c, n, 0, "filter")
        OBVIOUS
      <3>2. TaskOK(t, log')
        BY <2>1, <2>3, <3>1, Bounds DEF TaskOK, Task, Updates
      <3>3. MaybeUpdate({t})
        BY <2>2, <3>1 DEF HandlersOf
      <3> QED BY <1>0, <2>3, <3>2, <3>3, TasksMaybe
    <2>5. CallOK([To(s, "ok") EXCEPT !.n = n])
      <3> DEFINE q == [To(s, "ok") EXCEPT !.n = n]
      <3>0. n \in 0 .. MaxPosts /\ n # 0
        BY <2>3, Bounds
      <3>1. q \in Calls /\ q.op = "send" /\ q.n = n /\ q.at = "ok" /\ n # 0
        BY <1>2, <2>2, <3>0 DEF To, Calls
      <3> HIDE DEF q
      <3> QED BY <3>1 DEF CallOK, q
    <2> QED BY <1>3, <2>2, <2>3, <2>4, <2>5
  <1>5. CASE EditMine(s)
    <2>1. PICK c, n, v : c \in Chats /\ c = rpc[s].chat /\ n = rpc[s].n /\ v = log[c][n].ver + 1
      BY <1>2
    <2>2. /\ rpc[s].op = "edit" /\ CanEdit(c, n) /\ EditIn(c, n)
          /\ MaybeUpdate({Task("edit", c, n, v, "row")})
          /\ rpc' = [rpc EXCEPT ![s] = [To(s, "ok") EXCEPT !.ver = v]] /\ UNCHANGED hide
      BY <1>5, <2>1 DEF EditMine, Step, tables
    <2>3. <<c, n>> \in Known /\ v \in 0 .. MaxMoves
      <3>1. <<c, n>> \in Known /\ asks + Changes < MaxMoves
        BY <2>2 DEF CanEdit, Present
      <3> QED BY <1>0, <2>1, <3>1, VersionsBounded
    <2>4. LogOK' /\ LogKept
      BY <1>0, <1>1, <2>1, <2>2, <2>3, LogEdits
    <2>5. TasksOK'
      <3>1. PICK t : t = Task("edit", c, n, v, "row")
        OBVIOUS
      <3>2. TaskOK(t, log')
        BY <1>0, <2>3, <2>4, <3>1, TaskTypes
      <3> QED BY <1>0, <2>2, <2>4, <3>1, <3>2, TasksMaybe
    <2>6. CallOK([To(s, "ok") EXCEPT !.ver = v])
      <3> DEFINE q == [To(s, "ok") EXCEPT !.ver = v]
      <3>1. q \in Calls /\ q.op = "edit" /\ q.n = rpc[s].n /\ q.at = "ok"
        BY <1>2, <2>2, <2>3 DEF To, Calls
      <3>2. rpc[s].n # 0
        BY <1>2, <2>2 DEF CallOK, Idle
      <3> HIDE DEF q
      <3> QED BY <3>1, <3>2 DEF CallOK, q
    <2> QED BY <1>3, <2>2, <2>4, <2>5, <2>6
  <1>6. CallOK(To(s, "ok")) \/ rpc[s].op = "send"
    BY <1>2, CallMoves DEF To
  <1>7. CASE DeleteMine(s)
    <2>1. PICK c, n : c \in Chats /\ c = rpc[s].chat /\ n = rpc[s].n
      BY <1>2
    <2>2. /\ rpc[s].op = "delete" /\ UNCHANGED hide
          /\ IF Present(c, n)
             THEN DeleteIn(c, n) /\ MaybeUpdate({Task("delete", c, n, 0, "row")})
             ELSE UNCHANGED <<log, tasks>>
          /\ rpc' = [rpc EXCEPT ![s] = To(s, "ok")]
      BY <1>7, <2>1 DEF DeleteMine, Step, tables
    <2>3. LogOK' /\ LogKept /\ TasksOK'
      <3>1. CASE ~Present(c, n)
        BY <1>1, <2>2, <3>1, NothingPosted
      <3>2. CASE Present(c, n)
        <4>1. <<c, n>> \in Known
          BY <3>2 DEF Present
        <4>2. LogOK' /\ LogKept
          BY <1>0, <1>1, <2>2, <3>2, <4>1, LogDeletes
        <4>3. PICK t : t = Task("delete", c, n, 0, "row")
          OBVIOUS
        <4>4. 0 \in 0 .. MaxMoves
          BY Bounds
        <4>5. TaskOK(t, log')
          BY <1>0, <4>1, <4>2, <4>3, <4>4, TaskTypes
        <4> QED BY <1>0, <2>2, <3>2, <4>2, <4>3, <4>5, TasksMaybe
      <3> QED BY <3>1, <3>2
    <2> QED BY <1>3, <1>6, <2>2, <2>3
  <1>8. CASE HideHistory(s)
    <2>1. /\ rpc[s].op = "clear" /\ UNCHANGED <<log, tasks>>
          /\ hide' = [hide EXCEPT ![rpc[s].chat] = now + 1]
          /\ rpc' = [rpc EXCEPT ![s] = To(s, "ok")]
      BY <1>8 DEF HideHistory, Step, telegram
    <2>2. LogOK' /\ LogKept /\ TasksOK'
      BY <1>1, <2>1, NothingPosted
    <2>3. TablesOK'
      <3>1. now + 1 \in 0 .. MaxNow + 1
        BY <1>0, Bounds DEF LogOK
      <3> QED BY <1>0, <1>1, <2>1, <3>1 DEF TablesOK
    <2>4. RecordsOK'
      <3>1. \A m \in filtered : RecordOK(m)
        BY Parts DEF RecordsOK
      <3> QED BY <1>1, <2>1, <3>1 DEF RecordsOK, RecordOK
    <2>5. RpcOK'
      BY <1>6, <2>1, Parts, RpcNext
    <2>6. WireOK' /\ TabOK' /\ OnlyStraysMixChats' /\ CountsOK'
      BY <1>0, <1>1, Unmoved DEF CountsOK
    <2> QED BY <2>2, <2>3, <2>4, <2>5, <2>6 DEF TimelineInv
  <1> QED BY <1>4, <1>5, <1>7, <1>8

\* The bubbles after one is added, patched or taken away.
LEMMA BubbleAdded ==
  ASSUME TabOK, OnlyStraysMixChats, NEW b \in Bubble, msgs' = Append(msgs, b),
         active' = active, strayed' \in BOOLEAN, ~strayed' => ~strayed /\ b.chat = active
  PROVE  msgs' \in Seq(Bubble) /\ OnlyStraysMixChats'
  <1>1. msgs \in Seq(Bubble) /\ Len(msgs) \in Nat /\ DOMAIN msgs = 1 .. Len(msgs)
    BY LenProperties DEF TabOK
  <1>2. /\ msgs' \in Seq(Bubble) /\ DOMAIN msgs' = 1 .. Len(msgs) + 1
        /\ \A i \in 1 .. Len(msgs) : msgs'[i] = msgs[i]
        /\ msgs'[Len(msgs) + 1] = b
    BY <1>1, AppendProperties, LenProperties
  <1>3. \A i \in 1 .. Len(msgs) + 1 : i \in 1 .. Len(msgs) \/ i = Len(msgs) + 1
    BY <1>1
  <1> QED BY <1>1, <1>2, <1>3 DEF OnlyStraysMixChats

LEMMA BubblesPatched ==
  ASSUME TabOK, OnlyStraysMixChats, NEW b \in Bubble, msgs' = Patched(b),
         active' = active, strayed' = (strayed \/ Crosses(b.chat, b.n)), strayed \in BOOLEAN
  PROVE  msgs' \in Seq(Bubble) /\ OnlyStraysMixChats'
  <1>1. msgs \in Seq(Bubble) /\ Len(msgs) \in Nat /\ DOMAIN msgs = 1 .. Len(msgs)
        /\ \A i \in DOMAIN msgs : msgs[i] \in Bubble
    BY LenProperties DEF TabOK
  <1>2. DOMAIN msgs' = DOMAIN msgs
        /\ \A i \in DOMAIN msgs : msgs'[i] = IF msgs[i].n = b.n THEN b ELSE msgs[i]
    BY DEF Patched
  <1>3. msgs' \in Seq(Bubble)
    <2>1. msgs' = [i \in 1 .. Len(msgs) |-> IF msgs[i].n = b.n THEN b ELSE msgs[i]]
      BY <1>1 DEF Patched
    <2>2. \A i \in 1 .. Len(msgs) : (IF msgs[i].n = b.n THEN b ELSE msgs[i]) \in Bubble
      BY <1>1
    <2> QED BY <1>1, <2>1, <2>2, IsASeq
  <1>4. OnlyStraysMixChats'
    <2> SUFFICES ASSUME ~strayed', active # None, NEW i \in DOMAIN msgs PROVE msgs'[i].chat = active
      BY <1>2 DEF OnlyStraysMixChats
    <2>1. msgs[i].chat = active /\ ~Crosses(b.chat, b.n)
      BY DEF OnlyStraysMixChats
    <2>2. msgs[i].n = b.n => msgs[i].chat = b.chat
      BY <2>1 DEF Crosses
    <2> QED BY <1>2, <2>1, <2>2
  <1> QED BY <1>3, <1>4

LEMMA BubbleRemoved ==
  ASSUME TabOK, OnlyStraysMixChats, NEW n, msgs' = Without(n), active' = active, strayed' = strayed
  PROVE  msgs' \in Seq(Bubble) /\ OnlyStraysMixChats'
  BY WithoutKeeps DEF OnlyStraysMixChats

\* A step of the tab that leaves all but the bubbles and the histories alone.
LEMMA TabStep ==
  ASSUME TimelineInv, UNCHANGED <<log, now, tables, tasks, asks>>, RpcOK', WireOK',
         active' \in Chats \cup {None}, msgs' \in Seq(Bubble), echoes' \subseteq Chats \X (1 .. MaxPosts),
         calm' \in BOOLEAN, strayed' \in BOOLEAN, OnlyStraysMixChats'
  PROVE  TimelineInv'
  <1>1. LogOK' /\ LogKept /\ TasksOK'
    BY NothingPosted
  <1>2. TablesOK' /\ RecordsOK'
    BY <1>1, Unmoved
  <1>3. CountsOK' /\ TabOK'
    BY Parts DEF CountsOK, TabOK
  <1> QED BY <1>1, <1>2, <1>3 DEF TimelineInv

\* The answers in the tab.
LEMMA ShowStep ==
  ASSUME TimelineInv, NEW s \in Slots,
         ShowLoad(s) \/ ShowSend(s) \/ ShowEdit(s) \/ ShowDelete(s) \/ ShowClear(s) \/ ShowFailure(s)
  PROVE  TimelineInv'
  <1>0. TabOK /\ CountsOK /\ OnlyStraysMixChats /\ strayed \in BOOLEAN /\ calm \in BOOLEAN
        /\ echoes \subseteq Chats \X (1 .. MaxPosts) /\ msgs \in Seq(Bubble) /\ active \in Chats \cup {None}
    BY Parts DEF CountsOK, TabOK
  <1>1. UNCHANGED <<log, now, tables, tasks, wire, active, asks>> /\ Free(s)
    BY DEF ShowLoad, ShowSend, ShowEdit, ShowDelete, ShowClear, ShowFailure, telegram, tab
  <1>2. calm' \in BOOLEAN /\ strayed' \in BOOLEAN
    BY <1>0 DEF ShowLoad, ShowSend, ShowEdit, ShowDelete, ShowClear, ShowFailure
  <1>3. RpcOK' /\ WireOK'
    <2>1. CallOK(Idle)
      BY DEF CallOK
    <2>2. RpcOK'
      BY <1>1, <2>1, Parts, RpcNext DEF Free
    <2> QED BY <1>1, <2>2, Unmoved
  <1>4. ASSUME msgs' \in Seq(Bubble), echoes' \subseteq Chats \X (1 .. MaxPosts), OnlyStraysMixChats'
        PROVE  TimelineInv'
    BY <1>0, <1>1, <1>2, <1>3, <1>4, TabStep
  <1>5. rpc[s] \in Calls /\ CallOK(rpc[s]) /\ rpc[s] # Idle
    <2>1. rpc[s].op # "none"
      BY DEF ShowLoad, ShowSend, ShowEdit, ShowDelete, ShowClear, ShowFailure
    <2> QED BY <2>1, CallTypes DEF Idle
  <1>6. rpc[s].chat \in Chats /\ rpc[s].n \in 0 .. MaxPosts /\ rpc[s].ver \in 0 .. MaxMoves
        /\ rpc[s].list \in Seq(Bubble)
    BY <1>5 DEF Calls
  <1>7. CASE ShowLoad(s)
    <2>1. msgs' = rpc[s].list /\ strayed' = (rpc[s].chat # active) /\ UNCHANGED echoes /\ rpc[s].op = "load"
      BY <1>7 DEF ShowLoad
    <2>2. \A i \in DOMAIN rpc[s].list : rpc[s].list[i].chat = rpc[s].chat
      BY <1>5, <2>1 DEF CallOK
    <2>3. OnlyStraysMixChats'
      BY <1>1, <2>1, <2>2 DEF OnlyStraysMixChats
    <2> QED BY <1>0, <1>4, <1>6, <2>1, <2>3
  <1>8. CASE ShowSend(s)
    <2>1. PICK b : b = [chat |-> rpc[s].chat, n |-> rpc[s].n, ver |-> rpc[s].ver]
      OBVIOUS
    <2>2. /\ rpc[s].op = "send" /\ rpc[s].at = "ok" /\ echoes' = echoes \cup {<<rpc[s].chat, rpc[s].n>>}
          /\ msgs' = Append(msgs, b) /\ strayed' = (strayed \/ rpc[s].chat # active)
      BY <1>8, <2>1 DEF ShowSend
    <2>3. rpc[s].n \in 1 .. MaxPosts
      <3>1. rpc[s].n # 0
        BY <1>5, <2>2 DEF CallOK
      <3> QED BY <1>6, <3>1, Bounds
    <2>4. b \in Bubble /\ b.chat = rpc[s].chat
      BY <1>6, <2>1, <2>3 DEF Bubble
    <2>5. msgs' \in Seq(Bubble) /\ OnlyStraysMixChats'
      BY <1>0, <1>1, <1>2, <2>2, <2>4, BubbleAdded
    <2> QED BY <1>0, <1>4, <1>6, <2>2, <2>3, <2>5
  <1>9. CASE ShowEdit(s)
    <2>1. PICK b : b = [chat |-> rpc[s].chat, n |-> rpc[s].n, ver |-> rpc[s].ver]
      OBVIOUS
    <2>2. /\ rpc[s].op = "edit" /\ UNCHANGED echoes /\ msgs' = Patched(b)
          /\ strayed' = (strayed \/ Crosses(b.chat, b.n))
      BY <1>9, <2>1 DEF ShowEdit
    <2>3. rpc[s].n \in 1 .. MaxPosts
      <3>1. rpc[s].n # 0
        BY <1>5, <2>2 DEF CallOK
      <3> QED BY <1>6, <3>1, Bounds
    <2>4. b \in Bubble
      BY <1>6, <2>1, <2>3 DEF Bubble
    <2>5. msgs' \in Seq(Bubble) /\ OnlyStraysMixChats'
      BY <1>0, <1>1, <2>2, <2>4, BubblesPatched
    <2> QED BY <1>0, <1>4, <2>2, <2>5
  <1>10. CASE ShowDelete(s)
    <2>1. msgs' = Without(rpc[s].n) /\ UNCHANGED <<echoes, strayed>>
      BY <1>10 DEF ShowDelete
    <2>2. msgs' \in Seq(Bubble) /\ OnlyStraysMixChats'
      BY <1>0, <1>1, <2>1, BubbleRemoved
    <2> QED BY <1>0, <1>4, <2>1, <2>2
  <1>11. CASE ShowClear(s)
    <2>1. (msgs' = <<>> \/ msgs' = msgs) /\ UNCHANGED <<echoes, strayed>>
      BY <1>11 DEF ShowClear
    <2>2. msgs' \in Seq(Bubble) /\ OnlyStraysMixChats'
      <3>1. msgs' = <<>> => msgs' \in Seq(Bubble) /\ DOMAIN msgs' = {}
        OBVIOUS
      <3>2. msgs' = <<>> => msgs' \in Seq(Bubble) /\ OnlyStraysMixChats'
        BY <3>1 DEF OnlyStraysMixChats
      <3>3. msgs' = msgs => msgs' \in Seq(Bubble) /\ OnlyStraysMixChats'
        BY <1>0, <1>1, <2>1, Unmoved
      <3> QED BY <2>1, <3>2, <3>3
    <2> QED BY <1>0, <1>4, <2>1, <2>2
  <1>12. CASE ShowFailure(s)
    <2>1. UNCHANGED <<msgs, echoes, strayed>>
      BY <1>12 DEF ShowFailure, tab
    <2>2. OnlyStraysMixChats'
      BY <1>1, <2>1, Unmoved
    <2> QED BY <1>0, <1>4, <2>1, <2>2
  <1> QED BY <1>7, <1>8, <1>9, <1>10, <1>11, <1>12

\* The frames in the tab.
LEMMA FrameStep ==
  ASSUME TimelineInv, HandleFrame
  PROVE  TimelineInv'
  <1>0. TabOK /\ CountsOK /\ OnlyStraysMixChats /\ strayed \in BOOLEAN /\ calm \in BOOLEAN
        /\ echoes \subseteq Chats \X (1 .. MaxPosts) /\ msgs \in Seq(Bubble) /\ active \in Chats \cup {None}
    BY Parts DEF CountsOK, TabOK
  <1>1. UNCHANGED <<log, now, tables, tasks, rpc, asks, echoes>> /\ wire # <<>> /\ wire' = Tail(wire)
    BY DEF HandleFrame, OnNewMessage, OnMessageEdited, OnMessageDeleted, OnChatRemoved, telegram, tab,
           history, NextFrame
  <1>2. calm' \in BOOLEAN /\ strayed' \in BOOLEAN
    BY <1>0 DEF HandleFrame, OnNewMessage, OnMessageEdited, OnMessageDeleted, OnChatRemoved, history
  <1>3. RpcOK' /\ WireOK' /\ Head(wire) \in Frames
    BY <1>1, Parts, WireNext, Unmoved
  <1>4. ASSUME msgs' \in Seq(Bubble), active' \in Chats \cup {None}, OnlyStraysMixChats'
        PROVE  TimelineInv'
    BY <1>0, <1>1, <1>2, <1>3, <1>4, TabStep
  <1>5. PICK b : b = [chat |-> Head(wire).chat, n |-> Head(wire).n, ver |-> Head(wire).ver]
    OBVIOUS
  <1>6. b \in Bubble
    BY <1>3, <1>5 DEF Frames, Bubble
  <1>7. CASE OnNewMessage
    <2>1. /\ UNCHANGED <<active, strayed>>
          /\ msgs' = msgs \/ (msgs' = Append(msgs, b) /\ b.chat = active)
      BY <1>5, <1>7 DEF OnNewMessage
    <2>2. CASE msgs' = msgs
      BY <1>0, <1>4, <2>1, <2>2, Unmoved
    <2>3. CASE msgs' = Append(msgs, b) /\ b.chat = active
      <3>1. msgs' \in Seq(Bubble) /\ OnlyStraysMixChats'
        BY <1>0, <1>6, <2>1, <2>3, BubbleAdded
      <3> QED BY <1>0, <1>4, <2>1, <3>1
    <2> QED BY <2>1, <2>2, <2>3
  <1>8. CASE OnMessageEdited
    <2>1. /\ active' = active /\ msgs' = Patched(b)
          /\ strayed' = (strayed \/ Crosses(b.chat, b.n))
      BY <1>5, <1>8 DEF OnMessageEdited
    <2>2. msgs' \in Seq(Bubble) /\ OnlyStraysMixChats'
      BY <1>0, <1>6, <2>1, BubblesPatched
    <2> QED BY <1>0, <1>4, <2>1, <2>2
  <1>9. CASE OnMessageDeleted
    <2>1. msgs' = Without(Head(wire).n) /\ UNCHANGED <<active, strayed>>
      BY <1>9 DEF OnMessageDeleted
    <2>2. msgs' \in Seq(Bubble) /\ OnlyStraysMixChats'
      BY <1>0, <2>1, BubbleRemoved
    <2> QED BY <1>0, <1>4, <2>1, <2>2
  <1>10. CASE OnChatRemoved
    <2>1. /\ active' = active \/ active' = None
          /\ UNCHANGED <<msgs, strayed>>
      BY <1>10 DEF OnChatRemoved, history
    <2>2. OnlyStraysMixChats'
      BY <1>0, <2>1 DEF OnlyStraysMixChats
    <2> QED BY <1>0, <1>4, <2>1, <2>2
  <1> QED BY <1>7, <1>8, <1>9, <1>10 DEF HandleFrame

LEMMA InvStep == TimelineInv /\ [Next]_vars => TimelineInv'
  <1> SUFFICES ASSUME TimelineInv, [Next]_vars PROVE TimelineInv'
    OBVIOUS
  <1>1. CASE UNCHANGED vars
    <2>1. UNCHANGED <<log, now, tables, tasks, rpc, wire, active, msgs, echoes, asks, calm, strayed>>
      BY <1>1 DEF vars, telegram, tab, history
    <2>2. RpcOK' /\ WireOK' /\ OnlyStraysMixChats'
      BY <2>1, Unmoved
    <2>3. /\ active' \in Chats \cup {None} /\ msgs' \in Seq(Bubble)
          /\ echoes' \subseteq Chats \X (1 .. MaxPosts) /\ calm' \in BOOLEAN /\ strayed' \in BOOLEAN
      BY <2>1, Parts DEF TabOK, CountsOK
    <2> QED BY <2>1, <2>2, <2>3, TabStep
  <1>2. ASSUME NEW s \in Slots, (\E c \in Chats : OpenChat(s, c)) \/ Reload(s) \/ AskChange(s) \/ Serve(s)
        PROVE  TimelineInv'
    BY <1>2, AskStep, ReadStep, ChangeStep, ShowStep DEF Serve
  <1>3. \/ \E c \in Chats : \/ \E k \in Kinds : Posted(c, k)
                            \/ \E n \in 1 .. MaxPosts : Edited(c, n) \/ Deleted(c, n)
        \/ Tick
        => TimelineInv'
    BY TelegramStep
  <1>4. (\E t \in tasks : Handle(t)) => TimelineInv'
    BY HandlerStep
  <1>5. HandleFrame => TimelineInv'
    BY FrameStep
  <1> QED BY <1>1, <1>2, <1>3, <1>4, <1>5 DEF Next

\* Every variable keeps its type; the bound on the moves bounds the versions.
THEOREM TypeCorrect == Spec => []TypeOK
  BY InitInv, InvStep, InvTypes, PTL DEF Spec

\* Every part of the inductive invariant holds in every reachable state.
THEOREM InvHolds == Spec => []TimelineInv
  BY InitInv, InvStep, PTL DEF Spec

\* Without a stray answer or edit no bubble is another chat's than the open one's.
THEOREM BubblesAreOfTheOpenChat == Spec => []OnlyStraysMixChats
  <1>1. TimelineInv => OnlyStraysMixChats
    BY DEF TimelineInv
  <1> QED BY <1>1, InvHolds, PTL

-----------------------------------------------------------------------------
\* What is out stays out.

\* Nothing carries message <<c, n>>: no bubble, no call, no frame, no handler.
\* For a call, f is what is filtered and l is the log.
NotShown(c, n) == \A i \in DOMAIN msgs : ~(msgs[i].chat = c /\ msgs[i].n = n)
Barred(c, n, h, f, l) == <<c, n>> \in f \/ ~(l[c][n].date >= h)
Harmless(r, c, n, f, l) ==
    /\ r.op = "send" /\ r.at = "ok" => ~(r.chat = c /\ r.n = n)
    /\ r.op = "load" /\ r.chat = c =>
         /\ r.at \in {"checked", "called"} => Barred(c, n, r.hide, f, l)
         /\ r.at = "ok" => \A i \in DOMAIN r.list : r.list[i].n # n
NoCall(c, n) == \A s \in Slots : Harmless(rpc[s], c, n, filtered, log)
NoFrame(c, n) ==
    \A i \in DOMAIN wire : ~(wire[i].event = "new" /\ wire[i].chat = c /\ wire[i].n = n)
Carries(t, c, n) == t.kind = "new" /\ t.at = "emit" /\ t.chat = c /\ t.n = n
NoHandler(c, n) == \A t \in tasks : ~Carries(t, c, n)
Away(c, n) == NotShown(c, n) /\ NoCall(c, n) /\ NoFrame(c, n) /\ NoHandler(c, n)

LEMMA AwayMeansNotPending ==
  ASSUME NEW c, NEW n
  PROVE  Away(c, n)' => ~Pending(c, n)'
  <1> SUFFICES ASSUME Away(c, n)' PROVE ~Pending(c, n)'
    OBVIOUS
  <1>1. ~Shown(c, n)'
    BY DEF Away, NotShown, Shown
  <1>2. ~Sending(c, n)'
    BY DEF Away, NoCall, Harmless, Sending
  <1>3. ~(\E i \in DOMAIN wire' : wire'[i] = [event |-> "new", chat |-> c, n |-> n, ver |-> 0])
    BY DEF Away, NoFrame
  <1>4. Task("new", c, n, 0, "emit") \notin tasks'
    BY DEF Away, NoHandler, Carries, Task
  <1>5. \A s \in Slots : Harmless(rpc'[s], c, n, filtered', log')
    BY DEF Away, NoCall
  <1> HIDE DEF Away
  <1> QED BY <1>1, <1>2, <1>3, <1>4, <1>5 DEF Pending, Harmless, Barred

LEMMA NotPendingMeansAway ==
  ASSUME TimelineInv, NEW c, NEW n, ~Pending(c, n)
  PROVE  Away(c, n)
  <1>1. NotShown(c, n)
    BY DEF Pending, Shown, NotShown
  <1>2. NoCall(c, n)
    <2> SUFFICES ASSUME NEW s \in Slots PROVE Harmless(rpc[s], c, n, filtered, log)
      BY DEF NoCall
    <2>1. rpc[s].op = "send" /\ rpc[s].at = "ok" => ~(rpc[s].chat = c /\ rpc[s].n = n)
      BY DEF Pending, Sending
    <2>2. rpc[s].op = "load" /\ rpc[s].chat = c =>
            /\ rpc[s].at \in {"checked", "called"} => Barred(c, n, rpc[s].hide, filtered, log)
            /\ rpc[s].at = "ok" => \A i \in DOMAIN rpc[s].list : rpc[s].list[i].n # n
      BY DEF Pending, Barred
    <2> QED BY <2>1, <2>2 DEF Harmless
  <1>3. NoFrame(c, n)
    <2> SUFFICES ASSUME NEW i \in DOMAIN wire, wire[i].event = "new", wire[i].chat = c, wire[i].n = n
                 PROVE  FALSE
      BY DEF NoFrame
    <2>1. wire[i] \in Frames /\ wire[i].ver = 0
      BY Parts, LenProperties DEF WireOK
    <2>2. wire[i] = [event |-> "new", chat |-> c, n |-> n, ver |-> 0]
      BY <2>1 DEF Frames
    <2> QED BY <2>2 DEF Pending
  <1>4. NoHandler(c, n)
    <2> SUFFICES ASSUME NEW t \in tasks, Carries(t, c, n) PROVE FALSE
      BY DEF NoHandler
    <2>1. t \in Updates /\ t.ver = 0
      BY Parts DEF TasksOK, TaskOK, Carries
    <2>2. t = Task("new", c, n, 0, "emit")
      BY <2>1 DEF Updates, Task, Carries
    <2> QED BY <2>2 DEF Pending
  <1> QED BY <1>1, <1>2, <1>3, <1>4 DEF Away

\* No step takes a message or a record away.
LEMMA StepKeeps ==
  ASSUME TimelineInv, Next \/ UNCHANGED vars
  PROVE  LogKept /\ filtered \subseteq filtered'
  <1>0. LogOK /\ asks \in Nat
    BY Parts
  <1>1. log' = log => LogKept
    BY DEF LogKept
  <1>2. ASSUME NEW c \in Chats, NEW k \in Kinds, CanPost(c), PostTo(c, k), now' = now PROVE LogKept
    BY <1>0, <1>2, LogPosts DEF CanPost
  <1>3. ASSUME NEW c, NEW n, CanEdit(c, n), EditIn(c, n), now' = now PROVE LogKept
    <2>1. <<c, n>> \in Known /\ asks + Changes < MaxMoves
      BY <1>3 DEF CanEdit, Present
    <2>2. log[c][n].ver + 1 \in 0 .. MaxMoves
      BY <1>0, <2>1, VersionsBounded
    <2> QED BY <1>0, <1>3, <2>1, <2>2, LogEdits
  <1>4. ASSUME NEW c, NEW n, Present(c, n), DeleteIn(c, n), now' = now PROVE LogKept
    BY <1>0, <1>4, LogDeletes DEF Present
  <1>5. CASE UNCHANGED vars
    BY <1>1, <1>5 DEF vars, telegram, tables
  <1>6. CASE Tick
    BY <1>1, <1>6 DEF Tick, tables
  <1>7. ASSUME NEW c \in Chats, NEW k \in Kinds, Posted(c, k) PROVE LogKept /\ filtered \subseteq filtered'
    BY <1>2, <1>7 DEF Posted, tables
  <1>8. ASSUME NEW c \in Chats, NEW n \in 1 .. MaxPosts, Edited(c, n) \/ Deleted(c, n)
        PROVE  LogKept /\ filtered \subseteq filtered'
    BY <1>3, <1>4, <1>8 DEF Edited, Deleted, tables
  <1>9. ASSUME NEW t \in tasks, Handle(t) PROVE LogKept /\ filtered \subseteq filtered'
    <2>1. log' = log
      BY <1>9 DEF Handle, Filter, RowOfNew, RowOfEdit, RowOfDelete, RowOfCommand, Emit, telegram
    <2>2. filtered \subseteq filtered'
      BY <1>9 DEF Handle, Filter, RowOfNew, RowOfEdit, RowOfDelete, RowOfCommand, Emit, tables
    <2> QED BY <1>1, <2>1, <2>2
  <1>10. ASSUME NEW s \in Slots, (\E c \in Chats : OpenChat(s, c)) \/ Reload(s) \/ AskChange(s)
         PROVE  LogKept /\ filtered \subseteq filtered'
    BY <1>1, <1>10 DEF OpenChat, Reload, AskChange, telegram, tables
  <1>11. ASSUME NEW s \in Slots, Serve(s) PROVE LogKept /\ filtered \subseteq filtered'
    <2>1. filtered' = filtered
      BY <1>11 DEF Serve, Refuse, CheckRow, Snapshot, PostMine, EditMine, DeleteMine, HideHistory, CallFails,
         Answer, LoseAnswer, ShowLoad, ShowSend, ShowEdit, ShowDelete, ShowClear, ShowFailure, tables
    <2>2. CASE PostMine(s)
      <3>1. rpc[s].chat \in Chats
        <4>1. rpc[s].op # "none"
          BY <2>2 DEF PostMine
        <4> QED BY <4>1, CallTypes DEF Calls
      <3> QED BY <1>2, <2>1, <2>2, <3>1 DEF PostMine, Kinds
    <2>3. CASE EditMine(s)
      BY <1>3, <2>1, <2>3 DEF EditMine
    <2>4. CASE DeleteMine(s)
      BY <1>1, <1>4, <2>1, <2>4 DEF DeleteMine
    <2>5. CASE ~PostMine(s) /\ ~EditMine(s) /\ ~DeleteMine(s)
      <3>1. log' = log
        BY <1>11, <2>5 DEF Serve, Refuse, CheckRow, Snapshot, HideHistory, CallFails,
           Answer, LoseAnswer, ShowLoad, ShowSend, ShowEdit, ShowDelete, ShowClear, ShowFailure, telegram
      <3> QED BY <1>1, <2>1, <3>1
    <2> QED BY <2>2, <2>3, <2>4, <2>5
  <1>12. CASE HandleFrame
    BY <1>1, <1>12 DEF HandleFrame, OnNewMessage, OnMessageEdited, OnMessageDeleted, OnChatRemoved, telegram, tables
  <1> QED BY <1>5, <1>6, <1>7, <1>8, <1>9, <1>10, <1>11, <1>12 DEF Next

\* What carries nothing and does not change still carries nothing.
LEMMA StaysAway ==
  ASSUME NEW c \in Chats, NEW n \in DOMAIN log[c], Away(c, n), LogKept, filtered \subseteq filtered'
  PROVE  /\ UNCHANGED msgs => NotShown(c, n)'
         /\ UNCHANGED rpc => NoCall(c, n)'
         /\ \A s \in Slots : \A r : rpc' = [rpc EXCEPT ![s] = r] /\ DOMAIN rpc = Slots
                                /\ Harmless(r, c, n, filtered', log') => NoCall(c, n)'
         /\ UNCHANGED wire => NoFrame(c, n)'
         /\ tasks' \subseteq tasks => NoHandler(c, n)'
         /\ \A t : tasks' \subseteq tasks \cup {t} /\ ~Carries(t, c, n) => NoHandler(c, n)'
         /\ \A h : Barred(c, n, h, filtered, log) => Barred(c, n, h, filtered', log')
  <1>1. \A h : Barred(c, n, h, filtered, log) => Barred(c, n, h, filtered', log')
    BY DEF LogKept, Barred
  <1>2. \A s \in Slots : Harmless(rpc[s], c, n, filtered', log')
    BY <1>1 DEF Away, NoCall, Harmless
  <1>3. UNCHANGED rpc => NoCall(c, n)'
    BY <1>2 DEF NoCall
  <1>4. ASSUME NEW s \in Slots, NEW r, rpc' = [rpc EXCEPT ![s] = r], DOMAIN rpc = Slots,
               Harmless(r, c, n, filtered', log')
        PROVE  NoCall(c, n)'
    <2>1. \A q \in Slots : rpc'[q] = IF q = s THEN r ELSE rpc[q]
      BY <1>4
    <2>2. \A q \in Slots : Harmless(rpc'[q], c, n, filtered', log')
      BY <1>2, <1>4, <2>1
    <2> QED BY <2>2 DEF NoCall
  <1>5. UNCHANGED msgs => NotShown(c, n)'
    BY DEF Away, NotShown
  <1>6. UNCHANGED wire => NoFrame(c, n)'
    BY DEF Away, NoFrame
  <1>7. /\ tasks' \subseteq tasks => NoHandler(c, n)'
        /\ \A t : tasks' \subseteq tasks \cup {t} /\ ~Carries(t, c, n) => NoHandler(c, n)'
    BY DEF Away, NoHandler, Carries
  <1> QED BY <1>1, <1>3, <1>4, <1>5, <1>6, <1>7

LEMMA OutTelegram ==
  ASSUME NEW c \in Chats, NEW n \in DOMAIN log[c], Away(c, n), LogKept, filtered \subseteq filtered',
         \/ \E d \in Chats : \/ \E k \in Kinds : Posted(d, k)
                             \/ \E m \in 1 .. MaxPosts : Edited(d, m) \/ Deleted(d, m)
         \/ Tick
  PROVE  Away(c, n)'
  <1>1. UNCHANGED <<rpc, wire, msgs>>
    BY DEF Posted, Edited, Deleted, Tick, tab
  <1>2. tasks' \subseteq tasks \/ \E t : tasks' \subseteq tasks \cup {t} /\ ~Carries(t, c, n)
    <2>1. ASSUME NEW d, NEW k, Posted(d, k)
          PROVE  \E t : tasks' \subseteq tasks \cup {t} /\ ~Carries(t, c, n)
      <3>1. PICK t : t = Task(IF k = "text" THEN "new" ELSE "command", d, Len(log[d]) + 1, 0, "filter")
        OBVIOUS
      <3>2. ~Carries(t, c, n)
        BY <3>1 DEF Task, Carries
      <3>3. tasks' = tasks \cup {t}
        BY <2>1, <3>1 DEF Posted, HandlersOf
      <3> QED BY <3>2, <3>3
    <2>2. ASSUME NEW d, NEW m, Edited(d, m)
          PROVE  \E t : tasks' \subseteq tasks \cup {t} /\ ~Carries(t, c, n)
      <3>1. PICK t : t = Task("edit", d, m, log[d][m].ver + 1, "row")
        OBVIOUS
      <3>2. ~Carries(t, c, n)
        BY <3>1 DEF Task, Carries
      <3>3. tasks' = tasks \cup {t}
        BY <2>2, <3>1 DEF Edited
      <3> QED BY <3>2, <3>3
    <2>3. ASSUME NEW d, NEW m, Deleted(d, m)
          PROVE  \E t : tasks' \subseteq tasks \cup {t} /\ ~Carries(t, c, n)
      <3>1. PICK t : t = Task("delete", d, m, 0, "row")
        OBVIOUS
      <3>2. ~Carries(t, c, n)
        BY <3>1 DEF Task, Carries
      <3>3. tasks' = tasks \cup {t}
        BY <2>3, <3>1 DEF Deleted
      <3> QED BY <3>2, <3>3
    <2>4. Tick => tasks' \subseteq tasks
      BY DEF Tick
    <2> QED BY <2>1, <2>2, <2>3, <2>4
  <1>3. NotShown(c, n)' /\ NoCall(c, n)' /\ NoFrame(c, n)' /\ NoHandler(c, n)'
    BY <1>1, <1>2, StaysAway
  <1> QED BY <1>3 DEF Away

LEMMA OutHandler ==
  ASSUME TimelineInv, NEW c \in Chats, NEW n \in DOMAIN log[c], Away(c, n), Out(c, n), LogKept,
         filtered \subseteq filtered', NEW t \in tasks, Handle(t)
  PROVE  Away(c, n)'
  <1>0. TaskOK(t, log) /\ RecordsOK /\ WireOK /\ LogOK
    BY Parts DEF TasksOK
  <1>1. UNCHANGED <<rpc, msgs>>
    BY DEF Handle, Filter, RowOfNew, RowOfEdit, RowOfDelete, RowOfCommand, Emit, tab
  <1>2. NotShown(c, n)' /\ NoCall(c, n)'
    BY <1>1, StaysAway
  <1>3. Return(t) => NoHandler(c, n)'
    BY StaysAway DEF Return
  <1>4. ASSUME NEW a, Goto(t, a), t.kind = "new" /\ a = "emit" => ~(t.chat = c /\ t.n = n)
        PROVE  NoHandler(c, n)'
    <2>1. PICK u : u = [t EXCEPT !.at = a]
      OBVIOUS
    <2>2. u.at = a /\ u.kind = t.kind /\ u.chat = t.chat /\ u.n = t.n
      BY <1>0, <2>1 DEF TaskOK, Updates
    <2>3. ~Carries(u, c, n)
      BY <1>4, <2>2 DEF Carries
    <2>4. tasks' \subseteq tasks \cup {u}
      BY <1>4, <2>1 DEF Goto
    <2> QED BY <2>3, <2>4, StaysAway
  <1>5. ASSUME NEW f, Send(f), ~(f.event = "new" /\ f.chat = c /\ f.n = n)
        PROVE  NoFrame(c, n)'
    <2>1. wire \in Seq(Frames) /\ Len(wire) \in Nat /\ DOMAIN wire = 1 .. Len(wire)
      BY <1>0, LenProperties DEF WireOK
    <2>2. DOMAIN wire' = 1 .. Len(wire) + 1
          /\ \A i \in 1 .. Len(wire) + 1 : wire'[i] = IF i = Len(wire) + 1 THEN f ELSE wire[i]
      <3>1. wire \in Seq(Frames \cup {f}) /\ wire' = Append(wire, f)
        BY <1>5, <2>1 DEF Send
      <3>2. Len(wire') = Len(wire) + 1 /\ wire' \in Seq(Frames \cup {f})
        BY <3>1, AppendProperties
      <3>3. DOMAIN wire' = 1 .. Len(wire')
        BY <3>2, LenProperties
      <3>4. \A i \in 1 .. Len(wire) : wire'[i] = wire[i]
        BY <2>1, <3>1, AppendProperties
      <3>5. wire'[Len(wire) + 1] = f
        BY <3>1, AppendProperties
      <3> QED BY <2>1, <3>2, <3>3, <3>4, <3>5
    <2>3. \A i \in 1 .. Len(wire) + 1 : i \in 1 .. Len(wire) \/ i = Len(wire) + 1
      BY <2>1
    <2>4. \A i \in DOMAIN wire : ~(wire[i].event = "new" /\ wire[i].chat = c /\ wire[i].n = n)
      BY DEF Away, NoFrame
    <2> QED BY <1>5, <2>1, <2>2, <2>3, <2>4 DEF NoFrame
  <1>6. CASE Filter(t)
    <2>1. UNCHANGED wire /\ (Return(t) \/ Goto(t, "row") \/ (t.kind # "new" /\ Goto(t, "emit")))
      BY <1>6 DEF Filter
    <2>2. NoHandler(c, n)'
      BY <1>3, <1>4, <2>1
    <2> QED BY <1>2, <2>1, <2>2, StaysAway DEF Away
  <1>7. CASE RowOfNew(t)
    <2>1. /\ UNCHANGED wire /\ t.kind = "new"
          /\ Return(t) \/ (Goto(t, "emit") /\ log[t.chat][t.n].date >= hide[t.chat])
      BY <1>7 DEF RowOfNew
    <2>2. CASE Return(t)
      BY <1>2, <1>3, <2>1, <2>2, StaysAway DEF Away
    <2>3. CASE Goto(t, "emit") /\ log[t.chat][t.n].date >= hide[t.chat]
      <3>1. ~(t.chat = c /\ t.n = n)
        <4> SUFFICES ASSUME t.chat = c, t.n = n PROVE FALSE
          OBVIOUS
        <4>1. CASE <<c, n>> \in filtered
          <5>1. log[c][n].kind # "text"
            BY <1>0, <4>1 DEF RecordsOK, RecordOK
          <5>2. log[c][n].kind = "text"
            BY <1>0, <2>1 DEF TaskOK
          <5> QED BY <5>1, <5>2
        <4>2. CASE log[c][n].date < hide[c]
          <5>1. log[c][n].date \in Int /\ hide[c] \in Int
            BY <1>0, LogTypes, Parts, Bounds DEF Message, TablesOK
          <5> QED BY <2>3, <4>2, <5>1
        <4> QED BY <4>1, <4>2 DEF Out
      <3>2. NoHandler(c, n)'
        BY <1>4, <2>3, <3>1
      <3> QED BY <1>2, <2>1, <3>2, StaysAway DEF Away
    <2> QED BY <2>1, <2>2, <2>3
  <1>8. CASE RowOfEdit(t)
    <2>1. UNCHANGED wire /\ (Return(t) \/ Goto(t, "filter"))
      BY <1>8 DEF RowOfEdit
    <2>2. NoHandler(c, n)'
      BY <1>3, <1>4, <2>1
    <2> QED BY <1>2, <2>1, <2>2, StaysAway DEF Away
  <1>9. CASE RowOfDelete(t)
    <2>1. Return(t) /\ (UNCHANGED wire \/ Send(Frame("deleted", t)))
      BY <1>9 DEF RowOfDelete
    <2>2. Frame("deleted", t).event # "new"
      BY DEF Frame
    <2>3. NoFrame(c, n)'
      BY <1>5, <2>1, <2>2, StaysAway
    <2> QED BY <1>2, <1>3, <2>1, <2>3 DEF Away
  <1>10. CASE RowOfCommand(t)
    <2>1. UNCHANGED wire /\ t.kind # "new" /\ (Return(t) \/ Goto(t, "emit"))
      BY <1>10 DEF RowOfCommand
    <2>2. NoHandler(c, n)'
      BY <1>3, <1>4, <2>1
    <2> QED BY <1>2, <2>1, <2>2, StaysAway DEF Away
  <1>11. CASE Emit(t)
    <2>1. Return(t) /\ t.at = "emit" /\ ~Carries(t, c, n)
      BY <1>11 DEF Emit, Away, NoHandler
    <2>2. t.kind \in {"new", "edit", "command"}
      BY <1>0, <2>1 DEF TaskOK, Updates
    <2>3. PICK e \in {"new", "edited", "removed"} : Send(Frame(e, t)) /\ (e = "new" => t.kind = "new")
      <3>1. CASE t.kind = "new"
        BY <1>11, <3>1 DEF Emit
      <3>2. CASE t.kind = "edit"
        BY <1>11, <3>2 DEF Emit
      <3>3. CASE t.kind = "command"
        BY <1>11, <3>3 DEF Emit
      <3> QED BY <2>2, <3>1, <3>2, <3>3
    <2>4. ~(Frame(e, t).event = "new" /\ Frame(e, t).chat = c /\ Frame(e, t).n = n)
      BY <2>1, <2>3 DEF Frame, Carries
    <2>5. NoFrame(c, n)'
      BY <1>5, <2>3, <2>4
    <2> QED BY <1>2, <1>3, <2>1, <2>5 DEF Away
  <1> QED BY <1>6, <1>7, <1>8, <1>9, <1>10, <1>11 DEF Handle

LEMMA OutAsk ==
  ASSUME TimelineInv, NEW c \in Chats, NEW n \in DOMAIN log[c], Away(c, n), LogKept,
         filtered \subseteq filtered', NEW s \in Slots,
         (\E d \in Chats : OpenChat(s, d)) \/ Reload(s) \/ AskChange(s)
  PROVE  Away(c, n)'
  <1>1. UNCHANGED <<wire, tasks>> /\ (UNCHANGED msgs \/ msgs' = <<>>)
    BY DEF OpenChat, Reload, AskChange, tab
  <1>2. NoFrame(c, n)' /\ NoHandler(c, n)'
    BY <1>1, StaysAway
  <1>3. NotShown(c, n)'
    <2>1. msgs' = <<>> => DOMAIN msgs' = {}
      OBVIOUS
    <2>2. msgs' = <<>> => NotShown(c, n)'
      BY <2>1 DEF NotShown
    <2> QED BY <1>1, <2>2, StaysAway
  <1>4. \E op, d, m : Ask(s, op, d, m)
    BY DEF OpenChat, Reload, AskChange
  <1>5. NoCall(c, n)'
    <2>1. PICK op, d, m : Ask(s, op, d, m)
      BY <1>4
    <2>2. PICK r : r = [Idle EXCEPT !.op = op, !.chat = d, !.n = m, !.at = "asked"]
      OBVIOUS
    <2>3. r.at = "asked"
      BY <2>2 DEF Idle
    <2>4. rpc' = [rpc EXCEPT ![s] = r]
      BY <2>1, <2>2 DEF Ask
    <2>5. Harmless(r, c, n, filtered', log')
      BY <2>3 DEF Harmless
    <2> QED BY <2>4, <2>5, StaysAway, Parts DEF RpcOK
  <1> QED BY <1>2, <1>3, <1>5 DEF Away

\* The gateway's steps: no load takes the message up, no send makes it anew.
LEMMA OutServe ==
  ASSUME TimelineInv, NEW c \in Chats, NEW n \in DOMAIN log[c], Away(c, n), Out(c, n), LogKept,
         filtered \subseteq filtered', NEW s \in Slots,
         \/ Refuse(s) \/ CheckRow(s) \/ Snapshot(s) \/ PostMine(s) \/ EditMine(s) \/ DeleteMine(s)
         \/ HideHistory(s) \/ CallFails(s) \/ Answer(s) \/ LoseAnswer(s)
  PROVE  Away(c, n)'
  <1>0. /\ DOMAIN rpc = Slots /\ LogOK /\ TablesOK
        /\ Harmless(rpc[s], c, n, filtered, log)
    BY Parts DEF RpcOK, Away, NoCall
  <1>1. UNCHANGED <<wire, msgs>>
    BY DEF Refuse, CheckRow, Snapshot, PostMine, EditMine, DeleteMine, HideHistory, CallFails, Answer,
           LoseAnswer, tab
  <1>2. rpc[s] \in Calls /\ CallOK(rpc[s]) /\ rpc[s] # Idle
    <2>1. rpc[s].at # "idle"
      BY DEF Refuse, CheckRow, Snapshot, PostMine, EditMine, DeleteMine, HideHistory, CallFails, Answer,
             LoseAnswer, Step
    <2> QED BY <2>1, CallTypes DEF Idle
  <1>3. ASSUME NEW r, rpc' = [rpc EXCEPT ![s] = r], Harmless(r, c, n, filtered', log'), NoHandler(c, n)'
        PROVE  Away(c, n)'
    BY <1>0, <1>1, <1>3, StaysAway DEF Away
  <1>4. UNCHANGED tasks => NoHandler(c, n)'
    BY StaysAway
  <1>5. \A a : LET r == To(s, a) IN
          r.op = rpc[s].op /\ r.chat = rpc[s].chat /\ r.n = rpc[s].n /\ r.hide = rpc[s].hide /\ r.at = a
    BY <1>2 DEF To, Calls
  <1>6. ASSUME NEW a, a \notin {"checked", "called", "ok"} \/ rpc[s].op \notin {"load", "send"}
        PROVE  Harmless(To(s, a), c, n, filtered', log')
    BY <1>5, <1>6 DEF Harmless
  <1>7. CASE Refuse(s) \/ LoseAnswer(s) \/ CallFails(s)
    <2>1. UNCHANGED tasks /\ rpc' = [rpc EXCEPT ![s] = To(s, "failed")]
      BY <1>7 DEF Refuse, LoseAnswer, CallFails, Step
    <2> QED BY <1>3, <1>4, <1>6, <2>1
  <1>8. CASE CheckRow(s)
    <2>1. UNCHANGED tasks
      BY <1>8 DEF CheckRow
    <2>2. CASE rpc' = [rpc EXCEPT ![s] = To(s, "failed")]
      BY <1>3, <1>4, <1>6, <2>1, <2>2
    <2>3. CASE rpc' = [rpc EXCEPT ![s] = [To(s, "checked") EXCEPT !.hide = hide[rpc[s].chat]]]
      <3>1. PICK r : r = [To(s, "checked") EXCEPT !.hide = hide[rpc[s].chat]]
        OBVIOUS
      <3>2. r.op = rpc[s].op /\ r.chat = rpc[s].chat /\ r.at = "checked" /\ r.hide = hide[rpc[s].chat]
        BY <1>2, <3>1 DEF To, Calls
      <3>3. Barred(c, n, hide[c], filtered, log)
        <4>1. log[c][n].date \in Int /\ hide[c] \in Int
          BY <1>0, LogTypes, Parts, Bounds DEF Message, TablesOK
        <4>2. log[c][n].date < hide[c] => ~(log[c][n].date >= hide[c])
          BY <4>1
        <4> QED BY <4>2 DEF Out, Barred
      <3>4. Barred(c, n, hide[c], filtered', log')
        BY <3>3, StaysAway
      <3>5. Harmless(r, c, n, filtered', log')
        BY <3>2, <3>4 DEF Harmless
      <3> QED BY <1>3, <1>4, <2>1, <2>3, <3>1, <3>5
    <2> QED BY <1>8, <2>2, <2>3 DEF CheckRow, Step
  <1>9. CASE Snapshot(s)
    <2>1. PICK r : r = [To(s, "called") EXCEPT !.list = History(rpc[s].chat)]
      OBVIOUS
    <2>2. /\ UNCHANGED tasks /\ rpc' = [rpc EXCEPT ![s] = r]
          /\ rpc[s].op = "load" /\ rpc[s].at = "checked"
      BY <1>9, <2>1 DEF Snapshot, Step
    <2>3. r.op = "load" /\ r.chat = rpc[s].chat /\ r.at = "called" /\ r.hide = rpc[s].hide
      BY <1>2, <2>1, <2>2 DEF To, Calls
    <2>4. rpc[s].chat = c => Barred(c, n, rpc[s].hide, filtered', log')
      BY <1>0, <2>2, StaysAway DEF Harmless
    <2>5. Harmless(r, c, n, filtered', log')
      BY <2>3, <2>4 DEF Harmless
    <2> QED BY <1>3, <1>4, <2>2, <2>5
  <1>10. CASE PostMine(s)
    <2>1. PICK d, m : d \in Chats /\ d = rpc[s].chat /\ m = Len(log[d]) + 1
      BY <1>2 DEF Calls
    <2>2. PICK r : r = [To(s, "ok") EXCEPT !.n = m]
      OBVIOUS
    <2>3. rpc' = [rpc EXCEPT ![s] = r] /\ rpc[s].op = "send" /\ MaybeUpdate(HandlersOf(d, m, "text"))
      BY <1>10, <2>1, <2>2 DEF PostMine, Step
    <2>4. r.op = "send" /\ r.chat = d /\ r.n = m
      BY <1>2, <2>1, <2>2, <2>3 DEF To, Calls
    <2>5. ~(d = c /\ m = n)
      <3>1. DOMAIN log[c] = 1 .. Len(log[c]) /\ Len(log[c]) \in Nat
        BY <1>0, LogTypes
      <3> QED BY <2>1, <3>1
    <2>6. NoHandler(c, n)'
      <3>1. PICK t : t = Task("new", d, m, 0, "filter")
        OBVIOUS
      <3>2. ~Carries(t, c, n)
        BY <3>1 DEF Task, Carries
      <3>3. tasks' \subseteq tasks \cup {t}
        BY <2>3, <3>1 DEF MaybeUpdate, HandlersOf
      <3> QED BY <3>2, <3>3, StaysAway
    <2>7. Harmless(r, c, n, filtered', log')
      BY <2>4, <2>5 DEF Harmless
    <2> QED BY <1>3, <2>3, <2>6, <2>7
  <1>11. CASE EditMine(s)
    <2>1. PICK d, m, v : d = rpc[s].chat /\ m = rpc[s].n /\ v = log[d][m].ver + 1
      OBVIOUS
    <2>2. PICK r : r = [To(s, "ok") EXCEPT !.ver = v]
      OBVIOUS
    <2>3. rpc' = [rpc EXCEPT ![s] = r] /\ rpc[s].op = "edit" /\ MaybeUpdate({Task("edit", d, m, v, "row")})
      BY <1>11, <2>1, <2>2 DEF EditMine, Step
    <2>4. r.op = "edit"
      BY <1>2, <2>2, <2>3 DEF To, Calls
    <2>5. NoHandler(c, n)'
      <3>1. PICK t : t = Task("edit", d, m, v, "row")
        OBVIOUS
      <3>2. ~Carries(t, c, n)
        BY <3>1 DEF Task, Carries
      <3>3. tasks' \subseteq tasks \cup {t}
        BY <2>3, <3>1 DEF MaybeUpdate
      <3> QED BY <3>2, <3>3, StaysAway
    <2>6. Harmless(r, c, n, filtered', log')
      BY <2>4 DEF Harmless
    <2> QED BY <1>3, <2>3, <2>5, <2>6
  <1>12. CASE DeleteMine(s)
    <2>1. PICK d, m : d = rpc[s].chat /\ m = rpc[s].n
      OBVIOUS
    <2>2. /\ rpc' = [rpc EXCEPT ![s] = To(s, "ok")] /\ rpc[s].op = "delete"
          /\ UNCHANGED tasks \/ MaybeUpdate({Task("delete", d, m, 0, "row")})
      BY <1>12, <2>1 DEF DeleteMine, Step
    <2>3. NoHandler(c, n)'
      <3>1. PICK t : t = Task("delete", d, m, 0, "row")
        OBVIOUS
      <3>2. ~Carries(t, c, n)
        BY <3>1 DEF Task, Carries
      <3>3. tasks' \subseteq tasks \cup {t}
        BY <2>2, <3>1 DEF MaybeUpdate
      <3> QED BY <3>2, <3>3, StaysAway
    <2> QED BY <1>3, <1>6, <2>2, <2>3
  <1>13. CASE HideHistory(s)
    <2>1. rpc' = [rpc EXCEPT ![s] = To(s, "ok")] /\ rpc[s].op = "clear" /\ UNCHANGED tasks
      BY <1>13 DEF HideHistory, Step
    <2> QED BY <1>3, <1>4, <1>6, <2>1
  <1>14. CASE Answer(s)
    <2>1. PICK l : l = Passing(rpc[s].list, rpc[s].hide)
      OBVIOUS
    <2>2. PICK r : r = [To(s, "ok") EXCEPT !.list = l]
      OBVIOUS
    <2>3. To(s, "ok").list = rpc[s].list
      BY <1>2 DEF To, Calls
    <2>4. rpc' = [rpc EXCEPT ![s] = [To(s, "ok") EXCEPT !.list = Passing(@, rpc[s].hide)]]
          /\ rpc[s].at = "called" /\ UNCHANGED tasks
      BY <1>14 DEF Answer, Step
    <2>5. rpc' = [rpc EXCEPT ![s] = r]
      BY <2>1, <2>2, <2>3, <2>4
    <2>6. rpc[s].op = "load" /\ rpc[s].list \in Seq(Bubble)
          /\ \A i \in DOMAIN rpc[s].list : rpc[s].list[i].chat = rpc[s].chat
      BY <1>2, <2>4 DEF CallOK, Calls
    <2>7. r.op = "load" /\ r.chat = rpc[s].chat /\ r.at = "ok" /\ r.list = l
      BY <1>2, <2>2, <2>6 DEF To, Calls
    <2>8. rpc[s].chat = c => \A j \in DOMAIN l : l[j].n # n
      <3> SUFFICES ASSUME rpc[s].chat = c, NEW j \in DOMAIN l, l[j].n = n PROVE FALSE
        OBVIOUS
      <3>1. PICK i \in DOMAIN rpc[s].list : l[j] = rpc[s].list[i] /\ Passes(rpc[s].list[i], rpc[s].hide)
        BY <2>1, <2>6, PassingKeeps
      <3>2. <<c, n>> \notin filtered /\ log[c][n].date >= rpc[s].hide
        BY <2>6, <3>1 DEF Passes
      <3>3. Barred(c, n, rpc[s].hide, filtered, log)
        BY <1>0, <2>4, <2>6 DEF Harmless
      <3> QED BY <3>2, <3>3 DEF Barred
    <2>9. Harmless(r, c, n, filtered', log')
      BY <2>7, <2>8 DEF Harmless
    <2> QED BY <1>3, <1>4, <2>4, <2>5, <2>9
  <1> QED BY <1>7, <1>8, <1>9, <1>10, <1>11, <1>12, <1>13, <1>14

\* Neither another message's bubble, nor a patch of what is shown, shows the message.
LEMMA AppendNotShown ==
  ASSUME TabOK, NEW c, NEW n, NotShown(c, n), NEW b, ~(b.chat = c /\ b.n = n), msgs' = Append(msgs, b)
  PROVE  NotShown(c, n)'
  <1>1. msgs \in Seq(Bubble \cup {b}) /\ Len(msgs) \in Nat /\ DOMAIN msgs = 1 .. Len(msgs)
    BY LenProperties DEF TabOK
  <1>2. /\ msgs' \in Seq(Bubble \cup {b}) /\ Len(msgs') = Len(msgs) + 1
        /\ \A i \in 1 .. Len(msgs) : msgs'[i] = msgs[i]
        /\ msgs'[Len(msgs) + 1] = b
    BY <1>1, AppendProperties
  <1>3. DOMAIN msgs' = 1 .. Len(msgs) + 1
    BY <1>2, LenProperties
  <1>4. \A i \in 1 .. Len(msgs) + 1 : i \in 1 .. Len(msgs) \/ i = Len(msgs) + 1
    BY <1>1
  <1> QED BY <1>1, <1>2, <1>3, <1>4 DEF NotShown

LEMMA PatchNotShown ==
  ASSUME NEW c, NEW n, NotShown(c, n), ~Crosses(c, n), NEW b, msgs' = Patched(b)
  PROVE  NotShown(c, n)'
  <1>1. \A i \in DOMAIN msgs : msgs[i].n # n
    BY DEF NotShown, Crosses
  <1>2. DOMAIN msgs' = DOMAIN msgs
        /\ \A i \in DOMAIN msgs : msgs'[i] = IF msgs[i].n = b.n THEN b ELSE msgs[i]
    BY DEF Patched
  <1> QED BY <1>1, <1>2 DEF NotShown

\* The answers in the tab: none is the message's own, and an edit needs a bubble with
\* its number.
LEMMA OutShow ==
  ASSUME TimelineInv, NEW c \in Chats, NEW n \in DOMAIN log[c], Away(c, n), ~Crosses(c, n), LogKept,
         filtered \subseteq filtered', NEW s \in Slots,
         ShowLoad(s) \/ ShowSend(s) \/ ShowEdit(s) \/ ShowDelete(s) \/ ShowClear(s) \/ ShowFailure(s)
  PROVE  Away(c, n)'
  <1>0. DOMAIN rpc = Slots /\ Harmless(rpc[s], c, n, filtered, log) /\ TabOK /\ NotShown(c, n)
    BY Parts DEF RpcOK, Away, NoCall
  <1>1. UNCHANGED <<wire, tasks>> /\ Free(s)
    BY DEF ShowLoad, ShowSend, ShowEdit, ShowDelete, ShowClear, ShowFailure
  <1>2. NoFrame(c, n)' /\ NoHandler(c, n)'
    BY <1>1, StaysAway
  <1>3. NoCall(c, n)'
    <2>1. Harmless(Idle, c, n, filtered', log')
      BY DEF Harmless, Idle
    <2> QED BY <1>0, <1>1, <2>1, StaysAway DEF Free
  <1>4. msgs' = msgs => NotShown(c, n)'
    BY StaysAway
  <1>5. rpc[s] \in Calls /\ CallOK(rpc[s]) /\ rpc[s] # Idle
    <2>1. rpc[s].op # "none"
      BY DEF ShowLoad, ShowSend, ShowEdit, ShowDelete, ShowClear, ShowFailure
    <2> QED BY <2>1, CallTypes DEF Idle
  <1>6. CASE ShowLoad(s)
    <2>1. msgs' = rpc[s].list /\ rpc[s].op = "load" /\ rpc[s].at = "ok"
      BY <1>6 DEF ShowLoad
    <2>2. \A i \in DOMAIN rpc[s].list : rpc[s].list[i].chat = rpc[s].chat
      BY <1>5, <2>1 DEF CallOK
    <2>3. NotShown(c, n)'
      BY <1>0, <2>1, <2>2 DEF Harmless, NotShown
    <2> QED BY <1>2, <1>3, <2>3 DEF Away
  <1>7. CASE ShowSend(s)
    <2>1. PICK b : b = [chat |-> rpc[s].chat, n |-> rpc[s].n, ver |-> rpc[s].ver]
      OBVIOUS
    <2>2. msgs' = Append(msgs, b) /\ rpc[s].op = "send" /\ rpc[s].at = "ok"
      BY <1>7, <2>1 DEF ShowSend
    <2>3. ~(b.chat = c /\ b.n = n)
      BY <1>0, <2>1, <2>2 DEF Harmless
    <2>4. NotShown(c, n)'
      BY <1>0, <2>2, <2>3, AppendNotShown
    <2> QED BY <1>2, <1>3, <2>4 DEF Away
  <1>8. CASE ShowEdit(s)
    <2>1. PICK b : b = [chat |-> rpc[s].chat, n |-> rpc[s].n, ver |-> rpc[s].ver]
      OBVIOUS
    <2>2. msgs' = Patched(b)
      BY <1>8, <2>1 DEF ShowEdit
    <2>3. NotShown(c, n)'
      BY <1>0, <2>2, PatchNotShown
    <2> QED BY <1>2, <1>3, <2>3 DEF Away
  <1>9. CASE ShowDelete(s)
    <2>1. msgs' = Without(rpc[s].n)
      BY <1>9 DEF ShowDelete
    <2>2. NotShown(c, n)'
      BY <1>0, <2>1, WithoutKeeps DEF NotShown
    <2> QED BY <1>2, <1>3, <2>2 DEF Away
  <1>10. CASE ShowClear(s) \/ ShowFailure(s)
    <2>1. msgs' = <<>> \/ msgs' = msgs
      BY <1>10 DEF ShowClear, ShowFailure, tab
    <2>2. msgs' = <<>> => DOMAIN msgs' = {}
      OBVIOUS
    <2>3. msgs' = <<>> => NotShown(c, n)'
      BY <2>2 DEF NotShown
    <2> QED BY <1>2, <1>3, <1>4, <2>1, <2>3 DEF Away
  <1> QED BY <1>6, <1>7, <1>8, <1>9, <1>10

\* The frames in the tab.
LEMMA OutFrame ==
  ASSUME TimelineInv, NEW c \in Chats, NEW n \in DOMAIN log[c], Away(c, n), ~Crosses(c, n), LogKept,
         filtered \subseteq filtered', HandleFrame
  PROVE  Away(c, n)'
  <1>0. TabOK /\ WireOK /\ NotShown(c, n) /\ NoFrame(c, n)
    BY Parts DEF Away
  <1>1. UNCHANGED <<rpc, tasks>> /\ wire # <<>> /\ wire' = Tail(wire)
    BY DEF HandleFrame, OnNewMessage, OnMessageEdited, OnMessageDeleted, OnChatRemoved, NextFrame
  <1>2. NoCall(c, n)' /\ NoHandler(c, n)' /\ (msgs' = msgs => NotShown(c, n)')
    BY <1>1, StaysAway
  <1>3. /\ wire \in Seq(Frames) /\ Len(wire) \in Nat /\ DOMAIN wire = 1 .. Len(wire) /\ Len(wire) # 0
        /\ Head(wire) = wire[1] /\ DOMAIN wire' = 1 .. Len(wire) - 1
        /\ \A i \in 1 .. Len(wire) - 1 : wire'[i] = wire[i + 1]
    BY <1>0, <1>1, HeadTailProperties, LenProperties, EmptySeq DEF WireOK
  <1>4. NoFrame(c, n)'
    <2>1. \A i \in 1 .. Len(wire) - 1 : i + 1 \in 1 .. Len(wire)
      BY <1>3
    <2> QED BY <1>0, <1>3, <2>1 DEF NoFrame
  <1>5. NotShown(c, n)'
    <2>1. PICK b : b = [chat |-> Head(wire).chat, n |-> Head(wire).n, ver |-> Head(wire).ver]
      OBVIOUS
    <2>2. CASE OnNewMessage
      <3>1. Head(wire).event = "new" /\ (msgs' = msgs \/ msgs' = Append(msgs, b))
        BY <2>1, <2>2 DEF OnNewMessage, NextFrame
      <3>2. ~(b.chat = c /\ b.n = n)
        <4>1. 1 \in DOMAIN wire
          BY <1>3
        <4> QED BY <1>0, <1>3, <2>1, <3>1, <4>1 DEF NoFrame
      <3> QED BY <1>0, <1>2, <3>1, <3>2, AppendNotShown
    <2>3. CASE OnMessageEdited
      <3>1. msgs' = Patched(b)
        BY <2>1, <2>3 DEF OnMessageEdited
      <3> QED BY <1>0, <3>1, PatchNotShown
    <2>4. CASE OnMessageDeleted
      <3>1. msgs' = Without(Head(wire).n)
        BY <2>4 DEF OnMessageDeleted
      <3> QED BY <1>0, <3>1, WithoutKeeps DEF NotShown
    <2>5. CASE OnChatRemoved
      BY <1>2, <2>5 DEF OnChatRemoved
    <2> QED BY <2>2, <2>3, <2>4, <2>5 DEF HandleFrame
  <1> QED BY <1>2, <1>4, <1>5 DEF Away

LEMMA OutStep ==
  TimelineInv /\ [Next]_vars =>
    \A c \in Chats, n \in 1 .. MaxPosts :
      <<c, n>> \in Known /\ Out(c, n) /\ ~Pending(c, n) /\ ~Crosses(c, n) => ~Pending(c, n)'
  <1> SUFFICES ASSUME TimelineInv, Next \/ UNCHANGED vars, NEW c \in Chats, NEW n \in 1 .. MaxPosts,
                      <<c, n>> \in Known, Out(c, n), ~Pending(c, n), ~Crosses(c, n)
               PROVE  ~Pending(c, n)'
    OBVIOUS
  <1>1. Away(c, n) /\ n \in DOMAIN log[c] /\ LogKept /\ filtered \subseteq filtered'
    BY NotPendingMeansAway, StepKeeps, KnownTypes, Parts
  <1>2. CASE UNCHANGED vars
    <2>1. UNCHANGED <<msgs, rpc, wire, tasks>>
      BY <1>2 DEF vars, tab
    <2> QED BY <1>1, <2>1, StaysAway, AwayMeansNotPending DEF Away
  <1>3. ASSUME NEW s \in Slots, (\E d \in Chats : OpenChat(s, d)) \/ Reload(s) \/ AskChange(s) \/ Serve(s)
        PROVE  Away(c, n)'
    BY <1>1, <1>3, OutAsk, OutServe, OutShow DEF Serve
  <1>4. \/ \E d \in Chats : \/ \E k \in Kinds : Posted(d, k)
                            \/ \E m \in 1 .. MaxPosts : Edited(d, m) \/ Deleted(d, m)
        \/ Tick
        => Away(c, n)'
    BY <1>1, OutTelegram
  <1>5. (\E t \in tasks : Handle(t)) => Away(c, n)'
    BY <1>1, OutHandler
  <1>6. HandleFrame => Away(c, n)'
    BY <1>1, OutFrame
  <1> QED BY <1>2, <1>3, <1>4, <1>5, <1>6, AwayMeansNotPending DEF Next

\* A command that is recorded, or a message older than the watermark, is not carried
\* or shown again once nothing carries it.
THEOREM WhatIsOutStaysOut == Spec => OutStaysOut
  BY InvHolds, OutStep, PTL DEF Spec, OutStaysOut

-----------------------------------------------------------------------------
\* Filters of lists, for the calm list: when each thing waits for the one before, the
\* bubbles are exactly what a reload would show.

\* The entries of a list that are in G.
Keep(s, G) == Only(s, {i \in DOMAIN s : s[i] \in G})

\* Two filters that agree up to a place have kept the same up to it.
LEMMA FiltersAgree ==
  ASSUME NEW s, NEW t, NEW P, NEW Q, NEW N \in Nat, NEW M \in Nat, NEW g, NEW h,
         Keeps(g, s, P, N), Keeps(h, t, Q, M),
         NEW k \in Nat, k <= N, k <= M,
         \A i \in 1 .. k : s[i] = t[i] /\ (i \in P <=> i \in Q)
  PROVE  g[k] = h[k]
  <1> DEFINE T == {n \in Nat : n <= k => g[n] = h[n]}
  <1>1. 0 \in T
    BY DEF Keeps
  <1>2. ASSUME NEW n \in Nat, n \in T PROVE n + 1 \in T
    <2> SUFFICES ASSUME n + 1 <= k PROVE g[n + 1] = h[n + 1]
      OBVIOUS
    <2>1. g[n] = h[n]
      BY <1>2
    <2>2. n + 1 \in 0 .. N /\ n + 1 \in 0 .. M /\ n + 1 # 0 /\ (n + 1) - 1 = n /\ n + 1 \in 1 .. k
      OBVIOUS
    <2>3. g[n + 1] = IF n + 1 \in P THEN Append(g[n], s[n + 1]) ELSE g[n]
      BY <2>2 DEF Keeps
    <2>4. h[n + 1] = IF n + 1 \in Q THEN Append(h[n], t[n + 1]) ELSE h[n]
      BY <2>2 DEF Keeps
    <2>5. s[n + 1] = t[n + 1] /\ (n + 1 \in P <=> n + 1 \in Q)
      BY <2>2
    <2> QED BY <2>1, <2>3, <2>4, <2>5
  <1>3. k \in T
    <2> HIDE DEF T
    <2> QED BY <1>1, <1>2, Induction
  <1> QED BY <1>3

\* The empty list has nothing to keep.
LEMMA OnlyOfNone ==
  ASSUME NEW G
  PROVE  Keep(<<>>, G) = <<>>
  <1>1. Len(<<>>) = 0
    OBVIOUS
  <1> DEFINE P == {i \in DOMAIN <<>> : <<>>[i] \in G}
  <1>2. PICK g : Only(<<>>, P) = g[Len(<<>>)] /\ Keeps(g, <<>>, P, Len(<<>>))
    BY <1>1, FilterUnfolds
  <1>3. Keep(<<>>, G) = Only(<<>>, P)
    BY DEF Keep
  <1> HIDE DEF P
  <1> QED BY <1>1, <1>2, <1>3 DEF Keeps

\* A filter looks at the entries one after the other.
LEMMA KeepAppend ==
  ASSUME NEW S, NEW s \in Seq(S), NEW x \in S, NEW G
  PROVE  Keep(Append(s, x), G) = IF x \in G THEN Append(Keep(s, G), x) ELSE Keep(s, G)
  <1> DEFINE t == Append(s, x)
             N == Len(s)
             P == {i \in DOMAIN s : s[i] \in G}
             Q == {i \in DOMAIN t : t[i] \in G}
  <1>1. /\ N \in Nat /\ DOMAIN s = 1 .. N /\ t \in Seq(S) /\ Len(t) = N + 1 /\ DOMAIN t = 1 .. N + 1
        /\ \A i \in 1 .. N : t[i] = s[i]
        /\ t[N + 1] = x
    BY LenProperties, AppendProperties
  <1>2. PICK g : Only(s, P) = g[N] /\ Keeps(g, s, P, N)
    BY <1>1, FilterUnfolds
  <1>3. PICK h : Only(t, Q) = h[N + 1] /\ Keeps(h, t, Q, N + 1)
    <2> HIDE DEF t, Q
    <2>1. Len(t) \in Nat
      BY <1>1
    <2>2. PICK h : Only(t, Q) = h[Len(t)] /\ Keeps(h, t, Q, Len(t))
      BY <2>1, FilterUnfolds
    <2> QED BY <1>1, <2>2
  <1>4. \A i \in 1 .. N : s[i] = t[i] /\ (i \in P <=> i \in Q)
    <2>1. \A i \in 1 .. N : i \in 1 .. N + 1
      BY <1>1
    <2> HIDE DEF t, N
    <2> QED BY <1>1, <2>1
  <1>5. N + 1 \in Q <=> x \in G
    <2>1. N + 1 \in 1 .. N + 1
      BY <1>1
    <2> HIDE DEF t, N
    <2> QED BY <1>1, <2>1
  <1>6. Keep(s, G) = Only(s, P) /\ Keep(Append(s, x), G) = Only(t, Q)
    BY DEF Keep
  <1> HIDE DEF t, N, P, Q
  <1>7. g[N] = h[N]
    BY <1>1, <1>2, <1>3, <1>4, FiltersAgree
  <1>8. h[N + 1] = IF N + 1 \in Q THEN Append(h[N], t[N + 1]) ELSE h[N]
    <2>1. N + 1 \in 0 .. N + 1 /\ N + 1 # 0 /\ (N + 1) - 1 = N
      BY <1>1
    <2> QED BY <1>3, <2>1 DEF Keeps
  <1> QED BY <1>1, <1>2, <1>3, <1>5, <1>6, <1>7, <1>8

\* What is kept is of the list and in G.
LEMMA KeepTypes ==
  ASSUME NEW S, NEW s \in Seq(S), NEW G
  PROVE  /\ Keep(s, G) \in Seq(S)
         /\ \A j \in DOMAIN Keep(s, G) : Keep(s, G)[j] \in G /\ \E i \in DOMAIN s : Keep(s, G)[j] = s[i]
  <1> DEFINE P == {i \in DOMAIN s : s[i] \in G}
  <1>1. Keep(s, G) = Only(s, P)
    BY DEF Keep
  <1>2. \A i \in P : s[i] \in G
    OBVIOUS
  <1> HIDE DEF P
  <1> QED BY <1>1, <1>2, OnlyKeeps

\* Induction over the lists of entries of S, for a set of good lists.
LEMMA ListInduction ==
  ASSUME NEW S, NEW T, <<>> \in T,
         \A s \in Seq(S) : \A x \in S : s \in T => Append(s, x) \in T
  PROVE  Seq(S) \subseteq T
  <1> DEFINE L == {n \in Nat : \A s \in Seq(S) : Len(s) = n => s \in T}
  <1>1. 0 \in L
    BY EmptySeq
  <1>2. ASSUME NEW n \in Nat, n \in L PROVE n + 1 \in L
    <2> SUFFICES ASSUME NEW t \in Seq(S), Len(t) = n + 1 PROVE t \in T
      OBVIOUS
    <2>1. t # <<>>
      BY EmptySeq
    <2>2. PICK s \in Seq(S), x \in S : t = Append(s, x)
      BY <2>1, SequenceEmptyOrAppend
    <2>3. Len(s) = n
      BY <2>2, AppendProperties, LenProperties
    <2>4. s \in T
      BY <1>2, <2>3
    <2> QED BY <2>2, <2>4
  <1>3. Nat \subseteq L
    <2> HIDE DEF L
    <2> QED BY <1>1, <1>2, Induction
  <1> QED BY <1>3, LenProperties

\* A filter of a filter.
LEMMA KeepTwice ==
  ASSUME NEW S, NEW G, NEW H, NEW s \in Seq(S)
  PROVE  Keep(Keep(s, G), H) = Keep(s, G \cap H)
  <1> DEFINE T == {u \in Seq(S) : Keep(Keep(u, G), H) = Keep(u, G \cap H)}
  <1>1. <<>> \in T
    BY OnlyOfNone
  <1>2. ASSUME NEW u \in Seq(S), NEW x \in S, u \in T PROVE Append(u, x) \in T
    <2>1. Keep(u, G) \in Seq(S) /\ Append(u, x) \in Seq(S)
      BY KeepTypes, AppendProperties
    <2>2. Keep(Append(u, x), G) = IF x \in G THEN Append(Keep(u, G), x) ELSE Keep(u, G)
      BY KeepAppend
    <2>3. Keep(Append(u, x), G \cap H)
            = IF x \in G \cap H THEN Append(Keep(u, G \cap H), x) ELSE Keep(u, G \cap H)
      BY KeepAppend
    <2>4. Keep(Append(Keep(u, G), x), H)
            = IF x \in H THEN Append(Keep(Keep(u, G), H), x) ELSE Keep(Keep(u, G), H)
      BY <2>1, KeepAppend
    <2>5. Keep(Keep(u, G), H) = Keep(u, G \cap H)
      BY <1>2
    <2>6. Keep(Keep(Append(u, x), G), H) = Keep(Append(u, x), G \cap H)
      <3>1. CASE x \in G /\ x \in H
        BY <2>2, <2>3, <2>4, <2>5, <3>1
      <3>2. CASE x \in G /\ x \notin H
        BY <2>2, <2>3, <2>4, <2>5, <3>2
      <3>3. CASE x \notin G
        BY <2>2, <2>3, <2>5, <3>3
      <3> QED BY <3>1, <3>2, <3>3
    <2> QED BY <2>1, <2>6
  <1>3. s \in T
    <2> HIDE DEF T
    <2> QED BY <1>1, <1>2, ListInduction
  <1> QED BY <1>3

\* A filter that keeps all or nothing, or the same.
LEMMA KeepSame ==
  ASSUME NEW S, NEW s \in Seq(S), NEW G, NEW H, \A i \in DOMAIN s : s[i] \in G <=> s[i] \in H
  PROVE  Keep(s, G) = Keep(s, H)
  <1>1. {i \in DOMAIN s : s[i] \in G} = {i \in DOMAIN s : s[i] \in H}
    OBVIOUS
  <1> QED BY <1>1 DEF Keep

\* A filter that keeps every entry, and one that keeps none.
LEMMA KeepAll ==
  ASSUME NEW S, NEW s \in Seq(S)
  PROVE  Keep(s, S) = s
  <1> DEFINE T == {u \in Seq(S) : Keep(u, S) = u}
  <1>1. <<>> \in T
    BY OnlyOfNone
  <1>2. ASSUME NEW u \in Seq(S), NEW x \in S, u \in T PROVE Append(u, x) \in T
    <2>1. Append(u, x) \in Seq(S)
      BY AppendProperties
    <2>2. Keep(Append(u, x), S) = Append(Keep(u, S), x)
      BY KeepAppend
    <2> QED BY <1>2, <2>1, <2>2
  <1>3. s \in T
    <2> HIDE DEF T
    <2> QED BY <1>1, <1>2, ListInduction
  <1> QED BY <1>3

LEMMA KeepNothing ==
  ASSUME NEW S, NEW s \in Seq(S)
  PROVE  Keep(s, {}) = <<>>
  <1> DEFINE T == {u \in Seq(S) : Keep(u, {}) = <<>>}
  <1>1. <<>> \in T
    BY OnlyOfNone
  <1>2. ASSUME NEW u \in Seq(S), NEW x \in S, u \in T PROVE Append(u, x) \in T
    <2>1. Append(u, x) \in Seq(S)
      BY AppendProperties
    <2>2. Keep(Append(u, x), {}) = Keep(u, {})
      BY KeepAppend
    <2> QED BY <1>2, <2>1, <2>2
  <1>3. s \in T
    <2> HIDE DEF T
    <2> QED BY <1>1, <1>2, ListInduction
  <1> QED BY <1>3

\* A change of each entry that leaves it in or out passes through a filter.
Mapped(s, F) == [i \in DOMAIN s |-> F[s[i]]]

\* A change of each entry commutes with appending one, and with a filter that asks for what
\* it does not change.
LEMMA MapAppend ==
  ASSUME NEW S, NEW F \in [S -> S], NEW s \in Seq(S), NEW x \in S
  PROVE  /\ Mapped(s, F) \in Seq(S)
         /\ Mapped(Append(s, x), F) = Append(Mapped(s, F), F[x])
  <1>1. /\ Len(s) \in Nat /\ DOMAIN s = 1 .. Len(s) /\ \A i \in 1 .. Len(s) : s[i] \in S
        /\ Append(s, x) \in Seq(S) /\ DOMAIN Append(s, x) = 1 .. Len(s) + 1
        /\ Len(Append(s, x)) = Len(s) + 1
        /\ \A i \in 1 .. Len(s) : Append(s, x)[i] = s[i]
        /\ Append(s, x)[Len(s) + 1] = x
    BY LenProperties, AppendProperties
  <1> DEFINE m == Mapped(s, F)
             t == Append(s, x)
             u == Mapped(t, F)
             v == Append(m, F[x])
  <1>2. m \in Seq(S) /\ Len(m) = Len(s) /\ \A i \in 1 .. Len(s) : m[i] = F[s[i]]
    BY <1>1, IsASeq DEF Mapped
  <1>3. v \in Seq(S) /\ Len(v) = Len(s) + 1 /\ (\A i \in 1 .. Len(s) : v[i] = F[s[i]]) /\ v[Len(s) + 1] = F[x]
    <2> HIDE DEF m
    <2>1. F[x] \in S
      OBVIOUS
    <2> QED BY <1>1, <1>2, <2>1, AppendProperties
  <1>4. u = [i \in 1 .. Len(s) + 1 |-> F[t[i]]]
    BY <1>1 DEF Mapped
  <1>5. u \in Seq(S) /\ Len(u) = Len(s) + 1 /\ \A i \in 1 .. Len(s) + 1 : u[i] = F[t[i]]
    <2>1. \A i \in 1 .. Len(s) + 1 : t[i] \in S
      <3>1. \A i \in 1 .. Len(t) : t[i] \in S
        BY <1>1, ElementOfSeq
      <3> QED BY <1>1, <3>1
    <2> HIDE DEF t, u
    <2>2. \A i \in 1 .. Len(s) + 1 : F[t[i]] \in S
      BY <2>1
    <2> QED BY <1>1, <1>4, <2>2, IsASeq
  <1>6. \A i \in 1 .. Len(s) + 1 : i \in 1 .. Len(s) \/ i = Len(s) + 1
    BY <1>1
  <1> HIDE DEF m, t, u, v
  <1>7. \A i \in 1 .. Len(s) + 1 : u[i] = v[i]
    BY <1>1, <1>3, <1>5, <1>6 DEF t
  <1>8. u = v
    BY <1>1, <1>3, <1>5, <1>7, SeqEqual
  <1> QED BY <1>2, <1>8 DEF m, t, u, v

LEMMA KeepMapped ==
  ASSUME NEW S, NEW F \in [S -> S], NEW G, NEW H,
         \A x \in S : F[x] \in H <=> x \in G,
         NEW s \in Seq(S)
  PROVE  Keep(Mapped(s, F), H) = Mapped(Keep(s, G), F)
  <1> DEFINE T == {u \in Seq(S) : Keep(Mapped(u, F), H) = Mapped(Keep(u, G), F)}
  <1>1. <<>> \in T
    <2>1. Mapped(<<>>, F) = <<>>
      BY DEF Mapped
    <2>2. Keep(Mapped(<<>>, F), H) = <<>> /\ Mapped(Keep(<<>>, G), F) = <<>>
      BY <2>1, OnlyOfNone
    <2>3. <<>> \in Seq(S)
      OBVIOUS
    <2> QED BY <2>2, <2>3
  <1>2. ASSUME NEW u \in Seq(S), NEW x \in S, u \in T PROVE Append(u, x) \in T
    <2>1. Keep(Mapped(u, F), H) = Mapped(Keep(u, G), F) /\ Append(u, x) \in Seq(S)
      BY <1>2, AppendProperties
    <2>2. Mapped(u, F) \in Seq(S) /\ Mapped(Append(u, x), F) = Append(Mapped(u, F), F[x]) /\ F[x] \in S
      BY MapAppend
    <2>3. Keep(u, G) \in Seq(S)
      BY KeepTypes
    <2>4. Mapped(Append(Keep(u, G), x), F) = Append(Mapped(Keep(u, G), F), F[x])
      BY <2>3, MapAppend
    <2>5. Keep(Append(Mapped(u, F), F[x]), H)
            = IF F[x] \in H THEN Append(Keep(Mapped(u, F), H), F[x]) ELSE Keep(Mapped(u, F), H)
      BY <2>2, KeepAppend
    <2>6. Keep(Append(u, x), G) = IF x \in G THEN Append(Keep(u, G), x) ELSE Keep(u, G)
      BY KeepAppend
    <2>7. F[x] \in H <=> x \in G
      OBVIOUS
    <2>8. CASE x \in G
      BY <2>1, <2>2, <2>4, <2>5, <2>6, <2>7, <2>8
    <2>9. CASE x \notin G
      BY <2>1, <2>2, <2>5, <2>6, <2>7, <2>9
    <2> QED BY <2>8, <2>9
  <1>3. s \in T
    <2> HIDE DEF T
    <2> QED BY <1>1, <1>2, ListInduction
  <1> QED BY <1>3

-----------------------------------------------------------------------------
\* What a reload would show, as one filter.  l is the chat's log, h its watermark, f
\* the filtered messages.

AllOf(l, c) == [n \in DOMAIN l |-> [chat |-> c, n |-> n, ver |-> l[n].ver]]
GoodOf(l, f, h, c) ==
    {b \in Bubble : /\ b.n \in DOMAIN l /\ ~l[b.n].gone
                     /\ <<c, b.n>> \notin f /\ l[b.n].date >= h}
Vis(l, f, h, c) == Keep(AllOf(l, c), GoodOf(l, f, h, c))

\* The log of a chat.
ChatLog(l) == l \in Seq(Message) /\ Len(l) <= MaxPosts

\* A chat's log as bubbles, one per message, at its own number.
LEMMA AllTypes ==
  ASSUME NEW c \in Chats, NEW l, ChatLog(l)
  PROVE  /\ AllOf(l, c) \in Seq(Bubble) /\ Len(AllOf(l, c)) = Len(l) /\ DOMAIN AllOf(l, c) = 1 .. Len(l)
         /\ DOMAIN l = 1 .. Len(l) /\ Len(l) \in 0 .. MaxPosts
         /\ \A i \in DOMAIN l : l[i] \in Message
         /\ \A i \in 1 .. Len(l) : AllOf(l, c)[i] = [chat |-> c, n |-> i, ver |-> l[i].ver]
  <1>1. l \in Seq(Message) /\ Len(l) \in Nat /\ DOMAIN l = 1 .. Len(l) /\ Len(l) <= MaxPosts
        /\ \A i \in 1 .. Len(l) : l[i] \in Message
    BY LenProperties, ElementOfSeq DEF ChatLog
  <1>2. \A i \in 1 .. Len(l) : [chat |-> c, n |-> i, ver |-> l[i].ver] \in Bubble
    <2> TAKE i \in 1 .. Len(l)
    <2>1. i \in 1 .. MaxPosts /\ l[i].ver \in 0 .. MaxMoves
      BY <1>1, Bounds DEF Message
    <2> QED BY <2>1 DEF Bubble
  <1>3. AllOf(l, c) = [i \in 1 .. Len(l) |-> [chat |-> c, n |-> i, ver |-> l[i].ver]]
    BY <1>1 DEF AllOf
  <1>4. /\ AllOf(l, c) \in Seq(Bubble) /\ Len(AllOf(l, c)) = Len(l) /\ DOMAIN AllOf(l, c) = 1 .. Len(l)
        /\ \A i \in 1 .. Len(l) : AllOf(l, c)[i] = [chat |-> c, n |-> i, ver |-> l[i].ver]
    <2>1. AllOf(l, c) \in Seq(Bubble)
      BY <1>1, <1>2, <1>3, IsASeq
    <2>2. DOMAIN AllOf(l, c) = 1 .. Len(l)
          /\ \A i \in 1 .. Len(l) : AllOf(l, c)[i] = [chat |-> c, n |-> i, ver |-> l[i].ver]
      BY <1>3
    <2>3. Len(AllOf(l, c)) = Len(l)
      BY <1>1, <2>1, <2>2, LenProperties
    <2> QED BY <2>1, <2>2, <2>3
  <1> QED BY <1>1, <1>4, Bounds

\* What is shown of a chat.
Fits(b, l, f, h, c) ==
    /\ b.n \in DOMAIN l /\ ~l[b.n].gone /\ b = [chat |-> c, n |-> b.n, ver |-> l[b.n].ver]
    /\ <<c, b.n>> \notin f /\ l[b.n].date >= h

\* A bubble that a reload shows is of a message that is there, recent enough and not filtered.
LEMMA VisTypes ==
  ASSUME NEW c \in Chats, NEW l, ChatLog(l), NEW f, NEW h
  PROVE  /\ Vis(l, f, h, c) \in Seq(Bubble)
         /\ \A i \in DOMAIN Vis(l, f, h, c) : Fits(Vis(l, f, h, c)[i], l, f, h, c)
  <1> DEFINE V == Vis(l, f, h, c)
  <1>1. /\ V \in Seq(Bubble)
        /\ \A j \in DOMAIN V : V[j] \in GoodOf(l, f, h, c) /\ \E i \in DOMAIN AllOf(l, c) : V[j] = AllOf(l, c)[i]
    BY AllTypes, KeepTypes DEF Vis
  <1>2. ASSUME NEW j \in DOMAIN V PROVE Fits(V[j], l, f, h, c)
    <2> HIDE DEF V
    <2>1. PICK i \in DOMAIN AllOf(l, c) : V[j] = AllOf(l, c)[i]
      BY <1>1, <1>2
    <2>2. i \in 1 .. Len(l) /\ DOMAIN l = 1 .. Len(l)
      BY <2>1, AllTypes
    <2>3. AllOf(l, c)[i] = [chat |-> c, n |-> i, ver |-> l[i].ver]
      BY <2>2, AllTypes
    <2> QED BY <1>1, <1>2, <2>1, <2>2, <2>3 DEF GoodOf, Fits
  <1> QED BY <1>1, <1>2

\* What the model calls Visible is the filter Vis, before and after a step.
LEMMA VisibleIs == LogOK => \A c \in Chats : ChatLog(log[c]) /\ Visible(c) = Vis(log[c], filtered, hide[c], c)
  <1> SUFFICES ASSUME LogOK, NEW c \in Chats
               PROVE  ChatLog(log[c]) /\ Visible(c) = Vis(log[c], filtered, hide[c], c)
    OBVIOUS
  <1> DEFINE all == AllOf(log[c], c)
             Here == {b \in Bubble : b.n \in DOMAIN log[c] /\ ~log[c][b.n].gone}
             Pass == {b \in Bubble : Passes(b, hide[c])}
  <1>1. ChatLog(log[c])
    BY DEF LogOK, ChatLog
  <1>2. /\ all \in Seq(Bubble) /\ DOMAIN all = DOMAIN log[c]
        /\ \A i \in DOMAIN all : all[i] \in Bubble /\ all[i].n = i /\ all[i].chat = c
    <2>1. all \in Seq(Bubble) /\ DOMAIN all = DOMAIN log[c]
          /\ \A i \in DOMAIN all : all[i] = [chat |-> c, n |-> i, ver |-> log[c][i].ver]
      BY <1>1, AllTypes
    <2> HIDE DEF all
    <2>2. \A i \in DOMAIN all : all[i] \in Bubble
      BY <2>1, LenProperties, ElementOfSeq
    <2>3. ASSUME NEW i \in DOMAIN all PROVE all[i].n = i /\ all[i].chat = c
      <3>1. all[i] = [chat |-> c, n |-> i, ver |-> log[c][i].ver]
        BY <2>1
      <3> QED BY <3>1
    <2> QED BY <2>1, <2>2, <2>3
  <1>3. History(c) = Keep(all, Here)
    <2>1. [n \in DOMAIN log[c] |-> BubbleOf(c, n)] = all
      BY DEF AllOf, BubbleOf
    <2>2. {n \in DOMAIN log[c] : ~log[c][n].gone} = {i \in DOMAIN all : all[i] \in Here}
      <3> HIDE DEF all
      <3> QED BY <1>2
    <2> QED BY <2>1, <2>2 DEF History, Keep
  <1>4. \A s \in Seq(Bubble) : Passing(s, hide[c]) = Keep(s, Pass)
    <2> TAKE s \in Seq(Bubble)
    <2>1. \A i \in DOMAIN s : s[i] \in Bubble
      BY LenProperties, ElementOfSeq
    <2>2. {i \in DOMAIN s : Passes(s[i], hide[c])} = {i \in DOMAIN s : s[i] \in Pass}
      BY <2>1
    <2> QED BY <2>2 DEF Passing, Keep
  <1> HIDE DEF all, Here, Pass
  <1>5. Visible(c) = Keep(all, Here \cap Pass)
    BY <1>2, <1>3, <1>4, KeepTypes, KeepTwice DEF Visible
  <1>6. \A i \in DOMAIN all : all[i] \in Here \cap Pass <=> all[i] \in GoodOf(log[c], filtered, hide[c], c)
    BY <1>2 DEF Here, Pass, GoodOf, Passes
  <1>7. Keep(all, Here \cap Pass) = Keep(all, GoodOf(log[c], filtered, hide[c], c))
    BY <1>2, <1>6, KeepSame
  <1> QED BY <1>1, <1>5, <1>7 DEF Vis, all

LEMMA VisibleIsNext ==
  LogOK' => \A c \in Chats : ChatLog(log'[c]) /\ Visible(c)' = Vis(log'[c], filtered', hide'[c], c)
  <1>1. (LogOK => \A c \in Chats : ChatLog(log[c]) /\ Visible(c) = Vis(log[c], filtered, hide[c], c))'
    BY VisibleIs, PTL
  <1> QED BY <1>1

\* A post appends its message, if the watermark lets it pass.
LEMMA VisPost ==
  ASSUME NEW c \in Chats, NEW l, ChatLog(l), NEW f, NEW h, NEW m \in Message, ~m.gone,
         ChatLog(Append(l, m)), <<c, Len(l) + 1>> \notin f
  PROVE  Vis(Append(l, m), f, h, c)
            = IF m.date >= h THEN Append(Vis(l, f, h, c), [chat |-> c, n |-> Len(l) + 1, ver |-> m.ver])
              ELSE Vis(l, f, h, c)
  <1> DEFINE k == Append(l, m)
             N == Len(l)
             b == [chat |-> c, n |-> N + 1, ver |-> m.ver]
  <1>1. /\ N \in Nat /\ DOMAIN l = 1 .. N /\ Len(k) = N + 1 /\ DOMAIN k = 1 .. N + 1
        /\ \A i \in 1 .. N : k[i] = l[i]
        /\ k[N + 1] = m
    <2>1. l \in Seq(Message) /\ k \in Seq(Message)
      BY DEF ChatLog
    <2> QED BY <2>1, LenProperties, AppendProperties
  <1>2. b \in Bubble
    <2>1. N + 1 \in 1 .. MaxPosts /\ m.ver \in 0 .. MaxMoves
      <3>1. Len(k) <= MaxPosts
        BY DEF ChatLog
      <3> QED BY <1>1, <3>1, Bounds DEF Message
    <2> QED BY <2>1 DEF Bubble
  <1> HIDE DEF k, N, b
  <1>3. ChatLog(k)
    BY DEF k
  <1>4. /\ AllOf(l, c) \in Seq(Bubble) /\ Len(AllOf(l, c)) = N
        /\ \A i \in 1 .. N : AllOf(l, c)[i] = [chat |-> c, n |-> i, ver |-> l[i].ver]
    BY AllTypes DEF N
  <1>5. /\ AllOf(k, c) \in Seq(Bubble) /\ Len(AllOf(k, c)) = N + 1
        /\ \A i \in 1 .. N + 1 : AllOf(k, c)[i] = [chat |-> c, n |-> i, ver |-> k[i].ver]
    <2>1. /\ AllOf(k, c) \in Seq(Bubble) /\ Len(AllOf(k, c)) = Len(k)
          /\ \A i \in 1 .. Len(k) : AllOf(k, c)[i] = [chat |-> c, n |-> i, ver |-> k[i].ver]
      BY <1>3, AllTypes
    <2> QED BY <1>1, <2>1
  <1>6. AllOf(k, c) = Append(AllOf(l, c), b)
    <2> DEFINE u == AllOf(k, c)
               v == Append(AllOf(l, c), b)
    <2>1. /\ v \in Seq(Bubble) /\ Len(v) = N + 1 /\ v[N + 1] = b
          /\ \A i \in 1 .. N : v[i] = AllOf(l, c)[i]
      BY <1>2, <1>4, AppendProperties
    <2>2. u \in Seq(Bubble) /\ Len(u) = N + 1
      BY <1>5
    <2>3. u[N + 1] = b
      <3>1. N + 1 \in 1 .. N + 1
        BY <1>1
      <3>2. u[N + 1] = [chat |-> c, n |-> N + 1, ver |-> k[N + 1].ver]
        BY <1>5, <3>1
      <3> QED BY <1>1, <3>2 DEF b
    <2>4. ASSUME NEW i \in 1 .. N PROVE u[i] = v[i]
      <3>1. i \in 1 .. N + 1
        BY <1>1
      <3>2. u[i] = [chat |-> c, n |-> i, ver |-> k[i].ver]
        BY <1>5, <3>1
      <3>3. v[i] = [chat |-> c, n |-> i, ver |-> l[i].ver]
        BY <1>4, <2>1
      <3> QED BY <1>1, <3>2, <3>3
    <2>5. \A i \in 1 .. N + 1 : i \in 1 .. N \/ i = N + 1
      BY <1>1
    <2> HIDE DEF u, v
    <2>6. \A i \in 1 .. Len(u) : u[i] = v[i]
      BY <2>1, <2>2, <2>3, <2>4, <2>5
    <2>7. u = v
      BY <2>1, <2>2, <2>6, SeqEqual
    <2> QED BY <2>7 DEF u, v
  <1>7. Keep(AllOf(l, c), GoodOf(k, f, h, c)) = Keep(AllOf(l, c), GoodOf(l, f, h, c))
    <2>1. \A i \in DOMAIN AllOf(l, c) :
             AllOf(l, c)[i] \in GoodOf(k, f, h, c) <=> AllOf(l, c)[i] \in GoodOf(l, f, h, c)
      <3> TAKE i \in DOMAIN AllOf(l, c)
      <3>1. i \in 1 .. N
        BY AllTypes DEF N
      <3>2. AllOf(l, c)[i].n = i
        <4>1. AllOf(l, c)[i] = [chat |-> c, n |-> i, ver |-> l[i].ver]
          BY <1>4, <3>1
        <4> QED BY <4>1
      <3>3. i \in DOMAIN l /\ i \in DOMAIN k /\ k[i] = l[i]
        BY <1>1, <3>1
      <3> QED BY <3>2, <3>3 DEF GoodOf
    <2> QED BY <1>4, <2>1, KeepSame
  <1>8. b \in GoodOf(k, f, h, c) <=> m.date >= h
    <2>1. N + 1 \in DOMAIN k /\ b.n = N + 1 /\ k[N + 1] = m /\ <<c, N + 1>> \notin f
      BY <1>1 DEF b, N
    <2> QED BY <1>2, <2>1 DEF GoodOf
  <1>9. Vis(k, f, h, c) = IF b \in GoodOf(k, f, h, c)
                         THEN Append(Keep(AllOf(l, c), GoodOf(k, f, h, c)), b)
                         ELSE Keep(AllOf(l, c), GoodOf(k, f, h, c))
    BY <1>2, <1>4, <1>6, KeepAppend DEF Vis
  <1> QED BY <1>7, <1>8, <1>9 DEF Vis, k, b, N

\* An edit patches its bubble.
LEMMA VisEdit ==
  ASSUME NEW c \in Chats, NEW l, ChatLog(l), NEW f, NEW h, NEW n \in DOMAIN l, NEW m \in Message,
         m.gone = l[n].gone, m.date = l[n].date
  PROVE  LET b == [chat |-> c, n |-> n, ver |-> m.ver]
             V == Vis(l, f, h, c) IN
         Vis([l EXCEPT ![n] = m], f, h, c) = [i \in DOMAIN V |-> IF V[i].n = b.n THEN b ELSE V[i]]
  <1> DEFINE k == [l EXCEPT ![n] = m]
             b == [chat |-> c, n |-> n, ver |-> m.ver]
             F == [x \in Bubble |-> IF x.n = n THEN b ELSE x]
             A == AllOf(l, c)
             V == Vis(l, f, h, c)
  <1>1. /\ DOMAIN l = 1 .. Len(l) /\ Len(l) \in 0 .. MaxPosts /\ l \in Seq(Message) /\ n \in 1 .. Len(l)
    BY AllTypes DEF ChatLog
  <1>2. /\ k \in Seq(Message) /\ Len(k) = Len(l) /\ DOMAIN k = DOMAIN l
        /\ \A i \in 1 .. Len(l) : k[i] = IF i = n THEN m ELSE l[i]
    BY <1>1, ExceptSeq
  <1>3. ChatLog(k)
    <2> HIDE DEF k
    <2> QED BY <1>2 DEF ChatLog
  <1>4. b \in Bubble /\ b.n = n /\ b.chat = c
    <2>1. n \in 1 .. MaxPosts /\ m.ver \in 0 .. MaxMoves
      BY <1>1, Bounds DEF Message
    <2> QED BY <2>1 DEF Bubble
  <1> HIDE DEF k
  <1>5. F \in [Bubble -> Bubble]
    <2> HIDE DEF b
    <2> QED BY <1>4
  <1>6. A \in Seq(Bubble) /\ DOMAIN A = 1 .. Len(l) /\ Len(A) = Len(l) /\ Len(l) \in Nat
        /\ \A i \in 1 .. Len(l) : A[i] = [chat |-> c, n |-> i, ver |-> l[i].ver] /\ A[i] \in Bubble
    <2>1. A \in Seq(Bubble) /\ DOMAIN A = 1 .. Len(l) /\ Len(A) = Len(l)
      BY AllTypes
    <2>2. \A i \in 1 .. Len(l) : A[i] = [chat |-> c, n |-> i, ver |-> l[i].ver]
      BY AllTypes
    <2>3. \A i \in 1 .. Len(l) : A[i] \in Bubble
      <3> HIDE DEF A
      <3> QED BY <2>1, ElementOfSeq
    <2> HIDE DEF A
    <2> QED BY <1>1, <2>1, <2>2, <2>3
  <1>7. AllOf(k, c) \in Seq(Bubble) /\ Len(AllOf(k, c)) = Len(l) /\ DOMAIN AllOf(k, c) = 1 .. Len(l)
        /\ \A i \in 1 .. Len(l) : AllOf(k, c)[i] = [chat |-> c, n |-> i, ver |-> k[i].ver]
    BY <1>2, <1>3, AllTypes
  <1> HIDE DEF A
  <1>8. AllOf(k, c) = Mapped(A, F)
    <2>1. ASSUME NEW i \in 1 .. Len(l) PROVE AllOf(k, c)[i] = F[A[i]]
      <3>1. A[i] \in Bubble /\ A[i] = [chat |-> c, n |-> i, ver |-> l[i].ver]
        BY <1>6
      <3>2. F[A[i]] = IF i = n THEN b ELSE A[i]
        <4> HIDE DEF b
        <4> QED BY <3>1
      <3>3. AllOf(k, c)[i] = [chat |-> c, n |-> i, ver |-> (IF i = n THEN m ELSE l[i]).ver]
        BY <1>2, <1>7
      <3>4. CASE i = n
        BY <3>2, <3>3, <3>4
      <3>5. CASE i # n
        BY <3>1, <3>2, <3>3, <3>5
      <3> QED BY <3>4, <3>5
    <2>2. AllOf(k, c) = [i \in 1 .. Len(l) |-> AllOf(k, c)[i]]
      BY <1>1, <1>2, AllTypes DEF AllOf
    <2> HIDE DEF F
    <2>3. [i \in 1 .. Len(l) |-> AllOf(k, c)[i]] = [i \in 1 .. Len(l) |-> F[A[i]]]
      BY <2>1
    <2> QED BY <1>6, <2>2, <2>3 DEF Mapped
  <1>9. \A x \in Bubble : F[x] \in GoodOf(k, f, h, c) <=> x \in GoodOf(l, f, h, c)
    <2> TAKE x \in Bubble
    <2>1. F[x] \in Bubble /\ F[x].n = x.n
      <3> HIDE DEF b
      <3> QED BY <1>4
    <2>2. DOMAIN k = DOMAIN l
          /\ \A i \in DOMAIN l : k[i].gone = l[i].gone /\ k[i].date = l[i].date
      BY <1>1, <1>2
    <2> HIDE DEF F
    <2> QED BY <2>1, <2>2 DEF GoodOf
  <1>10. Vis(k, f, h, c) = Mapped(V, F)
    <2> HIDE DEF F
    <2> DEFINE Gk == GoodOf(k, f, h, c)
               Gl == GoodOf(l, f, h, c)
    <2>1. \A x \in Bubble : F[x] \in Gk <=> x \in Gl
      BY <1>9
    <2> HIDE DEF Gk, Gl
    <2>2. A \in Seq(Bubble)
      BY <1>6
    <2>3. Keep(Mapped(A, F), Gk) = Mapped(Keep(A, Gl), F)
      BY <1>5, <2>1, <2>2, KeepMapped
    <2> QED BY <1>8, <2>3 DEF Vis, A, Gk, Gl
  <1>11. Mapped(V, F) = [i \in DOMAIN V |-> IF V[i].n = b.n THEN b ELSE V[i]]
    <2>1. \A i \in DOMAIN V : V[i] \in Bubble
      <3>1. V \in Seq(Bubble)
        BY VisTypes
      <3> HIDE DEF V
      <3> QED BY <3>1, LenProperties, ElementOfSeq
    <2> HIDE DEF V, b
    <2>2. \A i \in DOMAIN V : F[V[i]] = IF V[i].n = b.n THEN b ELSE V[i]
      BY <1>4, <2>1
    <2> HIDE DEF F
    <2> QED BY <2>2 DEF Mapped
  <1> QED BY <1>10, <1>11 DEF k

\* What the tab does to a list of bubbles when it learns of an edit or of a deletion.
Patch(s, b) == [i \in DOMAIN s |-> IF s[i].n = b.n THEN b ELSE s[i]]
Drop(s, n) == Only(s, {i \in DOMAIN s : s[i].n # n})
NotAt(n) == {b \in Bubble : b.n # n}

\* A drop is a filter; doing it twice, or for a message that is not in the list, changes nothing.
LEMMA DropKeeps ==
  ASSUME NEW s \in Seq(Bubble), NEW n
  PROVE  Drop(s, n) = Keep(s, NotAt(n)) /\ Drop(s, n) \in Seq(Bubble)
  <1>1. \A i \in DOMAIN s : s[i] \in Bubble
    BY LenProperties, ElementOfSeq
  <1>2. {i \in DOMAIN s : s[i].n # n} = {i \in DOMAIN s : s[i] \in NotAt(n)}
    BY <1>1 DEF NotAt
  <1>3. Drop(s, n) = Keep(s, NotAt(n))
    BY <1>2 DEF Drop, Keep
  <1> QED BY <1>3, KeepTypes

LEMMA DropTwice ==
  ASSUME NEW s \in Seq(Bubble), NEW n
  PROVE  Drop(Drop(s, n), n) = Drop(s, n)
  <1> DEFINE G == NotAt(n)
  <1>1. Drop(s, n) = Keep(s, G) /\ Keep(s, G) \in Seq(Bubble)
    BY DropKeeps
  <1>2. Drop(Keep(s, G), n) = Keep(Keep(s, G), G)
    BY <1>1, DropKeeps
  <1>3. Keep(Keep(s, G), G) = Keep(s, G \cap G)
    BY KeepTwice
  <1>4. G \cap G = G
    OBVIOUS
  <1> HIDE DEF G
  <1> QED BY <1>1, <1>2, <1>3, <1>4

LEMMA DropNone ==
  ASSUME NEW s \in Seq(Bubble), NEW n, \A i \in DOMAIN s : s[i].n # n
  PROVE  Drop(s, n) = s
  <1>1. \A i \in DOMAIN s : s[i] \in Bubble
    BY LenProperties, ElementOfSeq
  <1>2. \A i \in DOMAIN s : s[i] \in NotAt(n) <=> s[i] \in Bubble
    BY <1>1 DEF NotAt
  <1>3. Keep(s, NotAt(n)) = Keep(s, Bubble)
    BY <1>2, KeepSame
  <1> QED BY <1>3, DropKeeps, KeepAll

\* A patch of what the list has already, or has not at all, changes nothing; nor does a second one.
LEMMA PatchNone ==
  ASSUME NEW s \in Seq(Bubble), NEW b, \A i \in DOMAIN s : s[i].n = b.n => s[i] = b
  PROVE  Patch(s, b) = s
  <1>1. Len(s) \in Nat /\ DOMAIN s = 1 .. Len(s) /\ s = [i \in DOMAIN s |-> s[i]]
    BY LenProperties
  <1>2. \A i \in DOMAIN s : (IF s[i].n = b.n THEN b ELSE s[i]) = s[i]
    OBVIOUS
  <1>3. Patch(s, b) = [i \in DOMAIN s |-> s[i]]
    BY <1>2 DEF Patch
  <1> QED BY <1>1, <1>3

LEMMA PatchTwice ==
  ASSUME NEW s, NEW b
  PROVE  Patch(Patch(s, b), b) = Patch(s, b)
  <1> DEFINE p == Patch(s, b)
  <1>1. DOMAIN p = DOMAIN s /\ \A i \in DOMAIN s : p[i] = IF s[i].n = b.n THEN b ELSE s[i]
    BY DEF Patch
  <1>2. \A i \in DOMAIN s : (IF p[i].n = b.n THEN b ELSE p[i]) = p[i]
    BY <1>1
  <1>3. Patch(p, b) = [i \in DOMAIN s |-> p[i]]
    <2> HIDE DEF p
    <2> QED BY <1>1, <1>2 DEF Patch
  <1>4. p = [i \in DOMAIN s |-> p[i]]
    BY DEF Patch
  <1> HIDE DEF p
  <1>5. Patch(p, b) = p
    BY <1>3, <1>4
  <1> QED BY <1>5 DEF p

\* A deletion drops its bubble.
LEMMA VisDelete ==
  ASSUME NEW c \in Chats, NEW l, ChatLog(l), NEW f, NEW h, NEW n \in DOMAIN l, NEW m \in Message,
         m.gone, m.ver = l[n].ver
  PROVE  Vis([l EXCEPT ![n] = m], f, h, c) = Drop(Vis(l, f, h, c), n)
  <1> DEFINE k == [l EXCEPT ![n] = m]
             A == AllOf(l, c)
             Gk == GoodOf(k, f, h, c)
             Gl == GoodOf(l, f, h, c)
  <1>1. /\ DOMAIN l = 1 .. Len(l) /\ Len(l) \in 0 .. MaxPosts /\ l \in Seq(Message) /\ n \in 1 .. Len(l)
    BY AllTypes DEF ChatLog
  <1>2. /\ k \in Seq(Message) /\ Len(k) = Len(l) /\ DOMAIN k = DOMAIN l
        /\ \A i \in DOMAIN l : k[i] = IF i = n THEN m ELSE l[i]
    BY <1>1, ExceptSeq
  <1> HIDE DEF k
  <1>3. AllOf(k, c) = A
    <2>1. \A i \in DOMAIN l : k[i].ver = l[i].ver
      BY <1>2
    <2> QED BY <1>2, <2>1 DEF AllOf
  <1>4. A \in Seq(Bubble) /\ \A i \in DOMAIN A : A[i] \in Bubble /\ i \in DOMAIN l /\ A[i].n = i
    <2>1. A \in Seq(Bubble) /\ DOMAIN A = DOMAIN l
      BY AllTypes
    <2>2. ASSUME NEW i \in DOMAIN l PROVE A[i].n = i
      <3>1. A[i] = [chat |-> c, n |-> i, ver |-> l[i].ver]
        BY DEF AllOf
      <3> HIDE DEF A
      <3> QED BY <3>1
    <2> HIDE DEF A
    <2>3. \A i \in DOMAIN A : A[i] \in Bubble
      BY <2>1, LenProperties, ElementOfSeq
    <2> QED BY <2>1, <2>2, <2>3
  <1>5. \A i \in DOMAIN A : A[i] \in Gk <=> A[i] \in Gl \cap NotAt(n)
    <2> TAKE i \in DOMAIN A
    <2>1. A[i] \in Bubble /\ A[i].n = i /\ i \in DOMAIN l /\ i \in DOMAIN k
      BY <1>2, <1>4
    <2>2. i = n => k[i].gone
      BY <1>2
    <2>3. i # n => k[i] = l[i]
      BY <1>2, <2>1
    <2> HIDE DEF A
    <2>4. A[i] \in NotAt(n) <=> i # n
      BY <2>1 DEF NotAt
    <2>5. A[i] \in Gk <=> /\ ~k[i].gone /\ <<c, i>> \notin f /\ k[i].date >= h
      BY <2>1 DEF GoodOf
    <2>6. A[i] \in Gl <=> /\ ~l[i].gone /\ <<c, i>> \notin f /\ l[i].date >= h
      BY <2>1 DEF GoodOf
    <2> HIDE DEF Gk, Gl
    <2> QED BY <2>2, <2>3, <2>4, <2>5, <2>6
  <1> HIDE DEF A, Gk, Gl
  <1>6. Keep(A, Gk) = Keep(A, Gl \cap NotAt(n))
    BY <1>4, <1>5, KeepSame
  <1>7. Keep(A, Gl \cap NotAt(n)) = Keep(Keep(A, Gl), NotAt(n)) /\ Keep(A, Gl) \in Seq(Bubble)
    BY <1>4, KeepTwice, KeepTypes
  <1>8. Drop(Keep(A, Gl), n) = Keep(Keep(A, Gl), NotAt(n))
    BY <1>7, DropKeeps
  <1> QED BY <1>3, <1>6, <1>7, <1>8 DEF Vis, k, A, Gk, Gl

\* So does the record of a command.
LEMMA VisFilter ==
  ASSUME NEW c \in Chats, NEW l, ChatLog(l), NEW f, NEW h, NEW n
  PROVE  Vis(l, f \cup {<<c, n>>}, h, c) = Drop(Vis(l, f, h, c), n)
  <1> DEFINE A == AllOf(l, c)
             Gk == GoodOf(l, f \cup {<<c, n>>}, h, c)
             Gl == GoodOf(l, f, h, c)
  <1>1. A \in Seq(Bubble)
    BY AllTypes
  <1>2. Gk = Gl \cap NotAt(n)
    <2>1. \A b \in Bubble : <<c, b.n>> \in f \cup {<<c, n>>} <=> <<c, b.n>> \in f \/ b.n = n
      OBVIOUS
    <2> QED BY <2>1 DEF GoodOf, NotAt
  <1> HIDE DEF A, Gk, Gl
  <1>3. Keep(A, Gk) = Keep(Keep(A, Gl), NotAt(n)) /\ Keep(A, Gl) \in Seq(Bubble)
    BY <1>1, <1>2, KeepTwice, KeepTypes
  <1>4. Drop(Keep(A, Gl), n) = Keep(Keep(A, Gl), NotAt(n))
    BY <1>3, DropKeeps
  <1> QED BY <1>3, <1>4 DEF Vis, A, Gk, Gl

\* Another chat's record says nothing of this one.
LEMMA VisOther ==
  ASSUME NEW c \in Chats, NEW l, NEW f, NEW h, NEW d, NEW n, d # c
  PROVE  Vis(l, f \cup {<<d, n>>}, h, c) = Vis(l, f, h, c)
  <1>1. \A b \in Bubble : <<c, b.n>> \in f \cup {<<d, n>>} <=> <<c, b.n>> \in f
    OBVIOUS
  <1>2. GoodOf(l, f \cup {<<d, n>>}, h, c) = GoodOf(l, f, h, c)
    BY <1>1 DEF GoodOf
  <1> QED BY <1>2 DEF Vis

\* A watermark later than every message hides all of them.
LEMMA VisHidden ==
  ASSUME NEW c \in Chats, NEW l, ChatLog(l), NEW f, NEW h, \A n \in DOMAIN l : ~(l[n].date >= h)
  PROVE  Vis(l, f, h, c) = <<>>
  <1>1. GoodOf(l, f, h, c) = {}
    BY DEF GoodOf
  <1>2. Vis(l, f, h, c) = Keep(AllOf(l, c), {})
    BY <1>1 DEF Vis
  <1> QED BY <1>2, AllTypes, KeepNothing

-----------------------------------------------------------------------------
\* What the bubbles lack while the one thing that happened is on its way to the tab.  w is
\* what the tab shows and what a reload is made of.

View == [open |-> active, list |-> msgs, echoes |-> echoes,
         log |-> log, on |-> enabled, hide |-> hide, filtered |-> filtered]
BubbleIn(w, c, n) == [chat |-> c, n |-> n, ver |-> w.log[c][n].ver]
Seen(w, c) == Vis(w.log[c], w.filtered, w.hide[c], c)
Hist(l, c) == Only([n \in DOMAIN l |-> [chat |-> c, n |-> n, ver |-> l[n].ver]],
                   {n \in DOMAIN l : ~l[n].gone})
Recent(w, c, n) == w.log[c][n].date >= w.hide[c]

\* The bubbles are what a reload would show.
Exact(w) == w.open = None \/ (w.on[w.open] /\ w.list = Seen(w, w.open))

\* They are but for a post, an edit, a deletion or a command, message <<c, n>>.
Elsewhere(w, c) == c # w.open => Exact(w)
NewDue(w, c, n) ==
    /\ w.log[c][n].ver = 0
    /\ Elsewhere(w, c)
    /\ c = w.open => /\ w.on[c]
                     /\ Seen(w, c) = IF <<c, n>> \notin w.echoes /\ Recent(w, c, n)
                                     THEN Append(w.list, BubbleIn(w, c, n)) ELSE w.list
EditDue(w, c, n) ==
    /\ Elsewhere(w, c)
    /\ c = w.open => w.on[c] /\ Seen(w, c) = Patch(w.list, BubbleIn(w, c, n))
DeleteDue(w, c, n) ==
    /\ Elsewhere(w, c)
    /\ c = w.open => w.on[c] /\ Seen(w, c) = Drop(w.list, n)
CommandDue(w, c, n, at) ==
    /\ Elsewhere(w, c)
    /\ c = w.open /\ at = "filter" => w.on[c] /\ w.list = Drop(Seen(w, c), n)
    /\ c = w.open /\ at = "row" => Exact(w)
ClearDue(w, c) ==
    w.open # None => /\ w.on[w.open]
                     /\ IF c = w.open THEN Seen(w, c) = <<>> ELSE Exact(w)
LoadDue(w, r) ==
    /\ r.chat = w.open
    /\ r.at \in {"checked", "called", "ok"} => w.on[r.chat] /\ r.hide = w.hide[r.chat]
    /\ r.at = "called" => r.list = Hist(w.log[r.chat], r.chat)
    /\ r.at = "ok" => r.list = Seen(w, r.chat)

CalmTask(w, t) ==
    /\ t.n \in DOMAIN w.log[t.chat]
    /\ t.kind = "new" => NewDue(w, t.chat, t.n)
    /\ t.kind = "new" /\ t.at = "emit" => Recent(w, t.chat, t.n)
    /\ t.kind = "command" => CommandDue(w, t.chat, t.n, t.at)
    /\ t.kind = "edit" => /\ w.log[t.chat][t.n].kind = "text" /\ t.ver = w.log[t.chat][t.n].ver
                          /\ EditDue(w, t.chat, t.n)
    /\ t.kind = "delete" => DeleteDue(w, t.chat, t.n)
CalmFrame(w, f) ==
    /\ f.event = "new" => NewDue(w, f.chat, f.n) /\ Recent(w, f.chat, f.n)
    /\ f.event = "edited" => f.ver = w.log[f.chat][f.n].ver /\ EditDue(w, f.chat, f.n)
    /\ f.event = "deleted" => DeleteDue(w, f.chat, f.n)
    /\ f.event = "removed" => Elsewhere(w, f.chat)
CalmCall(w, r) ==
    /\ r.op = "load" => LoadDue(w, r)
    /\ r.op \in {"send", "edit", "delete"} => r.chat = w.open
    /\ r.op # "load" /\ r.at # "ok" => Exact(w)
    /\ r.op = "send" => r.ver = 0
    /\ r.op = "send" /\ r.at = "ok" => <<r.chat, r.n>> \notin w.echoes /\ NewDue(w, r.chat, r.n)
    /\ r.op = "edit" /\ r.at = "ok" => r.ver = w.log[r.chat][r.n].ver /\ EditDue(w, r.chat, r.n)
    /\ r.op = "delete" /\ r.at = "ok" => DeleteDue(w, r.chat, r.n)
    /\ r.op = "clear" /\ r.at = "ok" => ClearDue(w, r.chat)

\* An event on its way while a call is under way is the call's own.
Own(r, k, c, n) ==
    /\ r.at = "ok" /\ r.chat = c /\ r.n = n
    /\ \/ r.op = "send" /\ k = "new"
       \/ r.op = "edit" /\ k \in {"edit", "edited"}
       \/ r.op = "delete" /\ k \in {"delete", "deleted"}

\* The calls R, the handlers T and the frames W of a calm state.
Alone(R) == \A s, q \in Slots : R[s] # Idle /\ R[q] # Idle => s = q
OneEvent(T, W) == /\ \A t, u \in T : t = u
                  /\ Len(W) <= 1
                  /\ T # {} => W = <<>>
OwnEvents(T, W, R) ==
    \A s \in Slots : R[s] # Idle =>
        /\ \A t \in T : Own(R[s], t.kind, t.chat, t.n)
        /\ \A i \in DOMAIN W : Own(R[s], W[i].event, W[i].chat, W[i].n)
Resting(R) == \A s \in Slots : R[s] = Idle
CallsDue(w, R) == \A s \in Slots : R[s] # Idle => CalmCall(w, R[s])
Calm(w, T, W, R) ==
    /\ Alone(R) /\ OneEvent(T, W) /\ OwnEvents(T, W, R)
    /\ \A t \in T : CalmTask(w, t)
    /\ \A i \in DOMAIN W : CalmFrame(w, W[i])
    /\ CallsDue(w, R)
    /\ T = {} /\ W = <<>> /\ Resting(R) => Exact(w)

\* What the tab has sent was posted, and nothing was posted later than now.
Pasts ==
    /\ \A m \in echoes : m[2] \in DOMAIN log[m[1]]
    /\ \A s \in Slots : rpc[s].op = "send" /\ rpc[s].at = "ok" => rpc[s].n \in DOMAIN log[rpc[s].chat]
    /\ \A c \in Chats : \A n \in DOMAIN log[c] : log[c][n].date <= now
CalmInv == calm => Calm(View, tasks, wire, rpc)

-----------------------------------------------------------------------------
\* The calm states: nothing on its way, a handler, or a frame.

\* How a state is shown to be calm: nothing on its way, one handler, or one frame.
LEMMA QuietIs ==
  ASSUME NEW w, NEW R, Alone(R), CallsDue(w, R), Resting(R) => Exact(w)
  PROVE  Calm(w, {}, <<>>, R)
  <1>1. OneEvent({}, <<>>) /\ OwnEvents({}, <<>>, R)
    BY DEF OneEvent, OwnEvents
  <1> QED BY <1>1 DEF Calm

LEMMA HandlerIs ==
  ASSUME NEW w, NEW R, NEW t, Alone(R), CallsDue(w, R), CalmTask(w, t),
         \A s \in Slots : R[s] # Idle => Own(R[s], t.kind, t.chat, t.n)
  PROVE  Calm(w, {t}, <<>>, R)
  <1>1. OneEvent({t}, <<>>) /\ OwnEvents({t}, <<>>, R)
    BY DEF OneEvent, OwnEvents
  <1> QED BY <1>1 DEF Calm

LEMMA FrameIs ==
  ASSUME NEW w, NEW R, NEW f, Alone(R), CallsDue(w, R), CalmFrame(w, f),
         \A s \in Slots : R[s] # Idle => Own(R[s], f.event, f.chat, f.n)
  PROVE  Calm(w, {}, <<f>>, R)
  <1>0. Len(<<f>>) = 1 /\ DOMAIN <<f>> = {1} /\ <<f>>[1] = f /\ <<f>> # <<>>
    OBVIOUS
  <1> DEFINE W == <<f>>
  <1> HIDE DEF W
  <1>1. Len(W) = 1 /\ DOMAIN W = {1} /\ W[1] = f /\ W # <<>>
    BY <1>0 DEF W
  <1>2. OneEvent({}, W) /\ OwnEvents({}, W, R)
    BY <1>1 DEF OneEvent, OwnEvents
  <1>3. Calm(w, {}, W, R)
    BY <1>1, <1>2 DEF Calm
  <1> QED BY <1>3 DEF W

\* In a calm state a handler, or a frame, is the only event on its way.
LEMMA HandlerAlone ==
  ASSUME NEW w, NEW T, NEW W, NEW R, Calm(w, T, W, R), NEW t \in T
  PROVE  /\ T = {t} /\ W = <<>> /\ CalmTask(w, t) /\ Alone(R) /\ CallsDue(w, R)
         /\ \A s \in Slots : R[s] # Idle => Own(R[s], t.kind, t.chat, t.n)
  BY DEF Calm, OneEvent, OwnEvents

LEMMA FrameAlone ==
  ASSUME NEW w, NEW T, NEW W \in Seq(Frames), NEW R, Calm(w, T, W, R), W # <<>>
  PROVE  /\ T = {} /\ Tail(W) = <<>> /\ CalmFrame(w, Head(W)) /\ Alone(R) /\ CallsDue(w, R)
         /\ W = <<Head(W)>>
         /\ \A s \in Slots : R[s] # Idle => Own(R[s], Head(W).event, Head(W).chat, Head(W).n)
  <1>1. Len(W) = 1 /\ T = {}
    <2>1. Len(W) <= 1 /\ T = {}
      BY DEF Calm, OneEvent
    <2>2. Len(W) \in Nat /\ Len(W) # 0
      BY EmptySeq, LenProperties
    <2>3. PICK n \in Nat : n = Len(W)
      BY <2>2
    <2>4. n <= 1 /\ n # 0
      BY <2>1, <2>2, <2>3
    <2>5. n = 1
      BY <2>4
    <2> QED BY <2>1, <2>3, <2>5
  <1>2. DOMAIN W = 1 .. 1 /\ 1 \in DOMAIN W /\ Head(W) = W[1]
    BY <1>1, LenProperties
  <1>3. Tail(W) = <<>>
    <2>1. Tail(W) \in Seq(Frames) /\ Len(Tail(W)) = Len(W) - 1
      BY HeadTailProperties
    <2>2. Len(Tail(W)) = 0
      BY <1>1, <2>1
    <2> QED BY <2>1, <2>2, EmptySeq
  <1>4. W = <<Head(W)>>
    BY <1>1, <1>2
  <1>5. /\ CalmFrame(w, W[1]) /\ Alone(R) /\ CallsDue(w, R)
        /\ \A s \in Slots : R[s] # Idle => Own(R[s], W[1].event, W[1].chat, W[1].n)
    BY <1>2 DEF Calm, OwnEvents
  <1> QED BY <1>1, <1>2, <1>3, <1>4, <1>5

\* What may be on its way beside the call r: nothing, or r's own event.
Company(w, T, W, r) ==
  \/ T = {} /\ W = <<>>
  \/ /\ W = <<>>
     /\ \E t : T = {t} /\ CalmTask(w, t) /\ Own(r, t.kind, t.chat, t.n)
  \/ /\ T = {}
     /\ \E f : W = <<f>> /\ CalmFrame(w, f) /\ Own(r, f.event, f.chat, f.n)

\* A call that was not carried out, or whose events have all arrived, is all there is.
LEMMA CallAlone ==
  ASSUME NEW w, NEW T, NEW W \in Seq(Frames), NEW R, Calm(w, T, W, R), NEW s \in Slots, R[s] # Idle
  PROVE  /\ CalmCall(w, R[s])
         /\ \A q \in Slots : q # s => R[q] = Idle
         /\ Company(w, T, W, R[s])
  <1>1. CalmCall(w, R[s]) /\ \A q \in Slots : q # s => R[q] = Idle
    BY DEF Calm, CallsDue, Alone
  <1>2. CASE W # <<>>
    BY <1>1, <1>2, FrameAlone DEF Company
  <1>3. CASE W = <<>> /\ T # {}
    <2>1. PICK t \in T : TRUE
      BY <1>3
    <2>2. T = {t} /\ CalmTask(w, t) /\ Own(R[s], t.kind, t.chat, t.n)
      BY HandlerAlone
    <2> QED BY <1>1, <1>3, <2>2 DEF Company
  <1>4. CASE W = <<>> /\ T = {}
    BY <1>1, <1>4 DEF Company
  <1> QED BY <1>2, <1>3, <1>4

\* A call that nothing has been carried out for is alone.
LEMMA UnansweredAlone ==
  ASSUME NEW w, NEW T, NEW W \in Seq(Frames), NEW R, Calm(w, T, W, R), NEW s \in Slots, R[s] # Idle,
         R[s].at # "ok" \/ R[s].op \notin {"send", "edit", "delete"}
  PROVE  T = {} /\ W = <<>> /\ CalmCall(w, R[s]) /\ \A q \in Slots : q # s => R[q] = Idle
  <1>1. \A k, c, n : ~Own(R[s], k, c, n)
    BY DEF Own
  <1>4. CalmCall(w, R[s]) /\ \A q \in Slots : q # s => R[q] = Idle
    BY DEF Calm, CallsDue, Alone
  <1>5. W = <<>>
    <2> SUFFICES ASSUME W # <<>> PROVE FALSE
      OBVIOUS
    <2>1. Own(R[s], Head(W).event, Head(W).chat, Head(W).n)
      BY FrameAlone
    <2> QED BY <1>1, <2>1
  <1>6. T = {}
    <2> SUFFICES ASSUME NEW t \in T PROVE FALSE
      OBVIOUS
    <2>1. Own(R[s], t.kind, t.chat, t.n)
      BY HandlerAlone
    <2> QED BY <1>1, <2>1
  <1> QED BY <1>4, <1>5, <1>6

\* One call and nothing else.
LEMMA OnlyCall ==
  ASSUME NEW w, NEW R, NEW s \in Slots, \A q \in Slots : q # s => R[q] = Idle, CalmCall(w, R[s])
  PROVE  Alone(R) /\ CallsDue(w, R)
  BY DEF Alone, CallsDue

LEMMA NoCallLeft ==
  ASSUME NEW w, NEW R, Resting(R)
  PROVE  Alone(R) /\ CallsDue(w, R)
  BY DEF Alone, CallsDue, Resting

-----------------------------------------------------------------------------
\* What is due when a message comes, changes or goes.

ViewOK(w) ==
    /\ w.open \in Chats \cup {None} /\ w.list \in Seq(Bubble)
    /\ \A c \in Chats : ChatLog(w.log[c])

\* v is w with the log l for chat c.
Relog(w, v, c, l) ==
    /\ v.open = w.open /\ v.list = w.list /\ v.echoes = w.echoes
    /\ v.on = w.on /\ v.hide = w.hide /\ v.filtered = w.filtered
    /\ v.log[c] = l /\ \A d \in Chats : d # c => v.log[d] = w.log[d]

\* What a reload of c would show is made of c's log.
LEMMA SeenTypes ==
  ASSUME NEW w, ViewOK(w), NEW c \in Chats
  PROVE  /\ Seen(w, c) \in Seq(Bubble)
         /\ \A i \in DOMAIN Seen(w, c) :
              /\ Seen(w, c)[i].n \in DOMAIN w.log[c] /\ ~w.log[c][Seen(w, c)[i].n].gone
              /\ Seen(w, c)[i] = BubbleIn(w, c, Seen(w, c)[i].n)
  <1>1. ChatLog(w.log[c])
    BY DEF ViewOK
  <1>2. /\ Seen(w, c) \in Seq(Bubble)
        /\ \A i \in DOMAIN Seen(w, c) : Fits(Seen(w, c)[i], w.log[c], w.filtered, w.hide[c], c)
    BY <1>1, VisTypes DEF Seen
  <1> QED BY <1>2 DEF Fits, BubbleIn

\* News of a chat that is not open leaves the list exact.
LEMMA ExactOther ==
  ASSUME NEW w, NEW v, NEW c, NEW l, ViewOK(w), Relog(w, v, c, l), Exact(w), c # w.open
  PROVE  Exact(v)
  <1>1. CASE w.open = None
    BY <1>1 DEF Relog, Exact
  <1>2. CASE w.open \in Chats
    <2>1. Seen(v, w.open) = Seen(w, w.open)
      BY <1>2 DEF Relog, Seen
    <2> QED BY <1>2, <2>1 DEF Relog, Exact, ViewOK
  <1> QED BY <1>1, <1>2 DEF ViewOK

\* After a post, an edit or a deletion the exact list lacks just that.
LEMMA PostDue ==
  ASSUME NEW w, NEW v, NEW c \in Chats, NEW m \in Message, ViewOK(w), Exact(w), ~m.gone, m.ver = 0,
         ChatLog(Append(w.log[c], m)), Relog(w, v, c, Append(w.log[c], m)),
         NEW n, n = Len(w.log[c]) + 1, <<c, n>> \notin w.filtered, <<c, n>> \notin w.echoes
  PROVE  n \in DOMAIN v.log[c] /\ NewDue(v, c, n) /\ CommandDue(v, c, n, "filter")
  <1> DEFINE l == w.log[c]
             k == Append(l, m)
             b == [chat |-> c, n |-> n, ver |-> m.ver]
  <1>1. ChatLog(l) /\ ChatLog(k) /\ v.log[c] = k
    BY DEF ViewOK, Relog
  <1>2. n \in DOMAIN k /\ k[n] = m /\ n \notin DOMAIN l
    <2>1. l \in Seq(Message) /\ k \in Seq(Message)
      BY <1>1 DEF ChatLog
    <2>2. Len(l) \in Nat /\ DOMAIN l = 1 .. Len(l) /\ DOMAIN k = 1 .. Len(l) + 1 /\ k[Len(l) + 1] = m
      BY <2>1, AppendProperties, LenProperties
    <2> HIDE DEF k, l
    <2>3. Len(l) + 1 \in 1 .. Len(l) + 1 /\ Len(l) + 1 \notin 1 .. Len(l)
      BY <2>2
    <2>4. n = Len(l) + 1
      BY DEF l
    <2> QED BY <2>2, <2>3, <2>4
  <1> HIDE DEF k, l
  <1>3. v.log[c][n] = m
    BY <1>1, <1>2
  <1>4. c # v.open => Exact(v)
    BY <1>1, ExactOther DEF Relog, k, l
  <1>5. ASSUME c = v.open
        PROVE  /\ v.on[c] /\ v.list = Vis(l, v.filtered, v.hide[c], c)
               /\ Seen(v, c) = IF m.date >= v.hide[c] THEN Append(v.list, b) ELSE v.list
    <2>1. c # None /\ w.open = c
      BY <1>5, Bounds DEF Relog
    <2>2. v.on[c] /\ v.list = Vis(l, v.filtered, v.hide[c], c)
      BY <2>1 DEF Exact, Relog, Seen, l
    <2>3. <<c, Len(l) + 1>> \notin v.filtered /\ n = Len(l) + 1
      BY DEF Relog, l
    <2>4. Vis(k, v.filtered, v.hide[c], c)
            = IF m.date >= v.hide[c]
              THEN Append(Vis(l, v.filtered, v.hide[c], c), [chat |-> c, n |-> Len(l) + 1, ver |-> m.ver])
              ELSE Vis(l, v.filtered, v.hide[c], c)
      BY <1>1, <2>3, VisPost DEF k
    <2> QED BY <1>1, <2>2, <2>3, <2>4 DEF Seen
  <1>6. b = BubbleIn(v, c, n) /\ (Recent(v, c, n) <=> m.date >= v.hide[c])
    BY <1>3 DEF BubbleIn, Recent
  <1>7. <<c, n>> \notin v.echoes
    BY DEF Relog
  <1>8. NewDue(v, c, n)
    <2> HIDE DEF b
    <2> QED BY <1>3, <1>4, <1>5, <1>6, <1>7 DEF NewDue, Elsewhere
  <1>9. ASSUME c = v.open PROVE v.list = Drop(Seen(v, c), n)
    <2> DEFINE s == v.list
    <2>1. b \in Bubble
      <3>1. n \in 1 .. MaxPosts
        <4>1. DOMAIN k = 1 .. Len(k) /\ Len(k) \in 0 .. MaxPosts
          BY <1>1, AllTypes
        <4> QED BY <1>2, <4>1, Bounds
      <3> QED BY <3>1 DEF Bubble, Message
    <2>2. s \in Seq(Bubble) /\ \A i \in DOMAIN s : s[i].n # n
      <3>1. Vis(l, v.filtered, v.hide[c], c) \in Seq(Bubble)
            /\ \A i \in DOMAIN Vis(l, v.filtered, v.hide[c], c) :
                  Vis(l, v.filtered, v.hide[c], c)[i].n \in DOMAIN l
        BY <1>1, VisTypes DEF Fits
      <3>2. s = Vis(l, v.filtered, v.hide[c], c)
        BY <1>5, <1>9
      <3> HIDE DEF s
      <3> QED BY <1>2, <3>1, <3>2
    <2>3. b \notin NotAt(n)
      BY DEF NotAt
    <2> HIDE DEF s, b
    <2>4. Keep(Append(s, b), NotAt(n)) = Keep(s, NotAt(n)) /\ Append(s, b) \in Seq(Bubble)
      BY <2>1, <2>2, <2>3, KeepAppend, AppendProperties
    <2>5. Drop(s, n) = s /\ Drop(s, n) = Keep(s, NotAt(n))
      BY <2>2, DropNone, DropKeeps
    <2>6. Drop(Append(s, b), n) = Keep(Append(s, b), NotAt(n))
      BY <2>4, DropKeeps
    <2>7. Seen(v, c) = s \/ Seen(v, c) = Append(s, b)
      BY <1>5, <1>9 DEF s
    <2> QED BY <2>4, <2>5, <2>6, <2>7 DEF s
  <1>10. CommandDue(v, c, n, "filter")
    BY <1>4, <1>5, <1>9 DEF CommandDue, Elsewhere
  <1> QED BY <1>1, <1>2, <1>8, <1>10

LEMMA EditedDue ==
  ASSUME NEW w, NEW v, NEW c \in Chats, NEW n \in DOMAIN w.log[c], NEW m \in Message,
         ViewOK(w), Exact(w), m.gone = w.log[c][n].gone, m.date = w.log[c][n].date,
         Relog(w, v, c, [w.log[c] EXCEPT ![n] = m])
  PROVE  v.log[c][n] = m /\ EditDue(v, c, n)
  <1> DEFINE l == w.log[c]
             k == [l EXCEPT ![n] = m]
             b == [chat |-> c, n |-> n, ver |-> m.ver]
  <1>1. ChatLog(l) /\ v.log[c] = k /\ k[n] = m
    BY DEF ViewOK, Relog
  <1> HIDE DEF k, l
  <1>2. c # v.open => Exact(v)
    BY <1>1, ExactOther DEF Relog, k, l
  <1>3. ASSUME c = v.open
        PROVE  v.on[c] /\ Seen(v, c) = Patch(v.list, b)
    <2>1. c # None /\ w.open = c
      BY <1>3, Bounds DEF Relog
    <2>2. v.on[c] /\ v.list = Vis(l, v.filtered, v.hide[c], c)
      BY <2>1 DEF Exact, Relog, Seen, l
    <2> DEFINE V == Vis(l, v.filtered, v.hide[c], c)
    <2>3. Vis(k, v.filtered, v.hide[c], c) = [i \in DOMAIN V |-> IF V[i].n = b.n THEN b ELSE V[i]]
      BY <1>1, VisEdit DEF k, l
    <2> HIDE DEF V
    <2>4. Vis(k, v.filtered, v.hide[c], c) = Patch(V, b)
      BY <2>3 DEF Patch
    <2> QED BY <1>1, <2>2, <2>4 DEF Seen, V
  <1>4. b = BubbleIn(v, c, n)
    BY <1>1 DEF BubbleIn
  <1> HIDE DEF b
  <1> QED BY <1>1, <1>2, <1>3, <1>4 DEF EditDue, Elsewhere

LEMMA DeletedDue ==
  ASSUME NEW w, NEW v, NEW c \in Chats, NEW n \in DOMAIN w.log[c], NEW m \in Message,
         ViewOK(w), Exact(w), m.gone, m.ver = w.log[c][n].ver,
         Relog(w, v, c, [w.log[c] EXCEPT ![n] = m])
  PROVE  DeleteDue(v, c, n)
  <1> DEFINE l == w.log[c]
             k == [l EXCEPT ![n] = m]
  <1>1. ChatLog(l) /\ v.log[c] = k
    BY DEF ViewOK, Relog
  <1> HIDE DEF k, l
  <1>2. c # v.open => Exact(v)
    BY <1>1, ExactOther DEF Relog, k, l
  <1>3. ASSUME c = v.open
        PROVE  v.on[c] /\ Seen(v, c) = Drop(v.list, n)
    <2>1. c # None /\ w.open = c
      BY <1>3, Bounds DEF Relog
    <2>2. v.on[c] /\ v.list = Vis(l, v.filtered, v.hide[c], c)
      BY <2>1 DEF Exact, Relog, Seen, l
    <2>3. Vis(k, v.filtered, v.hide[c], c) = Drop(Vis(l, v.filtered, v.hide[c], c), n)
      BY <1>1, VisDelete DEF k, l
    <2> QED BY <1>1, <2>2, <2>3 DEF Seen
  <1> QED BY <1>2, <1>3 DEF DeleteDue, Elsewhere

\* Telegram deletes what is not there.
LEMMA NothingDeleted ==
  ASSUME NEW w, NEW c \in Chats, NEW n, ViewOK(w), Exact(w),
         n \in DOMAIN w.log[c] => w.log[c][n].gone
  PROVE  DeleteDue(w, c, n)
  <1>1. ASSUME c = w.open PROVE w.on[c] /\ Seen(w, c) = Drop(w.list, n)
    <2>1. w.on[c] /\ w.list = Seen(w, c)
      BY <1>1, Bounds DEF Exact
    <2>2. w.list \in Seq(Bubble) /\ \A i \in DOMAIN w.list : w.list[i].n # n
      BY <2>1, SeenTypes DEF ViewOK
    <2> QED BY <2>1, <2>2, DropNone
  <1> QED BY <1>1 DEF DeleteDue, Elsewhere

-----------------------------------------------------------------------------
\* What a post, an edit and a deletion do to the log of their chat.

Relogged(c, l) == log'[c] = l /\ \A d \in Chats : d # c => log'[d] = log[d]

\* A post appends a fresh message, an edit raises the version, a deletion only marks the message.
LEMMA PostedLog ==
  ASSUME LogOK, NEW c \in Chats, NEW k \in Kinds, Len(log[c]) < MaxPosts, PostTo(c, k)
  PROVE  \E m \in Message : /\ m.kind = k /\ m.date = now /\ m.ver = 0 /\ ~m.gone
                            /\ ChatLog(Append(log[c], m)) /\ Relogged(c, Append(log[c], m))
  <1> DEFINE m == [kind |-> k, date |-> now, ver |-> 0, gone |-> FALSE]
  <1>1. m \in Message /\ m.kind = k /\ m.date = now /\ m.ver = 0 /\ ~m.gone
    BY Bounds DEF Message, LogOK
  <1>2. log' = [log EXCEPT ![c] = Append(log[c], m)]
    BY DEF PostTo
  <1> HIDE DEF m
  <1>3. Relogged(c, Append(log[c], m))
    BY <1>2 DEF LogOK, Relogged
  <1>4. Append(log[c], m) \in Seq(Message) /\ Len(Append(log[c], m)) = Len(log[c]) + 1
        /\ Len(log[c]) \in 0 .. MaxPosts
    BY <1>1, LogTypes, AppendProperties
  <1>5. ChatLog(Append(log[c], m))
    <2> DEFINE l == Append(log[c], m)
               N == Len(log[c])
    <2>1. l \in Seq(Message) /\ Len(l) = N + 1 /\ N \in 0 .. MaxPosts /\ N < MaxPosts
      BY <1>4
    <2> HIDE DEF l, N
    <2>2. N + 1 <= MaxPosts
      BY <2>1, Bounds
    <2>3. ChatLog(l)
      BY <2>1, <2>2 DEF ChatLog
    <2> QED BY <2>3 DEF l
  <1> QED BY <1>1, <1>3, <1>5

LEMMA EditedLog ==
  ASSUME LogOK, NEW c, NEW n, <<c, n>> \in Known, log[c][n].ver + 1 \in 0 .. MaxMoves, EditIn(c, n)
  PROVE  \E m \in Message : /\ m.kind = log[c][n].kind /\ m.date = log[c][n].date
                            /\ m.ver = log[c][n].ver + 1 /\ m.gone = log[c][n].gone
                            /\ Relogged(c, [log[c] EXCEPT ![n] = m])
  <1>1. c \in Chats /\ n \in DOMAIN log[c] /\ log[c][n] \in Message
    BY KnownTypes
  <1> DEFINE m == [log[c][n] EXCEPT !.ver = @ + 1]
  <1>2. /\ m \in Message /\ m.kind = log[c][n].kind /\ m.date = log[c][n].date
        /\ m.ver = log[c][n].ver + 1 /\ m.gone = log[c][n].gone
    BY <1>1 DEF Message
  <1>3. log' = [log EXCEPT ![c] = [log[c] EXCEPT ![n] = m]]
    BY DEF EditIn
  <1> HIDE DEF m
  <1>4. Relogged(c, [log[c] EXCEPT ![n] = m])
    BY <1>1, <1>3 DEF LogOK, Relogged
  <1> QED BY <1>2, <1>4

LEMMA DeletedLog ==
  ASSUME LogOK, NEW c, NEW n, <<c, n>> \in Known, DeleteIn(c, n)
  PROVE  \E m \in Message : /\ m.kind = log[c][n].kind /\ m.date = log[c][n].date
                            /\ m.ver = log[c][n].ver /\ m.gone
                            /\ Relogged(c, [log[c] EXCEPT ![n] = m])
  <1>1. c \in Chats /\ n \in DOMAIN log[c] /\ log[c][n] \in Message
    BY KnownTypes
  <1> DEFINE m == [log[c][n] EXCEPT !.gone = TRUE]
  <1>2. /\ m \in Message /\ m.kind = log[c][n].kind /\ m.date = log[c][n].date
        /\ m.ver = log[c][n].ver /\ m.gone
    BY <1>1 DEF Message
  <1>3. log' = [log EXCEPT ![c] = [log[c] EXCEPT ![n] = m]]
    BY DEF DeleteIn
  <1> HIDE DEF m
  <1>4. Relogged(c, [log[c] EXCEPT ![n] = m])
    BY <1>1, <1>3 DEF LogOK, Relogged
  <1> QED BY <1>2, <1>4

\* What is new in the log is of now.
NewIsNow == \A c \in Chats : \A n \in DOMAIN log'[c] : n \in DOMAIN log[c] \/ log'[c][n].date = now

\* Every message that a step adds is dated now.
LEMMA StepIsNow ==
  ASSUME TimelineInv, Next \/ UNCHANGED vars
  PROVE  NewIsNow
  <1>0. LogOK /\ asks \in Nat
    BY Parts
  <1>1. log' = log => NewIsNow
    BY DEF NewIsNow
  <1>2. ASSUME NEW c \in Chats, NEW k \in Kinds, CanPost(c), PostTo(c, k) PROVE NewIsNow
    <2>1. PICK m \in Message : m.date = now /\ Relogged(c, Append(log[c], m))
      BY <1>0, <1>2, PostedLog DEF CanPost
    <2>2. log[c] \in Seq(Message) /\ Len(log[c]) \in Nat /\ DOMAIN log[c] = 1 .. Len(log[c])
      BY <1>0, LogTypes
    <2>3. /\ DOMAIN Append(log[c], m) = 1 .. Len(log[c]) + 1
          /\ Append(log[c], m)[Len(log[c]) + 1] = m
      BY <2>2, AppendProperties, LenProperties
    <2>4. \A n \in 1 .. Len(log[c]) + 1 : n \in 1 .. Len(log[c]) \/ n = Len(log[c]) + 1
      BY <2>2
    <2>5. \A n \in DOMAIN log'[c] : n \in DOMAIN log[c] \/ log'[c][n].date = now
      BY <2>1, <2>2, <2>3, <2>4 DEF Relogged
    <2> QED BY <2>1, <2>5 DEF Relogged, NewIsNow
  <1>3. ASSUME NEW c, NEW n, NEW m, Relogged(c, [log[c] EXCEPT ![n] = m]) PROVE NewIsNow
    <2>1. DOMAIN log'[c] = DOMAIN log[c]
      BY <1>3 DEF Relogged
    <2> QED BY <1>3, <2>1 DEF Relogged, NewIsNow
  <1>4. ASSUME NEW c, NEW n, CanEdit(c, n), EditIn(c, n) PROVE NewIsNow
    <2>1. <<c, n>> \in Known /\ asks + Changes < MaxMoves
      BY <1>4 DEF CanEdit, Present
    <2>2. log[c][n].ver + 1 \in 0 .. MaxMoves
      BY <1>0, <2>1, VersionsBounded
    <2>3. \E m \in Message : Relogged(c, [log[c] EXCEPT ![n] = m])
      BY <1>0, <1>4, <2>1, <2>2, EditedLog
    <2> QED BY <1>3, <2>3
  <1>5. ASSUME NEW c, NEW n, Present(c, n), DeleteIn(c, n) PROVE NewIsNow
    <2>1. \E m \in Message : Relogged(c, [log[c] EXCEPT ![n] = m])
      BY <1>0, <1>5, DeletedLog DEF Present
    <2> QED BY <1>3, <2>1
  <1>6. CASE UNCHANGED vars
    BY <1>1, <1>6 DEF vars, telegram
  <1>7. CASE Tick
    BY <1>1, <1>7 DEF Tick
  <1>8. ASSUME NEW c \in Chats, NEW k \in Kinds, Posted(c, k) PROVE NewIsNow
    BY <1>2, <1>8 DEF Posted
  <1>9. ASSUME NEW c \in Chats, NEW n \in 1 .. MaxPosts, Edited(c, n) \/ Deleted(c, n) PROVE NewIsNow
    BY <1>4, <1>5, <1>9 DEF Edited, Deleted
  <1>10. ASSUME NEW t \in tasks, Handle(t) PROVE NewIsNow
    BY <1>1, <1>10 DEF Handle, Filter, RowOfNew, RowOfEdit, RowOfDelete, RowOfCommand, Emit, telegram
  <1>11. ASSUME NEW s \in Slots, (\E c \in Chats : OpenChat(s, c)) \/ Reload(s) \/ AskChange(s)
         PROVE  NewIsNow
    BY <1>1, <1>11 DEF OpenChat, Reload, AskChange, telegram
  <1>12. ASSUME NEW s \in Slots, Serve(s) PROVE NewIsNow
    <2>1. CASE PostMine(s)
      <3>1. rpc[s].chat \in Chats
        <4>1. rpc[s].op # "none"
          BY <2>1 DEF PostMine
        <4> QED BY <4>1, CallTypes DEF Calls
      <3> QED BY <1>2, <2>1, <3>1 DEF PostMine, Kinds
    <2>2. CASE EditMine(s)
      BY <1>4, <2>2 DEF EditMine
    <2>3. CASE DeleteMine(s)
      BY <1>1, <1>5, <2>3 DEF DeleteMine
    <2>4. CASE ~PostMine(s) /\ ~EditMine(s) /\ ~DeleteMine(s)
      <3>1. log' = log
        BY <1>12, <2>4 DEF Serve, Refuse, CheckRow, Snapshot, HideHistory, CallFails,
           Answer, LoseAnswer, ShowLoad, ShowSend, ShowEdit, ShowDelete, ShowClear, ShowFailure, telegram
      <3> QED BY <1>1, <3>1
    <2> QED BY <2>1, <2>2, <2>3, <2>4
  <1>13. CASE HandleFrame
    BY <1>1, <1>13 DEF HandleFrame, OnNewMessage, OnMessageEdited, OnMessageDeleted, OnChatRemoved, telegram
  <1> QED BY <1>6, <1>7, <1>8, <1>9, <1>10, <1>11, <1>12, <1>13 DEF Next

\* A new call, and a call that moves on.
LEMMA AskIs ==
  ASSUME NEW s, NEW op, NEW c, NEW n, Ask(s, op, c, n)
  PROVE  \E r : /\ rpc' = [rpc EXCEPT ![s] = r] /\ r # Idle
                /\ r.op = op /\ r.chat = c /\ r.n = n /\ r.ver = 0 /\ r.at = "asked"
  <1> DEFINE r == [Idle EXCEPT !.op = op, !.chat = c, !.n = n, !.at = "asked"]
  <1>1. r.op = op /\ r.chat = c /\ r.n = n /\ r.ver = 0 /\ r.at = "asked"
    BY DEF Idle
  <1>2. rpc' = [rpc EXCEPT ![s] = r]
    BY DEF Ask
  <1> HIDE DEF r
  <1>3. r # Idle
    BY <1>1 DEF Idle
  <1> QED BY <1>1, <1>2, <1>3

Moved(q, r, a, n, v, h, b) ==
    /\ q.op = r.op /\ q.chat = r.chat
    /\ q.at = a /\ q.n = n /\ q.ver = v /\ q.hide = h /\ q.list = b

\* A call that moves on changes the one field its step sets.
LEMMA MovedIs ==
  ASSUME NEW s, rpc[s] \in Calls, NEW a
  PROVE  /\ Moved(To(s, a), rpc[s], a, rpc[s].n, rpc[s].ver, rpc[s].hide, rpc[s].list)
         /\ \A h : Moved([To(s, a) EXCEPT !.hide = h], rpc[s], a, rpc[s].n, rpc[s].ver, h, rpc[s].list)
         /\ \A b : Moved([To(s, a) EXCEPT !.list = b], rpc[s], a, rpc[s].n, rpc[s].ver, rpc[s].hide, b)
         /\ \A v : Moved([To(s, a) EXCEPT !.ver = v], rpc[s], a, rpc[s].n, v, rpc[s].hide, rpc[s].list)
         /\ \A n : Moved([To(s, a) EXCEPT !.n = n], rpc[s], a, n, rpc[s].ver, rpc[s].hide, rpc[s].list)
  <1> DEFINE t == To(s, a)
  <1>1. /\ t \in [op : Ops, chat : Chats, n : 0 .. MaxPosts, ver : 0 .. MaxMoves,
                  at : {a}, hide : 0 .. MaxNow + 1, list : Seq(Bubble)]
        /\ Moved(t, rpc[s], a, rpc[s].n, rpc[s].ver, rpc[s].hide, rpc[s].list)
    BY DEF To, Calls, Moved
  <1> HIDE DEF t
  <1>2. \A h : Moved([t EXCEPT !.hide = h], rpc[s], a, rpc[s].n, rpc[s].ver, h, rpc[s].list)
    BY <1>1 DEF Moved
  <1>3. \A b : Moved([t EXCEPT !.list = b], rpc[s], a, rpc[s].n, rpc[s].ver, rpc[s].hide, b)
    BY <1>1 DEF Moved
  <1>4. \A v : Moved([t EXCEPT !.ver = v], rpc[s], a, rpc[s].n, v, rpc[s].hide, rpc[s].list)
    BY <1>1 DEF Moved
  <1>5. \A n : Moved([t EXCEPT !.n = n], rpc[s], a, n, rpc[s].ver, rpc[s].hide, rpc[s].list)
    BY <1>1 DEF Moved
  <1> QED BY <1>1, <1>2, <1>3, <1>4, <1>5 DEF t

\* A send that was carried out before the step, or has just been.
SendIn(r, l) == r.op = "send" /\ r.at = "ok" => r.n \in DOMAIN l[r.chat]

\* The message of an answered send is in the log.
LEMMA SendsKept ==
  ASSUME TimelineInv, Pasts, Next \/ UNCHANGED vars, NEW s \in Slots
  PROVE  SendIn(rpc'[s], log')
  <1>0. LogKept /\ RpcOK /\ LogOK
    BY StepKeeps, Parts
  <1>1. SendIn(rpc[s], log')
    <2>1. rpc[s] = Idle \/ rpc[s].chat \in Chats
      BY <1>0 DEF RpcOK, Calls
    <2> QED BY <1>0, <2>1 DEF Pasts, SendIn, LogKept, Idle
  <1>2. rpc'[s] = rpc[s] => SendIn(rpc'[s], log')
    BY <1>1
  <1>3. ASSUME NEW q \in Slots, NEW r, SendIn(r, log'), rpc' = [rpc EXCEPT ![q] = r]
        PROVE  SendIn(rpc'[s], log')
    <2>1. rpc'[s] = r \/ rpc'[s] = rpc[s]
      BY <1>0, <1>3 DEF RpcOK
    <2> QED BY <1>1, <1>3, <2>1
  <1>4. ASSUME NEW q \in Slots, (\E c \in Chats : OpenChat(q, c)) \/ Reload(q) \/ AskChange(q)
        PROVE  SendIn(rpc'[s], log')
    <2>1. ASSUME NEW op, NEW c, NEW n, Ask(q, op, c, n) PROVE SendIn(rpc'[s], log')
      <3>1. PICK r : rpc' = [rpc EXCEPT ![q] = r] /\ r.at = "asked"
        BY <2>1, AskIs
      <3> QED BY <1>3, <3>1 DEF SendIn
    <2> QED BY <1>4, <2>1 DEF OpenChat, Reload, AskChange
  <1>5. ASSUME NEW q \in Slots, Serve(q) PROVE SendIn(rpc'[s], log')
    <2>1. CASE ShowLoad(q) \/ ShowSend(q) \/ ShowEdit(q) \/ ShowDelete(q) \/ ShowClear(q) \/ ShowFailure(q)
      <3>1. rpc' = [rpc EXCEPT ![q] = Idle]
        BY <2>1 DEF ShowLoad, ShowSend, ShowEdit, ShowDelete, ShowClear, ShowFailure, Free
      <3> QED BY <1>3, <3>1 DEF SendIn, Idle
    <2>2. CASE \/ Refuse(q) \/ CheckRow(q) \/ Snapshot(q) \/ EditMine(q) \/ DeleteMine(q) \/ PostMine(q)
               \/ HideHistory(q) \/ CallFails(q) \/ Answer(q) \/ LoseAnswer(q)
      <3>0. rpc[q] \in Calls /\ CallOK(rpc[q])
        <4>1. rpc[q].at # "idle"
          BY <2>2 DEF Refuse, LoseAnswer, CheckRow, Snapshot, CallFails, Answer, Step, EditMine, DeleteMine,
             PostMine, HideHistory
        <4> QED BY <4>1, CallTypes
      <3>1. ASSUME NEW r, NEW a, NEW n, NEW v, NEW h, NEW b, Moved(r, rpc[q], a, n, v, h, b),
                   rpc' = [rpc EXCEPT ![q] = r],
                   a = "ok" /\ rpc[q].op = "send" => n \in DOMAIN log'[rpc[q].chat]
            PROVE  SendIn(rpc'[s], log')
        <4>1. SendIn(r, log')
          BY <3>1 DEF SendIn, Moved
        <4> QED BY <1>3, <3>1, <4>1
      <3>2. CASE Refuse(q) \/ CallFails(q) \/ LoseAnswer(q)
        <4>1. rpc' = [rpc EXCEPT ![q] = To(q, "failed")]
          BY <3>2 DEF Refuse, CallFails, LoseAnswer, Step
        <4> QED BY <3>0, <3>1, <4>1, MovedIs
      <3>3. CASE CheckRow(q)
        <4>1. PICK h : h = hide[rpc[q].chat]
          OBVIOUS
        <4>2. \/ rpc' = [rpc EXCEPT ![q] = To(q, "failed")]
              \/ rpc' = [rpc EXCEPT ![q] = [To(q, "checked") EXCEPT !.hide = h]]
          BY <3>3, <4>1 DEF CheckRow, Step
        <4>3. CASE rpc' = [rpc EXCEPT ![q] = To(q, "failed")]
          BY <3>0, <3>1, <4>3, MovedIs
        <4>4. CASE rpc' = [rpc EXCEPT ![q] = [To(q, "checked") EXCEPT !.hide = h]]
          BY <3>0, <3>1, <4>4, MovedIs
        <4> QED BY <4>2, <4>3, <4>4
      <3>4. CASE Snapshot(q) \/ Answer(q)
        <4>1. rpc[q].op # "send"
          BY <3>0, <3>4 DEF Snapshot, Answer, Step, CallOK, Idle
        <4>2. CASE Snapshot(q)
          <5>1. PICK b : b = History(rpc[q].chat)
            OBVIOUS
          <5>2. rpc' = [rpc EXCEPT ![q] = [To(q, "called") EXCEPT !.list = b]]
            BY <4>2, <5>1 DEF Snapshot, Step
          <5> QED BY <3>0, <3>1, <5>2, MovedIs
        <4>3. CASE Answer(q)
          <5>1. To(q, "ok").list = rpc[q].list
            BY <3>0, MovedIs DEF Moved
          <5>2. PICK b : b = Passing(rpc[q].list, rpc[q].hide)
            OBVIOUS
          <5>3. rpc' = [rpc EXCEPT ![q] = [To(q, "ok") EXCEPT !.list = b]]
            BY <4>3, <5>1, <5>2 DEF Answer, Step
          <5>4. Moved([To(q, "ok") EXCEPT !.list = b], rpc[q], "ok", rpc[q].n, rpc[q].ver, rpc[q].hide, b)
            BY <3>0, MovedIs
          <5> QED BY <3>0, <3>1, <4>1, <5>3, <5>4
        <4> QED BY <3>4, <4>2, <4>3
      <3>5. CASE DeleteMine(q) \/ HideHistory(q)
        <4>1. rpc[q].op # "send" /\ rpc' = [rpc EXCEPT ![q] = To(q, "ok")]
          BY <3>5 DEF DeleteMine, HideHistory, Step
        <4> QED BY <3>0, <3>1, <4>1, MovedIs
      <3>6. CASE EditMine(q)
        <4>1. PICK v : v = log[rpc[q].chat][rpc[q].n].ver + 1
          OBVIOUS
        <4>2. rpc[q].op # "send" /\ rpc' = [rpc EXCEPT ![q] = [To(q, "ok") EXCEPT !.ver = v]]
          BY <3>6, <4>1 DEF EditMine, Step
        <4> QED BY <3>0, <3>1, <4>2, MovedIs
      <3>7. CASE PostMine(q)
        <4>1. PICK c, n : c \in Chats /\ c = rpc[q].chat /\ n = Len(log[c]) + 1
          BY <3>0 DEF Calls
        <4>2. /\ CanPost(c) /\ PostTo(c, "text") /\ now' = now
              /\ rpc' = [rpc EXCEPT ![q] = [To(q, "ok") EXCEPT !.n = n]]
          BY <3>7, <4>1 DEF PostMine, Step
        <4>3. n \in DOMAIN log'[c]
          BY <1>0, <4>1, <4>2, LogPosts DEF CanPost, Kinds
        <4> QED BY <3>0, <3>1, <4>1, <4>2, <4>3, MovedIs
      <3> QED BY <2>2, <3>2, <3>3, <3>4, <3>5, <3>6, <3>7
    <2> QED BY <1>5, <2>1, <2>2 DEF Serve
  <1>6. CASE \/ UNCHANGED vars \/ Tick \/ HandleFrame \/ \E t \in tasks : Handle(t)
             \/ \E c \in Chats : \/ \E k \in Kinds : Posted(c, k)
                                 \/ \E n \in 1 .. MaxPosts : Edited(c, n) \/ Deleted(c, n)
    <2>1. rpc' = rpc
      BY <1>6 DEF vars, Tick, HandleFrame, OnNewMessage, OnMessageEdited, OnMessageDeleted, OnChatRemoved,
         Handle, Filter, RowOfNew, RowOfEdit, RowOfDelete, RowOfCommand, Emit, Posted, Edited, Deleted
    <2> QED BY <1>2, <2>1
  <1> QED BY <1>4, <1>5, <1>6 DEF Next

\* Echoes are of sends that were answered.
LEMMA EchoesGrow ==
  ASSUME TimelineInv, Pasts, Next \/ UNCHANGED vars
  PROVE  \A m \in echoes' : m[2] \in DOMAIN log'[m[1]]
  <1>0. LogKept /\ \A m \in echoes : m[1] \in Chats /\ m[2] \in DOMAIN log[m[1]]
    BY StepKeeps, Parts DEF TabOK, Pasts
  <1>1. \A m \in echoes : m[2] \in DOMAIN log'[m[1]]
    BY <1>0 DEF LogKept
  <1>2. CASE \E s \in Slots : ShowSend(s)
    <2>1. PICK s \in Slots : ShowSend(s)
      BY <1>2
    <2>2. /\ rpc[s].op = "send" /\ rpc[s].at = "ok" /\ log' = log
          /\ echoes' = echoes \cup {<<rpc[s].chat, rpc[s].n>>}
      BY <2>1 DEF ShowSend, telegram
    <2>3. rpc[s].n \in DOMAIN log'[rpc[s].chat]
      BY <2>2 DEF Pasts
    <2> QED BY <1>1, <2>2, <2>3
  <1>3. CASE ~\E s \in Slots : ShowSend(s)
    <2>1. CASE UNCHANGED vars
      BY <1>1, <2>1 DEF vars, tab
    <2>2. CASE Next
      <3>1. echoes' = echoes
        <4>1. CASE \E s \in Slots : Serve(s)
          BY <1>3, <4>1 DEF Serve, Refuse, CheckRow, Snapshot, PostMine, EditMine, DeleteMine, HideHistory,
             CallFails, Answer, LoseAnswer, ShowLoad, ShowEdit, ShowDelete, ShowClear, ShowFailure, tab
        <4>2. CASE \E s \in Slots : (\E c \in Chats : OpenChat(s, c)) \/ Reload(s) \/ AskChange(s)
          BY <4>2 DEF OpenChat, Reload, AskChange, tab
        <4>3. CASE \/ Tick \/ HandleFrame \/ \E t \in tasks : Handle(t)
                   \/ \E c \in Chats : \/ \E k \in Kinds : Posted(c, k)
                                       \/ \E n \in 1 .. MaxPosts : Edited(c, n) \/ Deleted(c, n)
          BY <4>3 DEF Tick, HandleFrame, OnNewMessage, OnMessageEdited, OnMessageDeleted, OnChatRemoved,
             Handle, Filter, RowOfNew, RowOfEdit, RowOfDelete, RowOfCommand, Emit, Posted, Edited, Deleted, tab
        <4> QED BY <2>2, <4>1, <4>2, <4>3 DEF Next
      <3> QED BY <1>1, <3>1
    <2> QED BY <2>1, <2>2
  <1> QED BY <1>2, <1>3

\* The clock only ticks.
LEMMA NowGrows ==
  ASSUME TimelineInv, Next \/ UNCHANGED vars
  PROVE  now \in Nat /\ (now' = now \/ now' = now + 1)
  <1>1. CASE UNCHANGED vars
    BY <1>1, Parts DEF vars, telegram
  <1>2. CASE \E s \in Slots : Serve(s)
    BY <1>2, Parts DEF Serve, Refuse, CheckRow, Snapshot, PostMine, EditMine, DeleteMine, HideHistory,
             CallFails, Answer, LoseAnswer, ShowLoad, ShowSend, ShowEdit, ShowDelete, ShowClear, ShowFailure, telegram
  <1>3. CASE \E s \in Slots : (\E c \in Chats : OpenChat(s, c)) \/ Reload(s) \/ AskChange(s)
    BY <1>3, Parts DEF OpenChat, Reload, AskChange, telegram
  <1>4. CASE \/ Tick \/ HandleFrame \/ \E t \in tasks : Handle(t)
             \/ \E c \in Chats : \/ \E k \in Kinds : Posted(c, k)
                                 \/ \E n \in 1 .. MaxPosts : Edited(c, n) \/ Deleted(c, n)
    BY <1>4, Parts DEF Tick, HandleFrame, OnNewMessage, OnMessageEdited, OnMessageDeleted, OnChatRemoved,
             Handle, Filter, RowOfNew, RowOfEdit, RowOfDelete, RowOfCommand, Emit, Posted, Edited, Deleted, telegram
  <1> QED BY <1>1, <1>2, <1>3, <1>4 DEF Next

\* Pasts is kept by every step.
LEMMA PastsStep ==
  ASSUME TimelineInv, Pasts, Next \/ UNCHANGED vars
  PROVE  Pasts'
  <1>1. \A s \in Slots : rpc'[s].op = "send" /\ rpc'[s].at = "ok" => rpc'[s].n \in DOMAIN log'[rpc'[s].chat]
    BY SendsKept DEF SendIn
  <1>2. ASSUME NEW c \in Chats, NEW n \in DOMAIN log'[c] PROVE log'[c][n].date <= now'
    <2>1. n \in DOMAIN log[c] \/ log'[c][n].date = now
      BY <1>2, StepIsNow DEF NewIsNow
    <2>2. n \in DOMAIN log[c] => log'[c][n].date = log[c][n].date /\ log[c][n].date <= now
                                 /\ log[c][n].date \in Nat
      BY StepKeeps, Parts, LogTypes, Bounds DEF LogKept, Pasts, Message
    <2> QED BY <2>1, <2>2, NowGrows
  <1> QED BY <1>1, <1>2, EchoesGrow DEF Pasts

-----------------------------------------------------------------------------
\* The calm of a list is inductive: each step moves what is due one stage on.

\* The fields of View, before and after a step.
LEMMA ViewIs ==
  /\ View.open = active /\ View.list = msgs /\ View.echoes = echoes /\ View.log = log
  /\ View.on = enabled /\ View.hide = hide /\ View.filtered = filtered
  /\ View'.open = active' /\ View'.list = msgs' /\ View'.echoes = echoes' /\ View'.log = log'
  /\ View'.on = enabled' /\ View'.hide = hide' /\ View'.filtered = filtered'
  BY DEF View

\* View is well-typed, and Visible and History are read off it.
LEMMA ViewTypes ==
  ASSUME TimelineInv
  PROVE  /\ ViewOK(View)
         /\ \A c \in Chats : Visible(c) = Seen(View, c) /\ History(c) = Hist(log[c], c)
  <1>1. ViewOK(View)
    BY Parts, ViewIs DEF TabOK, ViewOK, LogOK, ChatLog
  <1>2. \A c \in Chats : Visible(c) = Seen(View, c)
    BY Parts, VisibleIs, ViewIs DEF Seen
  <1>3. \A c \in Chats : History(c) = Hist(log[c], c)
    BY DEF History, Hist, BubbleOf
  <1> QED BY <1>1, <1>2, <1>3

LEMMA SameView ==
  ASSUME UNCHANGED <<active, msgs, echoes, log, enabled, hide, filtered>>
  PROVE  View' = View
  BY DEF View

\* A still, calm state has an exact list.
LEMMA StillIs ==
  ASSUME CalmInv, calm, Still
  PROVE  Exact(View) /\ tasks = {} /\ wire = <<>> /\ Resting(rpc)
  BY DEF CalmInv, Calm, Still, Resting

\* The view after a post, an edit or a deletion of an exact list.
LEMMA ViewPosted ==
  ASSUME TimelineInv, Pasts, Exact(View), NEW c \in Chats, NEW k \in Kinds, CanPost(c), PostTo(c, k),
         UNCHANGED <<active, msgs, echoes, enabled, hide, filtered>>, NEW n, n = Len(log[c]) + 1
  PROVE  /\ n \in DOMAIN log'[c] /\ <<c, n>> \notin echoes
         /\ NewDue(View', c, n) /\ CommandDue(View', c, n, "filter")
  <1>1. PICK m \in Message : /\ m.ver = 0 /\ ~m.gone
                             /\ ChatLog(Append(log[c], m)) /\ Relogged(c, Append(log[c], m))
    BY Parts, PostedLog DEF CanPost
  <1>2. Relog(View, View', c, Append(View.log[c], m))
    BY <1>1, ViewIs DEF Relog, Relogged
  <1>3. n \notin DOMAIN log[c]
    <2>1. DOMAIN log[c] = 1 .. Len(log[c]) /\ Len(log[c]) \in Nat
      BY Parts, LogTypes
    <2> QED BY <2>1
  <1>4. <<c, n>> \notin filtered /\ <<c, n>> \notin echoes
    <2>1. <<c, n>>[1] = c /\ <<c, n>>[2] = n
      OBVIOUS
    <2> QED BY <1>3, <2>1, Parts DEF RecordsOK, RecordOK, Pasts
  <1>5. ViewOK(View) /\ View.log[c] = log[c] /\ View.filtered = filtered /\ View.echoes = echoes
    BY ViewTypes, ViewIs
  <1>6. n \in DOMAIN View'.log[c] /\ NewDue(View', c, n) /\ CommandDue(View', c, n, "filter")
    BY <1>1, <1>2, <1>4, <1>5, PostDue
  <1> QED BY <1>4, <1>6, ViewIs

LEMMA ViewEdited ==
  ASSUME TimelineInv, Exact(View), NEW c, NEW n, CanEdit(c, n), EditIn(c, n),
         UNCHANGED <<active, msgs, echoes, enabled, hide, filtered>>
  PROVE  /\ c \in Chats /\ n \in DOMAIN log'[c]
         /\ log'[c][n].ver = log[c][n].ver + 1 /\ log'[c][n].kind = "text"
         /\ EditDue(View', c, n)
  <1>1. <<c, n>> \in Known /\ asks + Changes < MaxMoves /\ log[c][n].kind = "text"
    BY DEF CanEdit, Present
  <1>2. log[c][n].ver + 1 \in 0 .. MaxMoves
    BY <1>1, Parts, VersionsBounded
  <1>3. PICK m \in Message : /\ m.kind = "text" /\ m.date = log[c][n].date
                             /\ m.ver = log[c][n].ver + 1 /\ m.gone = log[c][n].gone
                             /\ Relogged(c, [log[c] EXCEPT ![n] = m])
    BY <1>1, <1>2, Parts, EditedLog
  <1>4. c \in Chats /\ n \in DOMAIN log[c]
    BY <1>1, Parts, KnownTypes
  <1>5. Relog(View, View', c, [View.log[c] EXCEPT ![n] = m])
    BY <1>3, ViewIs DEF Relog, Relogged
  <1>6. ViewOK(View) /\ View.log = log
    BY ViewTypes, ViewIs
  <1>7. EditDue(View', c, n)
    BY <1>3, <1>4, <1>5, <1>6, EditedDue
  <1>8. log'[c] = [log[c] EXCEPT ![n] = m]
    BY <1>3 DEF Relogged
  <1> QED BY <1>3, <1>4, <1>7, <1>8

LEMMA ViewDeleted ==
  ASSUME TimelineInv, Exact(View), NEW c, NEW n, Present(c, n), DeleteIn(c, n),
         UNCHANGED <<active, msgs, echoes, enabled, hide, filtered>>
  PROVE  c \in Chats /\ n \in DOMAIN log'[c] /\ DeleteDue(View', c, n)
  <1>1. <<c, n>> \in Known
    BY DEF Present
  <1>2. PICK m \in Message : /\ m.ver = log[c][n].ver /\ m.gone
                             /\ Relogged(c, [log[c] EXCEPT ![n] = m])
    BY <1>1, Parts, DeletedLog
  <1>3. c \in Chats /\ n \in DOMAIN log[c]
    BY <1>1, Parts, KnownTypes
  <1>4. Relog(View, View', c, [View.log[c] EXCEPT ![n] = m])
    BY <1>2, ViewIs DEF Relog, Relogged
  <1>5. ViewOK(View) /\ View.log = log
    BY ViewTypes, ViewIs
  <1>6. DeleteDue(View', c, n)
    BY <1>2, <1>3, <1>4, <1>5, DeletedDue
  <1>7. log'[c] = [log[c] EXCEPT ![n] = m]
    BY <1>2 DEF Relogged
  <1> QED BY <1>3, <1>6, <1>7

\* What others do starts when all is still.
LEMMA CalmTelegram ==
  ASSUME TimelineInv, Pasts, CalmInv, NEW c \in Chats,
         (\E k \in Kinds : Posted(c, k)) \/ \E n \in 1 .. MaxPosts : Edited(c, n) \/ Deleted(c, n)
  PROVE  CalmInv'
  <1> SUFFICES ASSUME calm' PROVE Calm(View', tasks', wire', rpc')
    BY DEF CalmInv
  <1>1. calm /\ Still /\ UNCHANGED <<active, msgs, echoes, enabled, hide, filtered, wire, rpc>>
    BY DEF Posted, Edited, Deleted, Begin, tables, tab
  <1>2. Exact(View) /\ tasks = {} /\ wire' = <<>> /\ Resting(rpc')
    BY <1>1, StillIs DEF Resting
  <1>3. ASSUME NEW t, tasks' = {t}, CalmTask(View', t)
        PROVE  Calm(View', tasks', wire', rpc')
    <2>1. Alone(rpc') /\ CallsDue(View', rpc')
      BY <1>2, NoCallLeft
    <2> QED BY <1>2, <1>3, <2>1, HandlerIs DEF Resting
  <1>4. ASSUME NEW k \in Kinds, Posted(c, k) PROVE Calm(View', tasks', wire', rpc')
    <2>1. PICK n : n = Len(log[c]) + 1
      OBVIOUS
    <2> DEFINE t == Task(IF k = "text" THEN "new" ELSE "command", c, n, 0, "filter")
    <2>2. tasks' = {t} /\ CanPost(c) /\ PostTo(c, k)
      BY <1>2, <1>4, <2>1 DEF Posted, HandlersOf
    <2>3. n \in DOMAIN log'[c] /\ NewDue(View', c, n) /\ CommandDue(View', c, n, "filter")
      BY <1>1, <1>2, <2>1, <2>2, ViewPosted
    <2>4. t.kind \in {"new", "command"} /\ t.chat = c /\ t.n = n /\ t.at = "filter"
      BY DEF Task
    <2> HIDE DEF t
    <2>5. CalmTask(View', t)
      BY <2>3, <2>4, ViewIs DEF CalmTask
    <2> QED BY <1>3, <2>2, <2>5
  <1>5. ASSUME NEW n \in 1 .. MaxPosts, Edited(c, n) PROVE Calm(View', tasks', wire', rpc')
    <2>1. PICK v : v = log[c][n].ver + 1
      OBVIOUS
    <2> DEFINE t == Task("edit", c, n, v, "row")
    <2>2. tasks' = {t} /\ CanEdit(c, n) /\ EditIn(c, n)
      BY <1>2, <1>5, <2>1 DEF Edited
    <2>3. n \in DOMAIN log'[c] /\ log'[c][n].ver = v /\ log'[c][n].kind = "text" /\ EditDue(View', c, n)
      BY <1>1, <1>2, <2>1, <2>2, ViewEdited
    <2>4. t.kind = "edit" /\ t.chat = c /\ t.n = n /\ t.ver = v
      BY DEF Task
    <2> HIDE DEF t
    <2>5. CalmTask(View', t)
      BY <2>3, <2>4, ViewIs DEF CalmTask
    <2> QED BY <1>3, <2>2, <2>5
  <1>6. ASSUME NEW n \in 1 .. MaxPosts, Deleted(c, n) PROVE Calm(View', tasks', wire', rpc')
    <2> DEFINE t == Task("delete", c, n, 0, "row")
    <2>1. tasks' = {t} /\ Present(c, n) /\ DeleteIn(c, n)
      BY <1>2, <1>6 DEF Deleted
    <2>2. n \in DOMAIN log'[c] /\ DeleteDue(View', c, n)
      BY <1>1, <1>2, <2>1, ViewDeleted
    <2>3. t.kind = "delete" /\ t.chat = c /\ t.n = n
      BY DEF Task
    <2> HIDE DEF t
    <2>4. CalmTask(View', t)
      BY <2>2, <2>3, ViewIs DEF CalmTask
    <2> QED BY <1>3, <2>1, <2>4
  <1> QED BY <1>4, <1>5, <1>6

\* Where nothing of the view changes, nor of what is on its way, the list stays as calm.
LEMMA CalmSame ==
  ASSUME CalmInv, UNCHANGED <<active, msgs, echoes, log, enabled, hide, filtered, tasks, wire, rpc>>,
         calm' => calm
  PROVE  CalmInv'
  <1>1. View' = View
    BY SameView
  <1> QED BY <1>1 DEF CalmInv

\* The record of a command takes its bubble out of what a reload would show.
LEMMA Recorded ==
  ASSUME TimelineInv, NEW c \in Chats, NEW n, CommandDue(View, c, n, "filter"),
         filtered' = filtered \cup {<<c, n>>}, UNCHANGED <<active, msgs, echoes, log, enabled, hide>>
  PROVE  Exact(View')
  <1>1. ViewOK(View)
    BY ViewTypes
  <1>2. CASE active = None
    BY <1>2, ViewIs DEF Exact
  <1>3. CASE active \in Chats /\ active # c
    <2>1. enabled[active] /\ msgs = Vis(log[active], filtered, hide[active], active)
      BY <1>3, ViewIs, Bounds DEF CommandDue, Elsewhere, Exact, Seen
    <2>2. Vis(log[active], filtered', hide[active], active) = Vis(log[active], filtered, hide[active], active)
      <3>1. PICK d : d = active
        OBVIOUS
      <3>2. \A l, f, h : Vis(l, f \cup {<<c, n>>}, h, d) = Vis(l, f, h, d)
        BY <1>3, <3>1, VisOther
      <3> QED BY <3>1, <3>2
    <2> QED BY <2>1, <2>2, ViewIs DEF Exact, Seen
  <1>4. CASE active = c
    <2>1. enabled[c] /\ msgs = Drop(Vis(log[c], filtered, hide[c], c), n)
      BY <1>4, ViewIs DEF CommandDue, Seen
    <2>2. PICK l, f, h : l = log[c] /\ f = filtered /\ h = hide[c]
      OBVIOUS
    <2>3. Vis(l, f \cup {<<c, n>>}, h, c) = Drop(Vis(l, f, h, c), n)
      BY <1>1, <2>2, VisFilter, ViewIs DEF ViewOK
    <2>4. Seen(View', c) = Vis(l, f \cup {<<c, n>>}, h, c)
      BY <2>2, ViewIs DEF Seen
    <2> QED BY <1>4, <2>1, <2>2, <2>3, <2>4, ViewIs DEF Exact
  <1> QED BY <1>1, <1>2, <1>3, <1>4, ViewIs DEF ViewOK

\* A handler goes on, or passes what is due on to its frame.
LEMMA CalmHandler ==
  ASSUME TimelineInv, CalmInv, NEW t \in tasks, Handle(t)
  PROVE  CalmInv'
  <1> SUFFICES ASSUME calm' PROVE Calm(View', tasks', wire', rpc')
    BY DEF CalmInv
  <1>0. TaskOK(t, log) /\ t \in Updates /\ t.chat \in Chats
    BY Parts DEF TasksOK, TaskOK, Updates
  <1>1. calm /\ UNCHANGED <<active, msgs, echoes, log, hide, rpc>>
    BY DEF Handle, Filter, RowOfNew, RowOfEdit, RowOfDelete, RowOfCommand, Emit, telegram, tables, tab, history
  <1>2. /\ tasks = {t} /\ wire = <<>> /\ CalmTask(View, t) /\ Alone(rpc) /\ CallsDue(View, rpc)
        /\ \A s \in Slots : rpc[s] # Idle => Own(rpc[s], t.kind, t.chat, t.n)
    BY <1>1, HandlerAlone DEF CalmInv
  <1>3. UNCHANGED <<enabled, filtered>> => View' = View
    BY <1>1, SameView
  <1>4. t.kind = "command" => Resting(rpc) /\ Resting(rpc')
    BY <1>1, <1>2 DEF Own, Resting
  <1>5. ASSUME NEW a, Goto(t, a), wire' = wire, Alone(rpc), CallsDue(View', rpc),
               \A u : u \in Updates /\ u.kind = t.kind /\ u.chat = t.chat /\ u.n = t.n /\ u.ver = t.ver /\ u.at = a
                      => CalmTask(View', u),
               a \in {"filter", "row", "emit"}
        PROVE  Calm(View', tasks', wire', rpc')
    <2> DEFINE u == [t EXCEPT !.at = a]
    <2>1. u \in Updates /\ u.kind = t.kind /\ u.chat = t.chat /\ u.n = t.n /\ u.ver = t.ver /\ u.at = a
      BY <1>0, <1>5 DEF Updates
    <2>2. tasks' = {u}
      BY <1>2, <1>5 DEF Goto
    <2> HIDE DEF u
    <2>3. CalmTask(View', u)
      BY <1>5, <2>1
    <2>4. \A s \in Slots : rpc[s] # Idle => Own(rpc[s], u.kind, u.chat, u.n)
      BY <1>2, <2>1
    <2>5. Calm(View', {u}, <<>>, rpc)
      BY <1>5, <2>3, <2>4, HandlerIs
    <2> QED BY <1>1, <1>2, <1>5, <2>2, <2>5
  <1>6. ASSUME Return(t), wire' = wire, Exact(View'), Alone(rpc), CallsDue(View', rpc)
        PROVE  Calm(View', tasks', wire', rpc')
    <2>1. tasks' = {}
      BY <1>2, <1>6 DEF Return
    <2> QED BY <1>1, <1>2, <1>6, <2>1, QuietIs
  <1>7. ASSUME NEW f, Send(f), Return(t), View' = View, CalmFrame(View, f), f.chat = t.chat, f.n = t.n,
               \A r : Own(r, t.kind, t.chat, t.n) => Own(r, f.event, f.chat, f.n)
        PROVE  Calm(View', tasks', wire', rpc')
    <2>1. tasks' = {} /\ wire' = <<f>>
      BY <1>2, <1>7 DEF Return, Send
    <2>2. Calm(View, {}, <<f>>, rpc)
      BY <1>2, <1>7, FrameIs
    <2> QED BY <1>1, <1>7, <2>1, <2>2
  <1>8. CASE Filter(t)
    <2>1. t.at = "filter" /\ UNCHANGED <<wire, enabled>>
      BY <1>8 DEF Filter
    <2>2. CASE t.kind = "command"
      <3>1. filtered' = filtered \cup {<<t.chat, t.n>>} /\ Goto(t, "row")
        BY <1>8, <2>2 DEF Filter
      <3>2. Exact(View')
        <4>1. CommandDue(View, t.chat, t.n, "filter")
          BY <1>2, <2>1, <2>2 DEF CalmTask
        <4> QED BY <1>0, <1>1, <2>1, <3>1, <4>1, Recorded
      <3>3. CommandDue(View', t.chat, t.n, "row")
        BY <3>2 DEF CommandDue, Elsewhere
      <3>4. Alone(rpc) /\ CallsDue(View', rpc)
        BY <1>4, <2>2, NoCallLeft
      <3>5. t.n \in DOMAIN View'.log[t.chat]
        BY <1>0, <1>1, ViewIs DEF TaskOK
      <3>6. ASSUME NEW u, u \in Updates, u.kind = t.kind, u.chat = t.chat, u.n = t.n, u.at = "row"
            PROVE  CalmTask(View', u)
        BY <2>2, <3>3, <3>5, <3>6 DEF CalmTask
      <3> QED BY <1>5, <2>1, <3>1, <3>4, <3>6
    <2>3. CASE t.kind # "command"
      <3>1. /\ UNCHANGED filtered
            /\ IF <<t.chat, t.n>> \in filtered THEN Return(t)
               ELSE Goto(t, IF t.kind = "new" THEN "row" ELSE "emit")
        BY <1>8, <2>3 DEF Filter
      <3>2. log[t.chat][t.n].kind = "text"
        <4>1. t.kind = "new" \/ t.kind = "edit"
          BY <1>0, <2>1, <2>3 DEF TaskOK, Updates
        <4> QED BY <1>0, <1>2, <4>1, ViewIs DEF TaskOK, CalmTask
      <3>3. <<t.chat, t.n>> \notin filtered
        <4>1. <<t.chat, t.n>>[1] = t.chat /\ <<t.chat, t.n>>[2] = t.n
          OBVIOUS
        <4> QED BY <3>2, <4>1, Parts DEF RecordsOK, RecordOK
      <3>4. PICK a \in {"row", "emit"} : Goto(t, a) /\ (t.kind = "new" => a = "row")
        BY <3>1, <3>3
      <3>5. View' = View
        BY <1>3, <2>1, <3>1
      <3>6. ASSUME NEW u, u \in Updates, u.kind = t.kind, u.chat = t.chat, u.n = t.n, u.ver = t.ver, u.at = a
            PROVE  CalmTask(View', u)
        BY <1>2, <2>3, <3>4, <3>5, <3>6 DEF CalmTask
      <3> QED BY <1>2, <1>5, <2>1, <3>4, <3>5, <3>6
    <2> QED BY <2>2, <2>3
  <1>9. CASE RowOfNew(t)
    <2>1. /\ t.kind = "new" /\ t.at = "row" /\ View' = View /\ wire' = wire
          /\ IF enabled[t.chat] /\ log[t.chat][t.n].date >= hide[t.chat] THEN Goto(t, "emit") ELSE Return(t)
      BY <1>3, <1>9 DEF RowOfNew, tables
    <2>2. NewDue(View, t.chat, t.n) /\ t.n \in DOMAIN View.log[t.chat]
      BY <1>2, <2>1 DEF CalmTask
    <2>3. CASE Goto(t, "emit") /\ log[t.chat][t.n].date >= hide[t.chat]
      <3>1. Recent(View, t.chat, t.n)
        BY <2>3, ViewIs DEF Recent
      <3>2. ASSUME NEW u, u \in Updates, u.kind = t.kind, u.chat = t.chat, u.n = t.n
            PROVE  CalmTask(View', u)
        BY <2>1, <2>2, <3>1, <3>2 DEF CalmTask
      <3> QED BY <1>2, <1>5, <2>1, <2>3, <3>2
    <2>4. CASE Return(t) /\ ~(enabled[t.chat] /\ log[t.chat][t.n].date >= hide[t.chat])
      <3>1. Exact(View)
        BY <2>2, <2>4, ViewIs DEF NewDue, Elsewhere, Exact, Recent
      <3> QED BY <1>2, <1>6, <2>1, <2>4, <3>1
    <2> QED BY <2>1, <2>3, <2>4
  <1>10. CASE RowOfEdit(t)
    <2>1. /\ t.kind = "edit" /\ t.at = "row" /\ View' = View /\ wire' = wire
          /\ IF enabled[t.chat] THEN Goto(t, "filter") ELSE Return(t)
      BY <1>3, <1>10 DEF RowOfEdit, tables
    <2>2. CASE Goto(t, "filter")
      <3>1. ASSUME NEW u, u \in Updates, u.kind = t.kind, u.chat = t.chat, u.n = t.n, u.ver = t.ver
            PROVE  CalmTask(View', u)
        BY <1>2, <2>1, <3>1 DEF CalmTask
      <3> QED BY <1>2, <1>5, <2>1, <2>2, <3>1
    <2>3. CASE Return(t) /\ ~enabled[t.chat]
      <3>1. Exact(View)
        BY <1>2, <2>1, <2>3, ViewIs DEF CalmTask, EditDue, Elsewhere
      <3> QED BY <1>2, <1>6, <2>1, <2>3, <3>1
    <2> QED BY <2>1, <2>2, <2>3
  <1>11. CASE RowOfDelete(t)
    <2>1. /\ t.kind = "delete" /\ View' = View /\ Return(t)
          /\ IF enabled[t.chat] THEN Send(Frame("deleted", t)) ELSE wire' = wire
      BY <1>3, <1>11 DEF RowOfDelete, tables
    <2>2. DeleteDue(View, t.chat, t.n)
      BY <1>2, <2>1 DEF CalmTask
    <2>3. CASE Send(Frame("deleted", t))
      <3> DEFINE f == Frame("deleted", t)
      <3>1. f.event = "deleted" /\ f.chat = t.chat /\ f.n = t.n
        BY DEF Frame
      <3> HIDE DEF f
      <3>2. CalmFrame(View, f)
        BY <2>2, <3>1 DEF CalmFrame
      <3>3. \A r : Own(r, t.kind, t.chat, t.n) => Own(r, f.event, f.chat, f.n)
        BY <2>1, <3>1 DEF Own
      <3>4. Send(f)
        BY <2>3 DEF f
      <3> QED BY <1>7, <2>1, <3>1, <3>2, <3>3, <3>4
    <2>4. CASE wire' = wire /\ ~enabled[t.chat]
      <3>1. Exact(View)
        BY <2>2, <2>4, ViewIs DEF DeleteDue, Elsewhere
      <3> QED BY <1>2, <1>6, <2>1, <2>4, <3>1
    <2> QED BY <2>1, <2>3, <2>4
  <1>12. CASE RowOfCommand(t)
    <2>1. /\ t.kind = "command" /\ t.at = "row" /\ UNCHANGED <<filtered, wire>>
          /\ enabled' = [enabled EXCEPT ![t.chat] = log[t.chat][t.n].kind = "addweb"]
          /\ IF log[t.chat][t.n].kind = "delweb" THEN Goto(t, "emit") ELSE Return(t)
      BY <1>12 DEF RowOfCommand
    <2>2. Exact(View)
      BY <1>2, <2>1 DEF CalmTask, CommandDue, Elsewhere
    <2>3. enabled \in [Chats -> BOOLEAN] /\ active \in Chats \cup {None}
      BY Parts DEF TablesOK, TabOK
    <2>4. \A c : Seen(View', c) = Seen(View, c)
      BY <1>1, <2>1, ViewIs DEF Seen
    <2>5. Alone(rpc) /\ CallsDue(View', rpc)
      BY <1>4, <2>1, NoCallLeft
    <2>6. active = None \/ (active \in Chats /\ enabled[active] /\ msgs = Seen(View', active))
      BY <2>2, <2>3, <2>4, ViewIs DEF Exact
    <2>7. CASE log[t.chat][t.n].kind = "delweb"
      <3>1. Elsewhere(View', t.chat)
        BY <1>1, <2>1, <2>3, <2>6, ViewIs DEF Elsewhere, Exact
      <3>2. t.n \in DOMAIN View'.log[t.chat]
        BY <1>0, <1>1, ViewIs DEF TaskOK
      <3>3. ASSUME NEW u, u \in Updates, u.kind = t.kind, u.chat = t.chat, u.n = t.n, u.at = "emit"
            PROVE  CalmTask(View', u)
        BY <2>1, <3>1, <3>2, <3>3 DEF CalmTask, CommandDue
      <3>4. Goto(t, "emit")
        BY <2>1, <2>7
      <3> QED BY <1>5, <2>1, <2>5, <3>3, <3>4
    <2>8. CASE log[t.chat][t.n].kind # "delweb"
      <3>1. log[t.chat][t.n].kind = "addweb"
        <4>1. log[t.chat][t.n] \in Message /\ log[t.chat][t.n].kind # "text"
          BY <1>0, <2>1, Parts, LogTypes DEF TaskOK
        <4> QED BY <2>8, <4>1 DEF Message, Kinds
      <3>2. active \in Chats /\ enabled[active] => enabled'[active]
        BY <2>1, <2>3, <3>1
      <3>3. Exact(View')
        BY <1>1, <2>6, <3>2, ViewIs DEF Exact
      <3> QED BY <1>6, <2>1, <2>5, <2>8, <3>3
    <2> QED BY <2>7, <2>8
  <1>13. CASE Emit(t)
    <2>1. /\ t.at = "emit" /\ View' = View /\ Return(t)
          /\ t.kind \in {"new", "edit", "command"}
      <3>1. t.at = "emit" /\ View' = View /\ Return(t)
        BY <1>3, <1>13 DEF Emit, tables
      <3> QED BY <1>0, <3>1 DEF TaskOK, Updates
    <2>2. ASSUME NEW e, Send(Frame(e, t)),
                 \/ t.kind = "new" /\ e = "new"
                 \/ t.kind = "edit" /\ e = "edited"
                 \/ t.kind = "command" /\ e = "removed"
          PROVE  Calm(View', tasks', wire', rpc')
      <3> DEFINE f == Frame(e, t)
      <3>1. f.event = e /\ f.chat = t.chat /\ f.n = t.n /\ f.ver = t.ver
        BY DEF Frame
      <3>2. \/ t.kind = "new" /\ e = "new"
            \/ t.kind = "edit" /\ e = "edited"
            \/ t.kind = "command" /\ e = "removed"
        BY <2>2
      <3>3. Send(f)
        BY <2>2
      <3> HIDE DEF f
      <3>4. CalmFrame(View, f)
        BY <1>2, <2>1, <3>1, <3>2 DEF CalmTask, CalmFrame, CommandDue
      <3>5. \A r : Own(r, t.kind, t.chat, t.n) => Own(r, f.event, f.chat, f.n)
        BY <3>1, <3>2 DEF Own
      <3> QED BY <1>7, <2>1, <3>1, <3>3, <3>4, <3>5
    <2>3. CASE t.kind = "new"
      <3>1. Send(Frame("new", t))
        BY <1>13, <2>3 DEF Emit
      <3> QED BY <2>2, <2>3, <3>1
    <2>4. CASE t.kind = "edit"
      <3>1. Send(Frame("edited", t))
        BY <1>13, <2>4 DEF Emit
      <3> QED BY <2>2, <2>4, <3>1
    <2>5. CASE t.kind = "command"
      <3>1. Send(Frame("removed", t))
        BY <1>13, <2>5 DEF Emit
      <3> QED BY <2>2, <2>5, <3>1
    <2> QED BY <2>1, <2>3, <2>4, <2>5
  <1> QED BY <1>8, <1>9, <1>10, <1>11, <1>12, <1>13 DEF Handle

\* A call that starts alone, or moves on alone.
LEMMA OneCallDue ==
  ASSUME NEW s \in Slots, NEW q, q # Idle, \A p \in Slots : p # s => rpc[p] = Idle,
         RpcOK, rpc' = [rpc EXCEPT ![s] = q], CalmCall(View', q)
  PROVE  /\ Alone(rpc') /\ CallsDue(View', rpc') /\ ~Resting(rpc')
         /\ rpc'[s] = q /\ \A p \in Slots : rpc'[p] # Idle => p = s
  <1>1. rpc'[s] = q /\ \A p \in Slots : p # s => rpc'[p] = Idle
    BY DEF RpcOK
  <1>2. Alone(rpc') /\ CallsDue(View', rpc')
    BY <1>1, OnlyCall
  <1> QED BY <1>1, <1>2 DEF Resting

\* What the user asks for starts when all is still, and is then all there is.
LEMMA CalmAsk ==
  ASSUME TimelineInv, CalmInv, NEW s \in Slots,
         (\E c \in Chats : OpenChat(s, c)) \/ Reload(s) \/ AskChange(s)
  PROVE  CalmInv'
  <1> SUFFICES ASSUME calm' PROVE Calm(View', tasks', wire', rpc')
    BY DEF CalmInv
  <1>1. Still /\ UNCHANGED <<tasks, wire>>
    BY DEF OpenChat, Reload, AskChange, Begin
  <1>2. tasks' = {} /\ wire' = <<>> /\ (\A p \in Slots : rpc[p] = Idle) /\ RpcOK
    BY <1>1, Parts DEF Still
  <1>3. ASSUME NEW op, NEW c, NEW n, Ask(s, op, c, n),
               op = "load" => c = active',
               op # "load" => Exact(View'),
               op \in {"send", "edit", "delete"} => c = active'
        PROVE  Calm(View', tasks', wire', rpc')
    <2>1. PICK r : /\ rpc' = [rpc EXCEPT ![s] = r] /\ r # Idle
                   /\ r.op = op /\ r.chat = c /\ r.n = n /\ r.ver = 0 /\ r.at = "asked"
      BY <1>3, AskIs
    <2>2. CalmCall(View', r)
      BY <1>3, <2>1, ViewIs DEF CalmCall, LoadDue
    <2>3. Alone(rpc') /\ CallsDue(View', rpc') /\ ~Resting(rpc')
      BY <1>2, <2>1, <2>2, OneCallDue
    <2> QED BY <1>2, <2>3, QuietIs
  <1>4. ASSUME NEW c \in Chats, OpenChat(s, c) PROVE Calm(View', tasks', wire', rpc')
    BY <1>3, <1>4 DEF OpenChat
  <1>5. CASE Reload(s)
    <2>1. Ask(s, "load", active, 0) /\ active' = active
      BY <1>5 DEF Reload, tab
    <2> QED BY <1>3, <2>1
  <1>6. CASE AskChange(s)
    <2>1. calm /\ UNCHANGED <<active, msgs, echoes, log, enabled, hide, filtered>>
      BY <1>6 DEF AskChange, Begin, telegram, tables, tab
    <2>2. Exact(View')
      BY <1>1, <2>1, StillIs, SameView
    <2>3. \E op \in {"send", "edit", "delete", "clear"} :
             \E c, n : Ask(s, op, c, n) /\ (op # "clear" => c = active)
      BY <1>6 DEF AskChange
    <2> QED BY <1>3, <2>1, <2>2, <2>3
  <1> QED BY <1>4, <1>5, <1>6

\* All messages are older than a watermark after now.
LEMMA Cleared ==
  ASSUME TimelineInv, Pasts, Exact(View), NEW c \in Chats,
         hide' = [hide EXCEPT ![c] = now + 1], UNCHANGED <<active, msgs, echoes, log, enabled, filtered>>
  PROVE  ClearDue(View', c)
  <1>0. ViewOK(View) /\ hide'[c] = now + 1 /\ (\A d \in Chats : d # c => hide'[d] = hide[d])
        /\ now \in Nat /\ active \in Chats \cup {None}
    BY ViewTypes, Parts DEF TablesOK, TabOK
  <1> SUFFICES ASSUME active # None
               PROVE  enabled[active] /\ IF c = active THEN Seen(View', c) = <<>> ELSE Exact(View')
    BY ViewIs DEF ClearDue
  <1>1. enabled[active] /\ msgs = Seen(View, active)
    BY ViewIs DEF Exact
  <1>2. CASE c = active
    <2>1. PICK l, h : l = log[c] /\ h = now + 1
      OBVIOUS
    <2>2. ChatLog(l)
      BY <1>0, <2>1, ViewIs DEF ViewOK
    <2>3. \A n \in DOMAIN l : ~(l[n].date >= h)
      <3>1. \A n \in DOMAIN l : l[n].date <= now /\ l[n].date \in Nat
        BY <2>1, Parts, LogTypes, Bounds DEF Pasts, Message
      <3> QED BY <1>0, <2>1, <3>1
    <2>4. Vis(l, filtered, h, c) = <<>>
      BY <2>2, <2>3, VisHidden
    <2> QED BY <1>0, <1>1, <1>2, <2>1, <2>4, ViewIs DEF Seen
  <1>3. CASE c # active
    <2>1. Seen(View', active) = Seen(View, active)
      BY <1>0, <1>3, ViewIs DEF Seen
    <2> QED BY <1>1, <1>3, <2>1, ViewIs DEF Exact
  <1> QED BY <1>2, <1>3

\* The gateway's steps for a call.
LEMMA CalmServe ==
  ASSUME TimelineInv, Pasts, CalmInv, NEW s \in Slots,
         \/ Refuse(s) \/ CheckRow(s) \/ Snapshot(s) \/ PostMine(s) \/ EditMine(s) \/ DeleteMine(s)
         \/ HideHistory(s) \/ CallFails(s) \/ Answer(s) \/ LoseAnswer(s)
  PROVE  CalmInv'
  <1> SUFFICES ASSUME calm' PROVE Calm(View', tasks', wire', rpc')
    BY DEF CalmInv
  <1>1. /\ calm /\ ~LoseAnswer(s) /\ rpc[s].at \in {"asked", "checked", "called"}
        /\ UNCHANGED <<active, msgs, echoes, enabled, filtered, wire>>
    BY DEF Refuse, CheckRow, Snapshot, PostMine, EditMine, DeleteMine, HideHistory, CallFails, Answer, LoseAnswer,
       Step, tables, tab, history
  <1>2. /\ rpc[s] \in Calls /\ CallOK(rpc[s]) /\ rpc[s] # Idle /\ rpc[s].chat \in Chats /\ RpcOK
        /\ rpc[s].op \in Ops
    <2>1. rpc[s].at # "idle"
      BY <1>1
    <2> QED BY <2>1, CallTypes, Parts DEF Calls, Idle
  <1>3. /\ tasks = {} /\ wire = <<>> /\ CalmCall(View, rpc[s])
        /\ \A p \in Slots : p # s => rpc[p] = Idle
    <2>1. wire \in Seq(Frames)
      BY Parts DEF WireOK
    <2>2. rpc[s].at # "ok" /\ rpc[s] # Idle /\ Calm(View, tasks, wire, rpc)
      BY <1>1, <1>2 DEF CalmInv
    <2> QED BY <2>1, <2>2, UnansweredAlone
  <1>4. rpc[s].op # "load" => Exact(View)
    BY <1>1, <1>3 DEF CalmCall
  <1>5. ASSUME NEW q, NEW a, NEW n, NEW v, NEW h, NEW b, Moved(q, rpc[s], a, n, v, h, b),
               rpc' = [rpc EXCEPT ![s] = q], CalmCall(View', q),
               tasks' = {} \/ \E t : tasks' = {t} /\ CalmTask(View', t) /\ Own(q, t.kind, t.chat, t.n)
        PROVE  Calm(View', tasks', wire', rpc')
    <2>1. q # Idle
      BY <1>2, <1>5 DEF Moved, Idle, Ops
    <2>2. Alone(rpc') /\ CallsDue(View', rpc') /\ ~Resting(rpc')
          /\ rpc'[s] = q /\ \A p \in Slots : rpc'[p] # Idle => p = s
      BY <1>2, <1>3, <1>5, <2>1, OneCallDue
    <2>3. CASE tasks' = {}
      BY <1>1, <1>3, <2>2, <2>3, QuietIs
    <2>4. CASE \E t : tasks' = {t} /\ CalmTask(View', t) /\ Own(q, t.kind, t.chat, t.n)
      <3>1. PICK t : tasks' = {t} /\ CalmTask(View', t) /\ Own(q, t.kind, t.chat, t.n)
        BY <2>4
      <3>2. \A p \in Slots : rpc'[p] # Idle => Own(rpc'[p], t.kind, t.chat, t.n)
        BY <2>2, <3>1
      <3>3. Calm(View', {t}, <<>>, rpc')
        BY <2>2, <3>1, <3>2, HandlerIs
      <3> QED BY <1>1, <1>3, <3>1, <3>3
    <2> QED BY <1>5, <2>3, <2>4
  <1>6. ASSUME View' = View, tasks' = {}, rpc' = [rpc EXCEPT ![s] = To(s, "failed")]
        PROVE  Calm(View', tasks', wire', rpc')
    <2>1. PICK q : q = To(s, "failed")
      OBVIOUS
    <2>2. Moved(q, rpc[s], "failed", rpc[s].n, rpc[s].ver, rpc[s].hide, rpc[s].list)
      BY <1>2, <2>1, MovedIs
    <2>3. CalmCall(View', q)
      BY <1>3, <1>4, <1>6, <2>2 DEF CalmCall, LoadDue, Moved
    <2> QED BY <1>5, <1>6, <2>1, <2>2, <2>3
  <1>7. CASE Refuse(s) \/ CallFails(s)
    <2>1. View' = View /\ tasks' = {} /\ rpc' = [rpc EXCEPT ![s] = To(s, "failed")]
      BY <1>1, <1>3, <1>7, SameView DEF Refuse, CallFails, Step, telegram, tables
    <2> QED BY <1>6, <2>1
  <1>8. CASE CheckRow(s)
    <2>1. PICK h : h = hide[rpc[s].chat]
      OBVIOUS
    <2>2. /\ View' = View /\ tasks' = {}
          /\ \/ rpc' = [rpc EXCEPT ![s] = To(s, "failed")]
             \/ enabled[rpc[s].chat] /\ rpc' = [rpc EXCEPT ![s] = [To(s, "checked") EXCEPT !.hide = h]]
      BY <1>1, <1>3, <1>8, <2>1, SameView DEF CheckRow, Step, telegram, tables
    <2>3. CASE enabled[rpc[s].chat] /\ rpc' = [rpc EXCEPT ![s] = [To(s, "checked") EXCEPT !.hide = h]]
      <3>1. PICK q : q = [To(s, "checked") EXCEPT !.hide = h]
        OBVIOUS
      <3>2. Moved(q, rpc[s], "checked", rpc[s].n, rpc[s].ver, h, rpc[s].list)
        BY <1>2, <3>1, MovedIs
      <3>3. CalmCall(View', q)
        BY <1>3, <1>4, <2>1, <2>2, <2>3, <3>2, ViewIs DEF CalmCall, LoadDue, Moved
      <3> QED BY <1>5, <2>2, <2>3, <3>1, <3>2, <3>3
    <2> QED BY <1>6, <2>2, <2>3
  <1>9. CASE Snapshot(s)
    <2>1. PICK b : b = History(rpc[s].chat)
      OBVIOUS
    <2>2. /\ View' = View /\ tasks' = {} /\ rpc[s].op = "load" /\ rpc[s].at = "checked"
          /\ rpc' = [rpc EXCEPT ![s] = [To(s, "called") EXCEPT !.list = b]]
      BY <1>1, <1>3, <1>9, <2>1, SameView DEF Snapshot, Step, telegram, tables
    <2>3. PICK q : q = [To(s, "called") EXCEPT !.list = b]
      OBVIOUS
    <2>4. Moved(q, rpc[s], "called", rpc[s].n, rpc[s].ver, rpc[s].hide, b)
      BY <1>2, <2>3, MovedIs
    <2>5. b = Hist(View.log[rpc[s].chat], rpc[s].chat)
      BY <1>2, <2>1, ViewTypes, ViewIs
    <2>6. CalmCall(View', q)
      BY <1>3, <2>2, <2>4, <2>5 DEF CalmCall, LoadDue, Moved
    <2> QED BY <1>5, <2>2, <2>3, <2>4, <2>6
  <1>10. CASE Answer(s)
    <2>1. PICK b : b = Passing(rpc[s].list, rpc[s].hide)
      OBVIOUS
    <2>2. To(s, "ok").list = rpc[s].list
      BY <1>2, MovedIs DEF Moved
    <2>3. /\ View' = View /\ tasks' = {} /\ rpc[s].op = "load" /\ rpc[s].at = "called"
          /\ rpc' = [rpc EXCEPT ![s] = [To(s, "ok") EXCEPT !.list = b]]
      BY <1>1, <1>2, <1>3, <1>10, <2>1, <2>2, SameView DEF Answer, Step, telegram, tables, CallOK
    <2>4. PICK q : q = [To(s, "ok") EXCEPT !.list = b]
      OBVIOUS
    <2>5. Moved(q, rpc[s], "ok", rpc[s].n, rpc[s].ver, rpc[s].hide, b)
      BY <1>2, <2>4, MovedIs
    <2>6. b = Seen(View, rpc[s].chat)
      <3>1. rpc[s].list = History(rpc[s].chat) /\ rpc[s].hide = hide[rpc[s].chat]
        BY <1>2, <1>3, <2>3, ViewTypes, ViewIs DEF CalmCall, LoadDue
      <3>2. b = Visible(rpc[s].chat)
        BY <2>1, <3>1 DEF Visible
      <3> QED BY <1>2, <3>2, ViewTypes
    <2>7. CalmCall(View', q)
      BY <1>3, <2>3, <2>5, <2>6 DEF CalmCall, LoadDue, Moved
    <2> QED BY <1>5, <2>3, <2>4, <2>5, <2>7
  <1>11. CASE HideHistory(s)
    <2>1. /\ rpc[s].op = "clear" /\ tasks' = {} /\ log' = log
          /\ hide' = [hide EXCEPT ![rpc[s].chat] = now + 1]
          /\ rpc' = [rpc EXCEPT ![s] = To(s, "ok")]
      BY <1>3, <1>11 DEF HideHistory, Step, telegram
    <2>2. PICK q : q = To(s, "ok")
      OBVIOUS
    <2>3. Moved(q, rpc[s], "ok", rpc[s].n, rpc[s].ver, rpc[s].hide, rpc[s].list)
      BY <1>2, <2>2, MovedIs
    <2>4. ClearDue(View', rpc[s].chat)
      BY <1>1, <1>2, <1>4, <2>1, Cleared
    <2>5. CalmCall(View', q)
      BY <2>1, <2>3, <2>4 DEF CalmCall, Moved
    <2> QED BY <1>5, <2>1, <2>2, <2>3, <2>5
  <1>12. CASE PostMine(s)
    <2>1. PICK c, n : c \in Chats /\ c = rpc[s].chat /\ n = Len(log[c]) + 1
      BY <1>2
    <2>2. PICK t : t = Task("new", c, n, 0, "filter")
      OBVIOUS
    <2>3. /\ rpc[s].op = "send" /\ CanPost(c) /\ PostTo(c, "text") /\ hide' = hide
          /\ tasks' = {} \/ tasks' = {t}
          /\ rpc' = [rpc EXCEPT ![s] = [To(s, "ok") EXCEPT !.n = n]]
      BY <1>3, <1>12, <2>1, <2>2 DEF PostMine, Step, tables, MaybeUpdate, HandlersOf
    <2>4. n \in DOMAIN log'[c] /\ <<c, n>> \notin echoes /\ NewDue(View', c, n)
      BY <1>1, <1>4, <2>1, <2>3, ViewPosted DEF Kinds
    <2>5. PICK q : q = [To(s, "ok") EXCEPT !.n = n]
      OBVIOUS
    <2>6. Moved(q, rpc[s], "ok", n, rpc[s].ver, rpc[s].hide, rpc[s].list)
      BY <1>2, <2>5, MovedIs
    <2>7. CalmCall(View', q)
      BY <1>1, <1>3, <2>1, <2>3, <2>4, <2>6, ViewIs DEF CalmCall, Moved
    <2>8. t.kind = "new" /\ t.chat = c /\ t.n = n /\ t.at = "filter"
      BY <2>2 DEF Task
    <2>9. CalmTask(View', t)
      BY <2>4, <2>8, ViewIs DEF CalmTask
    <2>10. Own(q, t.kind, t.chat, t.n)
      BY <2>1, <2>3, <2>6, <2>8 DEF Own, Moved
    <2> QED BY <1>5, <2>3, <2>5, <2>6, <2>7, <2>9, <2>10
  <1>13. CASE EditMine(s)
    <2>1. PICK c, n, v : c = rpc[s].chat /\ n = rpc[s].n /\ v = log[c][n].ver + 1
      OBVIOUS
    <2>2. PICK t : t = Task("edit", c, n, v, "row")
      OBVIOUS
    <2>3. /\ rpc[s].op = "edit" /\ CanEdit(c, n) /\ EditIn(c, n) /\ hide' = hide
          /\ tasks' = {} \/ tasks' = {t}
          /\ rpc' = [rpc EXCEPT ![s] = [To(s, "ok") EXCEPT !.ver = v]]
      BY <1>3, <1>13, <2>1, <2>2 DEF EditMine, Step, tables, MaybeUpdate
    <2>4. n \in DOMAIN log'[c] /\ log'[c][n].ver = v /\ log'[c][n].kind = "text" /\ EditDue(View', c, n)
      BY <1>1, <1>4, <2>1, <2>3, ViewEdited
    <2>5. PICK q : q = [To(s, "ok") EXCEPT !.ver = v]
      OBVIOUS
    <2>6. Moved(q, rpc[s], "ok", rpc[s].n, v, rpc[s].hide, rpc[s].list)
      BY <1>2, <2>5, MovedIs
    <2>7. CalmCall(View', q)
      BY <1>1, <1>3, <2>1, <2>3, <2>4, <2>6, ViewIs DEF CalmCall, Moved
    <2>8. t.kind = "edit" /\ t.chat = c /\ t.n = n /\ t.ver = v
      BY <2>2 DEF Task
    <2>9. CalmTask(View', t)
      BY <2>4, <2>8, ViewIs DEF CalmTask
    <2>10. Own(q, t.kind, t.chat, t.n)
      BY <2>1, <2>3, <2>6, <2>8 DEF Own, Moved
    <2> QED BY <1>5, <2>3, <2>5, <2>6, <2>7, <2>9, <2>10
  <1>14. CASE DeleteMine(s)
    <2>1. PICK c, n : c = rpc[s].chat /\ n = rpc[s].n
      OBVIOUS
    <2>2. PICK t : t = Task("delete", c, n, 0, "row")
      OBVIOUS
    <2>3. /\ rpc[s].op = "delete" /\ hide' = hide
          /\ rpc' = [rpc EXCEPT ![s] = To(s, "ok")]
          /\ \/ Present(c, n) /\ DeleteIn(c, n) /\ (tasks' = {} \/ tasks' = {t})
             \/ ~Present(c, n) /\ log' = log /\ tasks' = {}
      BY <1>3, <1>14, <2>1, <2>2 DEF DeleteMine, Step, tables, MaybeUpdate
    <2>4. PICK q : q = To(s, "ok")
      OBVIOUS
    <2>5. Moved(q, rpc[s], "ok", rpc[s].n, rpc[s].ver, rpc[s].hide, rpc[s].list)
      BY <1>2, <2>4, MovedIs
    <2>6. DeleteDue(View', c, n) => CalmCall(View', q)
      BY <1>1, <1>3, <2>1, <2>3, <2>5, ViewIs DEF CalmCall, Moved
    <2>7. CASE Present(c, n) /\ DeleteIn(c, n) /\ (tasks' = {} \/ tasks' = {t})
      <3>1. n \in DOMAIN log'[c] /\ DeleteDue(View', c, n)
        BY <1>1, <1>4, <2>3, <2>7, ViewDeleted
      <3>2. t.kind = "delete" /\ t.chat = c /\ t.n = n
        BY <2>2 DEF Task
      <3>3. CalmTask(View', t)
        BY <3>1, <3>2, ViewIs DEF CalmTask
      <3>4. Own(q, t.kind, t.chat, t.n)
        BY <2>1, <2>3, <2>5, <3>2 DEF Own, Moved
      <3> QED BY <1>5, <2>3, <2>4, <2>5, <2>6, <2>7, <3>1, <3>3, <3>4
    <2>8. CASE ~Present(c, n) /\ log' = log /\ tasks' = {}
      <3>1. View' = View
        BY <1>1, <2>3, <2>8, SameView
      <3>2. c \in Chats /\ (n \in DOMAIN log[c] => log[c][n].gone)
        <4>1. c \in Chats /\ DOMAIN log[c] \subseteq 1 .. MaxPosts
          BY <1>2, <2>1, Parts, LogTypes
        <4>2. n \in DOMAIN log[c] => <<c, n>> \in Known
          BY <4>1 DEF Known
        <4> QED BY <2>8, <4>1, <4>2 DEF Present
      <3>3. DeleteDue(View, c, n)
        BY <1>4, <2>3, <3>2, NothingDeleted, ViewTypes, ViewIs
      <3> QED BY <1>5, <2>3, <2>4, <2>5, <2>6, <2>8, <3>1, <3>3
    <2> QED BY <2>3, <2>7, <2>8
  <1> QED BY <1>1, <1>7, <1>8, <1>9, <1>10, <1>11, <1>12, <1>13, <1>14

\* What the tab does with an answer.
LEMMA CalmShow ==
  ASSUME TimelineInv, CalmInv, NEW s \in Slots,
         ShowLoad(s) \/ ShowSend(s) \/ ShowEdit(s) \/ ShowDelete(s) \/ ShowClear(s) \/ ShowFailure(s)
  PROVE  CalmInv'
  <1> SUFFICES ASSUME calm' PROVE Calm(View', tasks', wire', rpc')
    BY DEF CalmInv
  <1>1. /\ calm /\ rpc' = [rpc EXCEPT ![s] = Idle] /\ rpc[s].at \in {"ok", "failed"}
        /\ UNCHANGED <<active, log, enabled, hide, filtered, tasks, wire>>
    BY DEF ShowLoad, ShowSend, ShowEdit, ShowDelete, ShowClear, ShowFailure, Free, telegram, tables, tab
  <1>2. rpc[s] \in Calls /\ rpc[s] # Idle /\ RpcOK /\ wire \in Seq(Frames) /\ Calm(View, tasks, wire, rpc)
    <2>1. rpc[s].at # "idle"
      BY <1>1
    <2> QED BY <1>1, <2>1, CallTypes, Parts DEF Calls, Idle, WireOK, CalmInv
  <1>3. /\ CalmCall(View, rpc[s])
        /\ \A q \in Slots : q # s => rpc[q] = Idle
        /\ Company(View, tasks, wire, rpc[s])
    <2>1. rpc[s] # Idle /\ wire \in Seq(Frames) /\ Calm(View, tasks, wire, rpc)
      BY <1>2
    <2> QED BY <2>1, CallAlone
  <1>4. Resting(rpc') /\ Alone(rpc') /\ CallsDue(View', rpc')
    <2>1. Resting(rpc')
      BY <1>1, <1>2, <1>3 DEF Resting, RpcOK
    <2> QED BY <2>1, NoCallLeft
  <1>5. \A c : Seen(View', c) = Seen(View, c)
    BY <1>1, ViewIs DEF Seen
  <1>6. ASSUME Exact(View'),
               \A t : CalmTask(View, t) /\ Own(rpc[s], t.kind, t.chat, t.n) => CalmTask(View', t),
               \A f : CalmFrame(View, f) /\ Own(rpc[s], f.event, f.chat, f.n) => CalmFrame(View', f)
        PROVE  Calm(View', tasks', wire', rpc')
    <2>1. CASE tasks = {} /\ wire = <<>>
      BY <1>1, <1>4, <1>6, <2>1, QuietIs
    <2>2. ASSUME NEW t, wire = <<>>, tasks = {t}, CalmTask(View, t), Own(rpc[s], t.kind, t.chat, t.n)
          PROVE  Calm(View', tasks', wire', rpc')
      <3>1. CalmTask(View', t)
        BY <1>6, <2>2
      <3>2. Calm(View', {t}, <<>>, rpc')
        BY <1>4, <3>1, HandlerIs DEF Resting
      <3> QED BY <1>1, <2>2, <3>2
    <2>3. ASSUME NEW f, tasks = {}, wire = <<f>>, CalmFrame(View, f), Own(rpc[s], f.event, f.chat, f.n)
          PROVE  Calm(View', tasks', wire', rpc')
      <3>1. CalmFrame(View', f)
        BY <1>6, <2>3
      <3>2. Calm(View', {}, <<f>>, rpc')
        BY <1>4, <3>1, FrameIs DEF Resting
      <3> QED BY <1>1, <2>3, <3>2
    <2> QED BY <1>3, <2>1, <2>2, <2>3 DEF Company
  <1>7. ASSUME Exact(View'), rpc[s].at # "ok" \/ rpc[s].op \notin {"send", "edit", "delete"}
        PROVE  Calm(View', tasks', wire', rpc')
    <2>1. \A k, c, n : ~Own(rpc[s], k, c, n)
      BY <1>7 DEF Own
    <2> QED BY <1>6, <1>7, <2>1
  <1>8. rpc[s].op \in {"send", "edit", "delete"} => rpc[s].chat = active /\ active # None
    BY <1>2, <1>3, ViewIs, Bounds DEF CalmCall, Calls
  <1>9. CASE ShowLoad(s)
    <2>1. rpc[s].op = "load" /\ rpc[s].at = "ok" /\ msgs' = rpc[s].list
      BY <1>9 DEF ShowLoad
    <2>2. LoadDue(View, rpc[s])
      BY <1>3, <2>1 DEF CalmCall
    <2>3. Exact(View')
      BY <1>1, <1>5, <2>1, <2>2, ViewIs DEF LoadDue, Exact
    <2> QED BY <1>7, <2>1, <2>3
  <1>10. CASE ShowClear(s)
    <2>1. /\ rpc[s].op = "clear" /\ rpc[s].at = "ok"
          /\ msgs' = IF rpc[s].chat = active THEN <<>> ELSE msgs
      BY <1>1, <1>10 DEF ShowClear
    <2>2. ClearDue(View, rpc[s].chat)
      BY <1>3, <2>1 DEF CalmCall
    <2>3. Exact(View')
      BY <1>1, <1>5, <2>1, <2>2, ViewIs DEF ClearDue, Exact
    <2> QED BY <1>7, <2>1, <2>3
  <1>11. CASE ShowFailure(s)
    <2>1. rpc[s].op # "load" /\ rpc[s].at = "failed" /\ UNCHANGED <<msgs, echoes>>
      BY <1>11 DEF ShowFailure, tab
    <2>2. Exact(View) /\ View' = View
      BY <1>1, <1>3, <2>1, SameView DEF CalmCall
    <2> QED BY <1>7, <2>1, <2>2
  <1>12. CASE ShowDelete(s)
    <2>1. PICK n : n = rpc[s].n
      OBVIOUS
    <2>2. rpc[s].op = "delete" /\ rpc[s].at = "ok" /\ msgs' = Drop(msgs, n) /\ echoes' = echoes
      BY <1>1, <1>12, <2>1 DEF ShowDelete, Without, Drop
    <2>3. enabled[active] /\ Seen(View, active) = Drop(msgs, n)
      BY <1>3, <1>8, <2>1, <2>2, ViewIs DEF CalmCall, DeleteDue
    <2>4. Exact(View')
      BY <1>1, <1>5, <2>2, <2>3, ViewIs DEF Exact
    <2>5. DeleteDue(View', active, n)
      <3>1. Drop(msgs', n) = msgs'
        BY <2>2, Parts, DropTwice DEF TabOK
      <3> QED BY <1>1, <1>5, <2>2, <2>3, <3>1, ViewIs DEF DeleteDue, Elsewhere
    <2>6. \A k, c, m : Own(rpc[s], k, c, m) => k \in {"delete", "deleted"} /\ c = active /\ m = n
      BY <1>8, <2>1, <2>2 DEF Own
    <2>7. ASSUME NEW t, CalmTask(View, t), Own(rpc[s], t.kind, t.chat, t.n) PROVE CalmTask(View', t)
      BY <1>1, <2>5, <2>6, <2>7, ViewIs DEF CalmTask
    <2>8. ASSUME NEW f, CalmFrame(View, f), Own(rpc[s], f.event, f.chat, f.n) PROVE CalmFrame(View', f)
      BY <2>5, <2>6, <2>8 DEF CalmFrame
    <2> QED BY <1>6, <2>4, <2>7, <2>8
  <1>13. CASE ShowEdit(s)
    <2>1. PICK n, v : n = rpc[s].n /\ v = rpc[s].ver
      OBVIOUS
    <2>2. PICK b : b = BubbleIn(View, active, n)
      OBVIOUS
    <2>3. /\ rpc[s].op = "edit" /\ rpc[s].at = "ok" /\ echoes' = echoes
          /\ msgs' = Patched([chat |-> rpc[s].chat, n |-> n, ver |-> v])
      BY <1>13, <2>1 DEF ShowEdit
    <2>4. v = log[active][n].ver /\ enabled[active] /\ Seen(View, active) = Patch(msgs, b)
      BY <1>3, <1>8, <2>1, <2>2, <2>3, ViewIs DEF CalmCall, EditDue
    <2>5. b = [chat |-> rpc[s].chat, n |-> n, ver |-> v]
      BY <1>8, <2>2, <2>3, <2>4, ViewIs DEF BubbleIn
    <2>6. msgs' = Patch(msgs, b)
      BY <2>3, <2>5 DEF Patched, Patch
    <2>7. Exact(View')
      BY <1>1, <1>5, <2>4, <2>6, ViewIs DEF Exact
    <2>8. EditDue(View', active, n)
      <3>1. Patch(msgs', b) = msgs'
        BY <2>6, PatchTwice
      <3>2. BubbleIn(View', active, n) = b
        BY <1>1, <2>2, ViewIs DEF BubbleIn
      <3> QED BY <1>1, <1>5, <2>4, <2>6, <3>1, <3>2, ViewIs DEF EditDue, Elsewhere
    <2>9. \A k, c, m : Own(rpc[s], k, c, m) => k \in {"edit", "edited"} /\ c = active /\ m = n
      BY <1>8, <2>1, <2>3 DEF Own
    <2>10. ASSUME NEW t, CalmTask(View, t), Own(rpc[s], t.kind, t.chat, t.n) PROVE CalmTask(View', t)
      BY <1>1, <2>8, <2>9, <2>10, ViewIs DEF CalmTask
    <2>11. ASSUME NEW f, CalmFrame(View, f), Own(rpc[s], f.event, f.chat, f.n) PROVE CalmFrame(View', f)
      BY <1>1, <2>8, <2>9, <2>11, ViewIs DEF CalmFrame
    <2> QED BY <1>6, <2>7, <2>10, <2>11
  <1>14. CASE ShowSend(s)
    <2>1. PICK n : n = rpc[s].n
      OBVIOUS
    <2>2. PICK b : b = BubbleIn(View, active, n)
      OBVIOUS
    <2>3. /\ rpc[s].op = "send" /\ rpc[s].at = "ok" /\ echoes' = echoes \cup {<<rpc[s].chat, n>>}
          /\ msgs' = Append(msgs, [chat |-> rpc[s].chat, n |-> n, ver |-> rpc[s].ver])
          /\ calm' = (calm /\ log[rpc[s].chat][n].date >= hide[rpc[s].chat])
      BY <1>14, <2>1 DEF ShowSend
    <2>4. /\ rpc[s].ver = 0 /\ <<active, n>> \notin echoes /\ NewDue(View, active, n)
          /\ log[active][n].ver = 0
      BY <1>3, <1>8, <2>1, <2>3, ViewIs DEF CalmCall, NewDue
    <2>5. Recent(View, active, n)
      BY <1>8, <2>3, ViewIs DEF Recent
    <2>6. b = [chat |-> rpc[s].chat, n |-> n, ver |-> rpc[s].ver]
      BY <1>8, <2>2, <2>3, <2>4, ViewIs DEF BubbleIn
    <2>7. enabled[active] /\ Seen(View, active) = msgs'
      BY <2>2, <2>3, <2>4, <2>5, <2>6, ViewIs DEF NewDue
    <2>8. Exact(View')
      BY <1>1, <1>5, <2>7, ViewIs DEF Exact
    <2>9. NewDue(View', active, n) /\ Recent(View', active, n)
      <3>1. <<active, n>> \in echoes'
        BY <1>8, <2>3
      <3> QED BY <1>1, <1>5, <2>4, <2>5, <2>7, <3>1, ViewIs DEF NewDue, Elsewhere, Recent
    <2>10. \A k, c, m : Own(rpc[s], k, c, m) => k = "new" /\ c = active /\ m = n
      BY <1>8, <2>1, <2>3 DEF Own
    <2>11. ASSUME NEW t, CalmTask(View, t), Own(rpc[s], t.kind, t.chat, t.n) PROVE CalmTask(View', t)
      BY <1>1, <2>9, <2>10, <2>11, ViewIs DEF CalmTask
    <2>12. ASSUME NEW f, CalmFrame(View, f), Own(rpc[s], f.event, f.chat, f.n) PROVE CalmFrame(View', f)
      BY <2>9, <2>10, <2>12 DEF CalmFrame
    <2> QED BY <1>6, <2>8, <2>11, <2>12
  <1> QED BY <1>9, <1>10, <1>11, <1>12, <1>13, <1>14

\* What the tab does with a frame.
LEMMA CalmFrames ==
  ASSUME TimelineInv, CalmInv, HandleFrame
  PROVE  CalmInv'
  <1> SUFFICES ASSUME calm' PROVE Calm(View', tasks', wire', rpc')
    BY DEF CalmInv
  <1>1. /\ calm /\ wire # <<>> /\ wire' = Tail(wire)
        /\ UNCHANGED <<log, enabled, hide, filtered, echoes, tasks, rpc>>
    BY DEF HandleFrame, OnNewMessage, OnMessageEdited, OnMessageDeleted, OnChatRemoved, NextFrame,
       telegram, tables, history
  <1>2. PICK f : f = Head(wire)
    OBVIOUS
  <1>3. PICK c, n : c = f.chat /\ n = f.n
    OBVIOUS
  <1>4. /\ tasks' = {} /\ wire' = <<>> /\ CalmFrame(View, f) /\ Alone(rpc) /\ CallsDue(View, rpc)
        /\ \A s \in Slots : rpc[s] # Idle => Own(rpc[s], f.event, c, n)
    <2>1. wire \in Seq(Frames) /\ Calm(View, tasks, wire, rpc)
      BY <1>1, Parts DEF WireOK, CalmInv
    <2>2. /\ tasks = {} /\ Tail(wire) = <<>> /\ CalmFrame(View, Head(wire)) /\ Alone(rpc) /\ CallsDue(View, rpc)
          /\ \A s \in Slots : rpc[s] # Idle => Own(rpc[s], Head(wire).event, Head(wire).chat, Head(wire).n)
      BY <1>1, <2>1, FrameAlone
    <2> QED BY <1>1, <1>2, <1>3, <2>2
  <1>5. /\ f \in Frames /\ (f.event = "new" => f.ver = 0)
        /\ active \in Chats \cup {None} /\ ViewOK(View) /\ c \in Chats
    BY <1>1, <1>2, <1>3, Parts, WireNext, ViewTypes DEF TabOK, Frames
  <1>6. \A d : Seen(View', d) = Seen(View, d)
    BY <1>1, ViewIs DEF Seen
  <1>7. ASSUME Exact(View'), CallsDue(View', rpc) PROVE Calm(View', tasks', wire', rpc')
    BY <1>1, <1>4, <1>7, QuietIs
  <1>8. ASSUME active # None, active # c, Exact(View), ~Crosses(c, n)
        PROVE  msgs \in Seq(Bubble) /\ \A i \in DOMAIN msgs : msgs[i].n # n
    <2>1. msgs = Seen(View, active) /\ active \in Chats /\ msgs \in Seq(Bubble)
      BY <1>5, <1>8, Parts, ViewIs DEF Exact, TabOK
    <2>2. \A i \in DOMAIN msgs : msgs[i] = BubbleIn(View, active, msgs[i].n)
      BY <1>5, <2>1, SeenTypes
    <2>3. \A i \in DOMAIN msgs : msgs[i].chat = active
      BY <2>2 DEF BubbleIn
    <2> QED BY <1>8, <2>1, <2>3 DEF Crosses
  <1>9. CASE OnNewMessage
    <2>1. PICK own : own = {d \in Chats : <<d, n>> \in echoes}
      OBVIOUS
    <2>2. /\ f.event = "new" /\ active' = active
          /\ msgs' = IF own = {} /\ c = active THEN Append(msgs, [chat |-> c, n |-> n, ver |-> f.ver]) ELSE msgs
          /\ own \subseteq {c} /\ ~Sending(c, n)
      BY <1>2, <1>3, <1>9, <2>1 DEF OnNewMessage, NextFrame
    <2>3. Resting(rpc)
      BY <1>4, <2>2 DEF Own, Sending, Resting
    <2>4. NewDue(View, c, n) /\ Recent(View, c, n)
      BY <1>3, <1>4, <2>2 DEF CalmFrame
    <2>5. CASE active # c
      <3>1. View' = View
        BY <1>1, <2>2, <2>5, SameView
      <3>2. Exact(View)
        BY <2>4, <2>5, ViewIs DEF NewDue, Elsewhere
      <3> QED BY <1>4, <1>7, <3>1, <3>2
    <2>6. CASE active = c
      <3>1. own = {} <=> <<c, n>> \notin echoes
        BY <1>5, <2>1, <2>2
      <3>2. BubbleIn(View, c, n) = [chat |-> c, n |-> n, ver |-> f.ver]
        BY <1>5, <2>2, <2>4, ViewIs DEF BubbleIn, NewDue
      <3>3. enabled[c] /\ Seen(View, c) = msgs'
        BY <2>2, <2>4, <2>6, <3>1, <3>2, ViewIs DEF NewDue
      <3>4. Exact(View')
        BY <1>1, <1>6, <2>2, <2>6, <3>3, ViewIs DEF Exact
      <3> QED BY <1>7, <2>3, <3>4, NoCallLeft
    <2> QED BY <2>5, <2>6
  <1>10. CASE OnMessageEdited
    <2>1. PICK v : v = f.ver
      OBVIOUS
    <2>2. PICK b : b = BubbleIn(View, c, n)
      OBVIOUS
    <2>3. /\ f.event = "edited" /\ active' = active /\ ~Crosses(c, n)
          /\ msgs' = Patched([chat |-> c, n |-> n, ver |-> v])
      BY <1>2, <1>3, <1>10, <2>1 DEF OnMessageEdited, NextFrame
    <2>4. v = log[c][n].ver /\ EditDue(View, c, n)
      BY <1>3, <1>4, <2>1, <2>3, ViewIs DEF CalmFrame
    <2>5. b = [chat |-> c, n |-> n, ver |-> v]
      BY <2>2, <2>4, ViewIs DEF BubbleIn
    <2>6. msgs' = Patch(msgs, b) /\ b.n = n
      BY <2>3, <2>5 DEF Patched, Patch
    <2>7. \A s \in Slots : rpc[s] # Idle => rpc[s].op = "edit" /\ rpc[s].at = "ok" /\ rpc[s].chat = c /\ rpc[s].n = n
      BY <1>4, <2>3 DEF Own
    <2>8. CASE active # c
      <3>1. Exact(View)
        BY <2>4, <2>8, ViewIs DEF EditDue, Elsewhere
      <3>2. Resting(rpc)
        <4>1. \A s \in Slots : rpc[s] # Idle => rpc[s].chat = active
          BY <1>4, <2>7, ViewIs DEF CallsDue, CalmCall
        <4> QED BY <2>7, <2>8, <4>1 DEF Resting
      <3>3. CASE active = None
        <4>1. Exact(View')
          BY <2>3, <3>3, ViewIs DEF Exact
        <4> QED BY <1>7, <3>2, <4>1, NoCallLeft
      <3>4. CASE active # None
        <4>1. msgs' = msgs
          BY <1>8, <2>3, <2>6, <2>8, <3>1, <3>4, PatchNone
        <4>2. View' = View
          BY <1>1, <2>3, <4>1, SameView
        <4> QED BY <1>4, <1>7, <3>1, <4>2
      <3> QED BY <3>3, <3>4
    <2>9. CASE active = c
      <3>1. enabled[c] /\ Seen(View, c) = msgs'
        BY <2>2, <2>4, <2>6, <2>9, ViewIs DEF EditDue
      <3>2. Exact(View')
        BY <1>1, <1>6, <2>3, <2>9, <3>1, ViewIs DEF Exact
      <3>3. EditDue(View', c, n)
        <4>1. Patch(msgs', b) = msgs' /\ BubbleIn(View', c, n) = b
          BY <1>1, <2>2, <2>6, PatchTwice, ViewIs DEF BubbleIn
        <4> QED BY <1>1, <1>6, <2>3, <2>9, <3>1, <4>1, ViewIs DEF EditDue, Elsewhere
      <3>4. CallsDue(View', rpc)
        <4> SUFFICES ASSUME NEW s \in Slots, rpc[s] # Idle PROVE CalmCall(View', rpc[s])
          BY DEF CallsDue
        <4>1. CalmCall(View, rpc[s])
          BY <1>4 DEF CallsDue
        <4> QED BY <1>1, <2>3, <2>7, <3>3, <4>1, ViewIs DEF CalmCall
      <3> QED BY <1>7, <3>2, <3>4
    <2> QED BY <2>8, <2>9
  <1>11. CASE OnMessageDeleted
    <2>1. /\ f.event = "deleted" /\ active' = active /\ ~Crosses(c, n) /\ msgs' = Drop(msgs, n)
      BY <1>2, <1>3, <1>11 DEF OnMessageDeleted, NextFrame, Without, Drop
    <2>2. DeleteDue(View, c, n)
      BY <1>3, <1>4, <2>1 DEF CalmFrame
    <2>3. \A s \in Slots : rpc[s] # Idle => rpc[s].op = "delete" /\ rpc[s].at = "ok" /\ rpc[s].chat = c /\ rpc[s].n = n
      BY <1>4, <2>1 DEF Own
    <2>4. CASE active # c
      <3>1. Exact(View)
        BY <2>2, <2>4, ViewIs DEF DeleteDue, Elsewhere
      <3>2. Resting(rpc)
        <4>1. \A s \in Slots : rpc[s] # Idle => rpc[s].chat = active
          BY <1>4, <2>3, ViewIs DEF CallsDue, CalmCall
        <4> QED BY <2>3, <2>4, <4>1 DEF Resting
      <3>3. CASE active = None
        <4>1. Exact(View')
          BY <2>1, <3>3, ViewIs DEF Exact
        <4> QED BY <1>7, <3>2, <4>1, NoCallLeft
      <3>4. CASE active # None
        <4>1. msgs' = msgs
          BY <1>8, <2>1, <2>4, <3>1, <3>4, DropNone
        <4>2. View' = View
          BY <1>1, <2>1, <4>1, SameView
        <4> QED BY <1>4, <1>7, <3>1, <4>2
      <3> QED BY <3>3, <3>4
    <2>5. CASE active = c
      <3>1. enabled[c] /\ Seen(View, c) = msgs'
        BY <2>1, <2>2, <2>5, ViewIs DEF DeleteDue
      <3>2. Exact(View')
        BY <1>1, <1>6, <2>1, <2>5, <3>1, ViewIs DEF Exact
      <3>3. DeleteDue(View', c, n)
        <4>1. Drop(msgs', n) = msgs'
          BY <2>1, Parts, DropTwice DEF TabOK
        <4> QED BY <1>1, <1>6, <2>1, <2>5, <3>1, <4>1, ViewIs DEF DeleteDue, Elsewhere
      <3>4. CallsDue(View', rpc)
        <4> SUFFICES ASSUME NEW s \in Slots, rpc[s] # Idle PROVE CalmCall(View', rpc[s])
          BY DEF CallsDue
        <4>1. CalmCall(View, rpc[s])
          BY <1>4 DEF CallsDue
        <4> QED BY <1>1, <2>1, <2>3, <3>3, <4>1, ViewIs DEF CalmCall
      <3> QED BY <1>7, <3>2, <3>4
    <2> QED BY <2>4, <2>5
  <1>12. CASE OnChatRemoved
    <2>1. /\ f.event = "removed" /\ msgs' = msgs
          /\ active' = IF active = c THEN None ELSE active
      BY <1>2, <1>3, <1>12 DEF OnChatRemoved, NextFrame
    <2>2. Resting(rpc)
      BY <1>4, <2>1 DEF Own, Resting
    <2>3. Elsewhere(View, c)
      BY <1>3, <1>4, <2>1 DEF CalmFrame
    <2>4. Exact(View')
      BY <1>1, <1>6, <2>1, <2>3, ViewIs DEF Elsewhere, Exact
    <2> QED BY <1>7, <2>2, <2>4, NoCallLeft
  <1> QED BY <1>9, <1>10, <1>11, <1>12 DEF HandleFrame

\* The initial states are calm, and every step keeps the calm.
LEMMA CalmInit == Init => Pasts /\ CalmInv
  <1> SUFFICES ASSUME Init PROVE Pasts /\ CalmInv
    OBVIOUS
  <1>1. TimelineInv
    BY InitInv
  <1>2. Pasts
    <2>1. \A s \in Slots : rpc[s].op # "send"
      BY DEF Init, Idle
    <2>2. ASSUME NEW c \in Chats, NEW n \in DOMAIN log[c] PROVE log[c][n].date <= now
      <3>1. log[c] = <<[kind |-> "text", date |-> 0, ver |-> 0, gone |-> FALSE]>> /\ now = 0
        BY DEF Init
      <3>2. n = 1 /\ log[c][1].date = 0
        BY <2>2, <3>1
      <3> QED BY <3>1, <3>2
    <2> QED BY <2>1, <2>2 DEF Pasts, Init
  <1>3. Exact(View)
    <2>1. active \in Chats /\ enabled[active] /\ msgs = Visible(active)
      BY DEF Init
    <2> QED BY <1>1, <2>1, ViewTypes, ViewIs DEF Exact
  <1>4. Resting(rpc) /\ tasks = {} /\ wire = <<>>
    BY DEF Init, Resting
  <1>5. CalmInv
    BY <1>3, <1>4, NoCallLeft, QuietIs DEF CalmInv
  <1> QED BY <1>2, <1>5

LEMMA CalmStep == TimelineInv /\ Pasts /\ CalmInv /\ [Next]_vars => Pasts' /\ CalmInv'
  <1> SUFFICES ASSUME TimelineInv, Pasts, CalmInv, Next \/ UNCHANGED vars PROVE Pasts' /\ CalmInv'
    OBVIOUS
  <1>1. CASE UNCHANGED vars
    <2>1. CalmInv'
      BY <1>1, CalmSame DEF vars, telegram, tables, tab, history
    <2> QED BY <2>1, PastsStep
  <1>2. CASE Tick
    <2>1. CalmInv'
      BY <1>2, CalmSame DEF Tick, tables, tab, history
    <2> QED BY <2>1, PastsStep
  <1>3. ASSUME NEW s \in Slots, (\E c \in Chats : OpenChat(s, c)) \/ Reload(s) \/ AskChange(s) \/ Serve(s)
        PROVE  CalmInv'
    BY <1>3, CalmAsk, CalmServe, CalmShow DEF Serve
  <1>4. \A c \in Chats : (\E k \in Kinds : Posted(c, k)) \/ (\E n \in 1 .. MaxPosts : Edited(c, n) \/ Deleted(c, n))
                         => CalmInv'
    BY CalmTelegram
  <1>5. (\E t \in tasks : Handle(t)) => CalmInv'
    BY CalmHandler
  <1>6. HandleFrame => CalmInv'
    BY CalmFrames
  <1>7. Next => CalmInv'
    BY <1>2, <1>3, <1>4, <1>5, <1>6 DEF Next
  <1> QED BY <1>1, <1>7, PastsStep

\* When each thing waits for the one before, the bubbles are what a reload would show.
THEOREM CalmListsAreExact == Spec => []CalmListIsExact
  <1>1. Init => TimelineInv /\ Pasts /\ CalmInv
    BY InitInv, CalmInit
  <1>2. TimelineInv /\ Pasts /\ CalmInv /\ [Next]_vars => (TimelineInv /\ Pasts /\ CalmInv)'
    BY InvStep, CalmStep
  <1>3. TimelineInv /\ Pasts /\ CalmInv => CalmListIsExact
    <2> SUFFICES ASSUME TimelineInv, CalmInv, calm, Still, active # None, enabled[active]
                 PROVE  msgs = Visible(active)
      BY DEF CalmListIsExact
    <2>1. Exact(View) /\ active \in Chats
      BY StillIs, Parts DEF TabOK
    <2> QED BY <2>1, ViewTypes, ViewIs DEF Exact
  <1> QED BY <1>1, <1>2, <1>3, PTL DEF Spec
=============================================================================
