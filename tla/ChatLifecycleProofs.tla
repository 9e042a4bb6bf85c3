------------------------ MODULE ChatLifecycleProofs ------------------------
(***************************************************************************)
(* Machine-checked proofs about ChatLifecycle, for any finite set of       *)
(* chats, any number of commands and calls and any number of getChats.     *)
(* That a filter removes one chat and leaves the others is proved from its *)
(* recursive definition, by induction on the length it has looked at.      *)
(***************************************************************************)
EXTENDS ChatLifecycle, SequenceTheorems, FiniteSetTheorems, WellFoundedInduction, TLAPS

-----------------------------------------------------------------------------
\* Induction over the natural numbers, for sets.

LEMMA SmallestNumber ==
  ASSUME NEW T \in SUBSET Nat, T # {}
  PROVE  \E n \in T : \A m \in T : n <= m
  <1>1. PICK n \in T : \A m \in T : <<m, n>> \notin OpToRel(<, Nat)
    BY NatLessThanWellFounded, WFMin
  <1>2. \A m \in T : ~(m < n)
    BY <1>1 DEF OpToRel
  <1> QED BY <1>2

LEMMA Induction ==
  ASSUME NEW T, 0 \in T, \A n \in Nat : n \in T => n + 1 \in T
  PROVE  Nat \subseteq T
  <1> SUFFICES ASSUME Nat \ T # {} PROVE FALSE
    OBVIOUS
  <1>1. PICK n \in Nat \ T : \A m \in Nat \ T : n <= m
    BY SmallestNumber
  <1>2. n # 0
    BY <1>1
  <1>3. n - 1 \in Nat \ T
    BY <1>1, <1>2
  <1> QED BY <1>1, <1>3

-----------------------------------------------------------------------------
\* Lists of chats.

Places(chats, c) == {j \in DOMAIN chats : chats[j] = c}
Once(chats, c) == \E i \in DOMAIN chats : Places(chats, c) = {i}
Absent(chats, c) == Places(chats, c) = {}

\* The rows of a query, in some order: each once.
LEMMA RowsOnce ==
  ASSUME NEW S, IsFiniteSet(S)
  PROVE  /\ SetToSeq(S) \in Seq(S)
         /\ \A c : IF c \in S THEN Once(SetToSeq(S), c) ELSE Absent(SetToSeq(S), c)
  <1> DEFINE n == Cardinality(S)
             s == SetToSeq(S)
  <1>1. n \in Nat /\ \E f \in [1 .. n -> S] : IsInjective(f)
    BY FS_CardinalityType DEF ExistsBijection, Bijection, Injection
  <1>2. s \in [1 .. n -> S] /\ IsInjective(s)
    BY <1>1 DEF SetToSeq
  <1>3. s \in Injection(1 .. n, S)
    BY <1>2 DEF Injection
  <1>4. Cardinality(1 .. n) = n
    BY <1>1, FS_Interval
  <1>5. s \in Surjection(1 .. n, S)
    BY <1>3, <1>4, FS_Injection
  <1>6. s \in Seq(S) /\ DOMAIN s = 1 .. n
    BY <1>1, <1>2
  <1> HIDE DEF s, n
  <1>7. ASSUME NEW c \in S PROVE Once(s, c)
    <2>1. PICK i \in 1 .. n : s[i] = c
      BY <1>5 DEF Surjection
    <2>2. Places(s, c) = {i}
      BY <1>2, <1>6, <2>1 DEF Places, IsInjective
    <2> QED BY <1>6, <2>1, <2>2 DEF Once
  <1>8. ASSUME NEW c, c \notin S PROVE Absent(s, c)
    BY <1>2, <1>6, <1>8 DEF Absent, Places
  <1> QED BY <1>6, <1>7, <1>8 DEF s

\* What the filter keeps of the first n entries.
Filtered(chats, c, g, n) ==
    \A m \in 0 .. n :
        g[m] = IF m = 0 THEN <<>>
               ELSE IF chats[m] = c THEN g[m - 1] ELSE Append(g[m - 1], chats[m])

IsFilter(g, chats, c, n) ==
    g = [m \in 0 .. n |->
            IF m = 0 THEN <<>>
            ELSE IF chats[m] = c THEN g[m - 1] ELSE Append(g[m - 1], chats[m])]

LEMMA FilterExists ==
  ASSUME NEW chats, NEW c, NEW N \in Nat
  PROVE  \E g : IsFilter(g, chats, c, N)
  <1> DEFINE Body(g, m) == IF m = 0 THEN <<>>
                           ELSE IF chats[m] = c THEN g[m - 1] ELSE Append(g[m - 1], chats[m])
             T == {n \in Nat : \E g : IsFilter(g, chats, c, n)}
  <1>1. 0 \in T
    <2> DEFINE g == [m \in 0 .. 0 |-> <<>>]
    <2>1. IsFilter(g, chats, c, 0)
      BY DEF IsFilter
    <2> QED BY <2>1
  <1>2. ASSUME NEW n \in Nat, n \in T PROVE n + 1 \in T
    <2>1. PICK g : IsFilter(g, chats, c, n)
      BY <1>2
    <2> DEFINE h == [m \in 0 .. n + 1 |-> IF m = n + 1 THEN Body(g, m) ELSE g[m]]
    <2>2. \A m \in 0 .. n : h[m] = g[m]
      OBVIOUS
    <2>3. \A m \in 0 .. n + 1 : Body(h, m) = Body(g, m)
      <3>1. \A m \in 0 .. n + 1 : m # 0 => h[m - 1] = g[m - 1]
        BY <2>2
      <3> HIDE DEF h
      <3> QED BY <3>1
    <2>4. \A m \in 0 .. n + 1 : h[m] = Body(g, m)
      <3>1. \A m \in 0 .. n : g[m] = Body(g, m)
        BY <2>1 DEF IsFilter
      <3> HIDE DEF Body
      <3> QED BY <3>1
    <2>5. h = [m \in 0 .. n + 1 |-> h[m]]
      OBVIOUS
    <2> HIDE DEF h
    <2>6. h = [m \in 0 .. n + 1 |-> Body(h, m)]
      <3> HIDE DEF Body
      <3>1. \A m \in 0 .. n + 1 : h[m] = Body(h, m)
        BY <2>3, <2>4
      <3>2. [m \in 0 .. n + 1 |-> h[m]] = [m \in 0 .. n + 1 |-> Body(h, m)]
        BY <3>1, Zenon
      <3> QED BY <2>5, <3>2, Zenon
    <2>7. IsFilter(h, chats, c, n + 1)
      BY <2>6 DEF IsFilter
    <2> QED BY <2>7
  <1>3. N \in T
    <2> HIDE DEF T
    <2> QED BY <1>1, <1>2, Induction
  <1> QED BY <1>3

LEMMA FilterUnfolds ==
  ASSUME NEW S, NEW chats \in Seq(S), NEW c
  PROVE  \E g : Without(chats, c) = g[Len(chats)] /\ Filtered(chats, c, g, Len(chats))
  <1> DEFINE N == Len(chats)
             kept == CHOOSE g : IsFilter(g, chats, c, N)
  <1>1. \E g : IsFilter(g, chats, c, N)
    BY LenProperties, FilterExists
  <1>2. IsFilter(kept, chats, c, N)
    BY <1>1
  <1>3. Without(chats, c) = kept[N]
    BY DEF Without, IsFilter
  <1> HIDE DEF kept
  <1>4. Filtered(chats, c, kept, N)
    BY <1>2 DEF IsFilter, Filtered
  <1> QED BY <1>3, <1>4

\* An entry at the end of a list.
LEMMA PlacesOfAppend ==
  ASSUME NEW S, NEW chats \in Seq(S), NEW e \in S, NEW d
  PROVE  Places(Append(chats, e), d)
           = IF e = d THEN Places(chats, d) \cup {Len(chats) + 1} ELSE Places(chats, d)
  <1>1. /\ Len(chats) \in Nat /\ DOMAIN chats = 1 .. Len(chats)
        /\ DOMAIN Append(chats, e) = 1 .. Len(chats) + 1
        /\ \A i \in 1 .. Len(chats) : Append(chats, e)[i] = chats[i]
        /\ Append(chats, e)[Len(chats) + 1] = e
    BY LenProperties, AppendProperties
  <1> DEFINE v == Append(chats, e)
  <1> HIDE DEF v
  <1>2. ASSUME e = d PROVE Places(v, d) = Places(chats, d) \cup {Len(chats) + 1}
    BY <1>1, <1>2 DEF Places, v
  <1>3. ASSUME e # d PROVE Places(v, d) = Places(chats, d)
    BY <1>1, <1>3 DEF Places, v
  <1> QED BY <1>2, <1>3 DEF v

\* Among the first n entries, and among what the filter kept of them.
Upto(chats, n, d) == {i \in 1 .. n : chats[i] = d}
Kept(chats, c, g, n, S) ==
    /\ g[n] \in Seq(S)
    /\ Places(g[n], c) = {}
    /\ \A d : d # c =>
         /\ Upto(chats, n, d) = {} => Places(g[n], d) = {}
         /\ (\E i : Upto(chats, n, d) = {i}) => (\E i : Places(g[n], d) = {i})

LEMMA UptoNext ==
  ASSUME NEW chats, NEW n \in Nat, NEW d
  PROVE  /\ n + 1 \notin Upto(chats, n, d)
         /\ Upto(chats, n + 1, d)
              = IF chats[n + 1] = d THEN Upto(chats, n, d) \cup {n + 1} ELSE Upto(chats, n, d)
  <1>1. 1 .. n + 1 = (1 .. n) \cup {n + 1}
    OBVIOUS
  <1> QED BY <1>1 DEF Upto

LEMMA KeptNext ==
  ASSUME NEW S, NEW chats \in Seq(S), NEW c, NEW g, NEW n \in Nat, n + 1 <= Len(chats),
         Filtered(chats, c, g, Len(chats)), Kept(chats, c, g, n, S)
  PROVE  Kept(chats, c, g, n + 1, S)
  <1>1. n + 1 \in 1 .. Len(chats) /\ n + 1 \in 0 .. Len(chats) /\ chats[n + 1] \in S
    BY LenProperties
  <1>2. g[n + 1] = IF chats[n + 1] = c THEN g[n] ELSE Append(g[n], chats[n + 1])
    <2>1. n + 1 # 0 /\ (n + 1) - 1 = n
      OBVIOUS
    <2> QED BY <1>1, <2>1 DEF Filtered
  <1>3. CASE chats[n + 1] = c
    BY <1>2, <1>3, UptoNext DEF Kept
  <1>4. CASE chats[n + 1] # c
    <2>1. g[n + 1] = Append(g[n], chats[n + 1]) /\ g[n] \in Seq(S)
      BY <1>2, <1>4 DEF Kept
    <2>2. g[n + 1] \in Seq(S)
      BY <1>1, <2>1, AppendProperties
    <2>3. \A d : Places(g[n + 1], d) =
                   IF chats[n + 1] = d THEN Places(g[n], d) \cup {Len(g[n]) + 1} ELSE Places(g[n], d)
      <3>1. ASSUME NEW k \in Seq(S), NEW e \in S, NEW d
            PROVE  Places(Append(k, e), d)
                     = IF e = d THEN Places(k, d) \cup {Len(k) + 1} ELSE Places(k, d)
        BY PlacesOfAppend
      <3>2. TAKE d
      <3>3. Places(Append(g[n], chats[n + 1]), d)
              = IF chats[n + 1] = d THEN Places(g[n], d) \cup {Len(g[n]) + 1} ELSE Places(g[n], d)
        BY <1>1, <2>1, <3>1, Zenon
      <3> QED BY <2>1, <3>3, Zenon
    <2>4. Places(g[n + 1], c) = {}
      BY <1>4, <2>3 DEF Kept
    <2>5. ASSUME NEW d, d # c
          PROVE  /\ Upto(chats, n + 1, d) = {} => Places(g[n + 1], d) = {}
                 /\ (\E i : Upto(chats, n + 1, d) = {i}) => (\E i : Places(g[n + 1], d) = {i})
      <3>1. CASE chats[n + 1] # d
        <4>1. Upto(chats, n + 1, d) = Upto(chats, n, d) /\ Places(g[n + 1], d) = Places(g[n], d)
          BY <2>3, <3>1, UptoNext
        <4> QED BY <2>5, <4>1 DEF Kept
      <3>2. CASE chats[n + 1] = d
        <4>1. Upto(chats, n + 1, d) = Upto(chats, n, d) \cup {n + 1} /\ n + 1 \notin Upto(chats, n, d)
          BY <3>2, UptoNext
        <4>2. (\E i : Upto(chats, n + 1, d) = {i}) => Upto(chats, n, d) = {}
          BY <4>1
        <4>3. Upto(chats, n, d) = {} => Places(g[n], d) = {}
          BY <2>5 DEF Kept
        <4>4. Places(g[n + 1], d) = Places(g[n], d) \cup {Len(g[n]) + 1}
          BY <2>3, <3>2
        <4> QED BY <4>1, <4>2, <4>3, <4>4
      <3> QED BY <3>1, <3>2
    <2> QED BY <2>2, <2>4, <2>5 DEF Kept
  <1> QED BY <1>3, <1>4

\* The filter takes out one chat and leaves every other where it was alone, or absent.
LEMMA WithoutFacts ==
  ASSUME NEW S, NEW chats \in Seq(S), NEW c
  PROVE  /\ Without(chats, c) \in Seq(S)
         /\ Absent(Without(chats, c), c)
         /\ \A d : d # c => /\ Once(chats, d) => Once(Without(chats, c), d)
                            /\ Absent(chats, d) => Absent(Without(chats, c), d)
  <1> DEFINE N == Len(chats)
  <1>0. N \in Nat /\ DOMAIN chats = 1 .. N
    BY LenProperties
  <1>1. PICK g : Without(chats, c) = g[N] /\ Filtered(chats, c, g, N)
    BY FilterUnfolds
  <1> DEFINE T == {n \in Nat : n <= N => Kept(chats, c, g, n, S)}
  <1>2. 0 \in T
    <2>1. g[0] = <<>>
      BY <1>0, <1>1 DEF Filtered
    <2>2. g[0] \in Seq(S) /\ \A d : Places(g[0], d) = {} /\ Upto(chats, 0, d) = {}
      BY <2>1 DEF Places, Upto
    <2> QED BY <2>2 DEF Kept
  <1>3. ASSUME NEW n \in Nat, n \in T PROVE n + 1 \in T
    BY <1>0, <1>1, <1>3, KeptNext
  <1>4. N \in T
    <2> HIDE DEF T, N
    <2> QED BY <1>0, <1>2, <1>3, Induction
  <1>5. Kept(chats, c, g, N, S)
    BY <1>0, <1>4
  <1>6. \A d : Upto(chats, N, d) = Places(chats, d)
    BY <1>0 DEF Places, Upto
  <1>7. \A s, d : (\E i : Places(s, d) = {i}) <=> Once(s, d)
    BY DEF Once, Places
  <1> HIDE DEF N
  <1> QED BY <1>1, <1>5, <1>6, <1>7 DEF Absent, Kept

LEMMA RemoveAtFacts ==
  ASSUME NEW S, NEW s \in Seq(S), NEW i \in DOMAIN s
  PROVE  /\ RemoveAt(s, i) \in Seq(S)
         /\ \A j \in DOMAIN RemoveAt(s, i) : \E m \in DOMAIN s : RemoveAt(s, i)[j] = s[m]
  <1> DEFINE u == SubSeq(s, 1, i - 1)
             v == SubSeq(s, i + 1, Len(s))
  <1>1. Len(s) \in Nat /\ DOMAIN s = 1 .. Len(s) /\ i \in 1 .. Len(s) /\ \A j \in 1 .. Len(s) : s[j] \in S
    BY LenProperties
  <1>2. /\ u \in Seq(S) /\ Len(u) = i - 1
        /\ \A j \in 1 .. i - 1 : u[j] = s[j]
    <2>1. \A j \in 1 .. i - 1 : s[j] \in S
      BY <1>1
    <2>2. /\ u \in Seq(S) /\ Len(u) = (IF 1 <= i - 1 THEN (i - 1) - 1 + 1 ELSE 0)
          /\ \A j \in 1 .. (i - 1) - 1 + 1 : u[j] = s[1 + j - 1]
      BY <1>1, <2>1, SubSeqProperties
    <2> HIDE DEF u
    <2> QED BY <1>1, <2>2
  <1>3. /\ v \in Seq(S) /\ Len(v) = Len(s) - i
        /\ \A j \in 1 .. Len(s) - i : v[j] = s[i + j]
    <2>1. \A j \in i + 1 .. Len(s) : s[j] \in S
      BY <1>1
    <2>2. /\ v \in Seq(S) /\ Len(v) = (IF i + 1 <= Len(s) THEN Len(s) - (i + 1) + 1 ELSE 0)
          /\ \A j \in 1 .. Len(s) - (i + 1) + 1 : v[j] = s[(i + 1) + j - 1]
      BY <1>1, <2>1, SubSeqProperties
    <2> HIDE DEF v
    <2>3. \A j \in 1 .. Len(s) - i : (i + 1) + j - 1 = i + j
      BY <1>1
    <2> QED BY <1>1, <2>2, <2>3
  <1> HIDE DEF u, v
  <1>4. /\ u \o v \in Seq(S) /\ Len(u \o v) = Len(s) - 1 /\ DOMAIN (u \o v) = 1 .. Len(s) - 1
        /\ \A j \in 1 .. Len(s) - 1 : (u \o v)[j] = IF j <= i - 1 THEN u[j] ELSE v[j - (i - 1)]
    <2>1. /\ u \o v \in Seq(S) /\ Len(u \o v) = Len(u) + Len(v)
          /\ \A j \in 1 .. Len(u) + Len(v) :
                (u \o v)[j] = IF j <= Len(u) THEN u[j] ELSE v[j - Len(u)]
      BY <1>2, <1>3, ConcatProperties
    <2>2. Len(u) + Len(v) = Len(s) - 1
      BY <1>1, <1>2, <1>3
    <2> QED BY <1>2, <2>1, <2>2, LenProperties
  <1>5. ASSUME NEW j \in 1 .. Len(s) - 1 PROVE \E m \in 1 .. Len(s) : (u \o v)[j] = s[m]
    <2>1. CASE j <= i - 1
      <3>1. j \in 1 .. i - 1 /\ j \in 1 .. Len(s)
        BY <1>1, <2>1
      <3>2. (u \o v)[j] = u[j]
        BY <1>4, <2>1
      <3>3. (u \o v)[j] = s[j]
        BY <1>2, <3>1, <3>2
      <3> QED BY <3>1, <3>3
    <2>2. CASE ~(j <= i - 1)
      <3>1. j - (i - 1) \in 1 .. Len(s) - i /\ i + (j - (i - 1)) = j + 1 /\ j + 1 \in 1 .. Len(s)
        BY <1>1, <2>2
      <3>2. (u \o v)[j] = v[j - (i - 1)]
        BY <1>4, <2>2
      <3>3. v[j - (i - 1)] = s[j + 1]
        BY <1>3, <3>1
      <3> QED BY <3>1, <3>2, <3>3
    <2> QED BY <2>1, <2>2
  <1> QED BY <1>1, <1>4, <1>5 DEF RemoveAt, u, v

-----------------------------------------------------------------------------
\* Types.

Events == [event : {"added", "removed"}, chat : Chats]
Loads == [rows : SUBSET Chats, crossed : SUBSET Chats, quiet : BOOLEAN]

LEMMA RowsInOrder ==
  ASSUME NEW S \in SUBSET Chats
  PROVE  /\ SetToSeq(S) \in Seq(Chats)
         /\ \A c : IF c \in S THEN Once(SetToSeq(S), c) ELSE Absent(SetToSeq(S), c)
  <1>1. IsFiniteSet(S)
    BY ChatsAreFinite, FS_Subset
  <1>2. /\ SetToSeq(S) \in Seq(S)
        /\ \A c : IF c \in S THEN Once(SetToSeq(S), c) ELSE Absent(SetToSeq(S), c)
    BY <1>1, RowsOnce
  <1> QED BY <1>2, SeqMonotonic

\* The same getChats are under way, and what each has read is the same; those that
\* cross an event of c do so in the history only.
SameLoads(old, new, c) ==
    /\ new \in Seq(Loads) /\ DOMAIN new = DOMAIN old
    /\ \A i \in DOMAIN old :
          /\ new[i].rows = old[i].rows
          /\ old[i].crossed \subseteq new[i].crossed
          /\ new[i].crossed \subseteq old[i].crossed \cup {c}
          /\ new[i].quiet => old[i].quiet

LEMMA LoadsCopied ==
  ASSUME NEW old \in Seq(Loads), NEW new, new = [i \in DOMAIN old |-> new[i]],
         \A i \in DOMAIN old : new[i] \in Loads
  PROVE  new \in Seq(Loads) /\ DOMAIN new = DOMAIN old
  <1>1. DOMAIN old = 1 .. Len(old) /\ Len(old) \in Nat
    BY LenProperties
  <1>2. new \in [1 .. Len(old) -> Loads] /\ DOMAIN new = DOMAIN old
    BY <1>1
  <1>3. new \in Seq(Loads)
    BY <1>1, <1>2, SeqDef
  <1> QED BY <1>2, <1>3

LEMMA LoadTypes ==
  ASSUME TypeOK
  PROVE  refresh \in Seq(Loads) /\ \A i \in DOMAIN refresh : refresh[i] \in Loads
  <1>1. refresh \in Seq(Loads)
    BY DEF TypeOK, Loads
  <1> HIDE DEF Loads
  <1> QED BY <1>1, LenProperties

LEMMA CrossedLoads ==
  ASSUME refresh \in Seq(Loads), NEW c \in Chats
  PROVE  /\ SameLoads(refresh, Crossed(c), c)
         /\ \A i \in DOMAIN refresh : c \in Crossed(c)[i].crossed
  <1> DEFINE new == [i \in DOMAIN refresh |-> [refresh[i] EXCEPT !.crossed = @ \cup {c}]]
  <1>1. \A i \in DOMAIN refresh : refresh[i] \in Loads
    BY LenProperties
  <1>2. \A i \in DOMAIN refresh : [refresh[i] EXCEPT !.crossed = @ \cup {c}] \in Loads
    BY <1>1 DEF Loads
  <1>3. \A i \in DOMAIN refresh : new[i] = [refresh[i] EXCEPT !.crossed = @ \cup {c}]
    OBVIOUS
  <1>4. new = [i \in DOMAIN refresh |-> new[i]]
    OBVIOUS
  <1>5. Crossed(c) = new
    BY DEF Crossed
  <1> HIDE DEF new
  <1>6. new \in Seq(Loads) /\ DOMAIN new = DOMAIN refresh
    BY <1>2, <1>3, <1>4, LoadsCopied
  <1>7. \A i \in DOMAIN refresh : /\ new[i].rows = refresh[i].rows
                                 /\ new[i].quiet = refresh[i].quiet
                                 /\ new[i].crossed = refresh[i].crossed \cup {c}
    BY <1>1, <1>3 DEF Loads
  <1> QED BY <1>5, <1>6, <1>7 DEF SameLoads

LEMMA InitTypes == Init => TypeOK
  <1> SUFFICES ASSUME Init PROVE TypeOK
    OBVIOUS
  <1>1. lost \subseteq Chats /\ list \in Seq(Chats)
    <2>1. Enabled \ lost \in SUBSET Chats /\ lost \subseteq Chats
      BY DEF Init, Enabled
    <2> QED BY <2>1, RowsInOrder DEF Init
  <1>2. inbox \in Seq(Events) /\ refresh \in Seq(Loads)
    BY DEF Init
  <1>3. /\ row \in [Chats -> {"none", "enabled", "disabled"}]
        /\ step \in [Tasks -> Steps] /\ kind \in [Tasks -> Kinds \cup {"none"}]
        /\ chat \in [Tasks -> Chats]
    BY DEF Init, Steps
  <1>4. refreshes \in 0 .. MaxRefresh /\ loose \subseteq Chats
    BY BoundsAreTyped DEF Init
  <1> QED BY <1>1, <1>2, <1>3, <1>4 DEF TypeOK, Events, Loads

\* What a step of task h leaves alone.
OnlyTask(h) ==
    /\ UNCHANGED <<chat, list, lost, refreshes>>
    /\ step' \in [Tasks -> Steps] /\ kind' \in [Tasks -> Kinds \cup {"none"}]
    /\ \A g \in Tasks : g # h => step'[g] = step[g] /\ kind'[g] = kind[g]
    /\ row' \in [Chats -> {"none", "enabled", "disabled"}]
    /\ \A c \in Chats : c # chat[h] => row'[c] = row[c]
    /\ inbox' = inbox \/ \E e \in Events : e.chat = chat[h] /\ inbox' = Append(inbox, e)
    /\ SameLoads(refresh, refresh', chat[h])
    /\ loose \subseteq loose' /\ loose' \subseteq Chats

LEMMA LoadsStay ==
  ASSUME refresh \in Seq(Loads), NEW c \in Chats
  PROVE  SameLoads(refresh, refresh, c)
  BY DEF SameLoads

\* How task h may go on.
StartSteps == {"check", "disable", "ensure"}
LEMMA StartFacts ==
  ASSUME TypeOK, NEW h \in Tasks, StartTask(h)
  PROVE  /\ step[h] = "unused"
         /\ \E k \in Kinds : \E s \in StartSteps :
              /\ step' = [step EXCEPT ![h] = s] /\ kind' = [kind EXCEPT ![h] = k]
              /\ loose' = IF Meets(chat[h], s) THEN loose \cup {chat[h]} ELSE loose
              /\ s = "ensure" => k = "openPrivate" \/ row[chat[h]] = "none"
         /\ UNCHANGED <<row, chat, inbox, list, lost, refreshes>>
         /\ SameLoads(refresh, refresh', chat[h])
         /\ \A i \in DOMAIN refresh' : ~refresh'[i].quiet
  <1>1. PICK k \in TaskKinds :
          /\ k = "createGroup" => row[chat[h]] = "none"
          /\ kind' = [kind EXCEPT ![h] = k]
          /\ Enter(h, CASE k \in {"addweb", "delweb"}           -> "check"
                        [] k = "deleteChat"                     -> "disable"
                        [] k \in {"createGroup", "openPrivate"} -> "ensure")
    BY DEF StartTask
  <1>2. k \in Kinds
    BY BoundsAreTyped
  <1>3. \E s \in StartSteps : /\ Enter(h, s)
                              /\ s = "ensure" => k = "openPrivate" \/ row[chat[h]] = "none"
    <2>1. CASE k \in {"addweb", "delweb"}
      BY <1>1, <2>1 DEF StartSteps
    <2>2. CASE k = "deleteChat"
      BY <1>1, <2>2 DEF StartSteps
    <2>3. CASE k \in {"createGroup", "openPrivate"}
      BY <1>1, <2>3 DEF StartSteps
    <2> QED BY <1>2, <2>1, <2>2, <2>3 DEF Kinds
  <1>4. SameLoads(refresh, refresh', chat[h]) /\ \A i \in DOMAIN refresh' : ~refresh'[i].quiet
    <2> DEFINE new == [i \in DOMAIN refresh |-> [refresh[i] EXCEPT !.quiet = FALSE]]
    <2>1. refresh \in Seq(Loads) /\ refresh' = new
      BY DEF TypeOK, StartTask, Loads
    <2>2. \A i \in DOMAIN refresh : refresh[i] \in Loads
      BY <2>1, LenProperties
    <2>3. \A i \in DOMAIN refresh : [refresh[i] EXCEPT !.quiet = FALSE] \in Loads
      BY <2>2 DEF Loads
    <2>4. \A i \in DOMAIN refresh : new[i] = [refresh[i] EXCEPT !.quiet = FALSE]
      OBVIOUS
    <2>5. new = [i \in DOMAIN refresh |-> new[i]]
      OBVIOUS
    <2> HIDE DEF new
    <2>6. new \in Seq(Loads) /\ DOMAIN new = DOMAIN refresh
      BY <2>1, <2>3, <2>4, <2>5, LoadsCopied
    <2>7. \A i \in DOMAIN refresh : /\ new[i].rows = refresh[i].rows /\ ~new[i].quiet
                                   /\ new[i].crossed = refresh[i].crossed
      BY <2>2, <2>4 DEF Loads
    <2>8. SameLoads(refresh, new, chat[h]) /\ \A i \in DOMAIN new : ~new[i].quiet
      BY <2>6, <2>7 DEF SameLoads
    <2> QED BY <2>1, <2>8
  <1>5. step[h] = "unused" /\ UNCHANGED <<row, chat, inbox, list, lost, refreshes>>
    BY DEF StartTask, tabVars
  <1> QED BY <1>1, <1>2, <1>3, <1>4, <1>5 DEF Enter, Goto

LEMMA TaskSteps ==
  ASSUME TypeOK, NEW h \in Tasks, StartTask(h) \/ Step(h) \/ TellingFails(h)
  PROVE  OnlyTask(h)
  <1> USE DEF tabVars, taskVars, history, Undisturbed, EndUntold, Enter, Goto, Steps
  <1>1. /\ chat[h] \in Chats /\ refresh \in Seq(Loads) /\ loose \subseteq Chats
        /\ step \in [Tasks -> Steps] /\ kind \in [Tasks -> Kinds \cup {"none"}]
        /\ row \in [Chats -> {"none", "enabled", "disabled"}]
        /\ row[chat[h]] \in {"none", "enabled", "disabled"}
    BY DEF TypeOK, Loads
  <1>2. SameLoads(refresh, refresh, chat[h]) /\ SameLoads(refresh, Crossed(chat[h]), chat[h])
    BY <1>1, LoadsStay, CrossedLoads
  <1>3. \A x \in {"added", "removed"} : /\ [event |-> x, chat |-> chat[h]] \in Events
                                       /\ [event |-> x, chat |-> chat[h]].chat = chat[h]
    BY <1>1 DEF Events
  <1>4. ASSUME UNCHANGED <<kind, chat, list, lost, refreshes>>,
               NEW s \in Steps, step' = [step EXCEPT ![h] = s],
               row' = row \/ \E r \in {"none", "enabled", "disabled"} : row' = [row EXCEPT ![chat[h]] = r],
               \/ inbox' = inbox
               \/ \E x \in {"added", "removed"} : inbox' = Append(inbox, [event |-> x, chat |-> chat[h]]),
               refresh' = refresh \/ refresh' = Crossed(chat[h]),
               loose' = loose \/ loose' = loose \cup {chat[h]}
        PROVE  OnlyTask(h)
    <2>1. inbox' = inbox \/ \E e \in Events : e.chat = chat[h] /\ inbox' = Append(inbox, e)
      BY <1>3, <1>4
    <2>2. SameLoads(refresh, refresh', chat[h])
      BY <1>2, <1>4
    <2>3. /\ row' \in [Chats -> {"none", "enabled", "disabled"}]
          /\ \A c \in Chats : c # chat[h] => row'[c] = row[c]
      BY <1>1, <1>4
    <2>4. step' \in [Tasks -> Steps] /\ \A g \in Tasks : g # h => step'[g] = step[g]
      BY <1>1, <1>4
    <2>5. loose \subseteq loose' /\ loose' \subseteq Chats
      BY <1>1, <1>4
    <2> QED BY <1>1, <1>4, <2>1, <2>2, <2>3, <2>4, <2>5 DEF OnlyTask
  <1>5. CASE StartTask(h)
    <2>1. PICK k \in Kinds, s \in StartSteps :
            /\ step' = [step EXCEPT ![h] = s] /\ kind' = [kind EXCEPT ![h] = k]
            /\ loose' = IF Meets(chat[h], s) THEN loose \cup {chat[h]} ELSE loose
      BY <1>5, StartFacts
    <2>2. /\ UNCHANGED <<row, chat, inbox, list, lost, refreshes>>
          /\ SameLoads(refresh, refresh', chat[h])
      BY <1>5, StartFacts
    <2>3. step' \in [Tasks -> Steps] /\ kind' \in [Tasks -> Kinds \cup {"none"}]
      BY <1>1, <2>1 DEF StartSteps
    <2>4. \A g \in Tasks : g # h => step'[g] = step[g] /\ kind'[g] = kind[g]
      BY <1>1, <2>1
    <2>5. loose \subseteq loose' /\ loose' \subseteq Chats
      BY <1>1, <2>1
    <2> QED BY <1>1, <2>2, <2>3, <2>4, <2>5 DEF OnlyTask
  <1>6. CASE Check(h)
    BY <1>4, <1>6 DEF Check
  <1>7. CASE Ensure(h)
    BY <1>1, <1>4, <1>7 DEF Ensure
  <1>8. CASE EnableRow(h)
    BY <1>4, <1>8 DEF EnableRow, Enable
  <1>9. CASE InsertRow(h)
    BY <1>4, <1>9 DEF InsertRow, Enable
  <1>10. CASE LookUp(h)
    BY <1>4, <1>10 DEF LookUp
  <1>11. CASE TellingFails(h)
    BY <1>4, <1>11 DEF TellingFails
  <1>12. CASE AnnounceAdded(h)
    BY <1>4, <1>12 DEF AnnounceAdded
  <1>13. CASE AnnounceRemoved(h)
    BY <1>4, <1>13 DEF AnnounceRemoved
  <1>14. CASE DisableRow(h)
    BY <1>4, <1>14 DEF DisableRow
  <1> QED BY <1>5, <1>6, <1>7, <1>8, <1>9, <1>10, <1>11, <1>12, <1>13, <1>14 DEF Step

\* What the tab's handler of an event does to its list.
Handled(chats, e) == IF e.event = "added" THEN Append(chats, e.chat) ELSE Without(chats, e.chat)

LEMMA HandleStep ==
  ASSUME TypeOK, HandleEvent
  PROVE  /\ inbox \in Seq(Events) /\ inbox # <<>> /\ Head(inbox) \in Events
         /\ inbox' = Tail(inbox) /\ Tail(inbox) \in Seq(Events)
         /\ list' = Handled(list, Head(inbox)) /\ list' \in Seq(Chats)
         /\ lost' = lost \ {Head(inbox).chat}
         /\ SameLoads(refresh, refresh', Head(inbox).chat)
         /\ \A i \in DOMAIN refresh' : Head(inbox).chat \in refresh'[i].crossed
         /\ UNCHANGED <<row, step, kind, chat, refreshes, loose>>
  <1>1. inbox \in Seq(Events) /\ inbox # <<>> /\ refresh \in Seq(Loads) /\ list \in Seq(Chats)
    BY DEF TypeOK, Events, Loads, HandleEvent
  <1>2. Head(inbox) \in Events /\ Tail(inbox) \in Seq(Events)
    BY <1>1, HeadTailProperties
  <1>3. Head(inbox).chat \in Chats
    BY <1>2 DEF Events
  <1>4. list' = Handled(list, Head(inbox)) /\ list' \in Seq(Chats)
    BY <1>1, <1>3, WithoutFacts, AppendProperties DEF HandleEvent, Handled
  <1>5. refresh' = Crossed(Head(inbox).chat)
    BY DEF HandleEvent
  <1>6. /\ SameLoads(refresh, refresh', Head(inbox).chat)
        /\ \A i \in DOMAIN refresh' : Head(inbox).chat \in refresh'[i].crossed
    BY <1>1, <1>3, <1>5, CrossedLoads DEF SameLoads
  <1> QED BY <1>1, <1>2, <1>4, <1>6 DEF HandleEvent, taskVars

\* Every step keeps the types.
LEMMA StepTypes == TypeOK /\ [Next]_vars => TypeOK'
  <1> SUFFICES ASSUME TypeOK, [Next]_vars PROVE TypeOK'
    OBVIOUS
  <1>1. ASSUME NEW h \in Tasks, StartTask(h) \/ Step(h) \/ TellingFails(h) PROVE TypeOK'
    <2>1. OnlyTask(h)
      BY <1>1, TaskSteps
    <2>2. inbox' \in Seq(Events)
      <3>1. inbox \in Seq(Events)
        BY DEF TypeOK, Events
      <3> QED BY <2>1, <3>1, AppendProperties DEF OnlyTask
    <2>3. refresh' \in Seq(Loads)
      BY <2>1 DEF OnlyTask, SameLoads
    <2> QED BY <2>1, <2>2, <2>3 DEF OnlyTask, TypeOK, Events, Loads
  <1>2. CASE HandleEvent
    <2>1. refresh' \in Seq(Loads) /\ lost' \subseteq Chats
      BY <1>2, HandleStep DEF SameLoads, TypeOK
    <2> QED BY <1>2, <2>1, HandleStep DEF TypeOK, Events, Loads
  <1>3. CASE StartRefresh
    <2> DEFINE e == [rows |-> Enabled, crossed |-> {c \in Chats : Untold(c)}, quiet |-> Quiet]
    <2>1. e \in Loads
      <3>1. Enabled \in SUBSET Chats /\ {c \in Chats : Untold(c)} \in SUBSET Chats
        BY DEF Enabled
      <3>2. Quiet \in BOOLEAN
        BY DEF Quiet
      <3> QED BY <3>1, <3>2 DEF Loads
    <2>2. refresh' = Append(refresh, e) /\ refresh \in Seq(Loads)
      BY <1>3 DEF StartRefresh, TypeOK, Loads
    <2> HIDE DEF e
    <2>3. refresh' \in Seq(Loads)
      BY <2>1, <2>2, AppendProperties
    <2>4. refreshes' \in 0 .. MaxRefresh
      BY <1>3, BoundsAreTyped DEF StartRefresh, TypeOK
    <2> QED BY <1>3, <2>3, <2>4 DEF StartRefresh, taskVars, TypeOK, Loads
  <1>4. CASE FinishRefresh
    <2>1. PICK i \in DOMAIN refresh : \E unshaped \in SUBSET refresh[i].rows :
            /\ list' = SetToSeq(refresh[i].rows \ unshaped)
            /\ lost' = unshaped
            /\ loose' = IF refresh[i].quiet THEN {} ELSE loose \cup refresh[i].crossed
            /\ refresh' = RemoveAt(refresh, i)
      BY <1>4 DEF FinishRefresh
    <2>2. refresh \in Seq(Loads) /\ refresh[i] \in Loads
      BY LoadTypes
    <2>3. refresh[i].rows \subseteq Chats /\ refresh[i].crossed \subseteq Chats
      BY <2>2 DEF Loads
    <2>4. list' \in Seq(Chats) /\ lost' \subseteq Chats /\ loose' \subseteq Chats
      BY <2>1, <2>3, RowsInOrder DEF TypeOK
    <2>5. refresh' \in Seq(Loads)
      BY <2>1, <2>2, RemoveAtFacts
    <2> QED BY <1>4, <2>4, <2>5 DEF FinishRefresh, taskVars, TypeOK, Loads
  <1>5. CASE RefreshFails
    <2>1. PICK i \in DOMAIN refresh : refresh' = RemoveAt(refresh, i)
      BY <1>5 DEF RefreshFails
    <2>2. refresh' \in Seq(Loads)
      BY <2>1, RemoveAtFacts DEF TypeOK, Loads
    <2> QED BY <1>5, <2>2 DEF RefreshFails, taskVars, tabVars, TypeOK, Loads
  <1>6. CASE UNCHANGED vars
    BY <1>6 DEF vars, TypeOK
  <1> QED BY <1>1, <1>2, <1>3, <1>4, <1>5, <1>6 DEF Next

\* The types of the variables: a row is enabled, disabled or absent and nothing else,
\* and the list holds chats (the enabled_chats table, the chats of the tab's state).
THEOREM TypeCorrect == Spec => []TypeOK
  BY InitTypes, StepTypes, PTL DEF Spec

-----------------------------------------------------------------------------
\* The invariant.

Alone(chats, c) == Absent(chats, c) \/ Once(chats, c)

\* The chats the tab has, or would have if the last answer had not left them out.
HeldOf(chats, left) == {c \in Chats : c \in left \/ ~Absent(chats, c)}
Held == HeldOf(list, lost)

\* What the tab knows of chat c once it has handled the first n events of w.
Knows(w, held, n, c, event) ==
    \/ \E i \in 1 .. n : /\ w[i].chat = c /\ w[i].event = event
                         /\ \A j \in i + 1 .. n : w[j].chat # c
    \/ /\ \A j \in 1 .. n : w[j].chat # c
       /\ c \in held <=> event = "added"

\* onChatAdded comes only when the tab will not have the chat in its list.
Fits(w, held, c) ==
    \A i \in DOMAIN w : w[i].chat = c /\ w[i].event = "added" => Knows(w, held, i - 1, c, "removed")

WillHave(c) == Knows(inbox, Held, Len(inbox), c, "added")
WillLack(c) == Knows(inbox, Held, Len(inbox), c, "removed")
Agree(c) == IF row[c] = "enabled" THEN WillHave(c) ELSE WillLack(c)
Tell(c) == \E h \in Tasks : chat[h] = c /\ Telling(h)

\* What has been done, and not yet announced, when task h of c is at its step.
AtStage(h, c) ==
    /\ step[h] = "ensure" => kind[h] = "openPrivate" \/ row[c] # "enabled"
    /\ step[h] = "update" => row[c] = "disabled"
    /\ step[h] = "insert" => row[c] = "none"
    /\ step[h] = "announce" => Tells(h)
    /\ step[h] \in {"lookup", "announce"} /\ Tells(h) => row[c] = "enabled" /\ WillLack(c)
    /\ step[h] = "announceRemoved" => row[c] # "enabled"

\* A task of c that adds meets no other one that changes the row.
AddersAlone(c) ==
    \A g, h \in Tasks :
        chat[g] = c /\ chat[h] = c /\ Adding(g) /\ (Adding(h) \/ Removing(h)) => g = h

\* An answer that crossed no event of c says of c what held says.
Told(loads, held, c) ==
    \A i \in DOMAIN loads : c \in loads[i].crossed \/ (c \in loads[i].rows <=> c \in held)

\* Chat c is not loose: the events on the way, and those that tasks will emit, take the
\* tab to where the row is, and an answer that crossed no event tells it what it knows.
Settled(c) ==
    /\ AddersAlone(c)
    /\ \A h \in Tasks : chat[h] = c => AtStage(h, c)
    /\ Fits(inbox, Held, c)
    /\ Tell(c) \/ Agree(c)
    /\ Alone(list, c)
    /\ Told(refresh, Held, c)

\* Also of a loose chat: the answers under way say what the row is, or an event is due.
Due(c) ==
    /\ c \in lost => Absent(list, c)
    /\ Told(refresh, Enabled, c) \/ Untold(c)

\* An answer read in a quiet moment that has lasted.
QuietAnswers == \A i \in DOMAIN refresh : refresh[i].quiet => Quiet /\ refresh[i].rows = Enabled

IInv == /\ QuietAnswers
        /\ \A c \in Chats : Due(c)
        /\ \A c \in Chats : c \in loose \/ Settled(c)

-----------------------------------------------------------------------------
\* The events of one chat.

\* An event at the end says what it says, and does not change what was known before.
LEMMA KnowsAppend ==
  ASSUME NEW w \in Seq(Events), NEW held, NEW e \in Events, NEW c
  PROVE  LET v == Append(w, e) IN
         /\ Len(v) = Len(w) + 1
         /\ \A n \in 0 .. Len(w) : \A x : Knows(v, held, n, c, x) <=> Knows(w, held, n, c, x)
         /\ e.chat = c => Knows(v, held, Len(v), c, e.event)
         /\ e.chat # c => \A x : Knows(v, held, Len(v), c, x) <=> Knows(w, held, Len(w), c, x)
  <1> DEFINE v == Append(w, e)
             N == Len(w)
  <1>1. /\ N \in Nat /\ Len(v) = N + 1
        /\ \A i \in 1 .. N : v[i] = w[i]
        /\ v[N + 1] = e
    BY LenProperties, AppendProperties
  <1> HIDE DEF v, N
  <1>2. ASSUME NEW n \in 0 .. N, NEW x PROVE Knows(v, held, n, c, x) <=> Knows(w, held, n, c, x)
    <2>1. \A i \in 1 .. n : v[i] = w[i]
      BY <1>1
    <2>2. \A i \in 1 .. n : i + 1 .. n \subseteq 1 .. n
      BY <1>1
    <2> QED BY <2>1, <2>2 DEF Knows
  <1>3. ASSUME e.chat = c PROVE Knows(v, held, N + 1, c, e.event)
    <2>1. N + 1 \in 1 .. N + 1 /\ (N + 1) + 1 .. N + 1 = {}
      BY <1>1
    <2> QED BY <1>1, <1>3, <2>1 DEF Knows
  <1>4. ASSUME e.chat # c, NEW x PROVE Knows(v, held, N + 1, c, x) <=> Knows(w, held, N, c, x)
    <2>1. ASSUME Knows(v, held, N + 1, c, x) PROVE Knows(v, held, N, c, x)
      <3>1. ASSUME NEW i \in 1 .. N + 1, v[i].chat = c, v[i].event = x,
                   \A j \in i + 1 .. N + 1 : v[j].chat # c
            PROVE  Knows(v, held, N, c, x)
        <4>1. i \in 1 .. N /\ i + 1 .. N \subseteq i + 1 .. N + 1
          BY <1>1, <1>4, <3>1
        <4> QED BY <3>1, <4>1 DEF Knows
      <3>2. 1 .. N \subseteq 1 .. N + 1
        BY <1>1
      <3> QED BY <2>1, <3>1, <3>2 DEF Knows
    <2>2. ASSUME Knows(v, held, N, c, x) PROVE Knows(v, held, N + 1, c, x)
      <3>1. ASSUME NEW i \in 1 .. N, v[i].chat = c, v[i].event = x,
                   \A j \in i + 1 .. N : v[j].chat # c
            PROVE  Knows(v, held, N + 1, c, x)
        <4>1. i \in 1 .. N + 1 /\ \A j \in i + 1 .. N + 1 : j \in i + 1 .. N \/ j = N + 1
          BY <1>1
        <4> QED BY <1>1, <1>4, <3>1, <4>1 DEF Knows
      <3>2. \A j \in 1 .. N + 1 : j \in 1 .. N \/ j = N + 1
        BY <1>1
      <3> QED BY <1>1, <1>4, <2>2, <3>1, <3>2 DEF Knows
    <2>3. N \in 0 .. N
      BY <1>1
    <2> QED BY <1>2, <2>1, <2>2, <2>3
  <1> QED BY <1>1, <1>2, <1>3, <1>4 DEF v, N

LEMMA FitsAppend ==
  ASSUME NEW w \in Seq(Events), NEW held, NEW e \in Events, NEW c, Fits(w, held, c),
         e.chat = c /\ e.event = "added" => Knows(w, held, Len(w), c, "removed")
  PROVE  Fits(Append(w, e), held, c)
  <1> DEFINE v == Append(w, e)
             N == Len(w)
  <1>1. /\ N \in Nat /\ DOMAIN w = 1 .. N /\ DOMAIN v = 1 .. N + 1
        /\ \A i \in 1 .. N : v[i] = w[i]
        /\ v[N + 1] = e
    BY LenProperties, AppendProperties
  <1>2. \A n \in 0 .. N : Knows(v, held, n, c, "removed") <=> Knows(w, held, n, c, "removed")
    BY KnowsAppend
  <1> HIDE DEF v
  <1>3. ASSUME NEW i \in 1 .. N + 1, v[i].chat = c, v[i].event = "added"
        PROVE  Knows(v, held, i - 1, c, "removed")
    <2>1. i - 1 \in 0 .. N
      BY <1>1
    <2>2. CASE i = N + 1
      <3>1. i - 1 = N
        BY <1>1, <2>2
      <3> QED BY <1>1, <1>2, <1>3, <2>1, <2>2, <3>1
    <2>3. CASE i # N + 1
      <3>1. i \in 1 .. N
        BY <1>1, <2>3
      <3> QED BY <1>1, <1>2, <1>3, <2>1, <3>1 DEF Fits
    <2> QED BY <2>2, <2>3
  <1> QED BY <1>1, <1>3 DEF Fits, v

\* Handling the first event leaves the later ones true of what the tab then has.
LEMMA HandleKnows ==
  ASSUME NEW w \in Seq(Events), w # <<>>, NEW held, NEW new, NEW c, Fits(w, held, c),
         Head(w).chat = c => (c \in new <=> Head(w).event = "added"),
         Head(w).chat # c => (c \in new <=> c \in held)
  PROVE  /\ Fits(Tail(w), new, c)
         /\ \A x \in {"added", "removed"} :
               Knows(w, held, Len(w), c, x) => Knows(Tail(w), new, Len(Tail(w)), c, x)
  <1> DEFINE v == Tail(w)
             d == Head(w).chat
             N == Len(w)
  <1>1. /\ N \in Nat /\ N >= 1 /\ DOMAIN w = 1 .. N
        /\ Len(v) = N - 1 /\ DOMAIN v = 1 .. N - 1
        /\ \A i \in 1 .. N - 1 : v[i] = w[i + 1]
        /\ w[1] = Head(w) /\ Head(w) \in Events
    <2>1. /\ v \in Seq(Events) /\ Len(v) = N - 1 /\ \A i \in 1 .. N - 1 : v[i] = w[i + 1]
          /\ Head(w) = w[1] /\ Head(w) \in Events
      BY HeadTailProperties
    <2>2. N \in Nat /\ N # 0 /\ DOMAIN w = 1 .. N
      BY LenProperties, EmptySeq
    <2> QED BY <2>1, <2>2, LenProperties
  <1>2. d \in Chats /\ Head(w).event \in {"added", "removed"}
    BY <1>1 DEF Events
  <1> HIDE DEF v
  <1>3. ASSUME NEW n \in 1 .. N, NEW x \in {"added", "removed"}, Knows(w, held, n, c, x)
        PROVE  Knows(v, new, n - 1, c, x)
    <2>1. ASSUME NEW i \in 1 .. n, w[i].chat = c, w[i].event = x, \A j \in i + 1 .. n : w[j].chat # c
          PROVE  Knows(v, new, n - 1, c, x)
      <3>1. CASE i = 1
        <4>1. \A j \in 1 .. n - 1 : j \in 1 .. N - 1 /\ j + 1 \in i + 1 .. n
          BY <1>1, <3>1
        <4>2. \A j \in 1 .. n - 1 : v[j].chat # c
          BY <1>1, <2>1, <4>1
        <4>3. Head(w).event = x /\ Head(w).chat = c
          BY <1>1, <2>1, <3>1
        <4> QED BY <1>2, <4>2, <4>3 DEF Knows
      <3>2. CASE i # 1
        <4>1. i - 1 \in 1 .. n - 1 /\ i - 1 \in 1 .. N - 1 /\ (i - 1) + 1 = i
          BY <1>1, <3>2
        <4>2. \A j \in (i - 1) + 1 .. n - 1 : j \in 1 .. N - 1 /\ j + 1 \in i + 1 .. n
          BY <1>1, <3>2
        <4> QED BY <1>1, <2>1, <4>1, <4>2 DEF Knows
      <3> QED BY <3>1, <3>2
    <2>2. ASSUME \A j \in 1 .. n : w[j].chat # c, c \in held <=> x = "added"
          PROVE  Knows(v, new, n - 1, c, x)
      <3>1. \A j \in 1 .. n - 1 : j \in 1 .. N - 1 /\ j + 1 \in 1 .. n
        BY <1>1
      <3>2. 1 \in 1 .. n
        BY <1>1
      <3>3. d # c
        BY <1>1, <2>2, <3>2
      <3> QED BY <1>1, <2>2, <3>1, <3>3 DEF Knows
    <2> QED BY <1>3, <2>1, <2>2 DEF Knows
  <1>4. ASSUME NEW i \in 1 .. N - 1, v[i].chat = c, v[i].event = "added"
        PROVE  Knows(v, new, i - 1, c, "removed")
    <2>1. i + 1 \in 1 .. N /\ i \in 1 .. N /\ (i + 1) - 1 = i
      BY <1>1
    <2>2. Knows(w, held, i, c, "removed")
      BY <1>1, <1>4, <2>1 DEF Fits
    <2> QED BY <1>3, <2>1, <2>2
  <1>5. N \in 1 .. N
    BY <1>1
  <1> QED BY <1>1, <1>3, <1>4, <1>5 DEF v, Fits

\* What the handler does to the place of a chat.
LEMMA HandledPlaces ==
  ASSUME NEW e \in Events, NEW chats \in Seq(Chats), NEW c
  PROVE  /\ e.chat # c => /\ Absent(chats, c) => Absent(Handled(chats, e), c)
                          /\ Once(chats, c) => Once(Handled(chats, e), c)
         /\ e.chat = c => /\ e.event = "removed" => Absent(Handled(chats, e), c)
                          /\ e.event = "added" /\ Absent(chats, c) => Once(Handled(chats, e), c)
  <1>1. e.chat \in Chats /\ e.event \in {"added", "removed"}
    BY DEF Events
  <1>2. PICK d \in Chats : d = e.chat
    BY <1>1
  <1>3. CASE e.event = "added"
    <2>1. Places(Append(chats, d), c)
            = IF d = c THEN Places(chats, c) \cup {Len(chats) + 1} ELSE Places(chats, c)
      BY PlacesOfAppend
    <2>2. /\ DOMAIN chats = 1 .. Len(chats) /\ Len(chats) \in Nat
          /\ DOMAIN Append(chats, d) = 1 .. Len(chats) + 1
      BY LenProperties, AppendProperties
    <2>3. Handled(chats, e) = Append(chats, d)
      BY <1>2, <1>3 DEF Handled
    <2>4. DOMAIN chats \subseteq DOMAIN Handled(chats, e) /\ Len(chats) + 1 \in DOMAIN Handled(chats, e)
      BY <2>2, <2>3
    <2>5. Places(Handled(chats, e), c)
            = IF d = c THEN Places(chats, c) \cup {Len(chats) + 1} ELSE Places(chats, c)
      BY <2>1, <2>3
    <2> QED BY <1>2, <1>3, <2>4, <2>5 DEF Once, Absent
  <1>4. CASE e.event # "added"
    <2>1. Handled(chats, e) = Without(chats, d)
      BY <1>2, <1>4 DEF Handled
    <2>2. /\ Absent(Without(chats, d), d)
          /\ \A x : x # d => /\ Once(chats, x) => Once(Without(chats, d), x)
                             /\ Absent(chats, x) => Absent(Without(chats, d), x)
      BY WithoutFacts
    <2> QED BY <1>2, <1>4, <2>1, <2>2
  <1> QED BY <1>3, <1>4

\* The tab handles an event.
LEMMA HandledHeld ==
  ASSUME NEW e \in Events, NEW chats \in Seq(Chats), NEW left, NEW c \in Chats,
         Alone(chats, c), e.chat = c /\ e.event = "added" => Absent(chats, c)
  PROVE  LET new == HeldOf(Handled(chats, e), left \ {e.chat}) IN
         /\ Alone(Handled(chats, e), c)
         /\ e.chat = c => (c \in new <=> e.event = "added")
         /\ e.chat # c => (c \in new <=> c \in HeldOf(chats, left))
  <1>1. e.event \in {"added", "removed"}
    BY DEF Events
  <1>2. \A s : Once(s, c) => ~Absent(s, c)
    BY DEF Once, Absent
  <1>3. CASE e.chat # c
    <2>1. /\ Absent(chats, c) => Absent(Handled(chats, e), c)
          /\ Once(chats, c) => Once(Handled(chats, e), c)
      BY <1>3, HandledPlaces
    <2> QED BY <1>2, <1>3, <2>1 DEF Alone, HeldOf
  <1>4. CASE e.chat = c
    <2>1. /\ e.event = "removed" => Absent(Handled(chats, e), c)
          /\ e.event = "added" => Once(Handled(chats, e), c)
      BY <1>4, HandledPlaces
    <2> QED BY <1>1, <1>2, <1>4, <2>1 DEF Alone, HeldOf
  <1> QED BY <1>3, <1>4

-----------------------------------------------------------------------------
\* What a step leaves as it was.

LEMMA HeldStays ==
  ASSUME UNCHANGED <<list, lost>>, NEW c
  PROVE  /\ Held' = Held
         /\ Alone(list, c)' <=> Alone(list, c)
         /\ Absent(list, c)' <=> Absent(list, c)
  BY DEF Held, HeldOf, Alone, Once, Absent, Places

LEMMA HeldAlike ==
  ASSUME NEW w, NEW held, NEW new, NEW c, c \in held <=> c \in new
  PROVE  /\ \A n, x : Knows(w, held, n, c, x) <=> Knows(w, new, n, c, x)
         /\ Fits(w, held, c) <=> Fits(w, new, c)
  BY DEF Knows, Fits

LEMMA SameKnown ==
  ASSUME NEW c, inbox' = inbox, c \in Held' <=> c \in Held
  PROVE  /\ Fits(inbox, Held, c)' <=> Fits(inbox, Held, c)
         /\ WillHave(c)' <=> WillHave(c)
         /\ WillLack(c)' <=> WillLack(c)
  <1>1. /\ \A n, x : Knows(inbox, Held, n, c, x) <=> Knows(inbox, Held', n, c, x)
        /\ Fits(inbox, Held, c) <=> Fits(inbox, Held', c)
    BY HeldAlike
  <1>2. Fits(inbox, Held, c)' <=> Fits(inbox, Held', c)
    BY DEF Fits, Knows
  <1>3. /\ WillHave(c)' <=> Knows(inbox, Held', Len(inbox), c, "added")
        /\ WillLack(c)' <=> Knows(inbox, Held', Len(inbox), c, "removed")
    BY DEF WillHave, WillLack, Knows
  <1> QED BY <1>1, <1>2, <1>3 DEF WillHave, WillLack

LEMMA OtherKnown ==
  ASSUME NEW c, inbox \in Seq(Events), NEW e \in Events, e.chat # c,
         inbox' = Append(inbox, e), Held' = Held, Fits(inbox, Held, c)
  PROVE  /\ Fits(inbox, Held, c)'
         /\ WillHave(c)' <=> WillHave(c)
         /\ WillLack(c)' <=> WillLack(c)
  <1>1. Fits(Append(inbox, e), Held, c)
    BY FitsAppend
  <1>2. \A x : Knows(Append(inbox, e), Held, Len(Append(inbox, e)), c, x)
                 <=> Knows(inbox, Held, Len(inbox), c, x)
    BY KnowsAppend
  <1>3. Fits(inbox', Held', c) /\ \A x : Knows(inbox', Held', Len(inbox'), c, x)
                                           <=> Knows(inbox, Held, Len(inbox), c, x)
    BY <1>1, <1>2
  <1>4. /\ WillHave(c)' <=> Knows(inbox', Held', Len(inbox'), c, "added")
        /\ WillLack(c)' <=> Knows(inbox', Held', Len(inbox'), c, "removed")
        /\ Fits(inbox, Held, c)' <=> Fits(inbox', Held', c)
    BY DEF WillHave, WillLack, Fits, Knows
  <1> QED BY <1>3, <1>4 DEF WillHave, WillLack

LEMMA OwnKnown ==
  ASSUME NEW c, inbox \in Seq(Events), NEW e \in Events, e.chat = c,
         inbox' = Append(inbox, e), Held' = Held, Fits(inbox, Held, c),
         e.event = "added" => WillLack(c)
  PROVE  /\ Fits(inbox, Held, c)'
         /\ e.event = "added" => WillHave(c)'
         /\ e.event = "removed" => WillLack(c)'
  <1>1. Fits(Append(inbox, e), Held, c)
    BY FitsAppend DEF WillLack
  <1>2. Knows(Append(inbox, e), Held, Len(Append(inbox, e)), c, e.event)
    BY KnowsAppend
  <1>3. Fits(inbox', Held, c) /\ Knows(inbox', Held, Len(inbox'), c, e.event)
    BY <1>1, <1>2
  <1> QED BY <1>3 DEF WillHave, WillLack, Fits, Knows

\* The answers under way tell c the same, unless they have crossed one more event of it.
LEMMA ToldStays ==
  ASSUME NEW old, NEW new, NEW d, SameLoads(old, new, d), NEW c, NEW held, NEW later,
         c \in held <=> c \in later, Told(old, held, c)
  PROVE  Told(new, later, c)
  BY DEF SameLoads, Told

LEMMA ToldCrossed ==
  ASSUME NEW loads, NEW c, NEW held, \A i \in DOMAIN loads : c \in loads[i].crossed
  PROVE  Told(loads, held, c)
  BY DEF Told

LEMMA ToldPrimes ==
  ASSUME NEW c
  PROVE  /\ Told(refresh, Held, c)' <=> Told(refresh', Held', c)
         /\ Told(refresh, Enabled, c)' <=> Told(refresh', Enabled', c)
  BY DEF Told

\* The tasks of c are at the steps they were at.
LEMMA TasksStay ==
  ASSUME NEW c, UNCHANGED <<step, kind, chat>>
  PROVE  /\ AddersAlone(c)' <=> AddersAlone(c)
         /\ Tell(c)' <=> Tell(c)
         /\ row'[c] = row[c] /\ (WillLack(c) => WillLack(c)')
              => \A h \in Tasks : AtStage(h, c) => AtStage(h, c)'
  BY DEF AddersAlone, Tell, AtStage, Adding, Removing, Telling, Tells

-----------------------------------------------------------------------------
\* The steps of a task, seen from its chat.

\* Either every answer under way has crossed the event, or one is still due, or the task
\* had none to emit and leaves the row alone.
LEMMA TaskDue ==
  ASSUME TypeOK, NEW h \in Tasks, NEW c \in Chats, c = chat[h],
         StartTask(h) \/ Step(h) \/ TellingFails(h)
  PROVE  \/ \A i \in DOMAIN refresh' : c \in refresh'[i].crossed
         \/ Untold(c)'
         \/ row' = row /\ inbox' = inbox /\ ~Telling(h)
  <1> USE DEF tabVars, taskVars, history, Undisturbed, EndUntold, Enter, Goto
  <1>1. OnlyTask(h)
    BY TaskSteps
  <1>2. refresh \in Seq(Loads) /\ inbox \in Seq(Events) /\ chat'[h] = c
    BY <1>1 DEF TypeOK, Loads, Events, OnlyTask
  <1>3. ASSUME refresh' = Crossed(c)
        PROVE  \A i \in DOMAIN refresh' : c \in refresh'[i].crossed
    BY <1>2, <1>3, CrossedLoads DEF SameLoads
  <1>4. ASSUME Telling(h)' PROVE Untold(c)'
    BY <1>2, <1>4 DEF Untold
  <1>5. ASSUME NEW x \in {"added", "removed"},
               inbox' = Append(inbox, [event |-> x, chat |-> c])
        PROVE  Untold(c)'
    <2> DEFINE e == [event |-> x, chat |-> c]
    <2>1. e \in Events /\ e.chat = c
      BY <1>2 DEF Events
    <2> HIDE DEF e
    <2>2. inbox' = Append(inbox, e)
      BY <1>5 DEF e
    <2>3. Len(inbox) + 1 \in DOMAIN inbox' /\ inbox'[Len(inbox) + 1] = e
      BY <1>2, <2>1, <2>2, LenProperties, AppendProperties
    <2> QED BY <1>2, <2>1, <2>3 DEF Untold
  <1>6. CASE StartTask(h)
    BY <1>6 DEF StartTask, Telling
  <1>7. CASE Check(h)
    BY <1>7 DEF Check, Telling
  <1>8. CASE Ensure(h)
    BY <1>8 DEF Ensure, Telling
  <1>9. ASSUME Enable(h), UNCHANGED <<kind, chat>>
        PROVE  Untold(c)' \/ \A i \in DOMAIN refresh' : c \in refresh'[i].crossed
    <2>1. CASE Tells(h)
      <3>1. Telling(h)'
        BY <1>9, <2>1 DEF Enable, Telling, Tells, TypeOK
      <3> QED BY <1>4, <3>1
    <2>2. CASE ~Tells(h)
      BY <1>3, <1>9, <2>2 DEF Enable
    <2> QED BY <2>1, <2>2
  <1>10. CASE EnableRow(h)
    BY <1>9, <1>10 DEF EnableRow
  <1>11. CASE InsertRow(h)
    BY <1>9, <1>11 DEF InsertRow, Telling
  <1>12. CASE LookUp(h)
    <2>1. CASE Tells(h) /\ row[chat[h]] = "enabled"
      <3>1. Telling(h)'
        BY <1>12, <2>1 DEF LookUp, Telling, Tells, TypeOK
      <3> QED BY <1>4, <3>1
    <2>2. CASE Tells(h) /\ row[chat[h]] # "enabled"
      BY <1>3, <1>12, <2>2 DEF LookUp
    <2>3. CASE ~Tells(h)
      BY <1>12, <2>3 DEF LookUp, Telling
    <2> QED BY <2>1, <2>2, <2>3
  <1>13. CASE TellingFails(h)
    BY <1>3, <1>13 DEF TellingFails
  <1>14. CASE AnnounceAdded(h)
    BY <1>5, <1>14 DEF AnnounceAdded
  <1>15. CASE AnnounceRemoved(h)
    BY <1>5, <1>15 DEF AnnounceRemoved
  <1>16. CASE DisableRow(h)
    <2>1. Telling(h)'
      BY <1>16 DEF DisableRow, Telling, TypeOK
    <2> QED BY <1>4, <2>1
  <1> QED BY <1>6, <1>7, <1>8, <1>10, <1>11, <1>12, <1>13, <1>14, <1>15, <1>16 DEF Step

LEMMA TaskKeepsDue ==
  ASSUME TypeOK, NEW c \in Chats, Due(c), NEW h \in Tasks, StartTask(h) \/ Step(h) \/ TellingFails(h)
  PROVE  Due(c)'
  <1>1. OnlyTask(h)
    BY TaskSteps
  <1>2. (c \in lost => Absent(list, c))'
    BY <1>1, HeldStays DEF OnlyTask, Due
  <1>3. ASSUME Untold(c), \A g \in Tasks : chat[g] = c /\ Telling(g) => Telling(g)'
        PROVE  Untold(c)'
    <2>1. CASE \E g \in Tasks : chat[g] = c /\ Telling(g)
      BY <1>1, <1>3, <2>1 DEF Untold, OnlyTask
    <2>2. CASE \E i \in DOMAIN inbox : inbox[i].chat = c
      <3>1. CASE inbox' = inbox
        BY <2>2, <3>1 DEF Untold
      <3>2. CASE inbox' # inbox
        <4>1. PICK e \in Events : inbox' = Append(inbox, e)
          BY <1>1, <3>2 DEF OnlyTask
        <4>2. inbox \in Seq(Events)
          BY DEF TypeOK, Events
        <4>3. \A i \in DOMAIN inbox : i \in DOMAIN inbox' /\ inbox'[i] = inbox[i]
          BY <4>1, <4>2, LenProperties, AppendProperties
        <4> QED BY <2>2, <4>3 DEF Untold
      <3> QED BY <3>1, <3>2
    <2> QED BY <1>3, <2>1, <2>2 DEF Untold
  <1>4. ASSUME Told(refresh, Enabled, c), row'[c] = row[c] PROVE Told(refresh, Enabled, c)'
    <2>1. c \in Enabled <=> c \in Enabled'
      BY <1>4 DEF Enabled
    <2>2. Told(refresh', Enabled', c)
      BY <1>1, <1>4, <2>1, ToldStays DEF OnlyTask
    <2> QED BY <2>2, ToldPrimes
  <1>5. CASE c # chat[h]
    <2>1. row'[c] = row[c] /\ \A g \in Tasks : chat[g] = c /\ Telling(g) => Telling(g)'
      BY <1>1, <1>5 DEF OnlyTask, Telling, Tells
    <2> QED BY <1>2, <1>3, <1>4, <2>1 DEF Due
  <1>6. CASE c = chat[h]
    <2>1. CASE \A i \in DOMAIN refresh' : c \in refresh'[i].crossed
      BY <1>2, <2>1, ToldCrossed, ToldPrimes DEF Due
    <2>2. CASE Untold(c)'
      BY <1>2, <2>2 DEF Due
    <2>3. CASE row' = row /\ inbox' = inbox /\ ~Telling(h)
      <3>1. \A g \in Tasks : chat[g] = c /\ Telling(g) => Telling(g)'
        BY <1>1, <2>3 DEF OnlyTask, Telling, Tells
      <3> QED BY <1>2, <1>3, <1>4, <2>3, <3>1 DEF Due
    <2> QED BY <1>6, <2>1, <2>2, <2>3, TaskDue
  <1> QED BY <1>5, <1>6

LEMMA TaskKeepsQuiet ==
  ASSUME TypeOK, QuietAnswers, NEW h \in Tasks, StartTask(h) \/ Step(h) \/ TellingFails(h)
  PROVE  QuietAnswers'
  <1>1. SameLoads(refresh, refresh', chat[h])
    BY TaskSteps DEF OnlyTask
  <1>2. CASE StartTask(h)
    BY <1>2, StartFacts DEF QuietAnswers
  <1>3. CASE Step(h) \/ TellingFails(h)
    <2>1. Running(h)
      BY <1>3 DEF Step, Check, Ensure, EnableRow, InsertRow, LookUp, TellingFails,
                  AnnounceAdded, DisableRow, AnnounceRemoved, Running
    <2>2. \A i \in DOMAIN refresh : ~refresh[i].quiet
      BY <2>1 DEF QuietAnswers, Quiet
    <2> QED BY <1>1, <2>2 DEF SameLoads, QuietAnswers
  <1> QED BY <1>2, <1>3

\* A task of another chat.
LEMMA OtherSettled ==
  ASSUME TypeOK, NEW c \in Chats, Settled(c), NEW h \in Tasks, OnlyTask(h), chat[h] # c
  PROVE  Settled(c)'
  <1>1. /\ UNCHANGED <<chat, list, lost>> /\ row'[c] = row[c]
        /\ \A g \in Tasks : chat[g] = c => step'[g] = step[g] /\ kind'[g] = kind[g]
    BY DEF OnlyTask
  <1>2. Held' = Held /\ (Alone(list, c)' <=> Alone(list, c))
    BY <1>1, HeldStays
  <1>3. /\ Fits(inbox, Held, c)'
        /\ WillHave(c)' <=> WillHave(c)
        /\ WillLack(c)' <=> WillLack(c)
    <2>1. CASE inbox' = inbox
      BY <1>2, <2>1, SameKnown DEF Settled
    <2>2. CASE inbox' # inbox
      <3>1. PICK e \in Events : e.chat # c /\ inbox' = Append(inbox, e)
        BY <2>2 DEF OnlyTask
      <3>2. inbox \in Seq(Events) /\ Fits(inbox, Held, c)
        BY DEF TypeOK, Events, Settled
      <3> QED BY <1>2, <3>1, <3>2, OtherKnown
    <2> QED BY <2>1, <2>2
  <1>4. Agree(c)' <=> Agree(c)
    BY <1>1, <1>3 DEF Agree
  <1>5. Told(refresh, Held, c)'
    BY <1>2, ToldStays, ToldPrimes DEF Settled, OnlyTask
  <1>6. AddersAlone(c)' /\ (Tell(c)' <=> Tell(c))
    BY <1>1 DEF Settled, AddersAlone, Tell, Adding, Removing, Telling, Tells
  <1>7. \A g \in Tasks : chat'[g] = c => AtStage(g, c)'
    BY <1>1, <1>3 DEF Settled, AtStage, Tells
  <1> QED BY <1>2, <1>3, <1>4, <1>5, <1>6, <1>7 DEF Settled

\* The other tasks of the chat of h stay where they were, and right.
LEMMA OthersAtStage ==
  ASSUME NEW c, NEW h \in Tasks, chat[h] = c, OnlyTask(h), AddersAlone(c),
         \A g \in Tasks : chat[g] = c => AtStage(g, c),
         \/ row'[c] = row[c] /\ (WillLack(c) => WillLack(c)')
         \/ Adding(h)
         \/ Removing(h) /\ row'[c] # "enabled"
  PROVE  \A g \in Tasks : chat[g] = c /\ g # h => AtStage(g, c)'
  <1> SUFFICES ASSUME NEW g \in Tasks, chat[g] = c, g # h PROVE AtStage(g, c)'
    OBVIOUS
  <1>1. step'[g] = step[g] /\ kind'[g] = kind[g] /\ AtStage(g, c)
    BY DEF OnlyTask
  <1>2. CASE row'[c] = row[c] /\ (WillLack(c) => WillLack(c)')
    BY <1>1, <1>2 DEF AtStage, Tells
  <1>3. CASE Adding(h)
    <2>1. ~Adding(g) /\ ~Removing(g)
      BY <1>3 DEF AddersAlone
    <2> QED BY <1>1, <2>1 DEF AtStage, Tells, Adding, Removing
  <1>4. CASE Removing(h) /\ row'[c] # "enabled"
    <2>1. ~Adding(g)
      BY <1>4 DEF AddersAlone
    <2> QED BY <1>1, <1>4, <2>1 DEF AtStage, Tells, Adding
  <1> QED BY <1>2, <1>3, <1>4

LEMMA AddersGoOn ==
  ASSUME NEW c, NEW h \in Tasks, chat[h] = c, OnlyTask(h), AddersAlone(c),
         Adding(h)' => Adding(h), Removing(h)' => Removing(h)
  PROVE  AddersAlone(c)'
  <1>1. /\ chat' = chat
        /\ \A g \in Tasks : (Adding(g)' => Adding(g)) /\ (Removing(g)' => Removing(g))
    BY DEF OnlyTask, Adding, Removing, Tells
  <1> QED BY <1>1 DEF AddersAlone

LEMMA AddersEnter ==
  ASSUME NEW c, NEW h \in Tasks, chat[h] = c, OnlyTask(h), AddersAlone(c),
         step[h] \in {"unused", "check"}, step'[h] \in {"check", "disable", "ensure", "done"},
         ~Meets(c, step'[h])
  PROVE  AddersAlone(c)'
  <1>1. /\ chat' = chat
        /\ \A g \in Tasks : g # h => (Adding(g)' <=> Adding(g)) /\ (Removing(g)' <=> Removing(g))
    BY DEF OnlyTask, Adding, Removing, Tells
  <1>2. CASE step'[h] = "ensure"
    <2>1. \A g \in Tasks : chat[g] = c => ~Adding(g) /\ ~Removing(g)
      BY <1>2 DEF Meets
    <2> QED BY <1>1, <2>1 DEF AddersAlone
  <1>3. CASE step'[h] = "disable"
    <2>1. \A g \in Tasks : chat[g] = c => ~Adding(g)
      BY <1>3 DEF Meets
    <2>2. ~Adding(h)'
      BY <1>3 DEF Adding
    <2> QED BY <1>1, <2>1, <2>2 DEF AddersAlone
  <1>4. CASE step'[h] \in {"check", "done"}
    <2>1. ~Adding(h)' /\ ~Removing(h)'
      BY <1>4 DEF Adding, Removing
    <2> QED BY <1>1, <2>1 DEF AddersAlone
  <1> QED BY <1>2, <1>3, <1>4

\* What is left to show of a step of h: that h is right at its new step, and that it
\* tells, or has told.
LEMMA OwnSettled ==
  ASSUME TypeOK, NEW c \in Chats, Settled(c), NEW h \in Tasks, chat[h] = c, OnlyTask(h),
         AddersAlone(c)', AtStage(h, c)', Fits(inbox, Held, c)',
         \/ row'[c] = row[c] /\ (WillLack(c) => WillLack(c)')
         \/ Adding(h)
         \/ Removing(h) /\ row'[c] # "enabled",
         Telling(h)' \/ (~Telling(h) /\ Agree(c)' = Agree(c)) \/ Agree(c)'
  PROVE  Settled(c)'
  <1>1. UNCHANGED <<chat, list, lost>>
    BY DEF OnlyTask
  <1>2. Held' = Held /\ (Alone(list, c)' <=> Alone(list, c))
    BY <1>1, HeldStays
  <1>3. Told(refresh, Held, c)'
    BY <1>2, ToldStays, ToldPrimes DEF Settled, OnlyTask
  <1>4. \A g \in Tasks : chat'[g] = c => AtStage(g, c)'
    BY <1>1, OthersAtStage DEF Settled
  <1>5. Tell(c)' \/ Agree(c)'
    <2>1. CASE Telling(h)'
      BY <1>1, <2>1 DEF Tell
    <2>2. CASE ~Telling(h) /\ Agree(c)' = Agree(c)
      <3>1. Tell(c) => Tell(c)'
        BY <1>1, <2>2 DEF Tell, OnlyTask, Telling, Tells
      <3> QED BY <2>2, <3>1 DEF Settled
    <2> QED BY <2>1, <2>2
  <1> QED BY <1>2, <1>3, <1>4, <1>5 DEF Settled

\* A step that neither changes the row nor emits an event.
LEMMA OwnLook ==
  ASSUME TypeOK, NEW c \in Chats, Settled(c), NEW h \in Tasks, chat[h] = c, OnlyTask(h),
         row' = row, inbox' = inbox, AddersAlone(c)',
         WillLack(c)' = WillLack(c) => AtStage(h, c)',
         Telling(h) => Telling(h)'
  PROVE  Settled(c)'
  <1>1. UNCHANGED <<chat, list, lost>>
    BY DEF OnlyTask
  <1>2. Held' = Held
    BY <1>1, HeldStays
  <1>3. /\ Fits(inbox, Held, c)'
        /\ WillHave(c)' <=> WillHave(c)
        /\ WillLack(c)' <=> WillLack(c)
    BY <1>2, SameKnown DEF Settled
  <1>4. WillLack(c)' = WillLack(c) /\ Agree(c)' = Agree(c)
    BY <1>3 DEF Agree, WillHave, WillLack, Knows
  <1> QED BY <1>3, <1>4, OwnSettled

LEMMA OwnStep ==
  ASSUME TypeOK, NEW c \in Chats, Settled(c), c \notin loose', NEW h \in Tasks, chat[h] = c,
         StartTask(h) \/ Step(h) \/ TellingFails(h)
  PROVE  Settled(c)'
  <1> USE DEF Goto, tabVars, taskVars, history, Undisturbed, EndUntold, Enter
  <1>1. OnlyTask(h)
    BY TaskSteps
  <1>2. /\ AddersAlone(c) /\ AtStage(h, c) /\ Fits(inbox, Held, c)
        /\ inbox \in Seq(Events) /\ Held' = Held
        /\ step \in [Tasks -> Steps] /\ kind \in [Tasks -> Kinds \cup {"none"}]
        /\ row \in [Chats -> {"none", "enabled", "disabled"}]
        /\ row[c] \in {"none", "enabled", "disabled"}
    BY <1>1, HeldStays DEF Settled, TypeOK, Events, OnlyTask
  <1>3. CASE StartTask(h)
    <2>1. PICK k \in Kinds, s \in StartSteps :
            /\ step' = [step EXCEPT ![h] = s] /\ kind' = [kind EXCEPT ![h] = k]
            /\ loose' = IF Meets(chat[h], s) THEN loose \cup {chat[h]} ELSE loose
            /\ s = "ensure" => k = "openPrivate" \/ row[chat[h]] = "none"
      BY <1>3, StartFacts
    <2>2. step[h] = "unused" /\ row' = row /\ inbox' = inbox
      BY <1>3, StartFacts
    <2>3. step'[h] = s /\ kind'[h] = k /\ ~Meets(c, s)
      BY <1>2, <2>1
    <2>4. AddersAlone(c)'
      BY <1>1, <1>2, <2>2, <2>3, AddersEnter DEF StartSteps
    <2>5. AtStage(h, c)' /\ ~Telling(h)
      BY <2>1, <2>2, <2>3 DEF AtStage, StartSteps, Telling
    <2> QED BY <1>1, <2>2, <2>4, <2>5, OwnLook
  <1>4. CASE Check(h)
    <2>1. PICK s \in {"done", "ensure", "disable"} :
            /\ step' = [step EXCEPT ![h] = s]
            /\ loose' = IF Meets(chat[h], s) THEN loose \cup {chat[h]} ELSE loose
            /\ s = "ensure" => row[c] # "enabled"
      BY <1>4 DEF Check
    <2>2. step[h] = "check" /\ row' = row /\ inbox' = inbox
      BY <1>4 DEF Check
    <2>3. step'[h] = s /\ ~Meets(c, s)
      BY <1>2, <2>1
    <2>4. AddersAlone(c)'
      BY <1>1, <1>2, <2>2, <2>3, AddersEnter
    <2>5. AtStage(h, c)' /\ ~Telling(h)
      BY <2>1, <2>2, <2>3 DEF AtStage, Telling
    <2> QED BY <1>1, <2>2, <2>4, <2>5, OwnLook
  <1>5. CASE Ensure(h)
    <2>1. PICK s \in {"lookup", "update", "insert"} :
            /\ step' = [step EXCEPT ![h] = s]
            /\ s = "lookup" => row[c] = "enabled"
            /\ s = "update" => row[c] = "disabled"
            /\ s = "insert" => row[c] = "none"
      BY <1>2, <1>5 DEF Ensure
    <2>2. step[h] = "ensure" /\ row' = row /\ inbox' = inbox /\ kind' = kind
      BY <1>5 DEF Ensure
    <2>3. step'[h] = s
      BY <1>2, <2>1
    <2>4. AddersAlone(c)'
      <3>1. Adding(h) /\ ~Removing(h)'
        BY <2>2, <2>3 DEF Adding, Removing
      <3> QED BY <1>1, <1>2, <3>1, AddersGoOn
    <2>5. AtStage(h, c)' /\ ~Telling(h)
      BY <1>2, <2>1, <2>2, <2>3 DEF AtStage, Telling, Tells
    <2> QED BY <1>1, <2>2, <2>4, <2>5, OwnLook
  <1>6. ASSUME step[h] \in {"update", "insert"}, row[c] # "enabled", Enable(h),
               UNCHANGED <<kind, inbox>>
        PROVE  Settled(c)'
    <2>1. Tells(h)
      BY <1>6 DEF Enable
    <2>2. step'[h] = "lookup" /\ row'[c] = "enabled" /\ kind' = kind
      BY <1>2, <1>6 DEF Enable
    <2>3. Adding(h) /\ ~Removing(h)' /\ Telling(h)'
      BY <1>6, <2>1, <2>2 DEF Adding, Removing, Telling, Tells
    <2>4. AddersAlone(c)'
      BY <1>1, <1>2, <2>3, AddersGoOn
    <2>5. WillLack(c)
      <3>1. ~Tell(c)
        <4>1. ASSUME NEW g \in Tasks, chat[g] = c, Telling(g) PROVE FALSE
          <5>1. Adding(g) \/ Removing(g)
            BY <4>1 DEF Telling, Adding, Removing
          <5>2. g = h
            BY <1>2, <2>3, <4>1, <5>1 DEF AddersAlone
          <5> QED BY <1>6, <4>1, <5>2 DEF Telling
        <4> QED BY <4>1 DEF Tell
      <3> QED BY <1>6, <3>1 DEF Settled, Agree
    <2>6. Fits(inbox, Held, c)' /\ WillLack(c)'
      BY <1>2, <1>6, <2>5, SameKnown
    <2>7. AtStage(h, c)'
      BY <2>2, <2>6 DEF AtStage
    <2> QED BY <1>1, <2>3, <2>4, <2>6, <2>7, OwnSettled
  <1>7. CASE EnableRow(h)
    BY <1>2, <1>6, <1>7 DEF EnableRow, AtStage
  <1>8. CASE InsertRow(h)
    BY <1>2, <1>6, <1>8 DEF InsertRow, AtStage
  <1>9. CASE LookUp(h)
    <2>1. Tells(h) => row[c] = "enabled"
      BY <1>2, <1>9 DEF LookUp, AtStage
    <2>2. PICK s \in {"announce", "done", "failed"} :
            /\ step' = [step EXCEPT ![h] = s]
            /\ s = "announce" <=> Tells(h)
      BY <1>9, <2>1 DEF LookUp
    <2>3. step[h] = "lookup" /\ row' = row /\ inbox' = inbox /\ kind' = kind
      BY <1>9 DEF LookUp
    <2>4. step'[h] = s
      BY <1>2, <2>2
    <2>5. AddersAlone(c)'
      <3>1. (Adding(h)' => Adding(h)) /\ ~Removing(h)'
        BY <2>2, <2>3, <2>4 DEF Adding, Removing, Tells
      <3> QED BY <1>1, <1>2, <3>1, AddersGoOn
    <2>6. WillLack(c)' = WillLack(c) => AtStage(h, c)'
      BY <1>2, <2>2, <2>3, <2>4 DEF AtStage, Tells
    <2>7. Telling(h) => Telling(h)'
      BY <2>2, <2>3, <2>4 DEF Telling, Tells
    <2> QED BY <1>1, <2>3, <2>5, <2>6, <2>7, OwnLook
  <1>10. CASE TellingFails(h)
    BY <1>10 DEF TellingFails
  <1>11. CASE AnnounceAdded(h)
    <2> DEFINE e == [event |-> "added", chat |-> c]
    <2>1. Tells(h) /\ row[c] = "enabled" /\ WillLack(c) /\ Adding(h)
      BY <1>2, <1>11 DEF AnnounceAdded, AtStage, Adding
    <2>2. e \in Events /\ e.chat = c /\ e.event = "added"
      BY DEF Events
    <2>3. inbox' = Append(inbox, e) /\ step'[h] = "done" /\ row' = row
      BY <1>2, <1>11 DEF AnnounceAdded
    <2> HIDE DEF e
    <2>4. Fits(inbox, Held, c)' /\ WillHave(c)'
      BY <1>2, <2>1, <2>2, <2>3, OwnKnown
    <2>5. Agree(c)' /\ AtStage(h, c)'
      BY <2>1, <2>3, <2>4 DEF Agree, AtStage
    <2>6. AddersAlone(c)'
      <3>1. ~Adding(h)' /\ ~Removing(h)'
        BY <2>3 DEF Adding, Removing
      <3> QED BY <1>1, <1>2, <3>1, AddersGoOn
    <2> QED BY <1>1, <2>1, <2>4, <2>5, <2>6, OwnSettled
  <1>12. CASE DisableRow(h)
    <2>1. step[h] = "disable" /\ step'[h] = "announceRemoved" /\ inbox' = inbox
      BY <1>2, <1>12 DEF DisableRow
    <2>2. row'[c] # "enabled"
      BY <1>2, <1>12 DEF DisableRow
    <2>3. Removing(h) /\ Telling(h)' /\ ~Adding(h)' /\ AtStage(h, c)'
      BY <2>1, <2>2 DEF Removing, Telling, Adding, AtStage
    <2>4. AddersAlone(c)'
      BY <1>1, <1>2, <2>3, AddersGoOn
    <2>5. Fits(inbox, Held, c)'
      BY <1>2, <2>1, SameKnown
    <2> QED BY <1>1, <2>2, <2>3, <2>4, <2>5, OwnSettled
  <1>13. CASE AnnounceRemoved(h)
    <2> DEFINE e == [event |-> "removed", chat |-> c]
    <2>1. row[c] # "enabled" /\ row' = row
      BY <1>2, <1>13 DEF AnnounceRemoved, AtStage
    <2>2. e \in Events /\ e.chat = c /\ e.event = "removed"
      BY DEF Events
    <2>3. inbox' = Append(inbox, e) /\ step'[h] = "done"
      BY <1>2, <1>13 DEF AnnounceRemoved
    <2> HIDE DEF e
    <2>4. Fits(inbox, Held, c)' /\ WillLack(c)'
      BY <1>2, <2>2, <2>3, OwnKnown
    <2>5. Agree(c)' /\ AtStage(h, c)'
      BY <2>1, <2>3, <2>4 DEF Agree, AtStage
    <2>6. AddersAlone(c)'
      <3>1. ~Adding(h)' /\ ~Removing(h)'
        BY <2>3 DEF Adding, Removing
      <3> QED BY <1>1, <1>2, <3>1, AddersGoOn
    <2> QED BY <1>1, <2>1, <2>4, <2>5, <2>6, OwnSettled
  <1> QED BY <1>3, <1>4, <1>5, <1>7, <1>8, <1>9, <1>10, <1>11, <1>12, <1>13 DEF Step

-----------------------------------------------------------------------------
\* The steps of the tab.

LEMMA HandleKeeps ==
  ASSUME TypeOK, IInv, HandleEvent
  PROVE  IInv'
  <1> DEFINE e == Head(inbox)
  <1>1. /\ inbox \in Seq(Events) /\ inbox # <<>> /\ e \in Events
        /\ inbox' = Tail(inbox) /\ list' = Handled(list, e) /\ lost' = lost \ {e.chat}
        /\ SameLoads(refresh, refresh', e.chat)
        /\ \A i \in DOMAIN refresh' : e.chat \in refresh'[i].crossed
        /\ UNCHANGED <<row, step, kind, chat, loose>>
        /\ list \in Seq(Chats)
    BY HandleStep DEF TypeOK
  <1>2. /\ Len(inbox) \in Nat /\ Len(inbox) >= 1 /\ DOMAIN inbox = 1 .. Len(inbox)
        /\ inbox[1] = e
        /\ DOMAIN Tail(inbox) = 1 .. Len(inbox) - 1
        /\ \A i \in 1 .. Len(inbox) - 1 : Tail(inbox)[i] = inbox[i + 1]
    <2>1. inbox \in Seq(Events) /\ inbox # <<>>
      BY <1>1
    <2>2. /\ Tail(inbox) \in Seq(Events) /\ Len(Tail(inbox)) = Len(inbox) - 1
          /\ Head(inbox) = inbox[1] /\ \A i \in 1 .. Len(inbox) - 1 : Tail(inbox)[i] = inbox[i + 1]
      BY <2>1, HeadTailProperties
    <2>3. Len(inbox) \in Nat /\ Len(inbox) # 0 /\ DOMAIN inbox = 1 .. Len(inbox)
      BY <2>1, LenProperties, EmptySeq
    <2> QED BY <2>2, <2>3, LenProperties
  <1> HIDE DEF e
  <1>3. QuietAnswers'
    BY <1>1 DEF IInv, QuietAnswers, Quiet, SameLoads
  <1>4. ASSUME NEW c \in Chats PROVE Due(c)'
    <2>1. (c \in lost => Absent(list, c))'
      <3>1. c \in lost' => Absent(list', c)
        BY <1>1, HandledPlaces DEF IInv, Due
      <3> QED BY <3>1 DEF Absent, Places
    <2>2. CASE e.chat = c
      <3>1. Told(refresh', Enabled', c)
        BY <1>1, <2>2, ToldCrossed
      <3> QED BY <2>1, <3>1, ToldPrimes DEF Due
    <2>3. CASE e.chat # c
      <3>1. Untold(c) => Untold(c)'
        <4>1. ASSUME NEW i \in DOMAIN inbox, inbox[i].chat = c PROVE Untold(c)'
          <5>1. i # 1
            BY <1>2, <2>3, <4>1
          <5>2. i - 1 \in 1 .. Len(inbox) - 1 /\ (i - 1) + 1 = i
            BY <1>2, <4>1, <5>1
          <5>3. i - 1 \in DOMAIN inbox' /\ inbox'[i - 1].chat = c
            BY <1>1, <1>2, <4>1, <5>2
          <5> QED BY <5>3 DEF Untold
        <4>2. (\E h \in Tasks : chat[h] = c /\ Telling(h)) => Untold(c)'
          BY <1>1 DEF Untold, Telling, Tells
        <4> QED BY <4>1, <4>2 DEF Untold
      <3>2. Told(refresh, Enabled, c) => Told(refresh, Enabled, c)'
        <4>1. Enabled' = Enabled
          BY <1>1 DEF Enabled
        <4> QED BY <1>1, <4>1, ToldStays, ToldPrimes
      <3> QED BY <2>1, <3>1, <3>2 DEF IInv, Due
    <2> QED BY <2>2, <2>3
  <1>5. ASSUME NEW c \in Chats, Settled(c) PROVE Settled(c)'
    <2>1. Fits(inbox, Held, c) /\ Alone(list, c)
      BY <1>5 DEF Settled
    <2>2. e.chat = c /\ e.event = "added" => Absent(list, c)
      <3>1. ASSUME e.chat = c, e.event = "added" PROVE Absent(list, c)
        <4>1. 1 \in DOMAIN inbox /\ 1 - 1 = 0
          BY <1>2
        <4>2. Knows(inbox, Held, 0, c, "removed")
          BY <1>2, <2>1, <3>1, <4>1 DEF Fits
        <4>3. c \notin Held
          BY <4>2 DEF Knows
        <4> QED BY <4>3 DEF Held, HeldOf
      <3> QED BY <3>1
    <2>3. /\ Alone(Handled(list, e), c)
          /\ e.chat = c => (c \in HeldOf(Handled(list, e), lost \ {e.chat}) <=> e.event = "added")
          /\ e.chat # c => (c \in HeldOf(Handled(list, e), lost \ {e.chat}) <=> c \in HeldOf(list, lost))
      BY <1>1, <2>1, <2>2, HandledHeld
    <2>4. /\ Alone(list', c)
          /\ e.chat = c => (c \in Held' <=> e.event = "added")
          /\ e.chat # c => (c \in Held' <=> c \in Held)
      <3>1. Held' = HeldOf(list', lost')
        BY DEF Held, HeldOf, Absent, Places
      <3> QED BY <1>1, <2>3, <3>1 DEF Held
    <2>5. Alone(list, c)'
      BY <2>4 DEF Alone, Once, Absent, Places
    <2>6. /\ Fits(Tail(inbox), Held', c)
          /\ \A x \in {"added", "removed"} :
                Knows(inbox, Held, Len(inbox), c, x) => Knows(Tail(inbox), Held', Len(Tail(inbox)), c, x)
      <3>1. inbox \in Seq(Events) /\ inbox # <<>> /\ Fits(inbox, Held, c)
        BY <1>1, <2>1
      <3>2. /\ Head(inbox).chat = c => (c \in Held' <=> Head(inbox).event = "added")
            /\ Head(inbox).chat # c => (c \in Held' <=> c \in Held)
        BY <2>4 DEF e
      <3> QED BY <3>1, <3>2, HandleKnows
    <2>7. Fits(inbox, Held, c)' /\ (WillHave(c) => WillHave(c)') /\ (WillLack(c) => WillLack(c)')
      <3>1. /\ Fits(inbox', Held', c)
            /\ WillHave(c) => Knows(inbox', Held', Len(inbox'), c, "added")
            /\ WillLack(c) => Knows(inbox', Held', Len(inbox'), c, "removed")
        BY <1>1, <2>6 DEF WillHave, WillLack
      <3>2. /\ WillHave(c)' <=> Knows(inbox', Held', Len(inbox'), c, "added")
            /\ WillLack(c)' <=> Knows(inbox', Held', Len(inbox'), c, "removed")
            /\ Fits(inbox, Held, c)' <=> Fits(inbox', Held', c)
        BY DEF WillHave, WillLack, Fits, Knows
      <3> QED BY <3>1, <3>2
    <2>8. Agree(c) => Agree(c)'
      BY <1>1, <2>7 DEF Agree
    <2>9. Told(refresh, Held, c)'
      <3>1. CASE e.chat = c
        BY <1>1, <3>1, ToldCrossed, ToldPrimes
      <3>2. CASE e.chat # c
        BY <1>1, <1>5, <2>4, <3>2, ToldStays, ToldPrimes DEF Settled
      <3> QED BY <3>1, <3>2
    <2>10. AddersAlone(c)' /\ (Tell(c)' <=> Tell(c)) /\ \A h \in Tasks : AtStage(h, c) => AtStage(h, c)'
      <3>1. UNCHANGED <<step, kind, chat>> /\ row'[c] = row[c]
        BY <1>1
      <3>2. WillLack(c) => WillLack(c)'
        BY <2>7
      <3>3. AddersAlone(c)
        BY <1>5 DEF Settled
      <3> QED BY <3>1, <3>2, <3>3, TasksStay
    <2> QED BY <1>1, <1>5, <2>5, <2>7, <2>8, <2>9, <2>10 DEF Settled
  <1> QED BY <1>1, <1>3, <1>4, <1>5 DEF IInv

\* A getChats reads the rows.
LEMMA StartKeeps ==
  ASSUME TypeOK, IInv, StartRefresh
  PROVE  IInv'
  <1> DEFINE a == [rows |-> Enabled, crossed |-> {c \in Chats : Untold(c)}, quiet |-> Quiet]
  <1>1. UNCHANGED <<row, step, kind, chat, inbox, list, lost, loose>>
    BY DEF StartRefresh, taskVars
  <1>2. refresh' = Append(refresh, a) /\ refresh \in Seq(Loads) /\ a \in Loads
    <2>1. Enabled \in SUBSET Chats /\ {c \in Chats : Untold(c)} \in SUBSET Chats /\ Quiet \in BOOLEAN
      BY DEF Enabled, Quiet
    <2>2. a \in Loads
      BY <2>1 DEF Loads
    <2> QED BY <2>2, LoadTypes DEF StartRefresh
  <1>3. a.rows = Enabled /\ a.crossed = {c \in Chats : Untold(c)} /\ (a.quiet => Quiet)
    OBVIOUS
  <1> HIDE DEF a
  <1>4. /\ DOMAIN refresh' = DOMAIN refresh \cup {Len(refresh) + 1}
        /\ \A i \in DOMAIN refresh : refresh'[i] = refresh[i]
        /\ refresh'[Len(refresh) + 1] = a
    <2>1. /\ DOMAIN refresh = 1 .. Len(refresh) /\ Len(refresh) \in Nat
          /\ DOMAIN refresh' = 1 .. Len(refresh) + 1
          /\ \A i \in 1 .. Len(refresh) : refresh'[i] = refresh[i]
          /\ refresh'[Len(refresh) + 1] = a
      BY <1>2, LenProperties, AppendProperties
    <2>2. 1 .. Len(refresh) + 1 = (1 .. Len(refresh)) \cup {Len(refresh) + 1}
      BY <2>1
    <2> QED BY <2>1, <2>2
  <1>5. ASSUME NEW c, NEW held, Told(refresh, held, c), c \in a.crossed \/ (c \in a.rows <=> c \in held)
        PROVE  Told(refresh', held, c)
    BY <1>4, <1>5 DEF Told
  <1>6. Enabled' = Enabled /\ (Quiet' <=> Quiet)
    BY <1>1 DEF Enabled, Quiet, Running
  <1>7. QuietAnswers'
    <2>1. \A i \in DOMAIN refresh' : refresh'[i].quiet => Quiet /\ refresh'[i].rows = Enabled
      BY <1>3, <1>4 DEF IInv, QuietAnswers
    <2> QED BY <1>6, <2>1 DEF QuietAnswers
  <1>8. ASSUME NEW c \in Chats PROVE Due(c)'
    <2>1. (c \in lost => Absent(list, c))'
      BY <1>1, HeldStays DEF IInv, Due
    <2>2. Untold(c)' <=> Untold(c)
      BY <1>1 DEF Untold, Telling, Tells
    <2>3. Told(refresh, Enabled, c) => Told(refresh, Enabled, c)'
      BY <1>3, <1>5, <1>6, ToldPrimes
    <2> QED BY <2>1, <2>2, <2>3 DEF IInv, Due
  <1>9. ASSUME NEW c \in Chats, Settled(c) PROVE Settled(c)'
    <2>1. Held' = Held /\ (Alone(list, c)' <=> Alone(list, c))
      BY <1>1, HeldStays
    <2>2. /\ Fits(inbox, Held, c)' <=> Fits(inbox, Held, c)
          /\ WillHave(c)' <=> WillHave(c)
          /\ WillLack(c)' <=> WillLack(c)
      BY <1>1, <2>1, SameKnown
    <2>3. c \in a.crossed \/ (c \in a.rows <=> c \in Held)
      <3> SUFFICES ASSUME ~Untold(c) PROVE c \in Enabled <=> c \in Held
        BY <1>3
      <3>1. Agree(c)
        BY <1>9 DEF Settled, Tell, Untold
      <3>2. \A i \in 1 .. Len(inbox) : inbox[i].chat # c
        BY LenProperties DEF Untold, TypeOK
      <3>3. \A x : Knows(inbox, Held, Len(inbox), c, x) => (c \in Held <=> x = "added")
        BY <3>2 DEF Knows
      <3>4. (WillHave(c) => c \in Held) /\ (WillLack(c) => c \notin Held)
        BY <3>3 DEF WillHave, WillLack
      <3> QED BY <3>1, <3>4 DEF Agree, Enabled
    <2>4. Told(refresh, Held, c)'
      BY <1>5, <1>9, <2>1, <2>3, ToldPrimes DEF Settled
    <2>5. AddersAlone(c)' /\ (Tell(c)' <=> Tell(c)) /\ \A h \in Tasks : AtStage(h, c) => AtStage(h, c)'
      BY <1>1, <1>9, <2>2, TasksStay DEF Settled
    <2>6. Agree(c)' <=> Agree(c)
      BY <1>1, <2>2 DEF Agree
    <2> QED BY <1>1, <1>9, <2>1, <2>2, <2>4, <2>5, <2>6 DEF Settled
  <1> QED BY <1>1, <1>7, <1>8, <1>9 DEF IInv

\* Fewer answers are under way.
Fewer(old, new) == \A j \in DOMAIN new : \E i \in DOMAIN old : new[j] = old[i]

LEMMA FewerTold ==
  ASSUME NEW old, NEW new, Fewer(old, new), NEW c, NEW held, NEW later,
         c \in held <=> c \in later, Told(old, held, c)
  PROVE  Told(new, later, c)
  BY DEF Fewer, Told

\* The list is kept, or replaced by an answer; what the tab holds of c is as before.
LEMMA ReloadSettled ==
  ASSUME NEW c \in Chats, Settled(c), UNCHANGED <<row, step, kind, chat, inbox>>,
         Fewer(refresh, refresh'), c \in Held' <=> c \in Held, Alone(list, c)'
  PROVE  Settled(c)'
  <1>1. /\ Fits(inbox, Held, c)' <=> Fits(inbox, Held, c)
        /\ WillHave(c)' <=> WillHave(c)
        /\ WillLack(c)' <=> WillLack(c)
    BY SameKnown
  <1>2. Told(refresh, Held, c)'
    BY FewerTold, ToldPrimes DEF Settled
  <1>3. AddersAlone(c)' /\ (Tell(c)' <=> Tell(c)) /\ \A h \in Tasks : AtStage(h, c) => AtStage(h, c)'
    BY <1>1, TasksStay DEF Settled
  <1>4. Agree(c)' <=> Agree(c)
    BY <1>1 DEF Agree
  <1> QED BY <1>1, <1>2, <1>3, <1>4 DEF Settled

LEMMA ReloadDue ==
  ASSUME UNCHANGED <<row, step, kind, chat, inbox>>, Fewer(refresh, refresh'), IInv
  PROVE  /\ QuietAnswers'
         /\ \A c \in Chats : Told(refresh, Enabled, c)' \/ Untold(c)'
  <1>1. Enabled' = Enabled /\ (Quiet' <=> Quiet)
    BY DEF Enabled, Quiet, Running
  <1>2. QuietAnswers'
    BY <1>1 DEF IInv, QuietAnswers, Fewer
  <1>3. ASSUME NEW c \in Chats PROVE Told(refresh, Enabled, c)' \/ Untold(c)'
    <2>1. Untold(c)' <=> Untold(c)
      BY DEF Untold, Telling, Tells
    <2>2. Told(refresh, Enabled, c) => Told(refresh, Enabled, c)'
      BY <1>1, FewerTold, ToldPrimes
    <2> QED BY <2>1, <2>2 DEF IInv, Due
  <1> QED BY <1>2, <1>3

LEMMA FailKeeps ==
  ASSUME TypeOK, IInv, RefreshFails
  PROVE  IInv'
  <1>1. UNCHANGED <<row, step, kind, chat, inbox, list, lost, loose>>
    BY DEF RefreshFails, taskVars, tabVars
  <1>2. Fewer(refresh, refresh')
    <2>1. PICK i \in DOMAIN refresh : refresh' = RemoveAt(refresh, i)
      BY DEF RefreshFails
    <2>2. refresh \in Seq(Loads)
      BY LoadTypes
    <2> QED BY <2>1, <2>2, RemoveAtFacts DEF Fewer
  <1>3. ASSUME NEW c \in Chats PROVE Due(c)' /\ (Settled(c) => Settled(c)')
    <2>1. /\ Held' = Held /\ (Alone(list, c)' <=> Alone(list, c))
          /\ (c \in lost => Absent(list, c))'
      BY <1>1, HeldStays DEF IInv, Due
    <2>2. Settled(c) => Settled(c)'
      <3>1. Settled(c) => Alone(list, c)'
        BY <2>1 DEF Settled
      <3> QED BY <1>1, <1>2, <2>1, <3>1, ReloadSettled
    <2> QED BY <1>1, <1>2, <2>1, <2>2, ReloadDue DEF Due
  <1> QED BY <1>1, <1>2, <1>3, ReloadDue DEF IInv

\* In a quiet moment an answer that was read in it settles every chat.
LEMMA QuietSettled ==
  ASSUME NEW c \in Chats, Quiet, Told(refresh, Enabled, c)', Alone(list, c)',
         UNCHANGED <<row, step, kind, chat, inbox>>, c \in Held' <=> c \in Enabled
  PROVE  Settled(c)'
  <1>1. inbox' = <<>> /\ \A h \in Tasks : step'[h] \in {"unused", "done", "failed", "cut"}
    BY DEF Quiet, Running
  <1>2. AddersAlone(c)' /\ \A h \in Tasks : AtStage(h, c)'
    BY <1>1 DEF AddersAlone, Adding, Removing, AtStage
  <1>3. Fits(inbox, Held, c)'
    BY <1>1 DEF Fits
  <1>4. Agree(c)'
    <2>1. \A x : (c \in Held' <=> x = "added") => Knows(<<>>, Held', 0, c, x)
      BY DEF Knows
    <2>2. /\ WillHave(c)' <=> Knows(<<>>, Held', 0, c, "added")
          /\ WillLack(c)' <=> Knows(<<>>, Held', 0, c, "removed")
      BY <1>1 DEF WillHave, WillLack, Knows
    <2>3. "added" # "removed"
      OBVIOUS
    <2> QED BY <2>1, <2>2, <2>3 DEF Agree, Enabled
  <1>5. Told(refresh, Held, c)'
    <2>1. Enabled' = Enabled
      BY DEF Enabled
    <2> QED BY <2>1, ToldPrimes DEF Told
  <1> QED BY <1>2, <1>3, <1>4, <1>5 DEF Settled

LEMMA FinishKeeps ==
  ASSUME TypeOK, IInv, FinishRefresh
  PROVE  IInv'
  <1>1. PICK i \in DOMAIN refresh : \E unshaped \in SUBSET refresh[i].rows :
          /\ list' = SetToSeq(refresh[i].rows \ unshaped)
          /\ lost' = unshaped
          /\ loose' = IF refresh[i].quiet THEN {} ELSE loose \cup refresh[i].crossed
          /\ refresh' = RemoveAt(refresh, i)
    BY DEF FinishRefresh
  <1>2. PICK rows \in SUBSET Chats : rows = refresh[i].rows
    <2>1. refresh[i] \in Loads
      BY LoadTypes
    <2> QED BY <2>1 DEF Loads
  <1>3. UNCHANGED <<row, step, kind, chat, inbox>>
    BY DEF FinishRefresh, taskVars
  <1>4. Fewer(refresh, refresh')
    <2>1. refresh \in Seq(Loads)
      BY LoadTypes
    <2> QED BY <1>1, <2>1, RemoveAtFacts DEF Fewer
  <1>5. ASSUME NEW c \in Chats
        PROVE  /\ (c \in lost => Absent(list, c))'
               /\ Alone(list, c)'
               /\ c \in Held' <=> c \in rows
    <2>1. PICK unshaped \in SUBSET rows : list' = SetToSeq(rows \ unshaped) /\ lost' = unshaped
      BY <1>1, <1>2
    <2>2. rows \ unshaped \in SUBSET Chats
      OBVIOUS
    <2>3. IF c \in rows \ unshaped THEN Once(list', c) ELSE Absent(list', c)
      BY <2>1, <2>2, RowsInOrder
    <2>4. Once(list', c) => ~Absent(list', c)
      BY DEF Once, Absent
    <2>5. /\ Absent(list, c)' <=> Absent(list', c)
          /\ Alone(list, c)' <=> Alone(list', c)
          /\ c \in Held' <=> c \in lost' \/ ~Absent(list', c)
      BY DEF Alone, Once, Held, HeldOf, Absent, Places
    <2> QED BY <2>1, <2>3, <2>4, <2>5 DEF Alone
  <1>6. ASSUME NEW c \in Chats PROVE Due(c)'
    BY <1>3, <1>4, <1>5, ReloadDue DEF Due
  <1>7. ASSUME NEW c \in Chats, c \notin loose' PROVE Settled(c)'
    <2>1. CASE refresh[i].quiet
      <3>1. Quiet /\ rows = Enabled
        BY <1>2, <2>1 DEF IInv, QuietAnswers
      <3>2. ~Untold(c)'
        BY <1>3, <3>1 DEF Untold, Quiet, Running, Telling
      <3>3. Told(refresh, Enabled, c)'
        BY <1>3, <1>4, <3>2, ReloadDue
      <3> QED BY <1>3, <1>5, <3>1, <3>3, QuietSettled
    <2>2. CASE ~refresh[i].quiet
      <3>1. c \notin loose /\ c \notin refresh[i].crossed
        BY <1>1, <1>7, <2>2
      <3>2. Settled(c) /\ (c \in rows <=> c \in Held)
        BY <1>2, <3>1 DEF IInv, Settled, Told
      <3> QED BY <1>3, <1>4, <1>5, <3>2, ReloadSettled
    <2> QED BY <2>1, <2>2
  <1> QED BY <1>3, <1>4, <1>6, <1>7, ReloadDue DEF IInv

-----------------------------------------------------------------------------
\* The theorem.

LEMMA InitInv == Init => IInv
  <1> SUFFICES ASSUME Init PROVE IInv
    OBVIOUS
  <1>1. /\ inbox = <<>> /\ refresh = <<>> /\ loose = {} /\ lost \in SUBSET Enabled
        /\ list = SetToSeq(Enabled \ lost) /\ \A h \in Tasks : step[h] = "unused"
    BY DEF Init
  <1>2. ASSUME NEW c \in Chats
        PROVE  /\ IF c \in Enabled \ lost THEN Once(list, c) ELSE Absent(list, c)
               /\ Alone(list, c)
               /\ c \in Held <=> c \in Enabled
    <2>1. Enabled \ lost \in SUBSET Chats
      BY DEF Enabled
    <2>2. IF c \in Enabled \ lost THEN Once(list, c) ELSE Absent(list, c)
      BY <1>1, <2>1, RowsInOrder
    <2>3. Once(list, c) => ~Absent(list, c)
      BY DEF Once, Absent
    <2> QED BY <1>1, <2>2, <2>3 DEF Alone, Held, HeldOf
  <1>3. QuietAnswers /\ \A c \in Chats : Due(c)
    <2>1. QuietAnswers /\ \A c \in Chats : Told(refresh, Enabled, c)
      BY <1>1 DEF QuietAnswers, Told
    <2>2. \A c \in Chats : c \in lost => Absent(list, c)
      BY <1>2
    <2> QED BY <2>1, <2>2 DEF Due
  <1>4. ASSUME NEW c \in Chats PROVE Settled(c)
    <2>1. AddersAlone(c) /\ \A h \in Tasks : AtStage(h, c)
      BY <1>1 DEF AddersAlone, Adding, Removing, AtStage
    <2>2. Fits(inbox, Held, c) /\ Told(refresh, Held, c)
      BY <1>1 DEF Fits, Told
    <2>3. Agree(c)
      <3>1. Knows(inbox, Held, Len(inbox), c, IF c \in Held THEN "added" ELSE "removed")
        BY <1>1 DEF Knows
      <3> QED BY <1>2, <3>1 DEF Agree, WillHave, WillLack, Enabled
    <2> QED BY <1>2, <2>1, <2>2, <2>3 DEF Settled
  <1> QED BY <1>3, <1>4 DEF IInv

LEMMA StepInv == TypeOK /\ IInv /\ [Next]_vars => IInv'
  <1> SUFFICES ASSUME TypeOK, IInv, [Next]_vars PROVE IInv'
    OBVIOUS
  <1>1. ASSUME NEW h \in Tasks, StartTask(h) \/ Step(h) \/ TellingFails(h) PROVE IInv'
    <2>1. OnlyTask(h)
      BY <1>1, TaskSteps
    <2>2. QuietAnswers' /\ \A c \in Chats : Due(c)'
      BY <1>1, TaskKeepsQuiet, TaskKeepsDue DEF IInv
    <2>3. ASSUME NEW c \in Chats, c \notin loose' PROVE Settled(c)'
      <3>1. Settled(c)
        BY <2>1, <2>3 DEF OnlyTask, IInv
      <3>2. CASE chat[h] = c
        BY <1>1, <2>3, <3>1, <3>2, OwnStep
      <3>3. CASE chat[h] # c
        BY <2>1, <3>1, <3>3, OtherSettled
      <3> QED BY <3>2, <3>3
    <2> QED BY <2>2, <2>3 DEF IInv
  <1>2. CASE HandleEvent
    BY <1>2, HandleKeeps
  <1>3. CASE StartRefresh
    BY <1>3, StartKeeps
  <1>4. CASE FinishRefresh
    BY <1>4, FinishKeeps
  <1>5. CASE RefreshFails
    BY <1>5, FailKeeps
  <1>6. CASE UNCHANGED vars
    <2>1. UNCHANGED <<row, step, kind, chat, inbox, list, lost, loose, refresh>>
      BY <1>6 DEF vars
    <2>2. Fewer(refresh, refresh')
      BY <2>1 DEF Fewer
    <2>3. ASSUME NEW c \in Chats PROVE Due(c)' /\ (Settled(c) => Settled(c)')
      <3>1. /\ Held' = Held /\ (Alone(list, c)' <=> Alone(list, c))
            /\ (c \in lost => Absent(list, c))'
        BY <2>1, HeldStays DEF IInv, Due
      <3>2. Settled(c) => Alone(list, c)'
        BY <3>1 DEF Settled
      <3> QED BY <2>1, <2>2, <3>1, <3>2, ReloadSettled, ReloadDue DEF Due
    <2> QED BY <2>1, <2>2, <2>3, ReloadDue DEF IInv
  <1> QED BY <1>1, <1>2, <1>3, <1>4, <1>5, <1>6 DEF Next

LEMMA InvTells == TypeOK /\ IInv => ListFollowsTheTable
  <1> SUFFICES ASSUME TypeOK, IInv, Quiet, NEW c \in Chats \ loose
               PROVE  IF c \in Enabled \ lost
                      THEN \E i \in DOMAIN list : Listed(c) = {i} ELSE Listed(c) = {}
    BY DEF ListFollowsTheTable
  <1>1. Settled(c) /\ Due(c) /\ inbox = <<>>
    BY DEF IInv, Quiet
  <1>2. Agree(c)
    BY <1>1 DEF Settled, Tell, Telling, Quiet, Running
  <1>3. \A x : Knows(inbox, Held, Len(inbox), c, x) => (c \in Held <=> x = "added")
    BY <1>1 DEF Knows
  <1>4. c \in Held <=> c \in Enabled
    <2>1. "added" # "removed"
      OBVIOUS
    <2> QED BY <1>2, <1>3, <2>1 DEF Agree, WillHave, WillLack, Enabled
  <1>5. IF c \in Enabled \ lost THEN Once(list, c) ELSE Absent(list, c)
    BY <1>1, <1>4 DEF Held, HeldOf, Settled, Due, Alone
  <1> QED BY <1>5 DEF Once, Absent, Places, Listed

\* The events of the tasks keep the list of the tab exact, however many chats, tasks,
\* events and getChats there are and whichever answers leave a chat out, fail or overtake
\* each other: a chat is wrong only after one of the mishaps that loose records, and until
\* a reload read in a quiet moment (_maybe_command, _ensure_enabled, disable_chat, get_chats).
THEOREM EventsKeepTheList == Spec => []ListFollowsTheTable
  <1>1. TypeOK /\ IInv /\ [Next]_vars => (TypeOK /\ IInv)'
    BY StepTypes, StepInv
  <1> QED BY <1>1, InitTypes, InitInv, InvTells, PTL DEF Spec

=============================================================================
