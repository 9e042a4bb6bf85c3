-------------------------- MODULE MediaCacheProofs --------------------------
(***************************************************************************)
(* Machine-checked proofs about MediaCache, for any requests, keys, sizes, *)
(* budget and caches left behind.  MediaInv is inductive: the holder of a  *)
(* key's lock is the head of its line, a holder that missed has a key      *)
(* without a row, a file that was found has its row while it is there, and *)
(* a sweep lists every row and has counted each once, but for one that it  *)
(* read twice.  At the end: MediaCache implements FileCache.               *)
(***************************************************************************)
EXTENDS MediaCache, SequenceTheorems, FiniteSetTheorems, WellFoundedInduction, TLAPS

\* Deleting the only row of a key leaves the others, in their order.
LEMMA RemoveFirstProperties ==
  ASSUME NEW S, NEW s \in Seq(S), IsInjective(s), NEW e
  PROVE  /\ RemoveFirst(s, e) \in Seq(S)
         /\ IsInjective(RemoveFirst(s, e))
         /\ \A x : Contains(RemoveFirst(s, e), x) <=> Contains(s, x) /\ x # e
  <1> DEFINE t == RemoveFirst(s, e)
  <1>1. CASE ~Contains(s, e)
    BY <1>1 DEF RemoveFirst, Contains
  <1>2. CASE Contains(s, e)
    <2>1. PICK i \in 1 .. Len(s) : s[i] = e /\ t = RemoveAt(s, i)
      <3> DEFINE I == {j \in 1 .. Len(s) : s[j] = e}
      <3>1. PICK i \in 1 .. Len(s) : s[i] = e
        BY <1>2 DEF Contains
      <3>2. I = {i}
        BY <3>1, LenProperties DEF IsInjective
      <3>3. Min(I) = i
        BY <3>2 DEF Min
      <3>4. SelectInSeq(s, LAMBDA v : v = e) = i
        BY <3>2, <3>3 DEF SelectInSeq
      <3> QED BY <3>1, <3>4 DEF RemoveFirst
    <2> DEFINE left == SubSeq(s, 1, i - 1)
               right == SubSeq(s, i + 1, Len(s))
    <2>2. Len(s) \in Nat /\ \A j \in 1 .. Len(s) : s[j] \in S
      BY LenProperties, ElementOfSeq
    <2>3. /\ left \in Seq(S) /\ Len(left) = i - 1
          /\ \A j \in 1 .. i - 1 : left[j] = s[j]
      BY <2>2, SubSeqProperties
    <2>4. /\ right \in Seq(S) /\ Len(right) = Len(s) - i
          /\ \A j \in 1 .. Len(s) - i : right[j] = s[j + i]
      BY <2>2, SubSeqProperties
    <2>5. /\ t \in Seq(S) /\ Len(t) = Len(s) - 1
          /\ \A j \in 1 .. Len(s) - 1 : t[j] = IF j < i THEN s[j] ELSE s[j + 1]
      <3> HIDE DEF left, right
      <3>1. t = left \o right
        BY <2>1 DEF RemoveAt, left, right
      <3>2. /\ left \o right \in Seq(S)
            /\ Len(left \o right) = Len(left) + Len(right)
            /\ \A j \in 1 .. Len(left) + Len(right) :
                 (left \o right)[j] =
                   IF j <= Len(left) THEN left[j] ELSE right[j - Len(left)]
        BY <2>3, <2>4, ConcatProperties
      <3>3. ASSUME NEW j \in 1 .. Len(s) - 1
            PROVE  t[j] = IF j < i THEN s[j] ELSE s[j + 1]
        <4>1. j \in 1 .. Len(left) + Len(right)
          BY <2>2, <2>3, <2>4
        <4>2. t[j] = IF j <= Len(left) THEN left[j] ELSE right[j - Len(left)]
          BY <3>1, <3>2, <4>1
        <4>3. CASE j < i
          BY <4>2, <4>3, <2>2, <2>3
        <4>4. CASE ~(j < i)
          <5>1. j - (i - 1) \in 1 .. Len(s) - i /\ (j - (i - 1)) + i = j + 1
            BY <4>4, <2>2
          <5>2. right[j - (i - 1)] = s[j + 1]
            BY <5>1, <2>4
          <5> QED BY <4>2, <4>4, <5>2, <2>2, <2>3
        <4> QED BY <4>3, <4>4
      <3> QED BY <3>1, <3>2, <3>3, <2>2, <2>3, <2>4
    <2> HIDE DEF t, left, right
    <2> DEFINE up(j) == IF j < i THEN j ELSE j + 1
    <2>6. /\ \A j \in 1 .. Len(s) - 1 : up(j) \in 1 .. Len(s) /\ up(j) # i /\ t[j] = s[up(j)]
          /\ \A j, k \in 1 .. Len(s) - 1 : up(j) = up(k) => j = k
      BY <2>2, <2>5
    <2>7. \A j, k \in 1 .. Len(s) : s[j] = s[k] => j = k
      BY LenProperties DEF IsInjective
    <2>8. DOMAIN t = 1 .. Len(s) - 1
      BY <2>5, LenProperties
    <2>9. IsInjective(t)
      <3> HIDE DEF up
      <3> QED BY <2>6, <2>7, <2>8 DEF IsInjective
    <2>10. ASSUME NEW x PROVE Contains(t, x) <=> Contains(s, x) /\ x # e
      <3>1. Contains(t, x) => Contains(s, x) /\ x # e
        <4> HIDE DEF up
        <4> QED BY <2>1, <2>5, <2>6, <2>7 DEF Contains
      <3>2. ASSUME NEW j \in 1 .. Len(s), s[j] = x, x # e PROVE Contains(t, x)
        <4>1. CASE j < i
          BY <3>2, <4>1, <2>2, <2>5 DEF Contains
        <4>2. CASE j > i
          <5>1. j - 1 \in 1 .. Len(s) - 1 /\ t[j - 1] = s[j]
            BY <4>2, <2>2, <2>5
          <5> QED BY <3>2, <5>1, <2>5 DEF Contains
        <4> QED BY <3>2, <2>1, <2>2, <4>1, <4>2
      <3> QED BY <3>1, <3>2 DEF Contains
    <2> QED BY <2>5, <2>9, <2>10 DEF t
  <1> QED BY <1>1, <1>2

\* Rewriting last_access moves a row to the end; inserting one puts it there.
LEMMA LatestProperties ==
  ASSUME CacheTypeOK, NEW k \in Keys
  PROVE  /\ Latest(k) \in Seq(Keys)
         /\ IsInjective(Latest(k))
         /\ \A x : Contains(Latest(k), x) <=> Contains(rows, x) \/ x = k
  <1> DEFINE s == RemoveFirst(rows, k)
  <1>1. /\ s \in Seq(Keys) /\ IsInjective(s)
        /\ \A x : Contains(s, x) <=> Contains(rows, x) /\ x # k
    BY RemoveFirstProperties DEF CacheTypeOK
  <1> HIDE DEF s
  <1>2. /\ Len(s) \in Nat /\ DOMAIN s = 1 .. Len(s)
        /\ Append(s, k) \in Seq(Keys)
        /\ Len(Append(s, k)) = Len(s) + 1
        /\ \A i \in 1 .. Len(s) : Append(s, k)[i] = s[i]
        /\ Append(s, k)[Len(s) + 1] = k
    BY <1>1, AppendProperties, LenProperties
  <1>3. DOMAIN Append(s, k) = 1 .. Len(s) + 1
    BY <1>2, LenProperties
  <1>4. \A i \in 1 .. Len(s) : s[i] # k
    BY <1>1, <1>2 DEF Contains
  <1>5. IsInjective(Append(s, k))
    BY <1>1, <1>2, <1>3, <1>4 DEF IsInjective
  <1>6. \A x : Contains(Append(s, k), x) <=> Contains(s, x) \/ x = k
    BY <1>2 DEF Contains
  <1>7. Latest(k) = Append(s, k)
    BY DEF Latest, Without, s
  <1> QED BY <1>1, <1>2, <1>5, <1>6, <1>7

\* Joining a line puts a newcomer at its end and leaves its head alone.
LEMMA AppendToLine ==
  ASSUME NEW S, NEW s \in Seq(S), IsInjective(s), NEW e \in S, ~Contains(s, e)
  PROVE  /\ Append(s, e) \in Seq(S)
         /\ IsInjective(Append(s, e))
         /\ \A x : Contains(Append(s, e), x) <=> Contains(s, x) \/ x = e
         /\ \A x : Contains(s, x) => Head(Append(s, e)) = Head(s)
  <1>1. /\ Len(s) \in Nat /\ DOMAIN s = 1 .. Len(s)
        /\ Append(s, e) \in Seq(S)
        /\ Len(Append(s, e)) = Len(s) + 1
        /\ \A i \in 1 .. Len(s) : Append(s, e)[i] = s[i]
        /\ Append(s, e)[Len(s) + 1] = e
    BY AppendProperties, LenProperties
  <1>2. DOMAIN Append(s, e) = 1 .. Len(s) + 1
    BY <1>1, LenProperties
  <1>3. IsInjective(Append(s, e))
    BY <1>1, <1>2 DEF IsInjective, Contains
  <1>4. \A x : Contains(Append(s, e), x) <=> Contains(s, x) \/ x = e
    BY <1>1 DEF Contains
  <1>5. ASSUME NEW x, Contains(s, x) PROVE Head(Append(s, e)) = Head(s)
    <2>1. s # <<>>
      BY <1>5, <1>1, EmptySeq DEF Contains
    <2> QED BY <2>1, HeadTailAppend
  <1> QED BY <1>1, <1>3, <1>4, <1>5

\* Leaving a line takes its head, and only its head, out of it.
LEMMA TailOfLine ==
  ASSUME NEW S, NEW s \in Seq(S), IsInjective(s), s # <<>>
  PROVE  /\ Tail(s) \in Seq(S)
         /\ IsInjective(Tail(s))
         /\ \A x : Contains(Tail(s), x) <=> Contains(s, x) /\ x # Head(s)
  <1>1. /\ Len(s) \in Nat \ {0} /\ DOMAIN s = 1 .. Len(s)
        /\ Tail(s) \in Seq(S)
        /\ Len(Tail(s)) = Len(s) - 1
        /\ \A i \in 1 .. Len(s) - 1 : Tail(s)[i] = s[i + 1]
        /\ Head(s) = s[1]
    BY HeadTailProperties, LenProperties, EmptySeq
  <1>2. DOMAIN Tail(s) = 1 .. Len(s) - 1
    BY <1>1, LenProperties
  <1>3. \A i, j \in 1 .. Len(s) : s[i] = s[j] => i = j
    BY <1>1 DEF IsInjective
  <1>4. IsInjective(Tail(s))
    <2> SUFFICES ASSUME NEW i \in 1 .. Len(s) - 1, NEW j \in 1 .. Len(s) - 1,
                        Tail(s)[i] = Tail(s)[j]
                 PROVE  i = j
      BY <1>2 DEF IsInjective
    <2>1. i + 1 \in 1 .. Len(s) /\ j + 1 \in 1 .. Len(s) /\ s[i + 1] = s[j + 1]
      BY <1>1
    <2>2. i + 1 = j + 1
      BY <2>1, <1>3
    <2> QED BY <2>2
  <1>5. ASSUME NEW x, Contains(Tail(s), x) PROVE Contains(s, x) /\ x # Head(s)
    <2>1. PICK i \in 1 .. Len(s) - 1 : Tail(s)[i] = x
      BY <1>1, <1>5 DEF Contains
    <2>2. i + 1 \in 1 .. Len(s) /\ 1 \in 1 .. Len(s) /\ i + 1 # 1 /\ s[i + 1] = x
      BY <2>1, <1>1
    <2> QED BY <2>2, <1>1, <1>3 DEF Contains
  <1>6. ASSUME NEW x, Contains(s, x), x # Head(s) PROVE Contains(Tail(s), x)
    <2>1. PICK i \in 1 .. Len(s) : s[i] = x
      BY <1>6 DEF Contains
    <2>2. i - 1 \in 1 .. Len(s) - 1 /\ (i - 1) + 1 = i
      BY <2>1, <1>1, <1>6
    <2>3. Tail(s)[i - 1] = x
      BY <2>1, <2>2, <1>1
    <2> QED BY <2>2, <2>3, <1>1 DEF Contains
  <1> QED BY <1>1, <1>4, <1>5, <1>6

-----------------------------------------------------------------------------
\* The types of the cache and of the requests.
LEMMA TypeInit == Init => CacheTypeOK
  BY SizesAreNumbers, EarlierAreCaches, EmptySeq DEF Init, CacheTypeOK

\* Deleting a row leaves a table of distinct rows.
LEMMA WithoutType ==
  ASSUME CacheTypeOK, NEW k
  PROVE  /\ Without(k) \in Seq(Keys) /\ IsInjective(Without(k))
         /\ \A x : Contains(Without(k), x) <=> Contains(rows, x) /\ x # k
  BY RemoveFirstProperties DEF CacheTypeOK, Without

\* A lookup without a hit leads to the lock or to the producer.
LEMMA MissType ==
  ASSUME CacheTypeOK, NEW r \in Requests, Miss(r)
  PROVE  /\ step' \in [Requests -> {"unused", "lock", "open"} \cup Outside \cup Holding \cup Ended]
         /\ line' \in [Keys -> Seq(Requests)]
  <1>1. key[r] \in Keys /\ Append(line[key[r]], r) \in Seq(Requests)
    BY AppendProperties DEF CacheTypeOK
  <1>2. CASE step[r] \in Outside
    <2>1. step' = [step EXCEPT ![r] = "lock"]
          /\ line' = [line EXCEPT ![key[r]] = Append(line[key[r]], r)]
      BY <1>2 DEF Miss, Goto, JoinLine, Outside, Holding
    <2>2. line' \in [Keys -> Seq(Requests)]
      BY <1>1, <2>1 DEF CacheTypeOK
    <2> QED BY <2>1, <2>2 DEF CacheTypeOK
  <1>3. CASE step[r] \in Holding
    BY <1>3 DEF CacheTypeOK, Miss, Goto, Outside, Holding
  <1> QED BY <1>2, <1>3 DEF Miss

\* A holder's line is not empty, and what is left of it is a line.
LEMMA LeaveType ==
  ASSUME CacheTypeOK, LinesMatch, NEW r \in Requests, step[r] \in Holding
  PROVE  /\ key[r] \in Keys /\ line[key[r]] \in Seq(Requests)
         /\ line[key[r]] # <<>>
         /\ Tail(line[key[r]]) \in Seq(Requests)
  <1>1. key[r] \in Keys /\ line[key[r]] \in Seq(Requests)
    BY DEF CacheTypeOK
  <1>2. Contains(line[key[r]], r)
    BY <1>1 DEF LinesMatch
  <1>3. line[key[r]] # <<>>
    BY <1>2, EmptySeq DEF Contains
  <1> QED BY <1>1, <1>3, HeadTailProperties

\* Every step keeps the types.
LEMMA TypeStep ==
  ASSUME CacheTypeOK, LinesMatch, [Next]_vars
  PROVE  CacheTypeOK'
  <1> USE DEF CacheTypeOK, Goto, requestVars, sweepVars
  <1>1. ASSUME NEW r \in Requests, Ask(r) PROVE CacheTypeOK'
    BY <1>1 DEF Ask, Outside, HasRow, Contains
  <1>2. ASSUME NEW r \in Requests, Acquire(r) PROVE CacheTypeOK'
    BY <1>2 DEF Acquire, Holding, HasRow, Contains
  <1>3. ASSUME NEW r \in Requests, ProbeMiss(r) PROVE CacheTypeOK'
    BY <1>3, MissType DEF ProbeMiss
  <1>4. ASSUME NEW r \in Requests, ProbeGhost(r) PROVE CacheTypeOK'
    BY <1>4, WithoutType DEF ProbeGhost, Outside, Holding
  <1>5. ASSUME NEW r \in Requests, ProbeHit(r) PROVE CacheTypeOK'
    BY <1>5, LatestProperties DEF ProbeHit, Move, Outside, Holding
  <1>6. ASSUME NEW r \in Requests, Purged(r) PROVE CacheTypeOK'
    BY <1>6, MissType DEF Purged
  <1>7. ASSUME NEW r \in Requests, Touched(r) PROVE CacheTypeOK'
    <2>1. step' \in [Requests -> {"unused", "lock", "open"} \cup Outside \cup Holding \cup Ended]
      BY <1>7 DEF Touched, Answer, Ended
    <2>2. line' \in [Keys -> Seq(Requests)]
      <3>1. CASE step[r] = "touch1"
        BY <1>7, <3>1 DEF Touched
      <3>2. CASE step[r] = "touch2"
        <4>1. step[r] \in Holding /\ line' = [line EXCEPT ![key[r]] = Tail(@)]
          BY <1>7, <3>2 DEF Touched, LeaveLine, Holding
        <4>2. key[r] \in Keys /\ Tail(line[key[r]]) \in Seq(Requests)
          BY <4>1, LeaveType
        <4> QED BY <4>1, <4>2
      <3> QED BY <1>7, <3>1, <3>2 DEF Touched
    <2> QED BY <1>7, <2>1, <2>2 DEF Touched
  <1>8. ASSUME NEW r \in Requests, Stored(r) PROVE CacheTypeOK'
    BY <1>8, LeaveType DEF Stored, Answer, Ended, LeaveLine, Holding
  <1>9. ASSUME NEW r \in Requests, Open(r) PROVE CacheTypeOK'
    BY <1>9 DEF Open, Ended
  <1>10. ASSUME NEW r \in Requests, Fetched(r) PROVE CacheTypeOK'
    BY <1>10, LatestProperties DEF Fetched, Move, Holding
  <1>11. ASSUME NEW r \in Requests, FetchFails(r) PROVE CacheTypeOK'
    BY <1>11, LeaveType DEF FetchFails, Ended, LeaveLine, Holding
  <1>12. CASE Evict
    BY <1>12, WithoutType DEF Evict
  <1>13. CASE SweepSum \/ SweepFirst \/ SweepRest \/ EvictFails \/ Evicted \/ SweepEnds
    BY <1>13 DEF SweepSum, SweepFirst, SweepRest, EvictFails, Evicted, SweepEnds, NoSweep
  <1>14. CASE Crash
    BY <1>14, EmptySeq, SizesAreNumbers DEF Crash, Ended
  <1>15. CASE UNCHANGED vars
    BY <1>15 DEF vars
  <1> QED
    BY <1>1, <1>2, <1>3, <1>4, <1>5, <1>6, <1>7, <1>8, <1>9, <1>10, <1>11,
       <1>12, <1>13, <1>14, <1>15 DEF Next, Step, Produce

-----------------------------------------------------------------------------
\* What a step does to the lines and to the requests in them.
Joins(r) ==
    /\ step[r] \in Outside
    /\ step' = [step EXCEPT ![r] = "lock"]
    /\ line' = [line EXCEPT ![key[r]] = Append(@, r)]

Enters(r) ==
    /\ step[r] = "lock" /\ Head(line[key[r]]) = r
    /\ step' = [step EXCEPT ![r] = "probe2"]
    /\ UNCHANGED line

Leaves(r) ==
    /\ step[r] \in Holding
    /\ \E s \in Ended \cup {"open"} : step' = [step EXCEPT ![r] = s]
    /\ line' = [line EXCEPT ![key[r]] = Tail(@)]

Stays(r) ==
    /\ \/ \E s \in Holding : step[r] \in Holding /\ step' = [step EXCEPT ![r] = s]
       \/ \E s \in Outside \cup Ended \cup {"open"} :
              /\ step[r] \in {"unused", "open"} \cup Outside
              /\ step' = [step EXCEPT ![r] = s]
    /\ UNCHANGED line

Restarts ==
    /\ \A r \in Requests : step'[r] \in Ended \cup {"unused"}
    /\ line' = [k \in Keys |-> <<>>]

\* Every step is one of these for one request, or a restart, or leaves lines alone.
LEMMA StepShape ==
  ASSUME CacheTypeOK, [Next]_vars
  PROVE  /\ UNCHANGED key
         /\ \/ \E r \in Requests : Joins(r) \/ Enters(r) \/ Leaves(r) \/ Stays(r)
            \/ Restarts
            \/ UNCHANGED <<step, line>>
  <1> DEFINE Shape(r) == UNCHANGED key /\ (Joins(r) \/ Enters(r) \/ Leaves(r) \/ Stays(r))
  <1> USE DEF Goto, requestVars, sweepVars, Shape, CacheTypeOK
  <1>1. ASSUME NEW r \in Requests, Ask(r) PROVE Shape(r)
    BY <1>1 DEF Ask, Stays, Outside
  <1>2. ASSUME NEW r \in Requests, Acquire(r) PROVE Shape(r)
    BY <1>2 DEF Acquire, Enters
  <1>3. ASSUME NEW r \in Requests, Miss(r), UNCHANGED key PROVE Shape(r)
    BY <1>3 DEF Miss, JoinLine, Joins, Stays, Holding
  <1>4. ASSUME NEW r \in Requests, ProbeMiss(r) \/ Purged(r) PROVE Shape(r)
    BY <1>4, <1>3 DEF ProbeMiss, Purged
  <1>5. ASSUME NEW r \in Requests, ProbeGhost(r) PROVE Shape(r)
    BY <1>5 DEF ProbeGhost, Stays, Outside, Holding
  <1>6. ASSUME NEW r \in Requests, ProbeHit(r) PROVE Shape(r)
    BY <1>6 DEF ProbeHit, Stays, Outside, Holding
  <1>7. ASSUME NEW r \in Requests, Touched(r) PROVE Shape(r)
    <2>1. CASE step[r] = "touch1"
      BY <1>7, <2>1 DEF Touched, Answer, Stays, Outside, Holding, Ended
    <2>2. CASE step[r] = "touch2"
      BY <1>7, <2>2 DEF Touched, Answer, Leaves, LeaveLine, Holding, Ended
    <2> QED BY <1>7, <2>1, <2>2 DEF Touched
  <1>8. ASSUME NEW r \in Requests, Stored(r) PROVE Shape(r)
    BY <1>8 DEF Stored, Answer, Leaves, LeaveLine, Holding, Ended
  <1>9. ASSUME NEW r \in Requests, Open(r) PROVE Shape(r)
    BY <1>9 DEF Open, Stays, Ended
  <1>10. ASSUME NEW r \in Requests, Fetched(r) PROVE Shape(r)
    BY <1>10 DEF Fetched, Stays, Holding
  <1>11. ASSUME NEW r \in Requests, FetchFails(r) PROVE Shape(r)
    BY <1>11 DEF FetchFails, Leaves, LeaveLine, Holding, Ended
  <1>12. CASE \/ SweepSum \/ SweepFirst \/ SweepRest
              \/ Evict \/ EvictFails \/ Evicted \/ SweepEnds
    BY <1>12 DEF SweepSum, SweepFirst, SweepRest, Evict, EvictFails, Evicted, SweepEnds
  <1>13. CASE Crash
    BY <1>13 DEF Crash, Restarts, Ended
  <1>14. CASE UNCHANGED vars
    BY <1>14 DEF vars
  <1> HIDE DEF Shape
  <1>15. ASSUME NEW r \in Requests, Step(r) \/ Produce(r) \/ Ask(r) PROVE Shape(r)
    BY <1>15, <1>1, <1>2, <1>4, <1>5, <1>6, <1>7, <1>8, <1>9, <1>10, <1>11
    DEF Step, Produce
  <1> QED
    BY <1>12, <1>13, <1>14, <1>15 DEF Next, Shape

-----------------------------------------------------------------------------
\* The lines hold the requests that wait and the one that is served, at the head.
LEMMA LinesInit == Init => LinesMatch /\ HolderIsHead
  BY EmptySeq DEF Init, LinesMatch, HolderIsHead, Holding, IsInjective, Contains

\* A request at the head of a line is in it.
LEMMA InLine ==
  ASSUME CacheTypeOK, LinesMatch, NEW r \in Requests, step[r] \in {"lock"} \cup Holding
  PROVE  /\ key[r] \in Keys /\ line[key[r]] \in Seq(Requests)
         /\ IsInjective(line[key[r]])
         /\ Contains(line[key[r]], r)
         /\ line[key[r]] # <<>>
  <1>1. key[r] \in Keys /\ line[key[r]] \in Seq(Requests)
    BY DEF CacheTypeOK
  <1>2. Contains(line[key[r]], r) /\ IsInjective(line[key[r]])
    BY <1>1 DEF LinesMatch
  <1> QED BY <1>1, <1>2, EmptySeq DEF Contains

\* Every step keeps the lines and their heads.
LEMMA LinesStep ==
  ASSUME CacheTypeOK, LinesMatch, HolderIsHead, [Next]_vars
  PROVE  (LinesMatch /\ HolderIsHead)'
  <1>1. UNCHANGED key
    BY StepShape
  <1>2. ASSUME NEW r \in Requests, Joins(r) PROVE (LinesMatch /\ HolderIsHead)'
    <2> DEFINE k == key[r]
               s == line[k]
               t == Append(s, r)
    <2>1. k \in Keys /\ s \in Seq(Requests) /\ IsInjective(s) /\ ~Contains(s, r)
      BY <1>2 DEF CacheTypeOK, LinesMatch, Joins, Outside, Holding
    <2>2. /\ IsInjective(t)
          /\ \A q : Contains(t, q) <=> Contains(s, q) \/ q = r
          /\ \A q : Contains(s, q) => Head(t) = Head(s)
      BY <2>1, AppendToLine
    <2>3. \A j \in Keys : line'[j] = IF j = k THEN t ELSE line[j]
      BY <1>2, <2>1 DEF Joins, CacheTypeOK
    <2>4. \A q \in Requests : step'[q] = IF q = r THEN "lock" ELSE step[q]
      BY <1>2 DEF Joins, CacheTypeOK
    <2> HIDE DEF t, s
    <2>5. LinesMatch'
      <3> SUFFICES ASSUME NEW j \in Keys
                   PROVE  /\ IsInjective(line'[j])
                          /\ \A q \in Requests :
                               Contains(line'[j], q) <=>
                                 key[q] = j /\ step'[q] \in {"lock"} \cup Holding
        BY <1>1 DEF LinesMatch
      <3>1. CASE j = k
        BY <3>1, <2>2, <2>3, <2>4 DEF LinesMatch, s
      <3>2. CASE j # k
        BY <3>2, <2>3, <2>4 DEF LinesMatch
      <3> QED BY <3>1, <3>2
    <2>6. HolderIsHead'
      <3> SUFFICES ASSUME NEW q \in Requests, step'[q] \in Holding
                   PROVE  Head(line'[key[q]]) = q
        BY <1>1 DEF HolderIsHead
      <3>1. step[q] \in Holding
        BY <2>4 DEF Holding
      <3>2. Head(line[key[q]]) = q /\ key[q] \in Keys /\ Contains(line[key[q]], q)
        BY <3>1, InLine DEF HolderIsHead
      <3> QED BY <3>2, <2>2, <2>3 DEF s
    <2> QED BY <2>5, <2>6
  <1>3. ASSUME NEW r \in Requests, Enters(r) PROVE (LinesMatch /\ HolderIsHead)'
    <2>1. \A q \in Requests : step'[q] = IF q = r THEN "probe2" ELSE step[q]
      BY <1>3 DEF Enters, CacheTypeOK
    <2>2. line' = line /\ step[r] = "lock" /\ Head(line[key[r]]) = r
      BY <1>3 DEF Enters
    <2>3. LinesMatch'
      BY <1>1, <2>1, <2>2 DEF LinesMatch, Holding
    <2>4. HolderIsHead'
      BY <1>1, <2>1, <2>2 DEF HolderIsHead
    <2> QED BY <2>3, <2>4
  <1>4. ASSUME NEW r \in Requests, Leaves(r) PROVE (LinesMatch /\ HolderIsHead)'
    <2> DEFINE k == key[r]
               s == line[k]
               t == Tail(s)
    <2>1. /\ k \in Keys /\ s \in Seq(Requests) /\ IsInjective(s) /\ s # <<>>
          /\ Head(s) = r /\ step[r] \in Holding
      BY <1>4, InLine DEF Leaves, HolderIsHead
    <2>2. IsInjective(t) /\ \A q : Contains(t, q) <=> Contains(s, q) /\ q # r
      BY <2>1, TailOfLine
    <2>3. \A j \in Keys : line'[j] = IF j = k THEN t ELSE line[j]
      BY <1>4, <2>1 DEF Leaves, CacheTypeOK
    <2>4. /\ \A q \in Requests : q # r => step'[q] = step[q]
          /\ step'[r] \in Ended \cup {"open"}
      BY <1>4 DEF Leaves, CacheTypeOK
    <2>5. step'[r] \notin {"lock"} \cup Holding
      BY <2>4 DEF Ended, Holding
    <2> HIDE DEF t
    <2>6. LinesMatch'
      <3> SUFFICES ASSUME NEW j \in Keys
                   PROVE  /\ IsInjective(line'[j])
                          /\ \A q \in Requests :
                               Contains(line'[j], q) <=>
                                 key[q] = j /\ step'[q] \in {"lock"} \cup Holding
        BY <1>1 DEF LinesMatch
      <3>1. CASE j = k
        BY <3>1, <2>2, <2>3, <2>4, <2>5 DEF LinesMatch
      <3>2. CASE j # k
        BY <3>2, <2>3, <2>4, <2>5 DEF LinesMatch
      <3> QED BY <3>1, <3>2
    <2>7. HolderIsHead'
      <3> SUFFICES ASSUME NEW q \in Requests, step'[q] \in Holding
                   PROVE  Head(line'[key[q]]) = q
        BY <1>1 DEF HolderIsHead
      <3>1. q # r /\ step[q] \in Holding
        BY <2>4, <2>5
      <3>2. Head(line[key[q]]) = q /\ key[q] \in Keys /\ key[q] # k
        BY <3>1, <2>1, InLine DEF HolderIsHead
      <3> QED BY <3>2, <2>3
    <2> QED BY <2>6, <2>7
  <1>5. ASSUME NEW r \in Requests, Stays(r) PROVE (LinesMatch /\ HolderIsHead)'
    <2>1. /\ line' = line
          /\ \A q \in Requests : q # r => step'[q] = step[q]
          /\ step'[r] \in Holding <=> step[r] \in Holding
          /\ step'[r] # "lock" /\ step[r] # "lock"
      BY <1>5 DEF Stays, CacheTypeOK, Holding, Outside, Ended
    <2>2. LinesMatch'
      BY <1>1, <2>1 DEF LinesMatch
    <2>3. HolderIsHead'
      BY <1>1, <2>1 DEF HolderIsHead
    <2> QED BY <2>2, <2>3
  <1>6. CASE Restarts
    BY <1>6, <1>1, EmptySeq
    DEF Restarts, LinesMatch, HolderIsHead, Holding, Ended, IsInjective, Contains
  <1>7. CASE UNCHANGED <<step, line>>
    BY <1>7, <1>1 DEF LinesMatch, HolderIsHead
  <1> QED
    BY StepShape, <1>2, <1>3, <1>4, <1>5, <1>6, <1>7

-----------------------------------------------------------------------------
\* Only the holder of a key's lock inserts its row.
LEMMA AbsentInit == Init => MissedStaysAbsent
  BY DEF Init, MissedStaysAbsent, Missed

\* Every step keeps the keys of holders that missed without a row.
LEMMA AbsentStep ==
  ASSUME CacheTypeOK, LinesMatch, HolderIsHead, MissedStaysAbsent, [Next]_vars
  PROVE  MissedStaysAbsent'
  <1> USE DEF Goto, requestVars, sweepVars, CacheTypeOK
  <1>1. UNCHANGED key
    BY StepShape
  <1> SUFFICES ASSUME NEW q \in Requests, Missed(q)' PROVE ~Contains(rows', key[q])
    BY <1>1 DEF MissedStaysAbsent, HasRow
  <1>2. Missed(q) => ~Contains(rows, key[q])
    BY DEF MissedStaysAbsent, HasRow
  <1>3. ASSUME NEW r \in Requests, Ask(r) PROVE ~Contains(rows', key[q])
    BY <1>2, <1>3 DEF Ask, Missed
  <1>4. ASSUME NEW r \in Requests, Acquire(r) PROVE ~Contains(rows', key[q])
    BY <1>2, <1>4 DEF Acquire, Missed, HasRow
  <1>5. ASSUME NEW r \in Requests, ProbeMiss(r) PROVE ~Contains(rows', key[q])
    BY <1>2, <1>5 DEF ProbeMiss, Miss, Missed, Outside, Holding
  <1>6. ASSUME NEW r \in Requests, ProbeGhost(r) PROVE ~Contains(rows', key[q])
    <2>1. rows' = Without(key[r]) /\ (q = r \/ Missed(q))
      BY <1>6 DEF ProbeGhost, Missed
    <2> QED BY <1>2, <2>1, WithoutType
  <1>7. ASSUME NEW r \in Requests, ProbeHit(r) PROVE ~Contains(rows', key[q])
    <2>1. Missed(q) /\ (rows' = rows \/ (rows' = Latest(key[r]) /\ Contains(rows, key[r])))
      BY <1>7 DEF ProbeHit, Move, Missed, HasRow
    <2>2. key[r] \in Keys
      OBVIOUS
    <2> QED BY <1>2, <2>1, <2>2, LatestProperties
  <1>8. ASSUME NEW r \in Requests, Purged(r) PROVE ~Contains(rows', key[q])
    BY <1>2, <1>8 DEF Purged, Miss, Missed, Outside, Holding
  <1>9. ASSUME NEW r \in Requests, Touched(r) \/ Stored(r) \/ Open(r) \/ FetchFails(r)
        PROVE  ~Contains(rows', key[q])
    BY <1>2, <1>9 DEF Touched, Stored, Open, FetchFails, Answer, Missed
  <1>10. ASSUME NEW r \in Requests, Fetched(r) PROVE ~Contains(rows', key[q])
    <2>1. Missed(q) /\ q # r /\ step[r] \in Holding /\ step[q] \in Holding
      BY <1>10 DEF Fetched, Missed, Holding
    <2>2. key[q] # key[r]
      BY <2>1 DEF HolderIsHead
    <2>3. rows' = Latest(key[r]) /\ key[r] \in Keys
      BY <1>10 DEF Fetched, Move
    <2> QED BY <1>2, <2>1, <2>2, <2>3, LatestProperties
  <1>11. CASE Evict
    <2>1. Missed(q) /\ rows' = Without(Head(todo))
      BY <1>11 DEF Evict, Missed
    <2> QED BY <1>2, <2>1, WithoutType
  <1>12. CASE SweepSum \/ SweepFirst \/ SweepRest \/ EvictFails \/ Evicted \/ SweepEnds
    BY <1>2, <1>12
    DEF SweepSum, SweepFirst, SweepRest, EvictFails, Evicted, SweepEnds, Missed
  <1>13. CASE Crash
    BY <1>13 DEF Crash, Ended, Missed
  <1>14. CASE UNCHANGED vars
    BY <1>2, <1>14 DEF vars, Missed
  <1> QED
    BY <1>3, <1>4, <1>5, <1>6, <1>7, <1>8, <1>9, <1>10, <1>11, <1>12, <1>13, <1>14
    DEF Next, Step, Produce

-----------------------------------------------------------------------------
\* What was found has its row as long as its file is there.
Sees(r) == step[r] \in Found \/ (step[r] \in {"probe1", "probe2"} /\ saw[r])

\* At the start nobody has found anything, and what is saved is the table.
LEMMA FoundInit == Init => FoundFilesHaveRows /\ SavedFilesHaveRows
  BY DEF Init, FoundFilesHaveRows, SavedFilesHaveRows, HasRow, Found

\* No step but a crash takes a row away and leaves its file, or brings a file without a
\* row.
LEMMA FilesKeepRows ==
  ASSUME CacheTypeOK, [Next]_vars, ~Crash
  PROVE  \A k \in Keys : (k \in files => Contains(rows, k)) => (k \in files' => Contains(rows', k))
  <1> USE DEF Goto, requestVars, sweepVars
  <1> SUFFICES ASSUME NEW k \in Keys, k \in files => Contains(rows, k)
               PROVE  k \in files' => Contains(rows', k)
    OBVIOUS
  <1>2. ASSUME NEW r \in Requests, ProbeGhost(r) PROVE k \in files' => Contains(rows', k)
    <2>1. rows' = Without(key[r]) /\ key[r] \notin files /\ files' = files
      BY <1>2 DEF ProbeGhost
    <2> QED BY <2>1, WithoutType
  <1>3. ASSUME NEW r \in Requests, ProbeHit(r) PROVE k \in files' => Contains(rows', k)
    <2>1. /\ rows' = rows \/ rows' = Latest(key[r])
          /\ files' = files /\ key[r] \in Keys
      BY <1>3 DEF ProbeHit, Move, HasRow, CacheTypeOK
    <2> QED BY <2>1, LatestProperties
  <1>4. ASSUME NEW r \in Requests, Fetched(r) PROVE k \in files' => Contains(rows', k)
    <2>1. rows' = Latest(key[r]) /\ files' = files \cup {key[r]} /\ key[r] \in Keys
      BY <1>4 DEF Fetched, Move, CacheTypeOK
    <2> QED BY <2>1, LatestProperties
  <1>5. CASE Evict
    <2>1. rows' = Without(Head(todo)) /\ files' = files \ {Head(todo)}
      BY <1>5 DEF Evict
    <2> QED BY <2>1, WithoutType
  <1>6. ASSUME NEW r \in Requests,
               \/ Ask(r) \/ Acquire(r) \/ ProbeMiss(r) \/ Purged(r)
               \/ Touched(r) \/ Stored(r) \/ Open(r) \/ FetchFails(r)
        PROVE  UNCHANGED <<rows, files>>
    BY <1>6 DEF Ask, Acquire, ProbeMiss, Purged, Touched, Stored, Open, FetchFails
  <1>7. CASE SweepSum \/ SweepFirst \/ SweepRest \/ EvictFails \/ Evicted \/ SweepEnds
    BY <1>7 DEF SweepSum, SweepFirst, SweepRest, EvictFails, Evicted, SweepEnds
  <1>8. CASE UNCHANGED vars
    BY <1>8 DEF vars
  <1> QED BY <1>2, <1>3, <1>4, <1>5, <1>6, <1>7, <1>8 DEF Next, Step, Produce

\* A request finds a key by seeing its row, or stores it.
LEMMA SeesBy ==
  ASSUME CacheTypeOK, [Next]_vars, ~Crash, NEW q \in Requests, Sees(q)'
  PROVE  Sees(q) \/ Contains(rows', key[q])
  <1> USE DEF Goto, requestVars, sweepVars, CacheTypeOK, Sees, Found
  <1>1. ASSUME NEW r \in Requests, Ask(r) PROVE Sees(q) \/ Contains(rows', key[q])
    BY <1>1 DEF Ask, HasRow
  <1>2. ASSUME NEW r \in Requests, Acquire(r) PROVE Sees(q) \/ Contains(rows', key[q])
    BY <1>2 DEF Acquire, HasRow
  <1>3. ASSUME NEW r \in Requests, ProbeMiss(r) \/ Purged(r) PROVE Sees(q)
    BY <1>3 DEF ProbeMiss, Purged, Miss, Outside, Holding
  <1>4. ASSUME NEW r \in Requests, ProbeGhost(r) PROVE Sees(q)
    BY <1>4 DEF ProbeGhost
  <1>5. ASSUME NEW r \in Requests, ProbeHit(r) PROVE Sees(q)
    BY <1>5 DEF ProbeHit
  <1>6. ASSUME NEW r \in Requests, Touched(r) \/ Stored(r) \/ Open(r) \/ FetchFails(r) PROVE Sees(q)
    BY <1>6 DEF Touched, Stored, Open, FetchFails, Answer
  <1>7. ASSUME NEW r \in Requests, Fetched(r) PROVE Sees(q) \/ Contains(rows', key[q])
    <2>1. CASE q = r
      <3>1. rows' = Latest(key[r]) /\ key[r] \in Keys
        BY <1>7 DEF Fetched, Move
      <3> QED BY <2>1, <3>1, LatestProperties
    <2>2. CASE q # r
      BY <1>7, <2>2 DEF Fetched
    <2> QED BY <2>1, <2>2
  <1>8. CASE \/ SweepSum \/ SweepFirst \/ SweepRest \/ Evict \/ EvictFails \/ Evicted \/ SweepEnds
    BY <1>8 DEF SweepSum, SweepFirst, SweepRest, Evict, EvictFails, Evicted, SweepEnds
  <1>9. CASE UNCHANGED vars
    BY <1>9 DEF vars
  <1> QED
    BY <1>1, <1>2, <1>3, <1>4, <1>5, <1>6, <1>7, <1>8, <1>9 DEF Next, Step, Produce

\* A commit saves the table as it is.
LEMMA SavedBy ==
  ASSUME [Next]_vars
  PROVE  saved' = saved \/ (saved' = rows /\ UNCHANGED <<rows, files>>) \/ saved' = rows'
  <1> USE DEF requestVars, sweepVars
  <1>1. \A r \in Requests : Step(r) \/ Produce(r) \/ Ask(r) =>
          saved' = saved \/ (saved' = rows /\ UNCHANGED <<rows, files>>)
    BY DEF Step, Produce, Ask, Acquire, ProbeMiss, ProbeGhost, ProbeHit, Purged, Touched, Stored, Open,
       Fetched, FetchFails
  <1>2. SweepSum \/ SweepFirst \/ SweepRest \/ Evict \/ EvictFails \/ Evicted \/ SweepEnds =>
          saved' = saved \/ (saved' = rows /\ UNCHANGED <<rows, files>>)
    BY DEF SweepSum, SweepFirst, SweepRest, Evict, EvictFails, Evicted, SweepEnds
  <1>3. Crash => saved' = rows'
    BY DEF Crash
  <1>4. UNCHANGED vars => saved' = saved
    BY DEF vars
  <1> QED BY <1>1, <1>2, <1>3, <1>4 DEF Next

\* Every step keeps the rows of files that were found or saved.
LEMMA FoundStep ==
  ASSUME CacheTypeOK, CacheTypeOK', FoundFilesHaveRows, SavedFilesHaveRows, [Next]_vars
  PROVE  (FoundFilesHaveRows /\ SavedFilesHaveRows)'
  <1>1. CASE Crash
    <2>1. saved' = rows' /\ \A r \in Requests : step'[r] \in Ended \cup {"unused"}
      BY <1>1 DEF Crash, Ended
    <2> QED BY <2>1 DEF FoundFilesHaveRows, SavedFilesHaveRows, HasRow, Found, Ended
  <1>2. CASE ~Crash
    <2>1. UNCHANGED key
      BY StepShape
    <2>2. ASSUME NEW q \in Requests, Sees(q)' PROVE key[q] \in files' => Contains(rows', key[q])
      <3>1. Sees(q) => (key[q] \in files => Contains(rows, key[q]))
        BY DEF Sees, FoundFilesHaveRows, HasRow
      <3>2. key[q] \in Keys
        BY DEF CacheTypeOK
      <3> QED BY <1>2, <2>2, <3>1, <3>2, FilesKeepRows, SeesBy
    <2>3. FoundFilesHaveRows'
      BY <2>1, <2>2 DEF FoundFilesHaveRows, Sees, HasRow
    <2>4. ASSUME NEW k \in files', Contains(saved', k) PROVE Contains(rows', k)
      <3>1. k \in Keys
        BY DEF CacheTypeOK
      <3>2. CASE saved' = saved
        BY <1>2, <2>4, <3>1, <3>2, FilesKeepRows DEF SavedFilesHaveRows, HasRow
      <3>3. CASE saved' = rows /\ UNCHANGED <<rows, files>>
        BY <2>4, <3>3
      <3>4. CASE saved' = rows'
        BY <2>4, <3>4
      <3> QED BY <3>2, <3>3, <3>4, SavedBy
    <2> QED BY <2>3, <2>4 DEF SavedFilesHaveRows, HasRow
  <1> QED BY <1>1, <1>2

-----------------------------------------------------------------------------
\* Induction over the natural numbers, and over the subsets of a finite set.

\* A set of numbers that is not empty has a smallest element.
LEMMA SmallestNumber ==
  ASSUME NEW T \in SUBSET Nat, T # {}
  PROVE  \E n \in T : \A m \in T : n <= m
  <1>1. PICK n \in T : \A m \in T : <<m, n>> \notin OpToRel(<, Nat)
    BY NatLessThanWellFounded, WFMin
  <1>2. \A m \in T : ~(m < n)
    BY <1>1 DEF OpToRel
  <1> QED BY <1>2

\* A set that has 0, and with n has n + 1, has every number.
LEMMA Induction ==
  ASSUME NEW T, 0 \in T, \A n \in Nat : n \in T => n + 1 \in T
  PROVE  Nat \subseteq T
  <1> SUFFICES ASSUME Nat \ T # {} PROVE FALSE
    OBVIOUS
  <1>1. PICK n \in Nat \ T : \A m \in Nat \ T : n <= m
    BY SmallestNumber
  <1>2. n # 0
    BY <1>1
  <1>3. n - 1 \in Nat \ T
    BY <1>1, <1>2
  <1> QED BY <1>1, <1>3

\* What holds of a set if it holds of all that lack one element holds of every set.
LEMMA SetInduction ==
  ASSUME NEW S, IsFiniteSet(S), NEW Good,
         \A T \in SUBSET S : (\A x \in T : T \ {x} \in Good) => T \in Good
  PROVE  SUBSET S \subseteq Good
  <1> DEFINE Bad == (SUBSET S) \ Good
             R == StrictSubsetOrdering(S)
  <1> SUFFICES ASSUME Bad # {} PROVE FALSE
    OBVIOUS
  <1>1. IsWellFoundedOn(R, SUBSET S)
    <2>1. FiniteSubsetsOf(S) = SUBSET S
      BY FS_Subset DEF FiniteSubsetsOf
    <2>2. IsWellFoundedOn(R, FiniteSubsetsOf(S))
      BY FS_StrictSubsetOrderingWellFounded
    <2> HIDE DEF R
    <2> QED BY <2>1, <2>2
  <1>2. PICK T \in Bad : \A U \in Bad : ~(<<U, T>> \in R)
    <2>1. Bad \subseteq SUBSET S
      OBVIOUS
    <2> HIDE DEF Bad, R
    <2> QED BY <1>1, <2>1, WFMin
  <1>3. PICK x \in T : T \ {x} \notin Good
    BY <1>2
  <1>4. T \ {x} \in Bad
    BY <1>2, <1>3
  <1>5. <<T \ {x}, T>> \in R
    BY <1>3 DEF StrictSubsetOrdering
  <1> QED BY <1>2, <1>4, <1>5

-----------------------------------------------------------------------------
\* The bytes of a finite set of keys, as MapThenSumSet adds them up.

First(s) == CHOOSE x \in s : TRUE
Body(g, s) == IF s = {} THEN 0 ELSE Size[First(s)] + g[s \ {First(s)}]
Unfolds(g, D) == g = [s \in D |-> Body(g, s)]
Small(S, n) == {s \in SUBSET S : Cardinality(s) <= n}

\* There is a function that sums the sets of up to N keys.
LEMMA SumsOfSmall ==
  ASSUME NEW S, IsFiniteSet(S), NEW N \in Nat
  PROVE  \E g : Unfolds(g, Small(S, N))
  <1> DEFINE T == {n \in Nat : \E g : Unfolds(g, Small(S, n))}
  <1>1. \A s \in SUBSET S : /\ IsFiniteSet(s) /\ Cardinality(s) \in Nat /\ (Cardinality(s) = 0 <=> s = {})
                            /\ s # {} => /\ First(s) \in s
                                         /\ s \ {First(s)} \in SUBSET S
                                         /\ Cardinality(s \ {First(s)}) = Cardinality(s) - 1
    <2> TAKE s \in SUBSET S
    <2>1. IsFiniteSet(s)
      BY FS_Subset
    <2>2. s # {} => First(s) \in s
      BY DEF First
    <2>3. \A x \in s : Cardinality(s \ {x}) = Cardinality(s) - 1
      BY <2>1, FS_RemoveElement
    <2> QED BY <2>1, <2>2, <2>3, FS_CardinalityType, FS_EmptySet
  <1>2. 0 \in T
    <2> DEFINE g == [s \in Small(S, 0) |-> 0]
    <2>1. \A s \in Small(S, 0) : Body(g, s) = 0
      BY <1>1 DEF Small, Body
    <2>2. Unfolds(g, Small(S, 0))
      <3> HIDE DEF Body
      <3> QED BY <2>1 DEF Unfolds
    <2> QED BY <2>2
  <1>3. ASSUME NEW n \in Nat, n \in T PROVE n + 1 \in T
    <2>1. PICK g : Unfolds(g, Small(S, n))
      BY <1>3
    <2> DEFINE h == [s \in Small(S, n + 1) |-> Body(g, s)]
    <2>2. Small(S, n) \subseteq Small(S, n + 1)
      <3>1. \A s \in SUBSET S : Cardinality(s) \in Nat
        BY <1>1
      <3> QED BY <3>1 DEF Small
    <2>3. \A s \in Small(S, n) : h[s] = g[s]
      BY <2>1, <2>2 DEF Unfolds
    <2>4. \A s \in Small(S, n + 1) : s # {} => s \ {First(s)} \in Small(S, n)
      BY <1>1 DEF Small
    <2> HIDE DEF h
    <2>5. \A s \in Small(S, n + 1) : Body(h, s) = Body(g, s)
      BY <2>3, <2>4 DEF Body
    <2>6. Unfolds(h, Small(S, n + 1))
      BY <2>5 DEF h, Unfolds
    <2> QED BY <2>6
  <1> HIDE DEF T
  <1>4. N \in T
    BY <1>2, <1>3, Induction
  <1> QED BY <1>4 DEF T

IsSum(g, S) ==
    g = [s \in SUBSET S |-> IF s = {} THEN 0
                            ELSE Size[CHOOSE x \in s : TRUE] + g[s \ {CHOOSE x \in s : TRUE}]]
Adds(g, S) == \A s \in SUBSET S : g[s] = Body(g, s)

\* Bytes is the value of such a function, which unfolds on every subset.
LEMMA BytesUnfold ==
  ASSUME NEW S, IsFiniteSet(S)
  PROVE  \E g : Bytes(S) = g[S] /\ Adds(g, S)
  <1> DEFINE g == CHOOSE g : IsSum(g, S)
  <1>1. Cardinality(S) \in Nat /\ Small(S, Cardinality(S)) = SUBSET S
    BY FS_CardinalityType, FS_Subset DEF Small
  <1>2. \E h : Unfolds(h, Small(S, Cardinality(S)))
    BY <1>1, SumsOfSmall
  <1>3. \E h : Unfolds(h, SUBSET S)
    BY <1>1, <1>2
  <1>4. \A h : IsSum(h, S) <=> Unfolds(h, SUBSET S)
    BY DEF Unfolds, IsSum, Body, First
  <1>5. IsSum(g, S)
    BY <1>3, <1>4
  <1>6. Bytes(S) = g[S]
    BY DEF Bytes, IsSum, MapThenSumSet, MapThenFoldSet
  <1> HIDE DEF g
  <1>7. \A s \in SUBSET S : g[s] = Body(g, s)
    BY <1>4, <1>5 DEF Unfolds
  <1> QED BY <1>6, <1>7 DEF Adds

\* A function that unfolds like the sum is the sum, on every subset.
LEMMA BytesAre ==
  ASSUME NEW S, IsFiniteSet(S), NEW h, Adds(h, S)
  PROVE  \A s \in SUBSET S : Bytes(s) = h[s]
  <1>1. ASSUME NEW U \in SUBSET S PROVE Bytes(U) = h[U]
    <2>0. IsFiniteSet(U)
      BY FS_Subset
    <2>1. PICK g : Bytes(U) = g[U] /\ Adds(g, U)
      BY <2>0, BytesUnfold
    <2> DEFINE Good == {s \in SUBSET U : g[s] = h[s]}
    <2>2. {} \in Good
      BY <2>1 DEF Adds, Body
    <2>3. \A T \in SUBSET U : T # {} => (First(T) \in T /\ T \ {First(T)} \in SUBSET U)
      BY DEF First
    <2>4. ASSUME NEW T \in SUBSET U, T # {}, T \ {First(T)} \in Good PROVE T \in Good
      <3>1. g[T] = Size[First(T)] + g[T \ {First(T)}] /\ h[T] = Size[First(T)] + h[T \ {First(T)}]
        BY <2>1, <2>4 DEF Adds, Body
      <3> QED BY <2>4, <3>1
    <2> HIDE DEF Good
    <2>5. \A T \in SUBSET U : (\A x \in T : T \ {x} \in Good) => T \in Good
      BY <2>2, <2>3, <2>4
    <2>6. SUBSET U \subseteq Good
      BY <2>0, <2>5, SetInduction
    <2> QED BY <2>1, <2>6 DEF Good
  <1> QED BY <1>1

\* The sum of a set is one size and the sum of the rest.
LEMMA BytesFirst ==
  ASSUME NEW S, IsFiniteSet(S)
  PROVE  Bytes(S) = IF S = {} THEN 0 ELSE Size[First(S)] + Bytes(S \ {First(S)})
  <1>1. PICK g : Bytes(S) = g[S] /\ Adds(g, S)
    BY BytesUnfold
  <1>2. \A s \in SUBSET S : Bytes(s) = g[s]
    BY <1>1, BytesAre
  <1>3. g[S] = Body(g, S)
    BY <1>1 DEF Adds
  <1>4. Bytes(S \ {First(S)}) = g[S \ {First(S)}]
    BY <1>2
  <1> QED BY <1>1, <1>3, <1>4 DEF Body

\* A sum of sizes is a number.
LEMMA BytesType ==
  ASSUME NEW S \in SUBSET Keys, IsFiniteSet(S)
  PROVE  \A T \in SUBSET S : Bytes(T) \in Nat
  <1> DEFINE Good == {T \in SUBSET S : Bytes(T) \in Nat}
  <1>1. ASSUME NEW T \in SUBSET S, \A x \in T : T \ {x} \in Good PROVE T \in Good
    <2>1. Bytes(T) = IF T = {} THEN 0 ELSE Size[First(T)] + Bytes(T \ {First(T)})
      BY FS_Subset, BytesFirst
    <2>2. T # {} => First(T) \in T
      BY DEF First
    <2>3. T # {} => Size[First(T)] \in Nat
      BY <2>2, SizesAreNumbers
    <2> QED BY <1>1, <2>1, <2>2, <2>3
  <1>2. SUBSET S \subseteq Good
    <2> HIDE DEF Good
    <2> QED BY <1>1, SetInduction
  <1> QED BY <1>2

\* It does not matter which key is taken out first.
LEMMA BytesRemove ==
  ASSUME NEW S \in SUBSET Keys, IsFiniteSet(S)
  PROVE  \A x \in S : Bytes(S) = Size[x] + Bytes(S \ {x})
  <1> DEFINE Good == {T \in SUBSET S : \A x \in T : Bytes(T) = Size[x] + Bytes(T \ {x})}
  <1>0. \A T \in SUBSET S : Bytes(T) \in Nat
    BY BytesType
  <1>1. ASSUME NEW T \in SUBSET S, \A x \in T : T \ {x} \in Good PROVE T \in Good
    <2>1. IsFiniteSet(T)
      BY FS_Subset
    <2>2. CASE T = {}
      BY <2>2
    <2>3. CASE T # {}
      <3>1. First(T) \in T
        BY <2>3 DEF First
      <3>2. Bytes(T) = Size[First(T)] + Bytes(T \ {First(T)})
        BY <2>1, <2>3, BytesFirst
      <3>4. ASSUME NEW x \in T PROVE Bytes(T) = Size[x] + Bytes(T \ {x})
        <4> DEFINE y == First(T)
        <4>1. CASE x = y
          BY <3>2, <4>1
        <4>2. CASE x # y
          <5> HIDE DEF y
          <5>1. y \in T \ {x} /\ x \in T \ {y}
            BY <3>1, <4>2 DEF y
          <5>2. T \ {x} \in Good /\ T \ {y} \in Good
            BY <1>1, <3>1 DEF y
          <5>3. /\ Bytes(T \ {x}) = Size[y] + Bytes((T \ {x}) \ {y})
                /\ Bytes(T \ {y}) = Size[x] + Bytes((T \ {y}) \ {x})
            BY <5>1, <5>2
          <5>4. (T \ {x}) \ {y} = (T \ {y}) \ {x} /\ (T \ {x}) \ {y} \in SUBSET S
            OBVIOUS
          <5>5. Size[x] \in Nat /\ Size[y] \in Nat
            BY <3>1, SizesAreNumbers DEF y
          <5>6. Bytes((T \ {x}) \ {y}) \in Nat
            BY <1>0, <5>4
          <5> QED BY <3>2, <5>3, <5>4, <5>5, <5>6 DEF y
        <4> QED BY <4>1, <4>2
      <3> QED BY <3>4
    <2> QED BY <2>2, <2>3
  <1>2. S \in Good
    <2> HIDE DEF Good
    <2> QED BY <1>1, SetInduction
  <1> QED BY <1>2

\* No keys, no bytes.
LEMMA BytesOfNone == Bytes({}) = 0
  BY FS_EmptySet, BytesFirst

\* A key adds its size once.
LEMMA BytesAdd ==
  ASSUME NEW S \in SUBSET Keys, IsFiniteSet(S), NEW x \in Keys
  PROVE  /\ IsFiniteSet({x} \cup S) /\ Bytes(S) \in Nat /\ Size[x] \in Nat
         /\ Bytes({x} \cup S) = IF x \in S THEN Bytes(S) ELSE Size[x] + Bytes(S)
  <1>1. Bytes(S) \in Nat /\ Size[x] \in Nat
    BY BytesType, SizesAreNumbers
  <1>2. IsFiniteSet({x} \cup S)
    BY FS_AddElement
  <1>3. CASE x \in S
    <2>1. {x} \cup S = S
      BY <1>3
    <2> QED BY <1>1, <1>2, <1>3, <2>1
  <1>4. CASE x \notin S
    <2>1. ({x} \cup S) \ {x} = S /\ x \in {x} \cup S /\ {x} \cup S \in SUBSET Keys
      BY <1>4
    <2>2. Bytes({x} \cup S) = Size[x] + Bytes(({x} \cup S) \ {x})
      BY <1>2, <2>1, BytesRemove
    <2> QED BY <1>1, <1>2, <1>4, <2>1, <2>2
  <1> QED BY <1>3, <1>4

\* More keys, more bytes.
LEMMA BytesGrow ==
  ASSUME NEW S \in SUBSET Keys, IsFiniteSet(S), NEW R \in SUBSET S
  PROVE  Bytes(R) \in Nat /\ Bytes(S) \in Nat /\ Bytes(R) <= Bytes(S)
  <1> DEFINE D == S \ R
             Good == {T \in SUBSET D : Bytes(R) <= Bytes(R \cup T)}
  <1>0. /\ IsFiniteSet(D) /\ R \cup D = S /\ D \in SUBSET D
        /\ \A T \in SUBSET S : IsFiniteSet(T) /\ Bytes(T) \in Nat
    BY FS_Subset, BytesType
  <1>1. ASSUME NEW T \in SUBSET D, \A x \in T : T \ {x} \in Good PROVE T \in Good
    <2>1. CASE T = {}
      <3>1. R \cup T = R
        BY <2>1
      <3> QED BY <1>0, <3>1
    <2>2. CASE T # {}
      <3>1. PICK x \in T : TRUE
        BY <2>2
      <3>2. (R \cup T) \ {x} = R \cup (T \ {x}) /\ R \cup T \in SUBSET S /\ x \in R \cup T
        BY <3>1
      <3>3. Bytes(R \cup T) = Size[x] + Bytes(R \cup (T \ {x}))
        BY <1>0, <3>2, BytesRemove
      <3>4. Bytes(R) <= Bytes(R \cup (T \ {x})) /\ R \cup (T \ {x}) \in SUBSET S
        BY <1>1, <3>1
      <3>5. Size[x] \in Nat /\ Bytes(R) \in Nat /\ Bytes(R \cup (T \ {x})) \in Nat
        BY <1>0, <3>1, <3>4, SizesAreNumbers
      <3>6. Bytes(R) <= Bytes(R \cup T)
        BY <3>3, <3>4, <3>5
      <3> QED BY <3>6
    <2> QED BY <2>1, <2>2
  <1> HIDE DEF D
  <1>2. D \in Good
    <2> HIDE DEF Good
    <2> QED BY <1>0, <1>1, SetInduction
  <1> QED BY <1>0, <1>2

-----------------------------------------------------------------------------
\* The keys of a list of rows.
LEMMA ListKeys ==
  ASSUME NEW s \in Seq(Keys)
  PROVE  /\ ToSet(s) \in SUBSET Keys /\ IsFiniteSet(ToSet(s)) /\ Bytes(ToSet(s)) \in Nat
         /\ \A x : Contains(s, x) <=> x \in ToSet(s)
         /\ s = <<>> <=> ToSet(s) = {}
  <1>1. Len(s) \in Nat /\ DOMAIN s = 1 .. Len(s) /\ s \in [1 .. Len(s) -> Keys]
    BY LenProperties
  <1>2. ToSet(s) \in SUBSET Keys /\ \A x : Contains(s, x) <=> x \in ToSet(s)
    BY <1>1 DEF ToSet, Contains
  <1>3. IsFiniteSet(1 .. Len(s))
    BY <1>1, FS_Interval
  <1>4. s \in Surjection(1 .. Len(s), ToSet(s))
    BY <1>1 DEF ToSet, Surjection
  <1>5. IsFiniteSet(ToSet(s))
    BY <1>3, <1>4, FS_Surjection
  <1>6. s = <<>> <=> ToSet(s) = {}
    <2>1. s = <<>> <=> Len(s) = 0
      BY EmptySeq
    <2>2. Len(s) = 0 => ToSet(s) = {}
      BY <1>1 DEF ToSet
    <2>3. Len(s) # 0 => s[1] \in ToSet(s)
      BY <1>1 DEF ToSet
    <2> QED BY <2>1, <2>2, <2>3
  <1>7. Bytes(ToSet(s)) \in Nat
    BY <1>2, <1>5, BytesType
  <1> QED BY <1>2, <1>5, <1>6, <1>7

\* The keys of a list are its head and the keys of its tail.
LEMMA ListTail ==
  ASSUME NEW s \in Seq(Keys), s # <<>>
  PROVE  Head(s) \in Keys /\ Tail(s) \in Seq(Keys) /\ ToSet(s) = {Head(s)} \cup ToSet(Tail(s))
  <1>1. /\ Len(s) \in Nat \ {0} /\ DOMAIN s = 1 .. Len(s) /\ Tail(s) \in Seq(Keys)
        /\ Head(s) \in Keys /\ Head(s) = s[1]
        /\ DOMAIN Tail(s) = 1 .. Len(s) - 1
        /\ \A i \in 1 .. Len(s) - 1 : Tail(s)[i] = s[i + 1]
    BY HeadTailProperties, LenProperties, EmptySeq
  <1>2. ASSUME NEW x \in ToSet(s) PROVE x \in {Head(s)} \cup ToSet(Tail(s))
    <2>1. PICK i \in 1 .. Len(s) : x = s[i]
      BY <1>1, <1>2 DEF ToSet
    <2>2. CASE i = 1
      BY <1>1, <2>1, <2>2
    <2>3. CASE i # 1
      <3>1. i - 1 \in 1 .. Len(s) - 1 /\ (i - 1) + 1 = i
        BY <1>1, <2>3
      <3>2. Tail(s)[i - 1] = x /\ i - 1 \in DOMAIN Tail(s)
        BY <1>1, <2>1, <3>1
      <3> QED BY <3>2 DEF ToSet
    <2> QED BY <2>2, <2>3
  <1>3. ToSet(Tail(s)) \subseteq ToSet(s)
    <2> SUFFICES ASSUME NEW i \in 1 .. Len(s) - 1 PROVE Tail(s)[i] \in ToSet(s)
      BY <1>1 DEF ToSet
    <2>1. i + 1 \in DOMAIN s /\ Tail(s)[i] = s[i + 1]
      BY <1>1
    <2> QED BY <2>1 DEF ToSet
  <1>4. Head(s) \in ToSet(s)
    BY <1>1 DEF ToSet
  <1> QED BY <1>1, <1>2, <1>3, <1>4

\* The first row and the others.
LEMMA ListBytes ==
  ASSUME NEW s \in Seq(Keys), s # <<>>, IsInjective(s)
  PROVE  IsInjective(Tail(s)) /\ Size[Head(s)] + Bytes(ToSet(Tail(s))) = Bytes(ToSet(s))
  <1>1. Head(s) \in Keys /\ Tail(s) \in Seq(Keys) /\ ToSet(s) = {Head(s)} \cup ToSet(Tail(s))
    BY ListTail
  <1>2. IsInjective(Tail(s)) /\ Head(s) \notin ToSet(Tail(s))
    BY <1>1, TailOfLine, ListKeys
  <1> DEFINE T == ToSet(Tail(s))
             h == Head(s)
  <1>3. T \in SUBSET Keys /\ IsFiniteSet(T)
    BY <1>1, ListKeys
  <1> HIDE DEF T, h
  <1>4. Bytes({h} \cup T) = Size[h] + Bytes(T)
    BY <1>1, <1>2, <1>3, BytesAdd DEF T, h
  <1> QED BY <1>1, <1>2, <1>4 DEF T, h

\* The keys of a row followed by a list.
LEMMA ListCons ==
  ASSUME NEW k \in Keys, NEW s \in Seq(Keys), NEW l, l = <<k>> \o s
  PROVE  l \in Seq(Keys) /\ l # <<>> /\ Head(l) = k /\ Tail(l) = s /\ ToSet(l) = {k} \cup ToSet(s)
  <1>1. <<k>> \in Seq(Keys) /\ Len(<<k>>) = 1 /\ <<k>>[1] = k
    OBVIOUS
  <1>2. /\ l \in Seq(Keys) /\ Len(l) = 1 + Len(s) /\ Len(s) \in Nat
        /\ \A i \in 1 .. 1 + Len(s) : l[i] = IF i <= 1 THEN <<k>>[i] ELSE s[i - 1]
    BY <1>1, ConcatProperties, LenProperties
  <1>3. l # <<>>
    BY <1>2, EmptySeq
  <1>4. /\ Head(l) = l[1] /\ Tail(l) \in Seq(Keys) /\ Len(Tail(l)) = Len(s)
        /\ \A i \in 1 .. Len(s) : Tail(l)[i] = l[i + 1]
    BY <1>2, <1>3, HeadTailProperties
  <1>5. \A i \in 1 .. Len(s) : Tail(l)[i] = s[i]
    <2> TAKE i \in 1 .. Len(s)
    <2>1. i + 1 \in 1 .. 1 + Len(s) /\ ~(i + 1 <= 1) /\ (i + 1) - 1 = i
      BY <1>2
    <2> QED BY <1>2, <1>4, <2>1
  <1>6. Tail(l) = s
    BY <1>2, <1>4, <1>5, SeqEqual
  <1>7. Head(l) = k
    <2>1. 1 \in 1 .. 1 + Len(s)
      BY <1>2
    <2> QED BY <1>1, <1>2, <1>4, <2>1
  <1> QED BY <1>2, <1>3, <1>6, <1>7, ListTail

-----------------------------------------------------------------------------
\* SweepCounts for the rows l, the sum n, the freed bytes f, the list d and the row w
\* that is in it twice.
Pairs == {{}} \cup {{k} : k \in Keys}
First1(l, n, d, w) ==
    \/ d = <<>> /\ l = <<>>
    \/ \E k \in Keys : d = <<k>> /\ w \subseteq {k} /\ Bytes({k} \cup ToSet(l)) <= n
Rest(n, f, d, w) == IsInjective(Tail(d)) /\ f + Size[Head(d)] + Bytes(ToSet(Tail(d))) <= n + Bytes(w)
CountsAt(s, l, n, f, d, w) ==
    /\ s = "listing" => Bytes(ToSet(l)) <= n
    /\ s = "reading" => f = 0 /\ First1(l, n, d, w)
    /\ s \in {"evicting", "deleting"} => ToSet(l) \subseteq ToSet(d) /\ (d # <<>> => Rest(n, f, d, w))
    /\ s = "deleting" => ~Contains(l, Head(d))

\* SweepCounts, with its variables as arguments.
LEMMA CountsAre ==
  /\ SweepCounts <=> (~disturbed => CountsAt(sweeping, rows, total, freed, todo, twice))
  /\ SweepCounts' <=> (~disturbed' => CountsAt(sweeping', rows', total', freed', todo', twice'))
  BY DEF SweepCounts, CountsAt, First1, Rest, HasRow

\* The bytes of the row that is read twice.
LEMMA PairBytes ==
  ASSUME NEW w \in Pairs
  PROVE  IsFiniteSet(w) /\ w \in SUBSET Keys /\ Bytes(w) \in Nat
  <1>1. IsFiniteSet(w) /\ w \in SUBSET Keys
    BY FS_EmptySet, FS_Singleton DEF Pairs
  <1> QED BY <1>1, BytesType

\* Fewer rows, or a touched one, are no news to the sweep.
LEMMA CountsShrink ==
  ASSUME NEW s, NEW l \in Seq(Keys), NEW n \in Nat, NEW f, NEW d, NEW w, CountsAt(s, l, n, f, d, w),
         NEW m \in Seq(Keys), ToSet(m) \subseteq ToSet(l),
         NEW v, v # w => s = "reading" /\ \E k : d = <<k>> /\ v = {k}
  PROVE  CountsAt(s, m, n, f, d, v)
  <1>1. /\ ToSet(l) \in SUBSET Keys /\ IsFiniteSet(ToSet(l)) /\ \A x : Contains(l, x) <=> x \in ToSet(l)
        /\ \A x : Contains(m, x) <=> x \in ToSet(m)
        /\ l = <<>> => m = <<>>
    BY ListKeys
  <1>2. Bytes(ToSet(m)) \in Nat /\ Bytes(ToSet(l)) \in Nat /\ Bytes(ToSet(m)) <= Bytes(ToSet(l))
    BY <1>1, BytesGrow
  <1>3. s = "listing" => Bytes(ToSet(m)) <= n
    BY <1>2 DEF CountsAt
  <1>4. ASSUME s = "reading" PROVE f = 0 /\ First1(m, n, d, v)
    <2>1. CASE d = <<>> /\ l = <<>>
      BY <1>1, <1>4, <2>1 DEF CountsAt, First1
    <2>2. ASSUME NEW k \in Keys, d = <<k>>, w \subseteq {k}, Bytes({k} \cup ToSet(l)) <= n
          PROVE  First1(m, n, d, v)
      <3>1. v \subseteq {k}
        <4>1. CASE v = w
          BY <2>2, <4>1
        <4>2. ASSUME NEW q, d = <<q>>, v = {q} PROVE v \subseteq {k}
          <5>1. <<q>>[1] = <<k>>[1]
            BY <2>2, <4>2
          <5> QED BY <4>2, <5>1
        <4> QED BY <4>1, <4>2
      <3> DEFINE L == {k} \cup ToSet(l)
                 M == {k} \cup ToSet(m)
      <3>2. L \in SUBSET Keys /\ M \in SUBSET L
        BY <1>1
      <3>3. IsFiniteSet(L)
        BY <1>1, BytesAdd
      <3> HIDE DEF L, M
      <3>4. Bytes(M) \in Nat /\ Bytes(L) \in Nat /\ Bytes(M) <= Bytes(L)
        BY <3>2, <3>3, BytesGrow
      <3>5. Bytes(L) <= n
        BY <2>2 DEF L
      <3>6. Bytes(M) <= n
        BY <3>4, <3>5
      <3> QED BY <2>2, <3>1, <3>6 DEF First1, M
    <2> QED BY <1>4, <2>1, <2>2 DEF CountsAt, First1
  <1>5. ASSUME s \in {"evicting", "deleting"}
        PROVE  ToSet(m) \subseteq ToSet(d) /\ (d # <<>> => Rest(n, f, d, v))
    <2>1. v = w
      BY <1>5
    <2> QED BY <1>5, <2>1 DEF CountsAt
  <1>6. s = "deleting" => ~Contains(m, Head(d))
    BY <1>1 DEF CountsAt
  <1> QED BY <1>3, <1>4, <1>5, <1>6 DEF CountsAt

\* The rest of the rows is read.
LEMMA CountsRead ==
  ASSUME NEW l \in Seq(Keys), IsInjective(l), NEW n \in Nat, NEW f, NEW d \in Seq(Keys), NEW w \in Pairs,
         CountsAt("reading", l, n, f, d, w),
         NEW e, e = IF d = <<>> THEN <<>> ELSE IF Contains(l, Head(d)) /\ w = {} THEN l ELSE d \o l
  PROVE  e \in Seq(Keys) /\ CountsAt("evicting", l, n, f, e, w)
  <1>0. f = 0 /\ First1(l, n, d, w) /\ Bytes(w) \in Nat
    BY PairBytes DEF CountsAt
  <1>1. CASE d = <<>> /\ l = <<>>
    <2>1. e = l /\ e = <<>>
      BY <1>1
    <2>2. ToSet(l) \subseteq ToSet(e)
      BY <2>1
    <2> QED BY <2>1, <2>2 DEF CountsAt
  <1>2. ASSUME NEW k \in Keys, d = <<k>>, w \subseteq {k}, Bytes({k} \cup ToSet(l)) <= n
        PROVE  e \in Seq(Keys) /\ CountsAt("evicting", l, n, f, e, w)
    <2> DEFINE R == ToSet(l)
    <2>1. /\ R \in SUBSET Keys /\ IsFiniteSet(R) /\ (Contains(l, k) <=> k \in R)
      BY ListKeys
    <2>2. d # <<>> /\ Head(d) = k
      BY <1>2
    <2> HIDE DEF R
    <2>3. /\ Bytes(R) \in Nat /\ Size[k] \in Nat
          /\ Bytes({k} \cup R) = IF k \in R THEN Bytes(R) ELSE Size[k] + Bytes(R)
      BY <2>1, BytesAdd
    <2>4. Bytes({k} \cup R) <= n
      BY <1>2 DEF R
    <2>5. CASE k \in R /\ w = {}
      <3>1. e = l
        BY <2>1, <2>2, <2>5
      <3>2. l # <<>>
        BY <2>5, ListKeys DEF R
      <3>3. Rest(n, f, l, w)
        <4>1. IsInjective(Tail(l)) /\ Size[Head(l)] + Bytes(ToSet(Tail(l))) = Bytes(R)
          BY <3>2, ListBytes DEF R
        <4>2. Bytes(R) <= n
          BY <2>3, <2>4, <2>5
        <4>3. PICK a, b : a = Size[Head(l)] /\ b = Bytes(ToSet(Tail(l)))
          OBVIOUS
        <4>4. a \in Nat /\ b \in Nat
          BY <3>2, <4>3, ListTail, ListKeys, SizesAreNumbers
        <4>5. f + a + b <= n + Bytes(w)
          BY <1>0, <2>3, <4>1, <4>2, <4>3, <4>4
        <4> QED BY <4>1, <4>3, <4>5 DEF Rest
      <3> QED BY <3>1, <3>2, <3>3 DEF CountsAt
    <2>6. CASE ~(k \in R /\ w = {})
      <3>1. e = <<k>> \o l
        BY <1>2, <2>1, <2>2, <2>6
      <3>2. e \in Seq(Keys) /\ e # <<>> /\ Head(e) = k /\ Tail(e) = l /\ ToSet(e) = {k} \cup R
        BY <3>1, ListCons DEF R
      <3>3. Size[k] + Bytes(R) <= n + Bytes(w)
        <4>1. CASE k \notin R
          BY <1>0, <2>3, <2>4, <4>1
        <4>2. CASE k \in R
          <5>1. w = {k}
            BY <1>2, <2>6, <4>2
          <5>2. Bytes({k}) = Size[k]
            <6>1. Bytes({k} \cup {}) = Size[k] + Bytes({})
              BY FS_EmptySet, BytesAdd
            <6>2. {k} \cup {} = {k}
              OBVIOUS
            <6> QED BY <2>3, <6>1, <6>2, BytesOfNone
          <5> QED BY <2>3, <2>4, <4>2, <5>1, <5>2
        <4> QED BY <4>1, <4>2
      <3>4. Rest(n, f, e, w)
        <4>1. f + Size[k] + Bytes(R) <= n + Bytes(w)
          BY <1>0, <2>3, <3>3
        <4> QED BY <3>2, <4>1 DEF Rest, R
      <3> QED BY <3>2, <3>4 DEF CountsAt, R
    <2> QED BY <2>5, <2>6
  <1> QED BY <1>0, <1>1, <1>2 DEF First1

\* A row is out of the list once its DELETE is committed.
LEMMA CountsNext ==
  ASSUME NEW l \in Seq(Keys), NEW n \in Nat, NEW f \in Nat, NEW d \in Seq(Keys), NEW w \in Pairs,
         CountsAt("deleting", l, n, f, d, w), d # <<>>
  PROVE  CountsAt("evicting", l, n, f + Size[Head(d)], Tail(d), w)
  <1>1. d # <<>> /\ ~Contains(l, Head(d)) /\ ToSet(l) \subseteq ToSet(d) /\ Rest(n, f, d, w)
    BY DEF CountsAt
  <1>2. PICK t : t = Tail(d)
    OBVIOUS
  <1>3. Head(d) \in Keys /\ t \in Seq(Keys) /\ ToSet(d) = {Head(d)} \cup ToSet(t)
    BY <1>1, <1>2, ListTail
  <1>4. ToSet(l) \subseteq ToSet(t)
    BY <1>1, <1>3, ListKeys
  <1>5. ASSUME t # <<>> PROVE Rest(n, f + Size[Head(d)], t, w)
    <2>1. IsInjective(t) /\ f + Size[Head(d)] + Bytes(ToSet(t)) <= n + Bytes(w)
      BY <1>1, <1>2 DEF Rest
    <2>2. IsInjective(Tail(t)) /\ Size[Head(t)] + Bytes(ToSet(Tail(t))) = Bytes(ToSet(t))
      BY <1>3, <1>5, <2>1, ListBytes
    <2>3. Head(t) \in Keys /\ Bytes(ToSet(Tail(t))) \in Nat
      BY <1>3, <1>5, ListTail, ListKeys
    <2>4. PICK a, b, c : a = Size[Head(t)] /\ b = Bytes(ToSet(Tail(t))) /\ c = Size[Head(d)]
      OBVIOUS
    <2>5. a \in Nat /\ b \in Nat /\ c \in Nat /\ Bytes(w) \in Nat
      BY <1>3, <2>3, <2>4, SizesAreNumbers, PairBytes
    <2>6. f + c + (a + b) <= n + Bytes(w)
      BY <2>1, <2>2, <2>4
    <2>7. (f + c) + a + b <= n + Bytes(w)
      BY <2>5, <2>6
    <2> QED BY <2>2, <2>4, <2>7 DEF Rest
  <1> QED BY <1>2, <1>4, <1>5 DEF CountsAt

-----------------------------------------------------------------------------
\* No sweep runs at the start.
LEMMA SweepInit == Init => SweepTypeOK /\ SweepCounts
  <1>1. Init => SweepTypeOK
    <2> SUFFICES ASSUME Init PROVE SweepTypeOK
      OBVIOUS
    <2>1. /\ sweeping = "asleep" /\ total = 0 /\ freed = 0 /\ todo = <<>> /\ twice = {} /\ disturbed = FALSE
          /\ todo \in Seq(Keys)
      BY EmptySeq DEF Init
    <2> QED BY <2>1 DEF SweepTypeOK
  <1>2. Init => sweeping = "asleep"
    BY DEF Init
  <1> QED BY <1>1, <1>2 DEF SweepCounts

\* What a step of a request does to the rows of a sweep.
RowsLast ==
    /\ ToSet(rows') \subseteq ToSet(rows)
    /\ UNCHANGED <<sweeping, total, freed, todo, disturbed>>
    /\ twice' # twice => sweeping = "reading" /\ \E k : todo = <<k>> /\ twice' = {k}

\* A step that adds no row and no byte keeps the counts.
LEMMA RowsShrink ==
  ASSUME CacheTypeOK, CacheTypeOK', SweepTypeOK, SweepCounts, RowsLast, twice' \in Pairs
  PROVE  SweepTypeOK' /\ SweepCounts'
  <1>1. SweepTypeOK'
    BY DEF RowsLast, SweepTypeOK, Pairs
  <1>2. /\ rows \in Seq(Keys) /\ rows' \in Seq(Keys) /\ total \in Nat
        /\ ToSet(rows') \subseteq ToSet(rows)
        /\ twice' # twice => sweeping = "reading" /\ \E k : todo = <<k>> /\ twice' = {k}
    BY DEF CacheTypeOK, SweepTypeOK, RowsLast
  <1>3. CountsAt(sweeping, rows, total, freed, todo, twice)
        => CountsAt(sweeping, rows', total, freed, todo, twice')
    BY <1>2, CountsShrink
  <1> QED BY <1>1, <1>3, CountsAre DEF RowsLast

\* A touched or stored row is the latest, and nothing else happens to the rows.
LEMMA MoveIs ==
  ASSUME CacheTypeOK, SweepTypeOK, NEW k \in Keys, Move(k)
  PROVE  /\ ToSet(rows') = {k} \cup ToSet(rows) /\ twice' \in Pairs
         /\ twice' # twice => sweeping = "reading" /\ todo = <<k>> /\ twice' = {k}
  <1>1. rows' = Latest(k) /\ twice' = IF sweeping = "reading" /\ todo = <<k>> THEN {k} ELSE twice
    BY DEF Move
  <1>2. /\ Latest(k) \in Seq(Keys) /\ rows \in Seq(Keys)
        /\ \A x : Contains(Latest(k), x) <=> Contains(rows, x) \/ x = k
    BY LatestProperties DEF CacheTypeOK
  <1>3. \A x : x \in ToSet(Latest(k)) <=> x \in ToSet(rows) \/ x = k
    BY <1>2, ListKeys
  <1> QED BY <1>1, <1>3 DEF SweepTypeOK, Pairs

\* Every step keeps the counts of a sweep.
LEMMA SweepStep ==
  ASSUME CacheTypeOK, CacheTypeOK', SweepTypeOK, SweepCounts, [Next]_vars
  PROVE  SweepTypeOK' /\ SweepCounts'
  <1>0. /\ rows \in Seq(Keys) /\ IsInjective(rows) /\ rows' \in Seq(Keys) /\ key \in [Requests -> Keys]
        /\ todo \in Seq(Keys) /\ total \in Nat /\ freed \in Nat /\ twice \in Pairs /\ disturbed \in BOOLEAN
        /\ sweeping \in {"asleep", "listing", "reading", "evicting", "deleting"}
    BY DEF CacheTypeOK, SweepTypeOK, Pairs
  <1>1. ASSUME NEW r \in Requests, Ask(r) \/ Acquire(r) \/ ProbeMiss(r) \/ Purged(r) \/ Touched(r) \/ Stored(r)
                                   \/ Open(r) \/ FetchFails(r)
        PROVE  RowsLast /\ twice' \in Pairs
    BY <1>0, <1>1 DEF Ask, Acquire, ProbeMiss, Purged, Touched, Stored, Open, FetchFails, sweepVars, RowsLast
  <1>2. ASSUME NEW r \in Requests, ProbeGhost(r) PROVE RowsLast /\ twice' \in Pairs
    <2>1. rows' = Without(key[r]) /\ UNCHANGED <<sweeping, total, freed, todo, twice, disturbed>>
      BY <1>2 DEF ProbeGhost, sweepVars
    <2>2. \A x : Contains(rows', x) => Contains(rows, x)
      BY <2>1, WithoutType
    <2>3. ToSet(rows') \subseteq ToSet(rows)
      BY <1>0, <2>2, ListKeys
    <2> QED BY <1>0, <2>1, <2>3 DEF RowsLast
  <1>3. ASSUME NEW r \in Requests, ProbeHit(r) PROVE RowsLast /\ twice' \in Pairs
    <2>1. key[r] \in Keys /\ UNCHANGED <<sweeping, total, freed, todo, disturbed>>
      BY <1>0, <1>3 DEF ProbeHit
    <2>2. CASE HasRow(key[r])
      <3>1. Move(key[r]) /\ key[r] \in ToSet(rows)
        BY <1>0, <1>3, <2>2, ListKeys DEF ProbeHit, HasRow
      <3>2. /\ ToSet(rows') = {key[r]} \cup ToSet(rows) /\ twice' \in Pairs
            /\ twice' # twice => sweeping = "reading" /\ todo = <<key[r]>> /\ twice' = {key[r]}
        BY <2>1, <3>1, MoveIs
      <3> QED BY <2>1, <3>1, <3>2 DEF RowsLast
    <2>3. CASE ~HasRow(key[r])
      <3>1. UNCHANGED <<rows, twice>>
        BY <1>3, <2>3 DEF ProbeHit
      <3> QED BY <1>0, <2>1, <3>1 DEF RowsLast
    <2> QED BY <2>2, <2>3
  <1>4. ASSUME NEW r \in Requests, Fetched(r) PROVE SweepTypeOK' /\ SweepCounts'
    <2>1. /\ key[r] \in Keys /\ Move(key[r]) /\ UNCHANGED <<sweeping, total, freed, todo>>
          /\ disturbed' = (sweeping # "asleep")
      BY <1>0, <1>4 DEF Fetched
    <2>2. twice' \in Pairs
      BY <2>1, MoveIs
    <2>3. SweepTypeOK'
      BY <1>0, <2>1, <2>2 DEF SweepTypeOK, Pairs
    <2>4. ~disturbed' => sweeping' = "asleep"
      BY <2>1
    <2> QED BY <2>3, <2>4 DEF SweepCounts
  <1>5. CASE SweepSum
    <2>1. /\ sweeping' = "listing" /\ total' = Bytes(ToSet(rows))
          /\ UNCHANGED <<rows, freed, todo, twice, disturbed>>
      BY <1>5 DEF SweepSum
    <2>2. total' \in Nat /\ Bytes(ToSet(rows')) <= total'
      BY <1>0, <2>1, ListKeys
    <2> QED BY <1>0, <2>1, <2>2, CountsAre DEF SweepTypeOK, CountsAt, Pairs
  <1>6. CASE SweepFirst
    <2>1. /\ sweeping = "listing" /\ sweeping' = "reading" /\ freed' = 0 /\ twice' = {}
          /\ UNCHANGED <<rows, total, disturbed>>
          /\ todo' = IF rows = <<>> THEN <<>> ELSE <<Head(rows)>>
      BY <1>6 DEF SweepFirst
    <2>2. rows # <<>> => Head(rows) \in Keys /\ {Head(rows)} \cup ToSet(rows) = ToSet(rows)
      BY <1>0, ListTail
    <2>3. SweepTypeOK'
      BY <1>0, <2>1, <2>2 DEF SweepTypeOK
    <2>4. ~disturbed => Bytes(ToSet(rows)) <= total
      BY <2>1, CountsAre DEF CountsAt
    <2>5. ~disturbed => First1(rows, total, todo', {})
      BY <2>1, <2>2, <2>4 DEF First1
    <2> QED BY <2>1, <2>3, <2>5, CountsAre DEF CountsAt
  <1>7. CASE SweepRest
    <2>1. /\ sweeping = "reading" /\ sweeping' = "evicting"
          /\ UNCHANGED <<rows, total, freed, twice, disturbed>>
          /\ todo' = IF todo = <<>> THEN <<>>
                     ELSE IF Contains(rows, Head(todo)) /\ twice = {} THEN rows ELSE todo \o rows
      BY <1>7 DEF SweepRest, HasRow
    <2>2. todo' \in Seq(Keys)
      BY <1>0, <2>1, ConcatProperties, EmptySeq
    <2>3. ~disturbed => CountsAt("evicting", rows, total, freed, todo', twice)
      BY <1>0, <2>1, CountsRead, CountsAre
    <2> QED BY <1>0, <2>1, <2>2, <2>3, CountsAre DEF SweepTypeOK, Pairs
  <1>8. CASE Evict
    <2>1. /\ sweeping = "evicting" /\ sweeping' = "deleting" /\ todo # <<>> /\ rows' = Without(Head(todo))
          /\ UNCHANGED <<total, freed, todo, twice, disturbed>>
      BY <1>8 DEF Evict
    <2>2. \A x : Contains(rows', x) <=> Contains(rows, x) /\ x # Head(todo)
      BY <2>1, WithoutType
    <2>3. ToSet(rows') \subseteq ToSet(rows)
      BY <1>0, <2>2, ListKeys
    <2>4. SweepTypeOK'
      BY <1>0, <2>1 DEF SweepTypeOK, Pairs
    <2>5. ~disturbed => CountsAt("deleting", rows', total, freed, todo, twice)
      <3>1. ~disturbed => CountsAt("evicting", rows, total, freed, todo, twice)
        BY <2>1, CountsAre
      <3> QED BY <2>1, <2>2, <2>3, <3>1 DEF CountsAt
    <2> QED BY <2>1, <2>4, <2>5, CountsAre
  <1>9. CASE EvictFails
    <2>1. /\ sweeping = "evicting" /\ todo # <<>> /\ todo' = Tail(todo) /\ disturbed' = TRUE
          /\ UNCHANGED <<sweeping, total, freed, twice>>
      BY <1>9 DEF EvictFails
    <2>2. Tail(todo) \in Seq(Keys)
      BY <1>0, <2>1, ListTail
    <2> QED BY <1>0, <2>1, <2>2 DEF SweepTypeOK, SweepCounts, Pairs
  <1>10. CASE Evicted
    <2>1. /\ sweeping = "deleting" /\ sweeping' = "evicting" /\ todo' = Tail(todo)
          /\ freed' = freed + Size[Head(todo)] /\ UNCHANGED <<rows, total, twice, disturbed>>
      BY <1>10 DEF Evicted
    <2>2. todo # <<>>
      BY <2>1 DEF SweepTypeOK
    <2>3. Tail(todo) \in Seq(Keys) /\ Size[Head(todo)] \in Nat
      BY <1>0, <2>2, ListTail, SizesAreNumbers
    <2>4. SweepTypeOK'
      <3>1. freed' \in Nat
        BY <1>0, <2>1, <2>3
      <3> QED BY <1>0, <2>1, <2>3, <3>1 DEF SweepTypeOK, Pairs
    <2>5. ~disturbed => CountsAt("evicting", rows, total, freed + Size[Head(todo)], Tail(todo), twice)
      BY <1>0, <2>1, <2>2, CountsNext, CountsAre
    <2> QED BY <2>1, <2>4, <2>5, CountsAre
  <1>11. CASE SweepEnds \/ Crash
    <2>1. NoSweep
      BY <1>11 DEF SweepEnds, Crash
    <2> QED BY <2>1, EmptySeq DEF NoSweep, SweepTypeOK, SweepCounts
  <1>12. CASE UNCHANGED vars
    <2>1. RowsLast /\ twice' \in Pairs
      BY <1>0, <1>12 DEF vars, sweepVars, RowsLast
    <2> QED BY <2>1, RowsShrink
  <1> QED
    BY <1>1, <1>2, <1>3, <1>4, <1>5, <1>6, <1>7, <1>8, <1>9, <1>10, <1>11, <1>12, RowsShrink
    DEF Next, Step, Produce

-----------------------------------------------------------------------------
\* The inductive invariant holds in every reachable state.
THEOREM InvariantHolds == Spec => []MediaInv
  <1>1. Init => MediaInv
    BY TypeInit, LinesInit, AbsentInit, FoundInit, SweepInit DEF MediaInv, TypeOK
  <1>2. MediaInv /\ [Next]_vars => MediaInv'
    BY TypeStep, LinesStep, AbsentStep, FoundStep, SweepStep DEF MediaInv, TypeOK
  <1> QED BY <1>1, <1>2, PTL DEF Spec

\* The types are part of it.
THEOREM TypeCorrect == Spec => []TypeOK
  <1>1. MediaInv => TypeOK
    BY DEF MediaInv
  <1> QED BY <1>1, InvariantHolds, PTL

\* A key is fetched by one request at a time, and only while it has no row, although
\* rows come and go between the lookups (media.py, get_or_fetch).
THEOREM OneProducerPerKey == Spec => []SingleFlight
  <1>1. MediaInv => SingleFlight
    BY DEF MediaInv, SingleFlight, HolderIsHead, Holding, MissedStaysAbsent, Missed
  <1> QED BY <1>1, InvariantHolds, PTL

\* Rows and files part only when the process dies.
THEOREM RowsAndFilesAgree == Spec => OnlyCrashesTear
  <1> USE DEF Goto, requestVars, sweepVars
  <1>1. ASSUME MediaInv, [Next]_vars, crashes' = crashes PROVE Torn' \subseteq Torn
    <2> SUFFICES ASSUME NEW k \in Keys, Contains(rows, k) <=> k \in files
                 PROVE  Contains(rows', k) <=> k \in files'
      BY DEF Torn, HasRow
    <2>1. CacheTypeOK
      BY <1>1 DEF MediaInv, TypeOK
    <2>2. ASSUME NEW r \in Requests, ProbeGhost(r)
          PROVE  Contains(rows', k) <=> k \in files'
      <3>1. rows' = Without(key[r]) /\ key[r] \notin files /\ files' = files
        BY <2>2 DEF ProbeGhost
      <3> QED BY <2>1, <3>1, WithoutType
    <2>3. ASSUME NEW r \in Requests, ProbeHit(r)
          PROVE  Contains(rows', k) <=> k \in files'
      <3>1. /\ rows' = rows \/ (rows' = Latest(key[r]) /\ Contains(rows, key[r]))
            /\ files' = files /\ key[r] \in Keys
        BY <2>1, <2>3 DEF ProbeHit, Move, HasRow, CacheTypeOK
      <3> QED BY <2>1, <3>1, LatestProperties
    <2>4. ASSUME NEW r \in Requests, Fetched(r)
          PROVE  Contains(rows', k) <=> k \in files'
      <3>1. rows' = Latest(key[r]) /\ files' = files \cup {key[r]} /\ key[r] \in Keys
        BY <2>1, <2>4 DEF Fetched, Move, CacheTypeOK
      <3> QED BY <2>1, <3>1, LatestProperties
    <2>5. CASE Evict
      <3>1. rows' = Without(Head(todo)) /\ files' = files \ {Head(todo)}
        BY <2>5 DEF Evict
      <3> QED BY <2>1, <3>1, WithoutType
    <2>6. ASSUME NEW r \in Requests,
                 \/ Ask(r) \/ Acquire(r) \/ ProbeMiss(r) \/ Purged(r)
                 \/ Touched(r) \/ Stored(r) \/ Open(r) \/ FetchFails(r)
          PROVE  UNCHANGED <<rows, files>>
      BY <2>6 DEF Ask, Acquire, ProbeMiss, Purged, Touched, Stored, Open, FetchFails
    <2>7. CASE SweepSum \/ SweepFirst \/ SweepRest \/ EvictFails \/ Evicted \/ SweepEnds
      BY <2>7 DEF SweepSum, SweepFirst, SweepRest, EvictFails, Evicted, SweepEnds
    <2>8. ~Crash
      BY <1>1, <2>1, SizesAreNumbers DEF Crash, CacheTypeOK
    <2>9. CASE UNCHANGED vars
      BY <2>9 DEF vars
    <2> QED
      BY <1>1, <2>2, <2>3, <2>4, <2>5, <2>6, <2>7, <2>8, <2>9 DEF Next, Step, Produce
  <1>2. MediaInv /\ [Next]_vars => [crashes' = crashes => Torn' \subseteq Torn]_vars
    BY <1>1
  <1> QED BY <1>2, InvariantHolds, PTL DEF Spec, OnlyCrashesTear

\* A sweep that no store and no failed unlink fell into ends below 90 percent of the
\* budget, but for the bytes of a row that it read twice.
THEOREM SweepsReachTheirTarget == Spec => SweepReachesTarget
  <1>1. ASSUME MediaInv, [Next]_vars, sweeping = "evicting", sweeping' = "asleep", crashes' = crashes, ~disturbed
        PROVE  10 * Bytes(ToSet(rows)) <= 9 * Budget + 10 * Bytes(twice)
    <2>0. /\ rows \in Seq(Keys) /\ todo \in Seq(Keys) /\ total \in Nat /\ freed \in Nat /\ twice \in Pairs
          /\ crashes \in Nat /\ Budget \in Nat
      BY <1>1, SizesAreNumbers DEF MediaInv, TypeOK, CacheTypeOK, SweepTypeOK, Pairs
    <2>1. SweepEnds
      <3>1. ~Crash
        BY <1>1, <2>0 DEF Crash
      <3>2. \A r \in Requests : Ask(r) \/ Step(r) \/ Produce(r) => sweeping' = sweeping
        BY DEF Ask, Step, Produce, Acquire, ProbeMiss, ProbeGhost, ProbeHit, Purged, Touched, Stored, Open,
           Fetched, FetchFails, sweepVars
      <3>3. SweepSum \/ SweepFirst \/ SweepRest \/ Evict \/ EvictFails \/ Evicted => sweeping' # "asleep"
        BY <1>1 DEF SweepSum, SweepFirst, SweepRest, Evict, EvictFails, Evicted
      <3>4. UNCHANGED vars => sweeping' = sweeping
        BY DEF vars, sweepVars
      <3> QED BY <1>1, <3>1, <3>2, <3>3, <3>4 DEF Next
    <2>2. CountsAt("evicting", rows, total, freed, todo, twice)
      BY <1>1, CountsAre DEF MediaInv
    <2>3. Bytes(twice) \in Nat /\ Bytes(ToSet(rows)) \in Nat
      BY <2>0, PairBytes, ListKeys
    <2>4. CASE todo = <<>>
      <3>1. ToSet(rows) = {}
        BY <2>0, <2>2, <2>4, ListKeys DEF CountsAt
      <3>2. Bytes(ToSet(rows)) = 0
        BY <3>1, BytesOfNone
      <3> QED BY <2>0, <2>3, <3>2
    <2>5. CASE todo # <<>> /\ ~AboveTarget
      <3>1. PICK T, k : T = ToSet(Tail(todo)) /\ k = Head(todo)
        OBVIOUS
      <3>2. k \in Keys /\ T \in SUBSET Keys /\ IsFiniteSet(T) /\ ToSet(rows) \subseteq {k} \cup T
        BY <2>0, <2>2, <2>5, <3>1, ListTail, ListKeys DEF CountsAt
      <3>3. /\ IsFiniteSet({k} \cup T) /\ Bytes(T) \in Nat /\ Size[k] \in Nat
            /\ Bytes({k} \cup T) = IF k \in T THEN Bytes(T) ELSE Size[k] + Bytes(T)
        BY <3>2, BytesAdd
      <3>4. Bytes(ToSet(rows)) <= Bytes({k} \cup T)
        BY <3>2, <3>3, BytesGrow
      <3>5. freed + Size[k] + Bytes(T) <= total + Bytes(twice)
        BY <2>2, <2>5, <3>1 DEF CountsAt, Rest
      <3>6. 10 * (total - freed) <= 9 * Budget
        BY <2>0, <2>5 DEF AboveTarget
      <3>7. Bytes(ToSet(rows)) <= Size[k] + Bytes(T)
        BY <2>3, <3>3, <3>4
      <3>8. PICK a, b, c, e : a = Bytes(ToSet(rows)) /\ b = Size[k] /\ c = Bytes(T) /\ e = Bytes(twice)
        OBVIOUS
      <3>9. a \in Nat /\ b \in Nat /\ c \in Nat /\ e \in Nat
        BY <2>3, <3>3, <3>8
      <3>10. a <= b + c /\ freed + b + c <= total + e
        BY <3>5, <3>7, <3>8
      <3>11. 10 * a <= 9 * Budget + 10 * e
        BY <2>0, <3>6, <3>9, <3>10
      <3> QED BY <3>8, <3>11
    <2> QED BY <2>1, <2>4, <2>5 DEF SweepEnds
  <1>2. MediaInv /\ [Next]_vars =>
          [sweeping = "evicting" /\ sweeping' = "asleep" /\ crashes' = crashes /\ ~disturbed
           => 10 * Bytes(ToSet(rows)) <= 9 * Budget + 10 * Bytes(twice)]_vars
    BY <1>1
  <1> QED BY <1>2, InvariantHolds, PTL DEF Spec, SweepReachesTarget

-----------------------------------------------------------------------------
\* The cache implements FileCache: every step is a step of it or a stutter.
Stages == [r \in Requests |-> Stage(r)]

\* What a step of a request does to the stages.
LEMMA StageStep ==
  ASSUME CacheTypeOK, NEW r \in Requests, NEW s, step' = [step EXCEPT ![r] = s]
  PROVE  Stages' = [Stages EXCEPT ![r] = Stage(r)']
  <1>1. \A q \in Requests : q # r => step'[q] = step[q]
    BY DEF CacheTypeOK
  <1>2. \A q \in Requests : q # r => Stage(q)' = Stage(q)
    BY <1>1 DEF Stage
  <1> QED BY <1>2 DEF Stages

\* As From in FileCache.
LEMMA RequestMoves ==
  ASSUME CacheTypeOK, UNCHANGED key, NEW r \in Requests, NEW s, step' = [step EXCEPT ![r] = s]
  PROVE  /\ Cache!From(r, Stage(r), Stage(r)')
         /\ Stage(r)' = Stage(r) => UNCHANGED <<Stages, key>>
  <1>1. Stages' = [Stages EXCEPT ![r] = Stage(r)']
    BY StageStep
  <1>2. Stages[r] = Stage(r)
    BY DEF Stages
  <1>3. Stage(r)' = Stage(r) => Stages' = Stages
    BY <1>1, <1>2 DEF Stages
  <1> QED BY <1>1, <1>2, <1>3 DEF Cache!From, Stages

\* It starts with what an earlier process left.
LEMMA RefineInit == Init => Cache!Init
  <1> SUFFICES ASSUME Init PROVE Cache!Init
    OBVIOUS
  <1>1. CacheTypeOK
    BY TypeInit
  <1>2. \A r \in Requests : Stage(r) = "unused"
    BY DEF Init, Stage
  <1> QED BY <1>1, <1>2 DEF Cache!Init, Servable, CacheTypeOK

\* One case per action.
LEMMA RefineStep ==
  ASSUME MediaInv, [Next]_vars
  PROVE  [Cache!Next]_(Cache!vars)
  <1> DEFINE Refines == Cache!Next \/ UNCHANGED Cache!vars
  <1> SUFFICES Refines
    OBVIOUS
  <1>0. CacheTypeOK /\ LinesMatch /\ HolderIsHead /\ MissedStaysAbsent /\ FoundFilesHaveRows
    BY DEF MediaInv, TypeOK
  <1>a. /\ files \subseteq Keys /\ key \in [Requests -> Keys]
        /\ step \in [Requests -> {"unused", "lock", "open"} \cup Outside \cup Holding \cup Ended]
    BY <1>0 DEF CacheTypeOK
  <1>b. ASSUME NEW r \in Requests,
               \/ Cache!Ask(r) \/ Cache!Hit(r) \/ Cache!Fetch(r) \/ Cache!Deliver(r) \/ Cache!Fail(r)
               \/ Cache!Serve(r) \/ Cache!Refuse(r)
        PROVE  Refines
    BY <1>b DEF Cache!Next
  <1>c. ASSUME UNCHANGED <<Servable, Stages, key>> PROVE Refines
    BY <1>c DEF Cache!vars, Stages
  <1>d. ASSUME UNCHANGED <<rows, files>> PROVE UNCHANGED Servable
    BY <1>d DEF Servable, HasRow
  <1> USE DEF Goto, requestVars, sweepVars
  <1>1. ASSUME NEW r \in Requests, Ask(r) PROVE Refines
    <2>1. /\ step[r] = "unused" /\ step' = [step EXCEPT ![r] = "probe1"]
          /\ UNCHANGED <<rows, files, key>>
      BY <1>1 DEF Ask
    <2>2. Stage(r) = "unused" /\ Stage(r)' = "asking"
      BY <1>a, <2>1 DEF Stage, Found
    <2>3. Cache!From(r, "unused", "asking")
      BY <1>0, <2>1, <2>2, RequestMoves
    <2> QED BY <1>b, <1>d, <2>1, <2>3 DEF Cache!Ask
  <1>2. ASSUME NEW r \in Requests, Acquire(r) PROVE Refines
    <2>1. /\ step[r] = "lock" /\ step' = [step EXCEPT ![r] = "probe2"]
          /\ UNCHANGED <<rows, files, key>>
      BY <1>2 DEF Acquire
    <2>2. Stage(r)' = Stage(r)
      BY <1>a, <2>1 DEF Stage, Found
    <2> QED BY <1>0, <1>c, <1>d, <2>1, <2>2, RequestMoves
  <1>3. ASSUME NEW r \in Requests, ProbeMiss(r) \/ Purged(r) PROVE Refines
    <2>1. /\ UNCHANGED <<rows, files, key>> /\ Miss(r)
          /\ \/ step[r] \in {"probe1", "probe2"} /\ ~saw[r]
             \/ step[r] \in {"purge1", "purge2"}
      BY <1>3 DEF ProbeMiss, Purged
    <2>2. CASE step[r] \in Outside
      <3>1. step' = [step EXCEPT ![r] = "lock"]
        BY <2>1, <2>2 DEF Miss, Outside, Holding
      <3>2. Stage(r)' = Stage(r)
        BY <1>a, <2>1, <2>2, <3>1 DEF Stage, Found, Outside
      <3> QED BY <1>0, <1>c, <1>d, <2>1, <3>1, <3>2, RequestMoves
    <2>3. CASE step[r] \in Holding
      <3>1. step' = [step EXCEPT ![r] = "fetch"] /\ step[r] \in {"probe2", "purge2"} /\ Missed(r)
        BY <2>1, <2>3 DEF Miss, Outside, Holding, Missed
      <3>2. Stage(r) = "asking" /\ Stage(r)' = "fetching"
        BY <1>a, <3>1 DEF Stage, Found
      <3>3. Cache!From(r, "asking", "fetching")
        BY <1>0, <2>1, <3>1, <3>2, RequestMoves
      <3>4. key[r] \notin Servable
        BY <1>0, <3>1 DEF MissedStaysAbsent, Servable
      <3>5. ASSUME NEW q \in Requests, Stages[q] = "fetching" PROVE key[q] # key[r]
        <4>1. step[q] = "fetch"
          BY <3>5 DEF Stages, Stage
        <4>2. step[q] \in Holding /\ q # r
          BY <3>1, <4>1 DEF Holding
        <4> QED BY <1>0, <2>3, <4>2 DEF HolderIsHead
      <3> QED BY <1>b, <1>d, <2>1, <3>3, <3>4, <3>5 DEF Cache!Fetch, Stages
    <2> QED BY <2>1, <2>2, <2>3 DEF Outside, Holding
  <1>4. ASSUME NEW r \in Requests, ProbeGhost(r) PROVE Refines
    <2>1. /\ step[r] \in {"probe1", "probe2"} /\ \E s \in {"purge1", "purge2"} : step' = [step EXCEPT ![r] = s]
          /\ key[r] \notin files /\ rows' = Without(key[r]) /\ UNCHANGED <<files, key>>
      BY <1>4 DEF ProbeGhost
    <2>2. Servable' = Servable
      BY <1>0, <2>1, WithoutType DEF Servable, HasRow
    <2>3. Stage(r)' = Stage(r)
      BY <1>a, <2>1 DEF Stage, Found
    <2> QED BY <1>0, <1>c, <2>1, <2>2, <2>3, RequestMoves
  <1>5. ASSUME NEW r \in Requests, ProbeHit(r) PROVE Refines
    <2>1. /\ step[r] \in {"probe1", "probe2"} /\ \E s \in {"touch1", "touch2"} : step' = [step EXCEPT ![r] = s]
          /\ key[r] \in files /\ saw[r] /\ UNCHANGED <<files, key>>
          /\ rows' = rows \/ rows' = Latest(key[r])
      BY <1>5 DEF ProbeHit, Move
    <2>2. HasRow(key[r])
      BY <1>0, <2>1 DEF FoundFilesHaveRows
    <2>3. Servable' = Servable
      BY <1>0, <1>a, <2>1, <2>2, LatestProperties DEF Servable, HasRow
    <2>4. Stage(r) = "asking" /\ Stage(r)' = "answered"
      BY <1>a, <2>1 DEF Stage, Found
    <2>5. Cache!From(r, "asking", "answered")
      BY <1>0, <2>1, <2>4, RequestMoves
    <2> QED BY <1>b, <2>1, <2>2, <2>3, <2>5 DEF Cache!Hit, Servable
  <1>6. ASSUME NEW r \in Requests, Touched(r) \/ Stored(r) PROVE Refines
    <2>1. /\ step[r] \in {"touch1", "touch2", "store"} /\ Answer(r) /\ UNCHANGED <<rows, files, key>>
      BY <1>6 DEF Touched, Stored
    <2>2. CASE key[r] \in files
      <3>1. step' = [step EXCEPT ![r] = "open"]
        BY <2>1, <2>2 DEF Answer
      <3>2. Stage(r)' = Stage(r)
        BY <1>a, <2>1, <3>1 DEF Stage, Found
      <3> QED BY <1>0, <1>c, <1>d, <2>1, <3>1, <3>2, RequestMoves
    <2>3. CASE key[r] \notin files
      <3>1. step' = [step EXCEPT ![r] = "gone"]
        BY <2>1, <2>3 DEF Answer
      <3>2. Stage(r) = "answered" /\ Stage(r)' = "refused"
        BY <1>a, <2>1, <3>1 DEF Stage, Found
      <3>3. Cache!From(r, "answered", "refused")
        BY <1>0, <2>1, <3>1, <3>2, RequestMoves
      <3> QED BY <1>b, <1>d, <2>1, <2>3, <3>3 DEF Cache!Refuse, Servable
    <2> QED BY <2>2, <2>3
  <1>7. ASSUME NEW r \in Requests, Open(r) PROVE Refines
    <2>1. /\ step[r] = "open" /\ UNCHANGED <<rows, files, key>>
          /\ step' = [step EXCEPT ![r] = IF key[r] \in files THEN "served" ELSE "error"]
      BY <1>7 DEF Open
    <2>2. key[r] \in files <=> key[r] \in Servable
      BY <1>0, <2>1 DEF FoundFilesHaveRows, Servable, Found
    <2>3. Stage(r) = "answered" /\ Stage(r)' = IF key[r] \in files THEN "served" ELSE "refused"
      BY <1>a, <2>1 DEF Stage, Found
    <2>4. Cache!From(r, "answered", IF key[r] \in files THEN "served" ELSE "refused")
      BY <1>0, <2>1, <2>3, RequestMoves
    <2>5. Cache!Serve(r) \/ Cache!Refuse(r)
      BY <1>d, <2>1, <2>2, <2>4 DEF Cache!Serve, Cache!Refuse
    <2> QED BY <1>b, <2>5
  <1>8. ASSUME NEW r \in Requests, Fetched(r) PROVE Refines
    <2>1. /\ step[r] = "fetch" /\ step' = [step EXCEPT ![r] = "store"] /\ UNCHANGED key
          /\ rows' = Latest(key[r]) /\ files' = files \cup {key[r]}
      BY <1>8 DEF Fetched, Move
    <2>2. Servable' = Servable \cup {key[r]}
      BY <1>0, <1>a, <2>1, LatestProperties DEF Servable, HasRow
    <2>3. Stage(r) = "fetching" /\ Stage(r)' = "answered"
      BY <1>a, <2>1 DEF Stage, Found
    <2>4. Cache!From(r, "fetching", "answered")
      BY <1>0, <2>1, <2>3, RequestMoves
    <2> QED BY <1>b, <2>2, <2>4 DEF Cache!Deliver
  <1>9. ASSUME NEW r \in Requests, FetchFails(r) PROVE Refines
    <2>1. /\ step[r] = "fetch" /\ step' = [step EXCEPT ![r] = "failed"]
          /\ UNCHANGED <<rows, files, key>>
      BY <1>9 DEF FetchFails
    <2>2. Stage(r) = "fetching" /\ Stage(r)' = "failed"
      BY <1>a, <2>1 DEF Stage, Found
    <2>3. Cache!From(r, "fetching", "failed")
      BY <1>0, <2>1, <2>2, RequestMoves
    <2> QED BY <1>b, <1>d, <2>1, <2>3 DEF Cache!Fail
  <1>10. CASE Evict
    <2> DEFINE k == Head(todo)
    <2>1. /\ rows' = Without(k) /\ files' = files \ {k} /\ UNCHANGED <<step, key>> /\ todo # <<>>
      BY <1>10 DEF Evict
    <2>2. k \in Keys
      BY <2>1, ListTail DEF MediaInv, TypeOK, SweepTypeOK
    <2> HIDE DEF k
    <2>3. Servable' = Servable \ {k}
      BY <1>0, <2>1, WithoutType DEF Servable, HasRow
    <2>4. UNCHANGED Stages
      BY <2>1 DEF Stages, Stage
    <2>5. Cache!Forget(k)
      BY <2>1, <2>3, <2>4 DEF Cache!Forget, Stages
    <2> QED BY <2>2, <2>5 DEF Cache!Next
  <1>11. CASE SweepSum \/ SweepFirst \/ SweepRest \/ EvictFails \/ Evicted \/ SweepEnds \/ UNCHANGED vars
    <2>1. UNCHANGED <<rows, files, step, key>>
      BY <1>11 DEF SweepSum, SweepFirst, SweepRest, EvictFails, Evicted, SweepEnds, vars
    <2>2. UNCHANGED Stages
      BY <2>1 DEF Stages, Stage
    <2> QED BY <1>c, <1>d, <2>1, <2>2
  <1>12. CASE Crash
    <2>1. /\ rows' \in {rows, saved} /\ UNCHANGED <<files, key>>
          /\ step' = [r \in Requests |-> IF step[r] \in Ended \cup {"unused"} THEN step[r] ELSE "lost"]
      BY <1>12 DEF Crash
    <2>2. Servable' \in SUBSET Servable
      BY <2>1 DEF MediaInv, SavedFilesHaveRows, Servable, HasRow
    <2>3. \A r \in Requests : Stage(r)' = IF Stage(r) \in {"asking", "fetching", "answered"} THEN "lost" ELSE Stage(r)
      BY <1>a, <2>1 DEF Stage, Found, Ended, Outside, Holding
    <2>4. Stages' = [r \in Requests |-> IF Stages[r] \in {"asking", "fetching", "answered"} THEN "lost" ELSE Stages[r]]
      BY <2>3 DEF Stages
    <2>5. Cache!Restart
      BY <2>1, <2>2, <2>4 DEF Cache!Restart, Stages
    <2> QED BY <2>5 DEF Cache!Next
  <1> HIDE DEF Refines
  <1>13. ASSUME NEW r \in Requests, Ask(r) \/ Step(r) \/ Produce(r) PROVE Refines
    BY <1>13, <1>1, <1>2, <1>3, <1>4, <1>5, <1>6, <1>7, <1>8, <1>9 DEF Step, Produce
  <1> QED
    BY <1>10, <1>11, <1>12, <1>13 DEF Next

\* The media cache is the cache of FileCache to those who use it.
THEOREM MediaCacheImplementsFileCache == Spec => ImplementsFileCache
  <1>1. MediaInv /\ [Next]_vars => [Cache!Next]_(Cache!vars)
    BY RefineStep
  <1> QED BY <1>1, RefineInit, InvariantHolds, PTL DEF Spec, ImplementsFileCache, Cache!Spec
=============================================================================
