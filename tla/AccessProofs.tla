---------------------------- MODULE AccessProofs ----------------------------
(***************************************************************************)
(* Machine-checked proofs about Access, for any addresses, tokens and      *)
(* requests, and any limits.                                               *)
(***************************************************************************)
EXTENDS Access, FiniteSetTheorems, WellFoundedInduction, TLAPS

-----------------------------------------------------------------------------
\* Induction over the natural numbers, and over the subsets of a finite set.

LEMMA SmallestNumber ==
  ASSUME NEW T \in SUBSET Nat, T # {}
  PROVE  \E n \in T : \A m \in T : n <= m
  <1>1. PICK n \in T : \A m \in T : <<m, n>> \notin OpToRel(<, Nat)
    BY NatLessThanWellFounded, WFMin
  <1>2. \A m \in T : ~(m < n)
    BY <1>1 DEF OpToRel
  <1> QED BY <1>2

LEMMA Induction ==
  ASSUME NEW T, 0 \in T, \A n \in Nat : n \in T => n + 1 \in T
  PROVE  Nat \subseteq T
  <1> SUFFICES ASSUME Nat \ T # {} PROVE FALSE
    OBVIOUS
  <1>1. PICK n \in Nat \ T : \A m \in Nat \ T : n <= m
    BY SmallestNumber
  <1>2. n # 0
    BY <1>1
  <1>3. n - 1 \in Nat \ T
    BY <1>1, <1>2
  <1> QED BY <1>1, <1>3

LEMMA SetInduction ==
  ASSUME NEW S, IsFiniteSet(S), NEW Good,
         \A T \in SUBSET S : (\A x \in T : T \ {x} \in Good) => T \in Good
  PROVE  SUBSET S \subseteq Good
  <1> DEFINE Bad == (SUBSET S) \ Good
             R == StrictSubsetOrdering(S)
  <1> SUFFICES ASSUME Bad # {} PROVE FALSE
    OBVIOUS
  <1>1. IsWellFoundedOn(R, SUBSET S)
    <2>1. FiniteSubsetsOf(S) = SUBSET S
      BY FS_Subset DEF FiniteSubsetsOf
    <2>2. IsWellFoundedOn(R, FiniteSubsetsOf(S))
      BY FS_StrictSubsetOrderingWellFounded
    <2> HIDE DEF R
    <2> QED BY <2>1, <2>2
  <1>2. PICK T \in Bad : \A U \in Bad : ~(<<U, T>> \in R)
    <2>1. Bad \subseteq SUBSET S
      OBVIOUS
    <2> HIDE DEF Bad, R
    <2> QED BY <1>1, <2>1, WFMin
  <1>3. PICK x \in T : T \ {x} \notin Good
    BY <1>2
  <1>4. T \ {x} \in Bad
    BY <1>2, <1>3
  <1>5. <<T \ {x}, T>> \in R
    BY <1>3 DEF StrictSubsetOrdering
  <1> QED BY <1>2, <1>4, <1>5

-----------------------------------------------------------------------------
\* Sums over finite sets, as MapThenSumSet adds them up.

Total(f, S) == MapThenSumSet(LAMBDA x : f[x], S)

IsSum(g, f, S) ==
    g = [s \in SUBSET S |-> IF s = {} THEN 0
                            ELSE f[CHOOSE x \in s : TRUE] + g[s \ {CHOOSE x \in s : TRUE}]]

First(s) == CHOOSE x \in s : TRUE
Body(g, f, s) == IF s = {} THEN 0 ELSE f[First(s)] + g[s \ {First(s)}]
Unfolds(g, f, D) == g = [s \in D |-> Body(g, f, s)]
Small(S, n) == {s \in SUBSET S : Cardinality(s) <= n}

LEMMA SumsOfSmall ==
  ASSUME NEW f, NEW S, IsFiniteSet(S), NEW N \in Nat
  PROVE  \E g : Unfolds(g, f, Small(S, N))
  <1> DEFINE T == {n \in Nat : \E g : Unfolds(g, f, Small(S, n))}
  <1>1. \A s \in SUBSET S : /\ IsFiniteSet(s) /\ Cardinality(s) \in Nat /\ (Cardinality(s) = 0 <=> s = {})
                            /\ s # {} => /\ First(s) \in s
                                         /\ s \ {First(s)} \in SUBSET S
                                         /\ Cardinality(s \ {First(s)}) = Cardinality(s) - 1
    <2> TAKE s \in SUBSET S
    <2>1. IsFiniteSet(s)
      BY FS_Subset
    <2>2. s # {} => First(s) \in s
      BY DEF First
    <2>3. \A x \in s : Cardinality(s \ {x}) = Cardinality(s) - 1
      BY <2>1, FS_RemoveElement
    <2> QED BY <2>1, <2>2, <2>3, FS_CardinalityType, FS_EmptySet
  <1>2. 0 \in T
    <2> DEFINE g == [s \in Small(S, 0) |-> 0]
    <2>1. \A s \in Small(S, 0) : Body(g, f, s) = 0
      BY <1>1 DEF Small, Body
    <2>2. Unfolds(g, f, Small(S, 0))
      <3> HIDE DEF Body
      <3> QED BY <2>1 DEF Unfolds
    <2> QED BY <2>2
  <1>3. ASSUME NEW n \in Nat, n \in T PROVE n + 1 \in T
    <2>1. PICK g : Unfolds(g, f, Small(S, n))
      BY <1>3
    <2> DEFINE h == [s \in Small(S, n + 1) |-> Body(g, f, s)]
    <2>2. Small(S, n) \subseteq Small(S, n + 1)
      <3>1. \A s \in SUBSET S : Cardinality(s) \in Nat
        BY <1>1
      <3> QED BY <3>1 DEF Small
    <2>3. \A s \in Small(S, n) : h[s] = g[s]
      BY <2>1, <2>2 DEF Unfolds
    <2>4. \A s \in Small(S, n + 1) : s # {} => s \ {First(s)} \in Small(S, n)
      BY <1>1 DEF Small
    <2> HIDE DEF h
    <2>5. \A s \in Small(S, n + 1) : Body(h, f, s) = Body(g, f, s)
      BY <2>3, <2>4 DEF Body
    <2>6. Unfolds(h, f, Small(S, n + 1))
      BY <2>5 DEF h, Unfolds
    <2> QED BY <2>6
  <1> HIDE DEF T
  <1>4. N \in T
    BY <1>2, <1>3, Induction
  <1> QED BY <1>4 DEF T

LEMMA SumExists ==
  ASSUME NEW f, NEW S, IsFiniteSet(S)
  PROVE  \E g : Unfolds(g, f, SUBSET S)
  <1>1. Cardinality(S) \in Nat
    BY FS_CardinalityType
  <1>2. Small(S, Cardinality(S)) = SUBSET S
    BY FS_Subset DEF Small
  <1>3. \E h : Unfolds(h, f, Small(S, Cardinality(S)))
    BY <1>1, SumsOfSmall
  <1> QED BY <1>2, <1>3

Adds(g, f, S) == \A s \in SUBSET S : g[s] = Body(g, f, s)

LEMMA TotalUnfolds ==
  ASSUME NEW f, NEW S, IsFiniteSet(S)
  PROVE  \E g : Total(f, S) = g[S] /\ Adds(g, f, S)
  <1> DEFINE g == CHOOSE g : IsSum(g, f, S)
  <1>3. \E h : Unfolds(h, f, SUBSET S)
    BY SumExists
  <1>4. \A h : IsSum(h, f, S) <=> Unfolds(h, f, SUBSET S)
    BY DEF Unfolds, IsSum, Body, First
  <1>5. IsSum(g, f, S)
    BY <1>3, <1>4
  <1>6. Total(f, S) = g[S]
    BY DEF Total, IsSum, MapThenSumSet, MapThenFoldSet
  <1> HIDE DEF g
  <1>7. \A s \in SUBSET S : g[s] = Body(g, f, s)
    BY <1>4, <1>5 DEF Unfolds
  <1> QED BY <1>6, <1>7 DEF Adds

\* A function that unfolds like a sum is the sum.
Same(f, e, S) == \A x \in S : f[x] = e[x]

LEMMA TotalIs ==
  ASSUME NEW f, NEW e, NEW S, IsFiniteSet(S), NEW h, Adds(h, e, S), Same(f, e, S)
  PROVE  \A s \in SUBSET S : Total(f, s) = h[s]
  <1>1. ASSUME NEW U \in SUBSET S PROVE Total(f, U) = h[U]
    <2>0. IsFiniteSet(U)
      BY FS_Subset
    <2>1. PICK g : Total(f, U) = g[U] /\ Adds(g, f, U)
      BY <2>0, TotalUnfolds
    <2> DEFINE Good == {s \in SUBSET U : g[s] = h[s]}
    <2>2. {} \in Good
      BY <2>1 DEF Adds, Body
    <2>3. \A T \in SUBSET U : T # {} => (First(T) \in T /\ T \ {First(T)} \in SUBSET U)
      BY DEF First
    <2>4. ASSUME NEW T \in SUBSET U, T # {}, T \ {First(T)} \in Good PROVE T \in Good
      <3>1. g[T] = f[First(T)] + g[T \ {First(T)}] /\ h[T] = e[First(T)] + h[T \ {First(T)}]
        BY <2>1, <2>4 DEF Adds, Body
      <3>2. f[First(T)] = e[First(T)]
        BY <2>3, <2>4 DEF Same
      <3> QED BY <2>4, <3>1, <3>2
    <2> HIDE DEF Good
    <2>5. \A T \in SUBSET U : (\A x \in T : T \ {x} \in Good) => T \in Good
      BY <2>2, <2>3, <2>4
    <2>6. SUBSET U \subseteq Good
      BY <2>0, <2>5, SetInduction
    <2> QED BY <2>1, <2>6 DEF Good
  <1> QED BY <1>1

Counts(f, S) == \A x \in S : f[x] \in Nat

LEMMA TotalFirst ==
  ASSUME NEW f, NEW S, IsFiniteSet(S)
  PROVE  Total(f, S) = IF S = {} THEN 0 ELSE f[First(S)] + Total(f, S \ {First(S)})
  <1>1. PICK g : Total(f, S) = g[S] /\ Adds(g, f, S)
    BY TotalUnfolds
  <1>2. \A s \in SUBSET S : Total(f, s) = g[s]
    <2>1. Same(f, f, S)
      BY DEF Same
    <2> QED BY <1>1, <2>1, TotalIs
  <1>3. g[S] = Body(g, f, S)
    BY <1>1 DEF Adds
  <1>4. Total(f, S \ {First(S)}) = g[S \ {First(S)}]
    BY <1>2
  <1> QED BY <1>1, <1>3, <1>4 DEF Body

LEMMA TotalSame ==
  ASSUME NEW f, NEW e, NEW S, IsFiniteSet(S), Same(f, e, S)
  PROVE  Total(f, S) = Total(e, S)
  <1>1. PICK g : Total(e, S) = g[S] /\ Adds(g, e, S)
    BY TotalUnfolds
  <1> QED BY <1>1, TotalIs

LEMMA TotalType ==
  ASSUME NEW f, NEW S, IsFiniteSet(S), Counts(f, S)
  PROVE  \A T \in SUBSET S : Total(f, T) \in Nat
  <1> DEFINE Good == {T \in SUBSET S : Total(f, T) \in Nat}
  <1>1. ASSUME NEW T \in SUBSET S, \A x \in T : T \ {x} \in Good PROVE T \in Good
    <2>1. Total(f, T) = IF T = {} THEN 0 ELSE f[First(T)] + Total(f, T \ {First(T)})
      BY FS_Subset, TotalFirst
    <2>2. T # {} => First(T) \in T
      BY DEF First
    <2> QED BY <1>1, <2>1, <2>2 DEF Counts
  <1>2. SUBSET S \subseteq Good
    <2> HIDE DEF Good
    <2> QED BY <1>1, SetInduction
  <1> QED BY <1>2

LEMMA TotalRemove ==
  ASSUME NEW f, NEW S, IsFiniteSet(S), Counts(f, S)
  PROVE  \A x \in S : Total(f, S) = f[x] + Total(f, S \ {x})
  <1> DEFINE Good == {T \in SUBSET S : \A x \in T : Total(f, T) = f[x] + Total(f, T \ {x})}
  <1>0. \A T \in SUBSET S : Total(f, T) \in Nat
    BY TotalType
  <1>1. ASSUME NEW T \in SUBSET S, \A x \in T : T \ {x} \in Good PROVE T \in Good
    <2>1. IsFiniteSet(T)
      BY FS_Subset
    <2>2. CASE T = {}
      BY <2>2
    <2>3. CASE T # {}
      <3>1. First(T) \in T /\ f[First(T)] \in Nat
        BY <2>3 DEF First, Counts
      <3>2. Total(f, T) = f[First(T)] + Total(f, T \ {First(T)})
        BY <2>1, <2>3, TotalFirst
      <3>4. ASSUME NEW x \in T PROVE Total(f, T) = f[x] + Total(f, T \ {x})
        <4> DEFINE y == First(T)
        <4>1. CASE x = y
          BY <3>2, <4>1
        <4>2. CASE x # y
          <5> HIDE DEF y
          <5>1. y \in T \ {x} /\ x \in T \ {y}
            BY <3>1, <4>2 DEF y
          <5>2. T \ {x} \in Good /\ T \ {y} \in Good
            BY <1>1, <3>1 DEF y
          <5>3. /\ Total(f, T \ {x}) = f[y] + Total(f, (T \ {x}) \ {y})
                /\ Total(f, T \ {y}) = f[x] + Total(f, (T \ {y}) \ {x})
            BY <5>1, <5>2
          <5>4. (T \ {x}) \ {y} = (T \ {y}) \ {x} /\ (T \ {x}) \ {y} \in SUBSET S
            OBVIOUS
          <5>5. f[x] \in Nat /\ f[y] \in Nat /\ Total(f, T \ {x}) \in Nat /\ Total(f, T \ {y}) \in Nat
            BY <1>0, <3>1 DEF Counts, y
          <5>6. Total(f, (T \ {x}) \ {y}) \in Nat
            BY <1>0, <5>4
          <5> QED BY <3>2, <5>3, <5>4, <5>5, <5>6 DEF y
        <4> QED BY <4>1, <4>2
      <3> QED BY <3>4
    <2> QED BY <2>2, <2>3
  <1>2. S \in Good
    <2> HIDE DEF Good
    <2> QED BY <1>1, SetInduction
  <1> QED BY <1>2

LEMMA TotalEmpty == \A f : Total(f, {}) = 0
  BY FS_EmptySet, TotalFirst

LEMMA TotalUnion ==
  ASSUME NEW f, NEW A, NEW B, IsFiniteSet(A), IsFiniteSet(B), A \cap B = {},
         Counts(f, A), Counts(f, B)
  PROVE  Total(f, A \cup B) = Total(f, A) + Total(f, B)
  <1> DEFINE Good == {T \in SUBSET B : Total(f, A \cup T) = Total(f, A) + Total(f, T)}
  <1>1. ASSUME NEW T \in SUBSET B, \A x \in T : T \ {x} \in Good PROVE T \in Good
    <2>1. IsFiniteSet(T) /\ IsFiniteSet(A \cup T) /\ Counts(f, T) /\ Counts(f, A \cup T)
      BY FS_Subset, FS_Union DEF Counts
    <2>2. Total(f, A) \in Nat /\ \A U \in SUBSET B : Total(f, U) \in Nat
      BY TotalType
    <2>3. CASE T = {}
      BY <2>2, <2>3, TotalEmpty
    <2>4. CASE T # {}
      <3>1. PICK x \in T : TRUE
        BY <2>4
      <3>2. Total(f, A \cup T) = f[x] + Total(f, (A \cup T) \ {x})
        BY <2>1, <3>1, TotalRemove
      <3>3. Total(f, T) = f[x] + Total(f, T \ {x})
        BY <2>1, <3>1, TotalRemove
      <3>4. (A \cup T) \ {x} = A \cup (T \ {x}) /\ T \ {x} \in SUBSET B
        BY <3>1
      <3>5. Total(f, A \cup (T \ {x})) = Total(f, A) + Total(f, T \ {x})
        BY <1>1, <3>1
      <3>6. f[x] \in Nat /\ Total(f, T \ {x}) \in Nat
        BY <2>1, <2>2, <3>1, <3>4 DEF Counts
      <3> QED BY <2>2, <3>2, <3>3, <3>4, <3>5, <3>6
    <2> QED BY <2>3, <2>4
  <1>2. B \in Good
    <2> HIDE DEF Good
    <2> QED BY <1>1, SetInduction
  <1> QED BY <1>2

LEMMA TotalGrows ==
  ASSUME NEW f, NEW A, NEW B, A \subseteq B, IsFiniteSet(B), Counts(f, B)
  PROVE  Total(f, A) <= Total(f, B)
  <1>1. IsFiniteSet(A) /\ IsFiniteSet(B \ A) /\ A \cup (B \ A) = B /\ A \cap (B \ A) = {}
        /\ Counts(f, A) /\ Counts(f, B \ A)
    BY FS_Subset DEF Counts
  <1>2. Total(f, B) = Total(f, A) + Total(f, B \ A)
    BY <1>1, TotalUnion
  <1>3. Total(f, A) \in Nat /\ Total(f, B \ A) \in Nat
    BY TotalType
  <1> QED BY <1>2, <1>3

LEMMA TotalOne ==
  ASSUME NEW f, NEW e, NEW S, IsFiniteSet(S), Counts(f, S), NEW x, NEW m \in Nat,
         Same(e, f, S \ {x}), x \in S => e[x] = f[x] + m
  PROVE  Total(e, S) = Total(f, S) + (IF x \in S THEN m ELSE 0)
  <1>1. Total(f, S) \in Nat
    BY TotalType
  <1>2. CASE x \notin S
    <2>1. Same(e, f, S)
      BY <1>2 DEF Same
    <2>2. Total(e, S) = Total(f, S)
      BY <2>1, TotalSame
    <2> QED BY <1>1, <1>2, <2>2
  <1>3. CASE x \in S
    <2>1. Counts(e, S)
      BY <1>3 DEF Counts, Same
    <2>2. Total(e, S) = e[x] + Total(e, S \ {x}) /\ Total(f, S) = f[x] + Total(f, S \ {x})
      BY <1>3, <2>1, TotalRemove
    <2>3. Total(e, S \ {x}) = Total(f, S \ {x}) /\ Total(f, S \ {x}) \in Nat /\ f[x] \in Nat
      BY <1>3, FS_Subset, TotalSame, TotalType DEF Counts
    <2> QED BY <1>3, <2>2, <2>3
  <1> QED BY <1>2, <1>3

LEMMA TotalBelow ==
  ASSUME NEW f, NEW e, NEW S, IsFiniteSet(S), Counts(f, S), Counts(e, S),
         \A x \in S : e[x] <= f[x]
  PROVE  Total(e, S) <= Total(f, S)
  <1> DEFINE Good == {T \in SUBSET S : Total(e, T) <= Total(f, T)}
  <1>1. ASSUME NEW T \in SUBSET S, \A x \in T : T \ {x} \in Good PROVE T \in Good
    <2>1. IsFiniteSet(T) /\ Counts(f, T) /\ Counts(e, T)
      BY FS_Subset DEF Counts
    <2>2. \A U \in SUBSET S : Total(f, U) \in Nat /\ Total(e, U) \in Nat
      BY TotalType
    <2>3. CASE T = {}
      BY <2>2, <2>3, TotalEmpty
    <2>4. CASE T # {}
      <3>1. PICK x \in T : TRUE
        BY <2>4
      <3>2. Total(f, T) = f[x] + Total(f, T \ {x}) /\ Total(e, T) = e[x] + Total(e, T \ {x})
        BY <2>1, <3>1, TotalRemove
      <3>3. f[x] \in Nat /\ e[x] \in Nat /\ e[x] <= f[x]
            /\ Total(f, T \ {x}) \in Nat /\ Total(e, T \ {x}) \in Nat
        BY <2>1, <2>2, <3>1 DEF Counts
      <3>4. Total(e, T \ {x}) <= Total(f, T \ {x})
        BY <1>1, <3>1
      <3> QED BY <3>2, <3>3, <3>4
    <2> QED BY <2>3, <2>4
  <1>2. S \in Good
    <2> HIDE DEF Good
    <2> QED BY <1>1, SetInduction
  <1> QED BY <1>2

Before(S) == {a - 1 : a \in S}

LEMMA TotalShifts ==
  ASSUME NEW f, NEW e, NEW S, IsFiniteSet(S), S \subseteq Nat \ {0}, IsFiniteSet(Before(S)),
         Counts(f, Before(S)), \A a \in S : e[a] = f[a - 1]
  PROVE  Total(e, S) = Total(f, Before(S))
  <1> DEFINE Good == {T \in SUBSET S : Total(e, T) = Total(f, Before(T))}
  <1>1. ASSUME NEW T \in SUBSET S, \A x \in T : T \ {x} \in Good PROVE T \in Good
    <2>1. Before(T) \subseteq Before(S)
      BY DEF Before
    <2>2. IsFiniteSet(T) /\ Counts(e, T) /\ IsFiniteSet(Before(T)) /\ Counts(f, Before(T))
      <3>1. \A a \in T : e[a] = f[a - 1] /\ a - 1 \in Before(S)
        BY DEF Before
      <3> QED BY <2>1, <3>1, FS_Subset DEF Counts
    <2>3. CASE T = {}
      <3>1. Before(T) = {}
        BY <2>3 DEF Before
      <3> QED BY <2>3, <3>1, TotalEmpty
    <2>4. CASE T # {}
      <3>1. PICK x \in T : TRUE
        BY <2>4
      <3>2. Before(T \ {x}) = Before(T) \ {x - 1} /\ x - 1 \in Before(T)
        BY <3>1 DEF Before
      <3>3. Total(e, T) = e[x] + Total(e, T \ {x})
        BY <2>2, <3>1, TotalRemove
      <3>4. Total(f, Before(T)) = f[x - 1] + Total(f, Before(T) \ {x - 1})
        BY <2>2, <3>2, TotalRemove
      <3>5. Total(e, T \ {x}) = Total(f, Before(T \ {x}))
        BY <1>1, <3>1
      <3>6. e[x] = f[x - 1]
        BY <3>1
      <3> QED BY <3>2, <3>3, <3>4, <3>5, <3>6
    <2> QED BY <2>3, <2>4
  <1>2. S \in Good
    <2> HIDE DEF Good
    <2> QED BY <1>1, SetInduction
  <1> QED BY <1>2

LEMMA TotalZero ==
  ASSUME NEW f, NEW S, IsFiniteSet(S), Counts(f, S), \A x \in S : f[x] = 0
  PROVE  Total(f, S) = 0
  <1> DEFINE Good == {T \in SUBSET S : Total(f, T) = 0}
  <1>1. ASSUME NEW T \in SUBSET S, \A x \in T : T \ {x} \in Good PROVE T \in Good
    <2>1. Total(f, T) = IF T = {} THEN 0 ELSE f[First(T)] + Total(f, T \ {First(T)})
      BY FS_Subset, TotalFirst
    <2>2. T # {} => First(T) \in T
      BY DEF First
    <2> QED BY <1>1, <2>1, <2>2
  <1>2. S \in Good
    <2> HIDE DEF Good
    <2> QED BY <1>1, SetInduction
  <1> QED BY <1>2

-----------------------------------------------------------------------------
\* The sums and the powers of the throttle.

LEMMA AgedIsTotal ==
  ASSUME NEW ip, NEW ages
  PROVE  /\ Aged(ip, ages) = Total(fails[ip], ages)
         /\ Aged(ip, ages)' = Total(fails'[ip], ages)
  BY DEF Aged, Total, MapThenSumSet, MapThenFoldSet


PerIp(F) == [ip \in Ips |-> Total(F[ip], Ages)]

AllRows(g) == g = [s \in SUBSET Ips |-> IF s = {} THEN 0
                                ELSE Aged(First(s), Ages) + g[s \ {First(s)}]]

\* The failures of all addresses are the sum of theirs.
LEMMA InAllIsTotal == InAll = Total(PerIp(fails), Ips)
  <1> DEFINE f == PerIp(fails)
             g == CHOOSE g : AllRows(g)
  <1>1. InAll = g[Ips]
    BY DEF InAll, AllRows, First, MapThenSumSet, MapThenFoldSet
  <1>2. \A ip \in Ips : f[ip] = Aged(ip, Ages)
    BY AgedIsTotal DEF PerIp
  <1>3. \A s \in SUBSET Ips : s # {} => First(s) \in Ips
    BY DEF First
  <1> HIDE DEF f
  <1>4. \A h : AllRows(h) <=> Unfolds(h, f, SUBSET Ips)
    BY <1>2, <1>3 DEF AllRows, Unfolds, Body
  <1>5. \E h : Unfolds(h, f, SUBSET Ips)
    BY NamesAreFinite, SumExists
  <1>6. AllRows(g)
    BY <1>4, <1>5
  <1> HIDE DEF g
  <1>7. Unfolds(g, f, SUBSET Ips)
    BY <1>4, <1>6
  <1>8. Adds(g, f, Ips)
    BY <1>7 DEF Adds, Unfolds
  <1>9. Same(f, f, Ips)
    BY DEF Same
  <1> QED BY <1>1, <1>8, <1>9, NamesAreFinite, TotalIs DEF f

LEMMA InAllNext == (InAll = Total(PerIp(fails), Ips))'
  BY InAllIsTotal, PTL

IsTwoTo(g, N) == g = [n \in 0 .. N |-> IF n = 0 THEN 1 ELSE 2 * g[n - 1]]

LEMMA TwoToIs ==
  \A n \in 0 .. MaxShift : /\ TwoTo[n] = IF n = 0 THEN 1 ELSE 2 * TwoTo[n - 1]
                           /\ TwoTo[n] \in Nat \ {0}
  <1> DEFINE T == {n \in Nat : \E g : IsTwoTo(g, n)}
  <1>1. 0 \in T
    <2>1. IsTwoTo([m \in 0 .. 0 |-> 1], 0)
      BY DEF IsTwoTo
    <2> QED BY <2>1
  <1>2. ASSUME NEW n \in Nat, n \in T PROVE n + 1 \in T
    <2>1. PICK g : IsTwoTo(g, n)
      BY <1>2
    <2> DEFINE h == [m \in 0 .. n + 1 |-> IF m = n + 1 THEN 2 * g[n] ELSE g[m]]
    <2>2. \A m \in 0 .. n + 1 : h[m] = IF m = 0 THEN 1 ELSE 2 * h[m - 1]
      <3>1. \A m \in 0 .. n : g[m] = IF m = 0 THEN 1 ELSE 2 * g[m - 1]
        BY <2>1 DEF IsTwoTo
      <3>2. \A m \in 0 .. n : h[m] = g[m]
        OBVIOUS
      <3>3. h[n + 1] = 2 * g[n]
        OBVIOUS
      <3> HIDE DEF h
      <3>4. \A m \in 0 .. n : m # 0 => m - 1 \in 0 .. n
        OBVIOUS
      <3>5. \A m \in 0 .. n + 1 : m \in 0 .. n \/ m = n + 1
        OBVIOUS
      <3>6. n \in 0 .. n /\ (n + 1) - 1 = n /\ n + 1 # 0
        OBVIOUS
      <3> QED BY <3>1, <3>2, <3>3, <3>4, <3>5, <3>6
    <2>3. h = [m \in 0 .. n + 1 |-> h[m]]
      OBVIOUS
    <2> HIDE DEF h
    <2>4. IsTwoTo(h, n + 1)
      BY <2>2, <2>3 DEF IsTwoTo
    <2> QED BY <2>4
  <1>3. MaxShift \in T
    <2> HIDE DEF T
    <2> QED BY <1>1, <1>2, LimitsAreNumbers, Induction
  <1>4. TwoTo = CHOOSE g : IsTwoTo(g, MaxShift)
    BY DEF TwoTo, IsTwoTo
  <1>5. IsTwoTo(TwoTo, MaxShift)
    BY <1>3, <1>4
  <1>6. \A n \in 0 .. MaxShift : TwoTo[n] = IF n = 0 THEN 1 ELSE 2 * TwoTo[n - 1]
    BY <1>5 DEF IsTwoTo
  <1> DEFINE U == {n \in Nat : n <= MaxShift => TwoTo[n] \in Nat \ {0}}
  <1>7. 0 \in U
    BY <1>6, LimitsAreNumbers
  <1>8. ASSUME NEW n \in Nat, n \in U PROVE n + 1 \in U
    <2>1. CASE n + 1 <= MaxShift
      <3>1. TwoTo[n + 1] = 2 * TwoTo[n]
        <4>1. n + 1 \in 0 .. MaxShift /\ n + 1 # 0 /\ (n + 1) - 1 = n
          BY <2>1, LimitsAreNumbers
        <4> QED BY <1>6, <4>1
      <3>2. TwoTo[n] \in Nat \ {0}
        BY <1>8, <2>1, LimitsAreNumbers
      <3> QED BY <3>1, <3>2
    <2>2. CASE ~(n + 1 <= MaxShift)
      BY <2>2
    <2> QED BY <2>1, <2>2
  <1>9. Nat \subseteq U
    <2> HIDE DEF U
    <2> QED BY <1>7, <1>8, Induction
  <1> QED BY <1>6, <1>9

\* A longer wait for more failures.
LEMMA BackoffGrows ==
  ASSUME NEW m \in Nat, NEW n \in Nat, m <= n, LoginMax <= m
  PROVE  /\ Backoff(m) \in 1 .. Window /\ Backoff(n) \in 1 .. Window
         /\ Backoff(m) <= Backoff(n)
  <1> DEFINE T == {i \in Nat : i <= MaxShift => \A j \in 0 .. i : TwoTo[j] <= TwoTo[i]}
  <1>1. 0 \in T
    BY TwoToIs, LimitsAreNumbers
  <1>2. ASSUME NEW i \in Nat, i \in T PROVE i + 1 \in T
    <2>1. CASE i + 1 <= MaxShift
      <3>1. i + 1 \in 0 .. MaxShift /\ i \in 0 .. MaxShift /\ i + 1 # 0 /\ (i + 1) - 1 = i
        BY <2>1, LimitsAreNumbers
      <3>2. TwoTo[i + 1] = 2 * TwoTo[i] /\ TwoTo[i] \in Nat /\ TwoTo[i] <= TwoTo[i + 1]
        <4>1. TwoTo[i + 1] = 2 * TwoTo[i]
          BY <3>1, TwoToIs
        <4>2. TwoTo[i] \in Nat
          BY <3>1, TwoToIs
        <4> QED BY <4>1, <4>2
      <3>3. \A j \in 0 .. i : TwoTo[j] <= TwoTo[i] /\ TwoTo[j] \in Nat
        <4>1. \A j \in 0 .. i : TwoTo[j] <= TwoTo[i]
          BY <1>2, <3>1
        <4>2. \A j \in 0 .. i : j \in 0 .. MaxShift
          BY <3>1, LimitsAreNumbers
        <4> QED BY <4>1, <4>2, TwoToIs
      <3>4. \A j \in 0 .. i + 1 : j \in 0 .. i \/ j = i + 1
        OBVIOUS
      <3> QED BY <3>2, <3>3, <3>4
    <2>2. CASE ~(i + 1 <= MaxShift)
      BY <2>2
    <2> QED BY <2>1, <2>2
  <1>3. Nat \subseteq T
    <2> HIDE DEF T
    <2> QED BY <1>1, <1>2, Induction
  <1> DEFINE x == Smaller(m - LoginMax, MaxShift)
             y == Smaller(n - LoginMax, MaxShift)
  <1>4. x \in 0 .. MaxShift /\ y \in 0 .. MaxShift /\ x <= y
    BY LimitsAreNumbers DEF Smaller
  <1>5. Backoff(m) = Smaller(Window, TwoTo[x] * Base) /\ Backoff(n) = Smaller(Window, TwoTo[y] * Base)
    BY DEF Backoff
  <1> HIDE DEF x, y, T
  <1>6. TwoTo[x] <= TwoTo[y] /\ TwoTo[x] \in Nat \ {0} /\ TwoTo[y] \in Nat \ {0}
    <2>1. y \in Nat /\ y \in T
      BY <1>3, <1>4
    <2>2. \A j \in 0 .. y : TwoTo[j] <= TwoTo[y]
      BY <1>4, <2>1 DEF T
    <2> QED BY <1>4, <2>2, TwoToIs
  <1>7. \A a, b, c \in Nat \ {0} : a <= b => a * c <= b * c /\ a * c \in Nat \ {0} /\ b * c \in Nat \ {0}
    OBVIOUS
  <1>8. TwoTo[x] * Base <= TwoTo[y] * Base
        /\ TwoTo[x] * Base \in Nat \ {0} /\ TwoTo[y] * Base \in Nat \ {0}
    BY <1>6, <1>7, LimitsAreNumbers
  <1>9. \A a, b \in Nat \ {0} : a <= b => /\ Smaller(Window, a) \in 1 .. Window
                                          /\ Smaller(Window, b) \in 1 .. Window
                                          /\ Smaller(Window, a) <= Smaller(Window, b)
    BY LimitsAreNumbers DEF Smaller
  <1> QED BY <1>5, <1>8, <1>9

-----------------------------------------------------------------------------
\* The failures of one address, F[a] of age a, and n of its requests that have been let
\* pass and have not yet failed.

\* Once w ticks have gone without one, and enough of them are older than that, no request
\* is let pass until the backoff is over: what fails in the meantime was waiting before.
Waited(F, n) ==
    \A k \in 0 .. MaxShift : \A w \in 1 .. Backoff(LoginMax + k) :
        Total(F, w .. Window - 1) >= LoginMax + k /\ Total(F, 0 .. w - 1) >= 1
            => Total(F, 0 .. w - 1) + n <= Cardinality(Requests)

Apart(F) ==
    \A a \in Ages, k \in 0 .. MaxShift :
        Total(F, (a + Backoff(LoginMax + k) .. a + Window - 1) \cap Ages) >= LoginMax + k
            => Total(F, (a .. a + Backoff(LoginMax + k) - 1) \cap Ages) <= Cardinality(Requests)

LEMMA AgesTypes ==
  /\ Hour \in Nat \ {0} /\ Window \in Nat \ {0} /\ Window <= Hour /\ LoginMax \in Nat \ {0}
  /\ Cardinality(Requests) \in Nat
  /\ IsFiniteSet(Ages) /\ 0 \in Ages /\ Ages \subseteq Nat
  /\ \A x, y \in Int : IsFiniteSet(x .. y) /\ IsFiniteSet((x .. y) \cap Ages)
  /\ \A w \in 1 .. Window : w .. Window - 1 \subseteq Ages /\ 0 .. w - 1 \subseteq Ages
  <1>1. Hour \in Nat \ {0} /\ Window \in Nat \ {0} /\ Window <= Hour /\ LoginMax \in Nat \ {0}
    BY LimitsAreNumbers
  <1>2. Cardinality(Requests) \in Nat
    BY NamesAreFinite, FS_CardinalityType
  <1>3. \A x, y \in Int : IsFiniteSet(x .. y)
    BY FS_Interval
  <1>4. IsFiniteSet(Ages)
    BY <1>1, <1>3 DEF Ages
  <1>5. \A x, y \in Int : IsFiniteSet((x .. y) \cap Ages)
    <2>1. \A x, y \in Int : (x .. y) \cap Ages \in SUBSET Ages
      OBVIOUS
    <2> QED BY <1>4, <2>1, FS_Subset
  <1>6. 0 \in Ages /\ Ages \subseteq Nat
    BY <1>1 DEF Ages
  <1>7. \A w \in 1 .. Window : w .. Window - 1 \subseteq Ages /\ 0 .. w - 1 \subseteq Ages
    BY <1>1 DEF Ages
  <1> QED BY <1>1, <1>2, <1>3, <1>4, <1>5, <1>6, <1>7

LEMMA CountsOf ==
  ASSUME NEW F \in [Ages -> Nat], NEW S \in SUBSET Ages
  PROVE  Counts(F, S) /\ IsFiniteSet(S) /\ Total(F, S) \in Nat
  <1>1. Counts(F, S) /\ IsFiniteSet(S)
    BY AgesTypes, FS_Subset DEF Counts
  <1> QED BY <1>1, TotalType

\* One more failure now.
LEMMA OneMore ==
  ASSUME NEW F \in [Ages -> Nat], NEW E, Same(E, F, Ages \ {0}), E[0] = F[0] + 1,
         NEW S \in SUBSET Ages
  PROVE  Total(E, S) = Total(F, S) + (IF 0 \in S THEN 1 ELSE 0)
  <1>1. Same(E, F, S \ {0})
    BY DEF Same
  <1> QED BY <1>1, CountsOf, TotalOne

\* A tick later.
Older(F) == [a \in Ages |-> IF a = 0 THEN 0 ELSE F[a - 1]]

LEMMA OlderTotal ==
  ASSUME NEW F \in [Ages -> Nat], NEW S \in SUBSET Ages
  PROVE  /\ Older(F) \in [Ages -> Nat]
         /\ Before(S \ {0}) \subseteq Ages
         /\ Total(Older(F), S) = Total(F, Before(S \ {0}))
  <1> DEFINE R == Before(S \ {0})
  <1>1. \A a \in Ages \ {0} : a - 1 \in Ages /\ a \in Nat \ {0}
    BY AgesTypes DEF Ages
  <1>2. Older(F) \in [Ages -> Nat]
    <2>1. \A a \in Ages : (IF a = 0 THEN 0 ELSE F[a - 1]) \in Nat
      BY <1>1
    <2> QED BY <2>1 DEF Older
  <1>3. R \subseteq Ages
    BY <1>1 DEF Before
  <1>4. S \ {0} \subseteq Nat \ {0} /\ \A a \in S \ {0} : Older(F)[a] = F[a - 1]
    BY <1>1 DEF Older
  <1> HIDE DEF R
  <1>5. Total(Older(F), S \ {0}) = Total(F, R)
    <2>1. IsFiniteSet(S \ {0})
      BY <1>2, CountsOf
    <2>2. IsFiniteSet(R) /\ Counts(F, R)
      BY <1>3, CountsOf
    <2> QED BY <1>4, <2>1, <2>2, TotalShifts DEF R
  <1>6. CASE 0 \in S
    <2>1. Total(Older(F), S) = Older(F)[0] + Total(Older(F), S \ {0})
      BY <1>2, <1>6, CountsOf, TotalRemove
    <2>2. Older(F)[0] = 0
      BY <1>6 DEF Older
    <2>3. Total(F, R) \in Nat
      BY <1>3, CountsOf
    <2> QED BY <1>2, <1>3, <1>5, <2>1, <2>2, <2>3 DEF R
  <1>7. CASE 0 \notin S
    <2>1. S \ {0} = S
      BY <1>7
    <2> QED BY <1>2, <1>3, <1>5, <2>1 DEF R
  <1> QED BY <1>6, <1>7

LEMMA BackoffIs ==
  ASSUME NEW k \in 0 .. MaxShift
  PROVE  /\ k \in Nat /\ LoginMax + k \in Nat /\ LoginMax <= LoginMax + k
         /\ Backoff(LoginMax + k) \in 1 .. Window
  BY BackoffGrows, LimitsAreNumbers

\* A request that is let pass finds no such wait.
LEMMA PassingWaited ==
  ASSUME NEW F \in [Ages -> Nat], NEW n,
         LET recent == Total(F, 0 .. Window - 1) IN
         ~ (/\ recent >= LoginMax
            /\ Min({a \in Ages : F[a] > 0}) < Backoff(recent))
  PROVE  Waited(F, n)
  <1> SUFFICES ASSUME NEW k \in 0 .. MaxShift, NEW w \in 1 .. Backoff(LoginMax + k),
                      Total(F, w .. Window - 1) >= LoginMax + k, Total(F, 0 .. w - 1) >= 1
               PROVE  FALSE
    BY DEF Waited
  <1> DEFINE recent == Total(F, 0 .. Window - 1)
             old == Total(F, w .. Window - 1)
             new == Total(F, 0 .. w - 1)
  <1>1. w \in 1 .. Window /\ w <= Backoff(LoginMax + k) /\ LoginMax + k \in Nat /\ k \in Nat
    BY BackoffIs, AgesTypes
  <1>2. w .. Window - 1 \subseteq Ages /\ 0 .. w - 1 \subseteq Ages
    BY <1>1, AgesTypes
  <1>3. old \in Nat /\ new \in Nat
    BY <1>2, CountsOf
  <1>4. recent = new + old
    <2>1. (0 .. w - 1) \cup (w .. Window - 1) = 0 .. Window - 1 /\ (0 .. w - 1) \cap (w .. Window - 1) = {}
      BY <1>1, AgesTypes
    <2>2. /\ IsFiniteSet(0 .. w - 1) /\ Counts(F, 0 .. w - 1)
          /\ IsFiniteSet(w .. Window - 1) /\ Counts(F, w .. Window - 1)
      BY <1>2, CountsOf
    <2>3. Total(F, (0 .. w - 1) \cup (w .. Window - 1)) = new + old
      BY <2>1, <2>2, TotalUnion
    <2> QED BY <2>1, <2>3
  <1>5. recent \in Nat /\ LoginMax + k <= recent /\ LoginMax <= recent
    BY <1>1, <1>3, <1>4, AgesTypes
  <1>6. Backoff(LoginMax + k) <= Backoff(recent) /\ Backoff(recent) \in 1 .. Window
        /\ Backoff(LoginMax + k) \in 1 .. Window
    <2>1. LoginMax <= LoginMax + k
      BY <1>1, AgesTypes
    <2> HIDE DEF recent
    <2> QED BY <1>1, <1>5, <2>1, BackoffGrows
  <1>7. PICK a \in 0 .. w - 1 : F[a] # 0
    BY <1>2, <1>3, CountsOf, TotalZero
  <1>8. Min({b \in Ages : F[b] > 0}) \in Nat /\ Min({b \in Ages : F[b] > 0}) <= a
    <2> DEFINE S == {b \in Ages : F[b] > 0}
    <2>1. a \in S /\ S \subseteq Nat
      <3>1. a \in Ages /\ F[a] \in Nat
        BY <1>2
      <3>2. F[a] > 0
        BY <1>7, <3>1
      <3>3. Ages \subseteq Nat
        BY AgesTypes
      <3> QED BY <3>1, <3>2, <3>3
    <2> HIDE DEF S
    <2>2. \E x \in S : \A y \in S : x <= y
      BY <2>1, SmallestNumber
    <2>3. Min(S) \in Nat /\ Min(S) <= a
      BY <2>1, <2>2 DEF Min
    <2> QED BY <2>3 DEF S
  <1>9. Min({b \in Ages : F[b] > 0}) < Backoff(recent)
    <2> HIDE DEF recent
    <2> QED BY <1>1, <1>6, <1>7, <1>8
  <1> QED BY <1>5, <1>9

\* One of those that waited fails.
LEMMA FailingWaited ==
  ASSUME NEW F \in [Ages -> Nat], NEW E, Same(E, F, Ages \ {0}), E[0] = F[0] + 1,
         NEW n \in 1 .. Cardinality(Requests), Waited(F, n)
  PROVE  Waited(E, n - 1)
  <1> SUFFICES ASSUME NEW k \in 0 .. MaxShift, NEW w \in 1 .. Backoff(LoginMax + k),
                      Total(E, w .. Window - 1) >= LoginMax + k
               PROVE  Total(E, 0 .. w - 1) + (n - 1) <= Cardinality(Requests)
    BY DEF Waited
  <1>1. w \in 1 .. Window
    BY BackoffIs, AgesTypes
  <1>2. w .. Window - 1 \subseteq Ages /\ 0 .. w - 1 \subseteq Ages
    BY <1>1, AgesTypes
  <1>3. 0 \in 0 .. w - 1 /\ 0 \notin w .. Window - 1
    BY <1>1
  <1>4. Total(E, w .. Window - 1) = Total(F, w .. Window - 1)
    <2>1. Total(E, w .. Window - 1) = Total(F, w .. Window - 1) + (IF 0 \in w .. Window - 1 THEN 1 ELSE 0)
      BY <1>2, OneMore
    <2>2. Total(F, w .. Window - 1) \in Nat
      BY <1>2, CountsOf
    <2> QED BY <1>3, <2>1, <2>2
  <1>5. Total(E, 0 .. w - 1) = Total(F, 0 .. w - 1) + 1
    BY <1>2, <1>3, OneMore
  <1>6. Total(F, w .. Window - 1) \in Nat /\ Total(F, 0 .. w - 1) \in Nat
    BY <1>2, CountsOf
  <1>7. Total(F, 0 .. w - 1) >= 1 => Total(F, 0 .. w - 1) + n <= Cardinality(Requests)
    BY <1>4, <1>6 DEF Waited
  <1> QED BY <1>5, <1>6, <1>7, AgesTypes

LEMMA TickWaited ==
  ASSUME NEW F \in [Ages -> Nat], NEW n, Waited(F, n)
  PROVE  Waited(Older(F), n)
  <1> SUFFICES ASSUME NEW k \in 0 .. MaxShift, NEW w \in 1 .. Backoff(LoginMax + k),
                      Total(Older(F), w .. Window - 1) >= LoginMax + k,
                      Total(Older(F), 0 .. w - 1) >= 1
               PROVE  Total(Older(F), 0 .. w - 1) + n <= Cardinality(Requests)
    BY DEF Waited
  <1>1. w \in 1 .. Window /\ Backoff(LoginMax + k) \in 1 .. Window
    BY BackoffIs, AgesTypes
  <1>2. w .. Window - 1 \subseteq Ages /\ 0 .. w - 1 \subseteq Ages
    BY <1>1, AgesTypes
  <1>3. Total(Older(F), 0 .. w - 1) = Total(F, 0 .. w - 2)
    <2>1. Before((0 .. w - 1) \ {0}) = 0 .. w - 2
      <3>1. \A a \in (0 .. w - 1) \ {0} : a - 1 \in 0 .. w - 2
        BY <1>1
      <3>2. \A b \in 0 .. w - 2 : b + 1 \in (0 .. w - 1) \ {0} /\ (b + 1) - 1 = b
        BY <1>1
      <3> QED BY <3>1, <3>2 DEF Before
    <2> QED BY <1>2, <2>1, OlderTotal
  <1>4. w # 1
    <2>1. w = 1 => 0 .. w - 2 = {}
      OBVIOUS
    <2> QED BY <1>3, <2>1, TotalEmpty
  <1>5. w - 1 \in 1 .. Backoff(LoginMax + k) /\ w - 1 \in 1 .. Window
    BY <1>1, <1>4, AgesTypes
  <1>6. (w - 1) .. Window - 1 \subseteq Ages
    BY <1>5, AgesTypes
  <1>7. Total(Older(F), w .. Window - 1) <= Total(F, (w - 1) .. Window - 1)
    <2>1. Before((w .. Window - 1) \ {0}) \subseteq (w - 1) .. Window - 1
      BY <1>1, AgesTypes DEF Before
    <2>2. Total(Older(F), w .. Window - 1) = Total(F, Before((w .. Window - 1) \ {0}))
      BY <1>2, OlderTotal
    <2> QED BY <1>6, <2>1, <2>2, CountsOf, TotalGrows
  <1>8. Total(F, (w - 1) .. Window - 1) >= LoginMax + k
    <2>1. Total(F, (w - 1) .. Window - 1) \in Nat
      BY <1>6, CountsOf
    <2>2. Total(Older(F), w .. Window - 1) \in Nat
      BY <1>2, OlderTotal, CountsOf
    <2> QED BY <1>7, <2>1, <2>2, BackoffIs
  <1>9. (w - 1) - 1 = w - 2
    BY <1>1
  <1> QED BY <1>3, <1>5, <1>8, <1>9 DEF Waited

LEMMA ApartNow ==
  ASSUME NEW F \in [Ages -> Nat], NEW n \in Nat, Waited(F, n), NEW k \in 0 .. MaxShift,
         Total(F, (0 + Backoff(LoginMax + k) .. 0 + Window - 1) \cap Ages) >= LoginMax + k
  PROVE  Total(F, (0 .. 0 + Backoff(LoginMax + k) - 1) \cap Ages) <= Cardinality(Requests)
  <1> DEFINE w == Backoff(LoginMax + k)
  <1>1. w \in 1 .. Window
    BY BackoffIs
  <1> HIDE DEF w
  <1>2. (0 + w .. 0 + Window - 1) \cap Ages = w .. Window - 1 /\ (0 .. 0 + w - 1) \cap Ages = 0 .. w - 1
        /\ 0 .. w - 1 \subseteq Ages
    <2>1. w .. Window - 1 \subseteq Ages /\ 0 .. w - 1 \subseteq Ages
      BY <1>1, AgesTypes
    <2>2. 0 + w = w /\ 0 + Window - 1 = Window - 1 /\ 0 + w - 1 = w - 1
      BY <1>1, AgesTypes
    <2> QED BY <2>1, <2>2
  <1>3. w \in 1 .. w
    BY <1>1
  <1>4. Total(F, w .. Window - 1) >= LoginMax + k
    BY <1>2 DEF w
  <1>5. Total(F, 0 .. w - 1) >= 1 => Total(F, 0 .. w - 1) + n <= Cardinality(Requests)
    BY <1>3, <1>4 DEF w, Waited
  <1>6. Total(F, 0 .. w - 1) \in Nat
    BY <1>2, CountsOf
  <1>7. Total(F, 0 .. w - 1) <= Cardinality(Requests)
    BY <1>5, <1>6, AgesTypes
  <1> QED BY <1>2, <1>7 DEF w

LEMMA FailingApart ==
  ASSUME NEW F \in [Ages -> Nat], NEW E \in [Ages -> Nat], Same(E, F, Ages \ {0}), E[0] = F[0] + 1,
         NEW n \in Nat, Waited(E, n), Apart(F)
  PROVE  Apart(E)
  <1> SUFFICES ASSUME NEW a \in Ages, NEW k \in 0 .. MaxShift,
                      Total(E, (a + Backoff(LoginMax + k) .. a + Window - 1) \cap Ages) >= LoginMax + k
               PROVE  Total(E, (a .. a + Backoff(LoginMax + k) - 1) \cap Ages) <= Cardinality(Requests)
    BY DEF Apart
  <1>1. CASE a = 0
    BY <1>1, ApartNow
  <1>2. CASE a # 0
    <2>1. Backoff(LoginMax + k) \in Nat /\ a \in Nat /\ a > 0 /\ Window \in Nat
      BY <1>2, BackoffIs, AgesTypes
    <2> DEFINE A == (a + Backoff(LoginMax + k) .. a + Window - 1) \cap Ages
               B == (a .. a + Backoff(LoginMax + k) - 1) \cap Ages
    <2>2. A \in SUBSET Ages /\ B \in SUBSET Ages /\ 0 \notin A /\ 0 \notin B
      BY <2>1
    <2> HIDE DEF A, B
    <2>3. \A S \in SUBSET Ages : 0 \notin S => Total(E, S) = Total(F, S)
      <3> SUFFICES ASSUME NEW S \in SUBSET Ages, 0 \notin S PROVE Total(E, S) = Total(F, S)
        OBVIOUS
      <3>1. Same(E, F, S)
        BY DEF Same
      <3> QED BY <3>1, CountsOf, TotalSame
    <2>4. Total(F, A) >= LoginMax + k => Total(F, B) <= Cardinality(Requests)
      BY DEF Apart, A, B
    <2>5. Total(E, A) = Total(F, A) /\ Total(E, B) = Total(F, B)
      BY <2>2, <2>3
    <2>6. Total(E, A) >= LoginMax + k
      BY DEF A
    <2>7. Total(E, B) <= Cardinality(Requests)
      BY <2>4, <2>5, <2>6
    <2> QED BY <2>7 DEF B
  <1> QED BY <1>1, <1>2

LEMMA TickApart ==
  ASSUME NEW F \in [Ages -> Nat], NEW n \in Nat, Waited(Older(F), n), Apart(F)
  PROVE  Apart(Older(F))
  <1> DEFINE E == Older(F)
  <1> SUFFICES ASSUME NEW a \in Ages, NEW k \in 0 .. MaxShift,
                      Total(E, (a + Backoff(LoginMax + k) .. a + Window - 1) \cap Ages) >= LoginMax + k
               PROVE  Total(E, (a .. a + Backoff(LoginMax + k) - 1) \cap Ages) <= Cardinality(Requests)
    BY DEF Apart
  <1>0. E \in [Ages -> Nat]
    BY OlderTotal
  <1>1. CASE a = 0
    <2> HIDE DEF E
    <2> QED BY <1>0, <1>1, ApartNow DEF E
  <1>2. CASE a # 0
    <2> DEFINE w == Backoff(LoginMax + k)
               A == (a + w .. a + Window - 1) \cap Ages
               B == (a .. a + w - 1) \cap Ages
               C == (a - 1 + w .. a - 1 + Window - 1) \cap Ages
               D == (a - 1 .. a - 1 + w - 1) \cap Ages
    <2>1. w \in Nat /\ a - 1 \in Ages /\ a \in Nat /\ a > 0 /\ Window \in Nat
      BY <1>2, BackoffIs, AgesTypes DEF Ages
    <2>2. \A b \in Ages \ {0} : b - 1 \in Ages /\ b \in Nat
      BY AgesTypes DEF Ages
    <2>3. A \in SUBSET Ages /\ B \in SUBSET Ages /\ C \in SUBSET Ages /\ D \in SUBSET Ages
      OBVIOUS
    <2> HIDE DEF w
    <2>4. Before(A \ {0}) \subseteq C /\ Before(B \ {0}) \subseteq D
      <3>1. \A b \in A \ {0} : b - 1 \in C
        BY <2>1, <2>2
      <3>2. \A b \in B \ {0} : b - 1 \in D
        BY <2>1, <2>2
      <3> QED BY <3>1, <3>2 DEF Before
    <2>5. Total(E, A) >= LoginMax + k
      BY DEF w
    <2>6. Total(F, C) >= LoginMax + k => Total(F, D) <= Cardinality(Requests)
      BY <2>1 DEF Apart, w
    <2> HIDE DEF A, B, C, D
    <2>7. \A S, T \in SUBSET Ages : Before(S \ {0}) \subseteq T =>
              Total(E, S) <= Total(F, T) /\ Total(E, S) \in Nat /\ Total(F, T) \in Nat
      <3> SUFFICES ASSUME NEW S \in SUBSET Ages, NEW T \in SUBSET Ages, Before(S \ {0}) \subseteq T
                   PROVE  Total(E, S) <= Total(F, T) /\ Total(E, S) \in Nat /\ Total(F, T) \in Nat
        OBVIOUS
      <3>1. Total(E, S) = Total(F, Before(S \ {0}))
        BY OlderTotal
      <3>2. Total(F, Before(S \ {0})) <= Total(F, T)
        BY CountsOf, TotalGrows
      <3>3. Total(F, T) \in Nat
        BY CountsOf
      <3>4. Total(E, S) \in Nat
        <4> HIDE DEF E
        <4> QED BY <1>0, CountsOf
      <3> QED BY <3>1, <3>2, <3>3, <3>4
    <2>8. Total(E, A) <= Total(F, C) /\ Total(E, A) \in Nat /\ Total(F, C) \in Nat
      BY <2>3, <2>4, <2>7
    <2>9. Total(E, B) <= Total(F, D) /\ Total(E, B) \in Nat /\ Total(F, D) \in Nat
      BY <2>3, <2>4, <2>7
    <2>10. Total(E, B) <= Cardinality(Requests)
      <3>1. LoginMax + k \in Nat /\ Cardinality(Requests) \in Nat
        BY BackoffIs, AgesTypes
      <3> HIDE DEF E
      <3> QED BY <2>5, <2>6, <2>8, <2>9, <3>1
    <2> QED BY <2>10 DEF B, w
  <1> QED BY <1>1, <1>2

-----------------------------------------------------------------------------
\* The inductive invariant: a token that has been logged out has no row, so no
\* request ever finds one that was.
AccessInv ==
    /\ TypeOK
    /\ out \cap sessions = {}
    /\ \A r \in Requests :
         request[r] # Idle => ~request[r].late /\ request[r].by \in Ips \cup issued

\* The same for what a request becomes.
Sound(stage) == stage \in {Idle} \cup Stages
                /\ (stage # Idle => ~stage.late /\ stage.by \in Ips \cup issued)

-----------------------------------------------------------------------------
LEMMA BucketTypes ==
  ASSUME NEW s
  PROVE  Burst(s) \in Nat /\ Burst(s) <= LoginBurst + CallBurst /\ Burst(s) >= 1
  BY LimitsAreNumbers DEF Burst

LEMMA IdleIsIdle == Idle.at = "idle"
  BY DEF Idle

\* A request that has read or counted something is no stage called Idle.
LEMMA StageTypes ==
  ASSUME NEW s \in Stages
  PROVE  /\ s # Idle /\ s.at # "idle"
         /\ s.at \in {"counted", "cleared"} => s.by \in Ips /\ ~s.late
         /\ s.at \in {"live", "expired", "admitted"} => s.by \in Tokens
         /\ s.late \in BOOLEAN
  <1>1. s # Idle /\ s.at # "idle"
    <2>1. s.at \in {"counted", "cleared", "live", "expired", "admitted"}
      BY DEF Stages
    <2> QED BY <2>1, IdleIsIdle
  <1>2. CASE s \in [at : {"counted", "cleared"}, by : Ips, late : {FALSE}]
    <2>1. s.at \in {"counted", "cleared"} /\ s.by \in Ips /\ s.late \in {FALSE}
      BY <1>2
    <2>2. ~s.late /\ s.late \in BOOLEAN
      BY <2>1
    <2> QED BY <1>1, <2>1, <2>2
  <1>3. CASE s \in [at : {"live", "expired", "admitted"}, by : Tokens, late : BOOLEAN]
    BY <1>1, <1>3
  <1> QED BY <1>2, <1>3 DEF Stages

LEMMA AtStages ==
  /\ \A a \in {"counted", "cleared"}, ip \in Ips :
        At(a, ip, FALSE) \in Stages /\ ~At(a, ip, FALSE).late /\ At(a, ip, FALSE).by = ip
  /\ \A a \in {"live", "expired", "admitted"}, t \in Tokens, late \in BOOLEAN :
        At(a, t, late) \in Stages /\ At(a, t, late).late = late /\ At(a, t, late).by = t
  BY DEF At, Stages

\* Going on within the same phase keeps a stage sound.
LEMMA AdvanceStages ==
  ASSUME NEW s \in Stages, ~s.late, s.by \in Ips \cup issued
  PROVE  /\ s.at = "counted" => Sound([s EXCEPT !.at = "cleared"])
         /\ s.at = "live" => Sound([s EXCEPT !.at = "admitted"])
  <1>1. s = [at |-> s.at, by |-> s.by, late |-> s.late]
    BY DEF Stages
  <1>2. ASSUME s.at = "counted" PROVE Sound([s EXCEPT !.at = "cleared"])
    <2>1. [s EXCEPT !.at = "cleared"] = [at |-> "cleared", by |-> s.by, late |-> s.late]
      BY <1>1
    <2>2. s.by \in Ips /\ s.late = FALSE
      BY <1>2, StageTypes
    <2> QED BY <2>1, <2>2 DEF Sound, Stages
  <1>3. ASSUME s.at = "live" PROVE Sound([s EXCEPT !.at = "admitted"])
    <2>1. [s EXCEPT !.at = "admitted"] = [at |-> "admitted", by |-> s.by, late |-> s.late]
      BY <1>1
    <2>2. s.by \in Tokens
      BY <1>3, StageTypes
    <2> QED BY <2>1, <2>2, StageTypes DEF Sound, Stages
  <1> QED BY <1>2, <1>3

\* What a step does to the requests.
RequestsSound == \A r \in Requests : Sound(request[r])

LEMMA SoundRequests ==
  ASSUME AccessInv
  PROVE  request \in [Requests -> {Idle} \cup Stages] /\ RequestsSound
  BY DEF AccessInv, TypeOK, RequestsSound, Sound

LEMMA GotoSound ==
  ASSUME AccessInv, NEW r \in Requests, NEW stage, Sound(stage), Goto(r, stage),
         issued \subseteq issued'
  PROVE  request' \in [Requests -> {Idle} \cup Stages] /\ RequestsSound'
  BY SoundRequests DEF Goto, RequestsSound, Sound

LEMMA IdleSound == Sound(Idle)
  BY DEF Sound

-----------------------------------------------------------------------------
\* The four parts of the state, and what keeps each of them.
FailsOK == fails \in [Ips -> [Ages -> Nat]]
BucketOK == bucket \in [Scopes -> 0 .. LoginBurst + CallBurst]
            /\ \A s \in Scopes : bucket[s] <= Burst(s)
TableOK == sessions \subseteq issued /\ idle \in [Tokens -> 0 .. Ttl + 1]
           /\ issued \subseteq Tokens /\ out \subseteq issued /\ out \cap sessions = {}
RequestOK == request \in [Requests -> {Idle} \cup Stages] /\ RequestsSound

LEMMA Parts == AccessInv <=> FailsOK /\ BucketOK /\ TableOK /\ RequestOK
  BY DEF AccessInv, TypeOK, FailsOK, BucketOK, TableOK, RequestOK, RequestsSound, Sound

LEMMA RecordTypes ==
  ASSUME FailsOK, NEW ip \in Ips, NEW outcome,
         RecordAttempt(ip, outcome) \/ UNCHANGED fails
  PROVE  FailsOK'
  <1>1. CASE UNCHANGED fails
    BY <1>1 DEF FailsOK
  <1>2. CASE RecordAttempt(ip, outcome)
    <2> DEFINE more == IF outcome = "fail" THEN 1 ELSE 0
    <2>1. more \in Nat
      OBVIOUS
    <2>2. fails' = [fails EXCEPT ![ip] = [fails[ip] EXCEPT ![0] = fails[ip][0] + more]]
      BY <1>2 DEF RecordAttempt
    <2>3. fails[ip] \in [Ages -> Nat]
      BY DEF FailsOK
    <2>4. \A f \in [Ages -> Nat] : [f EXCEPT ![0] = f[0] + more] \in [Ages -> Nat]
      <3> TAKE f \in [Ages -> Nat]
      <3>1. ASSUME 0 \in Ages PROVE f[0] + more \in Nat
        BY <2>1, <3>1
      <3> HIDE DEF more
      <3> QED BY <3>1
    <2> HIDE DEF more
    <2> QED BY <2>2, <2>3, <2>4 DEF FailsOK
  <1> QED BY <1>1, <1>2

LEMMA TakeTypes ==
  ASSUME BucketOK, NEW s \in Scopes, (Allowed(s) /\ Take(s)) \/ UNCHANGED bucket
  PROVE  BucketOK'
  <1>1. CASE UNCHANGED bucket
    BY <1>1 DEF BucketOK
  <1>2. CASE Allowed(s) /\ Take(s)
    <2>1. LoginBurst + CallBurst \in Nat
      BY LimitsAreNumbers
    <2>2. bucket[s] - 1 \in 0 .. LoginBurst + CallBurst /\ bucket[s] - 1 <= Burst(s)
      BY <1>2, <2>1, BucketTypes DEF BucketOK, Allowed
    <2>3. \A z \in Scopes : bucket'[z] = IF z = s THEN bucket[s] - 1 ELSE bucket[z]
      BY <1>2 DEF BucketOK, Take
    <2> QED BY <1>2, <2>2, <2>3 DEF BucketOK, Take
  <1> QED BY <1>1, <1>2

LEMMA RefillTypes ==
  ASSUME BucketOK, Refill
  PROVE  BucketOK'
  <1>1. LoginBurst + CallBurst \in Nat /\ Rate \in Nat
    BY LimitsAreNumbers
  <1>2. ASSUME NEW s \in Scopes
        PROVE  bucket'[s] \in 0 .. LoginBurst + CallBurst /\ bucket'[s] <= Burst(s)
    BY <1>1, BucketTypes DEF BucketOK, Refill
  <1> QED BY <1>2 DEF BucketOK, Refill

\* What a logout or an expiry leaves of the table.
LEMMA DropTypes ==
  ASSUME TableOK, NEW t \in issued,
         sessions' = sessions \ {t}, idle' = [idle EXCEPT ![t] = 0],
         issued' = issued, out' \in {out, out \cup {t}}
  PROVE  TableOK'
  <1>1. 0 \in 0 .. Ttl + 1 /\ t \in Tokens
    BY LimitsAreNumbers DEF TableOK
  <1> QED BY <1>1 DEF TableOK

-----------------------------------------------------------------------------
LEMMA InitInv == Init => AccessInv
  <1> SUFFICES ASSUME Init PROVE FailsOK /\ BucketOK /\ TableOK /\ RequestOK
    BY Parts
  <1>1. FailsOK
    BY DEF Init, FailsOK
  <1>2. BucketOK
    BY BucketTypes, LimitsAreNumbers DEF Init, BucketOK
  <1>3. TableOK
    BY LimitsAreNumbers DEF Init, TableOK
  <1>4. RequestOK
    BY IdleSound DEF Init, RequestOK, RequestsSound
  <1> QED BY <1>1, <1>2, <1>3, <1>4

\* What a request that is under way is.
LEMMA UnderWay ==
  ASSUME AccessInv, NEW r \in Requests, request[r].at # "idle"
  PROVE  /\ request[r] \in Stages /\ request[r] # Idle /\ ~request[r].late
         /\ request[r].by \in Ips \cup issued
  BY IdleIsIdle DEF AccessInv, TypeOK

\* The login form: only a right passphrase touches the table, with a new token.
LEMMA LoginStep ==
  ASSUME AccessInv, NEW r \in Requests,
         (\E ip \in Ips : Login(r, ip)) \/ CountAll(r) \/ WrongPassphrase(r) \/ RightPassphrase(r)
  PROVE  AccessInv'
  <1>0. FailsOK /\ BucketOK /\ TableOK /\ RequestOK
    BY Parts
  <1>1. ASSUME NEW ip \in Ips, Login(r, ip) PROVE AccessInv'
    <2>1. BucketOK'
      BY <1>0, <1>1, TakeTypes DEF Login, Scopes
    <2>2. TableOK'
      BY <1>0, <1>1 DEF Login, table, TableOK
    <2>i. issued' = issued
      BY <1>1 DEF Login, table
    <2>3. FailsOK' /\ RequestOK'
      <3>1. CASE Goto(r, At("counted", ip, FALSE)) /\ UNCHANGED fails
        <4>1. Sound(At("counted", ip, FALSE))
          BY AtStages DEF Sound
        <4> QED BY <1>0, <2>i, <3>1, <4>1, GotoSound DEF FailsOK, RequestOK
      <3>2. ASSUME NEW outcome, RecordAttempt(ip, outcome), UNCHANGED request
            PROVE  FailsOK' /\ RequestOK'
        BY <1>0, <2>i, <3>2, RecordTypes DEF RequestOK, RequestsSound, Sound
      <3> QED BY <1>1, <3>1, <3>2 DEF Login
    <2> QED BY <2>1, <2>2, <2>3 DEF FailsOK, BucketOK, TableOK, RequestOK, AccessInv,
                                    TypeOK, RequestsSound, Sound
  <1>2. CASE CountAll(r)
    <2>1. request[r] \in Stages /\ request[r] # Idle /\ ~request[r].late
          /\ request[r].at = "counted" /\ request[r].by \in Ips /\ issued' = issued
      BY <1>2, UnderWay, StageTypes DEF CountAll, table
    <2>2. BucketOK' /\ TableOK'
      BY <1>0, <1>2 DEF CountAll, table, TableOK, BucketOK
    <2>3. CASE Goto(r, Idle) /\ RecordAttempt(request[r].by, "blocked")
      BY <1>0, <2>1, <2>2, <2>3, IdleSound, GotoSound, RecordTypes
         DEF FailsOK, BucketOK, TableOK, RequestOK, AccessInv, TypeOK, RequestsSound, Sound
    <2>4. CASE Advance(r, "cleared") /\ UNCHANGED fails
      <3>1. Goto(r, [request[r] EXCEPT !.at = "cleared"])
        BY <2>4 DEF Advance, Goto
      <3>2. RequestOK'
        BY <2>1, <3>1, AdvanceStages, GotoSound DEF RequestOK
      <3>3. FailsOK'
        BY <1>0, <2>4 DEF FailsOK
      <3> QED BY <2>2, <3>2, <3>3
              DEF FailsOK, BucketOK, TableOK, RequestOK, AccessInv, TypeOK, RequestsSound, Sound
    <2> QED BY <1>2, <2>3, <2>4 DEF CountAll
  <1>3. CASE WrongPassphrase(r)
    <2>1. request[r].by \in Ips /\ issued' = issued
      BY <1>3, UnderWay, StageTypes DEF WrongPassphrase, table
    <2>2. FailsOK' /\ RequestOK'
      BY <1>0, <1>3, <2>1, IdleSound, GotoSound, RecordTypes DEF WrongPassphrase, RequestOK
    <2>3. BucketOK' /\ TableOK'
      BY <1>0, <1>3 DEF WrongPassphrase, table, TableOK, BucketOK
    <2> QED BY <2>2, <2>3
            DEF FailsOK, BucketOK, TableOK, RequestOK, AccessInv, TypeOK, RequestsSound, Sound
  <1>4. CASE RightPassphrase(r)
    <2>1. request[r].by \in Ips /\ issued \subseteq issued'
      BY <1>4, UnderWay, StageTypes DEF RightPassphrase
    <2>2. FailsOK' /\ RequestOK'
      BY <1>0, <1>4, <2>1, IdleSound, GotoSound, RecordTypes DEF RightPassphrase, RequestOK
    <2>3. BucketOK' /\ TableOK'
      BY <1>0, <1>4 DEF RightPassphrase, TableOK, BucketOK
    <2> QED BY <2>2, <2>3
            DEF FailsOK, BucketOK, TableOK, RequestOK, AccessInv, TypeOK, RequestsSound, Sound
  <1> QED BY <1>1, <1>2, <1>3, <1>4

\* The sessions: a row that is read belongs to no token that was logged out, and
\* nothing puts a row back.
LEMMA SessionStep ==
  ASSUME AccessInv, NEW r \in Requests,
         (\E t \in Tokens : Load(r, t)) \/ DropExpired(r) \/ Renew(r) \/ Refuse(r)
         \/ Serve(r) \/ ApiLogout(r)
  PROVE  AccessInv'
  <1>0. FailsOK /\ BucketOK /\ TableOK /\ RequestOK
    BY Parts
  <1>k. issued' = issued
    BY DEF Load, DropExpired, Renew, Refuse, Serve, ApiLogout, Destroy, table
  <1>i. ASSUME Goto(r, Idle) PROVE RequestOK'
    BY <1>i, <1>k, IdleSound, GotoSound DEF RequestOK
  <1>p. ASSUME FailsOK', BucketOK', TableOK', RequestOK' PROVE AccessInv'
    BY <1>p DEF FailsOK, BucketOK, TableOK, RequestOK, AccessInv, TypeOK, RequestsSound, Sound
  <1>1. ASSUME NEW t \in Tokens, Load(r, t) PROVE AccessInv'
    <2>1. PICK a \in {"expired", "live"} : Goto(r, At(a, t, t \in out))
      BY <1>1 DEF Load
    <2>2. (t \in out) = FALSE
      BY <1>0, <1>1 DEF Load, TableOK
    <2>3. Sound(At(a, t, FALSE))
      <3>1. t \in issued
        BY <1>0, <1>1 DEF Load, TableOK
      <3> QED BY <3>1, AtStages DEF Sound
    <2>4. RequestOK'
      BY <1>k, <2>1, <2>2, <2>3, GotoSound DEF RequestOK
    <2>5. FailsOK' /\ BucketOK' /\ TableOK'
      BY <1>0, <1>1 DEF Load, table, FailsOK, BucketOK, TableOK
    <2> QED BY <1>p, <2>4, <2>5
  <1>2. CASE DropExpired(r)
    <2>1. request[r].by \in Tokens
      BY <1>2, UnderWay, StageTypes DEF DropExpired
    <2>2. 0 \in 0 .. Ttl + 1
      BY LimitsAreNumbers
    <2>3. TableOK'
      BY <1>0, <1>2, <2>1, <2>2 DEF DropExpired, TableOK
    <2> QED BY <1>0, <1>2, <1>i, <1>p, <2>3 DEF DropExpired, FailsOK, BucketOK
  <1>3. CASE Renew(r)
    <2>1. request[r] \in Stages /\ ~request[r].late /\ request[r].by \in Tokens
          /\ request[r].at = "live" /\ request[r].by \in Ips \cup issued
      BY <1>3, UnderWay, StageTypes DEF Renew
    <2>2. Goto(r, [request[r] EXCEPT !.at = "admitted"])
      BY <1>3 DEF Renew, Advance, Goto
    <2>3. RequestOK'
      BY <1>k, <2>1, <2>2, AdvanceStages, GotoSound DEF RequestOK
    <2>4. 0 \in 0 .. Ttl + 1
      BY LimitsAreNumbers
    <2>5. TableOK'
      BY <1>0, <1>3, <2>1, <2>4 DEF Renew, TableOK
    <2> QED BY <1>0, <1>3, <1>p, <2>3, <2>5 DEF Renew, FailsOK, BucketOK
  <1>4. CASE Refuse(r)
    BY <1>0, <1>4, <1>i, <1>p DEF Refuse, table, FailsOK, BucketOK, TableOK
  <1>5. CASE Serve(r)
    <2>1. request[r].by \in Scopes
      BY <1>5, UnderWay, StageTypes DEF Serve, Scopes
    <2>2. BucketOK'
      BY <1>0, <1>5, <2>1, TakeTypes DEF Serve
    <2> QED BY <1>0, <1>5, <1>i, <1>p, <2>2 DEF Serve, table, FailsOK, TableOK
  <1>6. CASE ApiLogout(r)
    <2>1. request[r].by \in issued
      BY <1>6, UnderWay, StageTypes, AddressesAreNoTokens DEF ApiLogout
    <2> QED BY <1>0, <1>6, <1>i, <1>p, <2>1, DropTypes DEF ApiLogout, Destroy, FailsOK, BucketOK
  <1> QED BY <1>1, <1>2, <1>3, <1>4, <1>5, <1>6

LEMMA LogoutStep ==
  ASSUME AccessInv, NEW t \in Tokens, Logout(t)
  PROVE  AccessInv'
  <1>0. FailsOK /\ BucketOK /\ TableOK /\ RequestOK
    BY Parts
  <1>1. TableOK'
    BY <1>0, DropTypes DEF Logout, Destroy
  <1> QED BY <1>0, <1>1 DEF Logout, Destroy, FailsOK, BucketOK, TableOK, RequestOK,
                            AccessInv, TypeOK, RequestsSound, Sound

LEMMA TickStep ==
  ASSUME AccessInv, Tick
  PROVE  AccessInv'
  <1>0. FailsOK /\ BucketOK /\ TableOK /\ RequestOK
    BY Parts
  <1>1. FailsOK'
    <2>1. ASSUME NEW ip \in Ips, NEW a \in Ages
          PROVE  (IF a = 0 THEN 0 ELSE fails[ip][a - 1]) \in Nat
      <3>1. a # 0 => a - 1 \in Ages
        BY LimitsAreNumbers DEF Ages
      <3>2. fails[ip] \in [Ages -> Nat]
        BY <1>0 DEF FailsOK
      <3> QED BY <3>1, <3>2
    <2> QED BY <2>1 DEF Tick, FailsOK
  <1>2. BucketOK'
    BY <1>0, RefillTypes DEF Tick
  <1>3. TableOK'
    BY <1>0, LimitsAreNumbers DEF Tick, TableOK
  <1> QED BY <1>0, <1>1, <1>2, <1>3
          DEF Tick, FailsOK, BucketOK, TableOK, RequestOK, AccessInv, TypeOK,
              RequestsSound, Sound

LEMMA InvStep == AccessInv /\ [Next]_vars => AccessInv'
  <1> SUFFICES ASSUME AccessInv, [Next]_vars PROVE AccessInv'
    OBVIOUS
  <1>1. CASE UNCHANGED vars
    BY <1>1 DEF vars, table, AccessInv, TypeOK
  <1> QED BY <1>1, LoginStep, SessionStep, LogoutStep, TickStep DEF Next

LEMMA Invariance == Spec => []AccessInv
  BY InitInv, InvStep, PTL DEF Spec

\* Every state of the throttle, the buckets and the sessions is well-typed.
THEOREM TypeCorrect == Spec => []TypeOK
  <1>1. AccessInv => TypeOK
    BY DEF AccessInv
  <1> QED BY <1>1, Invariance, PTL

\* However many requests read and renew sessions at the same time, none that begins
\* after a logout is let in with the token that was logged out.
THEOREM LogoutIsForGood == Spec => []LogoutIsFinal
  <1>1. AccessInv => LogoutIsFinal
    BY DEF AccessInv, LogoutIsFinal
  <1> QED BY <1>1, Invariance, PTL

-----------------------------------------------------------------------------
\* The throttle.

Waiting(ip) == {r \in Requests : request[r].at \in {"counted", "cleared"} /\ request[r].by = ip}
Cleared == {r \in Requests : request[r].at = "cleared"}

\* The inductive invariant: what is waiting will be as many failures more.
Throttle ==
    /\ \A ip \in Ips : Waited(fails[ip], Cardinality(Waiting(ip))) /\ Apart(fails[ip])
    /\ InAll + Cardinality(Cleared) <= LoginMaxAll - 1 + Cardinality(Requests)

LEMMA WaitingTypes ==
  /\ Cardinality(Cleared) \in Nat /\ Cardinality(Cleared) <= Cardinality(Requests)
  /\ \A ip : IsFiniteSet(Waiting(ip)) /\ Cardinality(Waiting(ip)) \in 0 .. Cardinality(Requests)
  <1>1. Cleared \subseteq Requests /\ \A ip : Waiting(ip) \subseteq Requests
    BY DEF Cleared, Waiting
  <1>2. \A S \in SUBSET Requests : IsFiniteSet(S) /\ Cardinality(S) \in Nat /\ Cardinality(S) <= Cardinality(Requests)
    BY NamesAreFinite, FS_Subset, FS_CardinalityType
  <1> QED BY <1>1, <1>2, AgesTypes

LEMMA PerIpTypes ==
  ASSUME NEW F \in [Ips -> [Ages -> Nat]]
  PROVE  Counts(PerIp(F), Ips) /\ Total(PerIp(F), Ips) \in Nat
  <1>1. \A ip \in Ips : Total(F[ip], Ages) \in Nat
    BY CountsOf
  <1>2. Counts(PerIp(F), Ips)
    BY <1>1 DEF Counts, PerIp
  <1> QED BY <1>2, NamesAreFinite, TotalType

LEMMA InAllTypes == FailsOK => InAll \in Nat
  BY PerIpTypes, InAllIsTotal DEF FailsOK

LEMMA InAllSame ==
  ASSUME fails' = fails
  PROVE  InAll' = InAll
  BY InAllIsTotal, InAllNext

LEMMA InAllFails ==
  ASSUME FailsOK, NEW ip \in Ips, fails' = [fails EXCEPT ![ip][0] = @ + 1]
  PROVE  InAll' = InAll + 1
  <1>1. 0 \in Ages
    BY AgesTypes
  <1>2. fails'[ip] = [fails[ip] EXCEPT ![0] = @ + 1] /\ \A j \in Ips \ {ip} : fails'[j] = fails[j]
    BY DEF FailsOK
  <1>3. Same(fails'[ip], fails[ip], Ages \ {0}) /\ fails'[ip][0] = fails[ip][0] + 1 /\ fails[ip] \in [Ages -> Nat]
    BY <1>1, <1>2 DEF Same, FailsOK
  <1>4. Total(fails'[ip], Ages) = Total(fails[ip], Ages) + 1
    BY <1>1, <1>3, OneMore
  <1>5. Same(PerIp(fails'), PerIp(fails), Ips \ {ip}) /\ PerIp(fails')[ip] = PerIp(fails)[ip] + 1
    BY <1>2, <1>4 DEF Same, PerIp
  <1>6. Counts(PerIp(fails), Ips) /\ IsFiniteSet(Ips)
    BY PerIpTypes, NamesAreFinite DEF FailsOK
  <1>7. Total(PerIp(fails'), Ips) = Total(PerIp(fails), Ips) + 1
    BY <1>5, <1>6, TotalOne
  <1> QED BY <1>7, InAllIsTotal, InAllNext

LEMMA FailsTick ==
  ASSUME FailsOK, Tick
  PROVE  /\ \A ip \in Ips : fails'[ip] = Older(fails[ip]) /\ Older(fails[ip]) \in [Ages -> Nat]
         /\ InAll' <= InAll
  <1>1. \A ip \in Ips : fails'[ip] = Older(fails[ip])
    BY DEF Tick, Older
  <1>2. \A ip \in Ips : fails[ip] \in [Ages -> Nat]
    BY DEF FailsOK
  <1>3. \A F \in [Ages -> Nat] : Older(F) \in [Ages -> Nat] /\ Total(Older(F), Ages) <= Total(F, Ages)
    <2> TAKE F \in [Ages -> Nat]
    <2>1. /\ Older(F) \in [Ages -> Nat] /\ Before(Ages \ {0}) \subseteq Ages
          /\ Total(Older(F), Ages) = Total(F, Before(Ages \ {0}))
      BY OlderTotal
    <2> QED BY <2>1, CountsOf, TotalGrows
  <1>4. fails' \in [Ips -> [Ages -> Nat]]
    <2>1. fails' = [ip \in Ips |-> Older(fails[ip])]
      BY DEF Tick, Older
    <2> QED BY <1>2, <1>3, <2>1
  <1>5. \A ip \in Ips : PerIp(fails')[ip] <= PerIp(fails)[ip]
    BY <1>1, <1>2, <1>3 DEF PerIp
  <1>6. Counts(PerIp(fails), Ips) /\ Counts(PerIp(fails'), Ips) /\ IsFiniteSet(Ips)
    BY <1>4, PerIpTypes, NamesAreFinite DEF FailsOK
  <1>7. Total(PerIp(fails'), Ips) <= Total(PerIp(fails), Ips)
    BY <1>5, <1>6, TotalBelow
  <1> QED BY <1>1, <1>2, <1>3, <1>7, InAllIsTotal, InAllNext

LEMMA ThrottleMeans == AccessInv /\ Throttle => BackoffHolds /\ HourIsBounded
  <1> SUFFICES ASSUME AccessInv, Throttle PROVE BackoffHolds /\ HourIsBounded
    OBVIOUS
  <1>1. BackoffHolds
    BY AgedIsTotal DEF BackoffHolds, Throttle, Apart
  <1>2. HourIsBounded
    <2>1. InAll \in Nat
      BY InAllTypes, Parts
    <2>2. Cardinality(Cleared) \in Nat
      BY NamesAreFinite, FS_Subset, FS_CardinalityType DEF Cleared
    <2>3. LoginMaxAll \in Nat /\ Cardinality(Requests) \in Nat
      BY LimitsAreNumbers, AgesTypes
    <2> QED BY <2>1, <2>2, <2>3 DEF HourIsBounded, Throttle
  <1> QED BY <1>1, <1>2

LEMMA WaitedLess ==
  ASSUME NEW F \in [Ages -> Nat], NEW n \in Nat, NEW m \in Nat, m <= n, Waited(F, n)
  PROVE  Waited(F, m)
  <1> SUFFICES ASSUME NEW k \in 0 .. MaxShift, NEW w \in 1 .. Backoff(LoginMax + k),
                      Total(F, w .. Window - 1) >= LoginMax + k, Total(F, 0 .. w - 1) >= 1
               PROVE  Total(F, 0 .. w - 1) + m <= Cardinality(Requests)
    BY DEF Waited
  <1>1. Total(F, 0 .. w - 1) + n <= Cardinality(Requests)
    BY DEF Waited
  <1>2. w \in 1 .. Window
    BY BackoffIs, AgesTypes
  <1>3. 0 .. w - 1 \subseteq Ages
    BY <1>2, AgesTypes
  <1>4. Total(F, 0 .. w - 1) \in Nat
    BY <1>3, CountsOf
  <1> QED BY <1>1, <1>4, AgesTypes

\* Nothing fails and nobody else is let pass.
LEMMA CalmThrottle ==
  ASSUME FailsOK, Throttle, fails' = fails,
         \A ip \in Ips : Waiting(ip)' \subseteq Waiting(ip),
         \/ Cleared' \subseteq Cleared
         \/ InAll < LoginMaxAll
  PROVE  Throttle'
  <1>1. \A ip \in Ips : fails[ip] \in [Ages -> Nat]
    BY DEF FailsOK
  <1>2. ASSUME NEW ip \in Ips PROVE Waited(fails[ip], Cardinality(Waiting(ip)'))
    <2>1. IsFiniteSet(Waiting(ip)) /\ Cardinality(Waiting(ip)) \in Nat
      BY WaitingTypes
    <2>2. Cardinality(Waiting(ip)') \in Nat /\ Cardinality(Waiting(ip)') <= Cardinality(Waiting(ip))
      BY <2>1, FS_Subset, FS_CardinalityType
    <2> QED BY <1>1, <2>1, <2>2, WaitedLess DEF Throttle
  <1>3. \A ip \in Ips : Waited(fails'[ip], Cardinality(Waiting(ip)')) /\ Apart(fails'[ip])
    BY <1>2 DEF Throttle
  <1>4. InAll' + Cardinality(Cleared') <= LoginMaxAll - 1 + Cardinality(Requests)
    <2>1. InAll' = InAll /\ InAll \in Nat /\ LoginMaxAll \in Nat /\ Cardinality(Requests) \in Nat
      BY InAllSame, InAllTypes, LimitsAreNumbers, AgesTypes
    <2>2. CASE Cleared' \subseteq Cleared
      <3>1. IsFiniteSet(Cleared) /\ Cardinality(Cleared) \in Nat
        BY NamesAreFinite, FS_Subset, WaitingTypes DEF Cleared
      <3>2. Cardinality(Cleared') \in Nat /\ Cardinality(Cleared') <= Cardinality(Cleared)
        BY <2>2, <3>1, FS_Subset, FS_CardinalityType
      <3> QED BY <2>1, <3>1, <3>2 DEF Throttle
    <2>3. CASE InAll < LoginMaxAll
      <3>1. Cleared' \in SUBSET Requests
        BY DEF Cleared
      <3>2. Cardinality(Cleared') \in Nat /\ Cardinality(Cleared') <= Cardinality(Requests)
        BY <3>1, NamesAreFinite, FS_Subset, FS_CardinalityType
      <3> QED BY <2>1, <2>3, <3>2
    <2> QED BY <2>2, <2>3
  <1> QED BY <1>3, <1>4 DEF Throttle, Waiting, Cleared

LEMMA RecordNothing ==
  ASSUME FailsOK, NEW ip \in Ips, NEW outcome, outcome # "fail", RecordAttempt(ip, outcome)
  PROVE  fails' = fails
  <1>1. fails' = [fails EXCEPT ![ip] = [fails[ip] EXCEPT ![0] = fails[ip][0] + 0]]
    BY DEF RecordAttempt
  <1>2. fails[ip][0] + 0 = fails[ip][0]
    <2>1. 0 \in Ages
      BY AgesTypes
    <2> QED BY <2>1 DEF FailsOK
  <1>3. [fails[ip] EXCEPT ![0] = fails[ip][0]] = fails[ip]
    BY DEF FailsOK
  <1> QED BY <1>1, <1>2, <1>3 DEF FailsOK

\* How the requests that wait change with one of them.
LEMMA WaitingNext ==
  ASSUME RequestOK, NEW r \in Requests, NEW stage, request' = [request EXCEPT ![r] = stage]
  PROVE  /\ \A ip : Waiting(ip)' = IF stage.at \in {"counted", "cleared"} /\ stage.by = ip
                                   THEN Waiting(ip) \cup {r} ELSE Waiting(ip) \ {r}
         /\ Cleared' = IF stage.at = "cleared" THEN Cleared \cup {r} ELSE Cleared \ {r}
  <1>1. \A q \in Requests : request'[q] = IF q = r THEN stage ELSE request[q]
    BY DEF RequestOK
  <1>2. ASSUME NEW ip
        PROVE  Waiting(ip)' = IF stage.at \in {"counted", "cleared"} /\ stage.by = ip
                              THEN Waiting(ip) \cup {r} ELSE Waiting(ip) \ {r}
    BY <1>1 DEF Waiting
  <1>3. Cleared' = IF stage.at = "cleared" THEN Cleared \cup {r} ELSE Cleared \ {r}
    BY <1>1 DEF Cleared
  <1> QED BY <1>2, <1>3

LEMMA LoginThrottle ==
  ASSUME AccessInv, Throttle, NEW r \in Requests, NEW ip \in Ips, Login(r, ip)
  PROVE  Throttle'
  <1>0. FailsOK /\ RequestOK
    BY Parts
  <1>1. request[r].at = "idle" /\ fails[ip] \in [Ages -> Nat]
    BY <1>0, IdleIsIdle DEF Login, FailsOK
  <1>2. ASSUME NEW outcome, outcome # "fail", RecordAttempt(ip, outcome), UNCHANGED request
        PROVE  Throttle'
    BY <1>0, <1>2, RecordNothing, CalmThrottle DEF Waiting, Cleared
  <1>3. ASSUME ~AddressBlocked(ip), Goto(r, At("counted", ip, FALSE)), UNCHANGED fails
        PROVE  Throttle'
    <2> DEFINE stage == At("counted", ip, FALSE)
    <2>1. stage.at = "counted" /\ stage.by = ip
      BY DEF At
    <2>2. request' = [request EXCEPT ![r] = stage]
      BY <1>3 DEF Goto
    <2> HIDE DEF stage
    <2>3. /\ Cleared' = Cleared
          /\ \A j \in Ips \ {ip} : Waiting(j)' = Waiting(j)
      <3>1. r \notin Cleared /\ \A j \in Ips : r \notin Waiting(j)
        BY <1>1 DEF Cleared, Waiting
      <3>2. Cleared' = Cleared \ {r} /\ \A j \in Ips \ {ip} : Waiting(j)' = Waiting(j) \ {r}
        BY <1>0, <2>1, <2>2, WaitingNext
      <3> QED BY <3>1, <3>2
    <2>4. Waited(fails[ip], Cardinality(Waiting(ip)'))
      <3>1. Recent(ip) = Total(fails[ip], 0 .. Window - 1)
        BY AgedIsTotal DEF Recent
      <3> QED BY <1>1, <1>3, <3>1, PassingWaited DEF AddressBlocked, LastFail
    <2>5. \A j \in Ips : Waited(fails[j], Cardinality(Waiting(j)')) /\ Apart(fails[j])
      BY <2>3, <2>4 DEF Throttle
    <2>6. InAll' = InAll
      BY <1>3, InAllSame
    <2> QED BY <1>3, <2>3, <2>5, <2>6 DEF Throttle, Waiting, Cleared
  <1>4. "throttled" # "fail" /\ "blocked" # "fail"
    OBVIOUS
  <1> QED BY <1>2, <1>3, <1>4 DEF Login

LEMMA CountThrottle ==
  ASSUME AccessInv, Throttle, NEW r \in Requests, CountAll(r)
  PROVE  Throttle'
  <1>0. FailsOK /\ RequestOK
    BY Parts
  <1>1. request[r].at = "counted" /\ request[r] \in Stages /\ request[r].by \in Ips
    BY UnderWay, StageTypes DEF CountAll
  <1>2. ASSUME Goto(r, Idle), RecordAttempt(request[r].by, "blocked")
        PROVE  Throttle'
    <2>1. fails' = fails
      BY <1>0, <1>1, <1>2, RecordNothing
    <2>2. request' = [request EXCEPT ![r] = Idle]
      BY <1>2 DEF Goto
    <2>3. /\ Cleared' = Cleared \ {r}
          /\ \A ip : Waiting(ip)' = Waiting(ip) \ {r}
      BY <1>0, <2>2, WaitingNext, IdleIsIdle
    <2>4. (\A ip \in Ips : Waiting(ip)' \subseteq Waiting(ip)) /\ Cleared' \subseteq Cleared
      BY <2>3
    <2> QED BY <1>0, <2>1, <2>4, CalmThrottle
  <1>3. ASSUME ~AllBlocked, Advance(r, "cleared"), UNCHANGED fails
        PROVE  Throttle'
    <2> DEFINE stage == [request[r] EXCEPT !.at = "cleared"]
    <2>1. stage.at = "cleared" /\ stage.by = request[r].by
      BY <1>1 DEF Stages
    <2>2. request' = [request EXCEPT ![r] = stage]
      BY <1>3 DEF Advance
    <2> HIDE DEF stage
    <2>3. r \in Waiting(request[r].by)
      BY <1>1 DEF Waiting
    <2>4. \A ip \in Ips : Waiting(ip)' \subseteq Waiting(ip)
      <3>1. \A ip : Waiting(ip)' = IF ip = request[r].by THEN Waiting(ip) \cup {r} ELSE Waiting(ip) \ {r}
        BY <1>0, <2>1, <2>2, WaitingNext
      <3> QED BY <2>3, <3>1
    <2>5. InAll < LoginMaxAll
      BY <1>0, <1>3, InAllTypes, LimitsAreNumbers DEF AllBlocked
    <2> QED BY <1>0, <1>3, <2>4, <2>5, CalmThrottle
  <1> QED BY <1>2, <1>3 DEF CountAll

LEMMA WrongThrottle ==
  ASSUME AccessInv, Throttle, NEW r \in Requests, WrongPassphrase(r)
  PROVE  Throttle'
  <1>0. FailsOK /\ RequestOK /\ FailsOK'
    <2>1. AccessInv'
      BY LoginStep
    <2>2. FailsOK'
      BY <2>1 DEF AccessInv, TypeOK, FailsOK
    <2> QED BY <2>2, Parts
  <1>1. PICK ip \in Ips : request[r].at = "cleared" /\ ip = request[r].by
    BY UnderWay, StageTypes DEF WrongPassphrase
  <1>2. fails' = [fails EXCEPT ![ip][0] = @ + 1] /\ request' = [request EXCEPT ![r] = Idle]
    BY <1>1 DEF WrongPassphrase, RecordAttempt, Goto
  <1>3. 0 \in Ages /\ fails[ip] \in [Ages -> Nat] /\ fails'[ip] \in [Ages -> Nat]
    BY <1>0, <1>1, AgesTypes DEF FailsOK
  <1>4. /\ Same(fails'[ip], fails[ip], Ages \ {0}) /\ fails'[ip][0] = fails[ip][0] + 1
        /\ \A j \in Ips \ {ip} : fails'[j] = fails[j]
    BY <1>0, <1>1, <1>2, <1>3 DEF Same, FailsOK
  <1>5. /\ r \in Waiting(ip) /\ r \in Cleared
        /\ Cleared' = Cleared \ {r}
        /\ \A j : Waiting(j)' = Waiting(j) \ {r}
    <2>1. r \in Waiting(ip) /\ r \in Cleared
      BY <1>1 DEF Waiting, Cleared
    <2> QED BY <1>0, <1>2, <2>1, WaitingNext, IdleIsIdle
  <1>6. \A j \in Ips \ {ip} : Waiting(j)' = Waiting(j)
    <2>1. \A j \in Ips \ {ip} : r \notin Waiting(j)
      BY <1>1 DEF Waiting
    <2> QED BY <1>5, <2>1
  <1> DEFINE n == Cardinality(Waiting(ip))
  <1>7. n \in 1 .. Cardinality(Requests) /\ Cardinality(Waiting(ip)') = n - 1
    <2>1. IsFiniteSet(Waiting(ip)) /\ n \in 0 .. Cardinality(Requests) /\ Cardinality(Requests) \in Nat
      BY WaitingTypes, AgesTypes
    <2>2. Cardinality(Waiting(ip) \ {r}) = n - 1
      BY <1>5, <2>1, FS_RemoveElement
    <2>3. n # 0
      BY <1>5, <2>1, FS_EmptySet
    <2>4. Waiting(ip)' = Waiting(ip) \ {r}
      BY <1>5
    <2>5. n \in 1 .. Cardinality(Requests)
      <3> HIDE DEF n
      <3> QED BY <2>1, <2>3
    <2> QED BY <2>2, <2>4, <2>5
  <1>8. Waited(fails[ip], n) /\ Apart(fails[ip])
    BY <1>1 DEF Throttle
  <1> HIDE DEF n
  <1>9. Waited(fails'[ip], n - 1)
    BY <1>3, <1>4, <1>7, <1>8, FailingWaited
  <1>10. Apart(fails'[ip])
    <2>1. n - 1 \in Nat
      BY <1>7
    <2> QED BY <1>3, <1>4, <1>8, <1>9, <2>1, FailingApart
  <1>11. \A j \in Ips : Waited(fails'[j], Cardinality(Waiting(j)')) /\ Apart(fails'[j])
    <2>1. \A j \in Ips \ {ip} : Waited(fails'[j], Cardinality(Waiting(j)')) /\ Apart(fails'[j])
      BY <1>4, <1>6 DEF Throttle
    <2>2. Waited(fails'[ip], Cardinality(Waiting(ip)'))
      BY <1>7, <1>9
    <2> QED BY <1>10, <2>1, <2>2
  <1>12. InAll' + Cardinality(Cleared') <= LoginMaxAll - 1 + Cardinality(Requests)
    <2>1. InAll' = InAll + 1
      BY <1>0, <1>1, <1>2, InAllFails
    <2>2. IsFiniteSet(Cleared) /\ Cardinality(Cleared) \in Nat
      BY NamesAreFinite, FS_Subset, WaitingTypes DEF Cleared
    <2>3. Cardinality(Cleared') = Cardinality(Cleared) - 1
      BY <1>5, <2>2, FS_RemoveElement
    <2>4. InAll \in Nat /\ LoginMaxAll \in Nat /\ Cardinality(Requests) \in Nat
      BY <1>0, InAllTypes, LimitsAreNumbers, AgesTypes
    <2> QED BY <2>1, <2>2, <2>3, <2>4 DEF Throttle
  <1> QED BY <1>11, <1>12 DEF Throttle, Waiting, Cleared

LEMMA TickThrottle ==
  ASSUME AccessInv, Throttle, Tick
  PROVE  Throttle'
  <1>0. FailsOK /\ request' = request
    BY Parts DEF Tick
  <1>1. \A ip \in Ips : Waiting(ip)' = Waiting(ip) /\ Cardinality(Waiting(ip)) \in Nat
    BY <1>0, WaitingTypes DEF Waiting
  <1>2. ASSUME NEW ip \in Ips PROVE Waited(fails'[ip], Cardinality(Waiting(ip)')) /\ Apart(fails'[ip])
    <2>1. fails[ip] \in [Ages -> Nat] /\ fails'[ip] = Older(fails[ip])
      BY <1>0, FailsTick DEF FailsOK
    <2>2. Waited(fails[ip], Cardinality(Waiting(ip))) /\ Apart(fails[ip])
      BY DEF Throttle
    <2>3. Waited(Older(fails[ip]), Cardinality(Waiting(ip)))
      BY <2>1, <2>2, TickWaited
    <2>4. Apart(Older(fails[ip]))
      BY <1>1, <2>1, <2>2, <2>3, TickApart
    <2> QED BY <1>1, <2>1, <2>3, <2>4
  <1>3. InAll' + Cardinality(Cleared') <= LoginMaxAll - 1 + Cardinality(Requests)
    <2>1. InAll' <= InAll /\ InAll \in Nat /\ InAll' \in Nat
      <3>1. FailsOK'
        BY <1>0, TickStep DEF AccessInv, TypeOK, FailsOK
      <3>2. (FailsOK => InAll \in Nat)'
        BY InAllTypes, PTL
      <3> QED BY <1>0, <3>1, <3>2, FailsTick, InAllTypes
    <2>2. Cleared' = Cleared /\ Cardinality(Cleared) \in Nat
      BY <1>0, WaitingTypes DEF Cleared
    <2>3. LoginMaxAll \in Nat /\ Cardinality(Requests) \in Nat
      BY LimitsAreNumbers, AgesTypes
    <2> QED BY <2>1, <2>2, <2>3 DEF Throttle
  <1> QED BY <1>2, <1>3 DEF Throttle, Waiting, Cleared

\* A request that leaves the login form, or that never was there.
LEMMA ElsewhereThrottle ==
  ASSUME AccessInv, Throttle, NEW r \in Requests, NEW stage, Goto(r, stage),
         stage.at \notin {"counted", "cleared"}, fails' = fails
  PROVE  Throttle'
  <1>0. FailsOK /\ RequestOK
    BY Parts
  <1>1. request' = [request EXCEPT ![r] = stage]
    BY DEF Goto
  <1>2. /\ Cleared' = Cleared \ {r}
        /\ \A ip : Waiting(ip)' = Waiting(ip) \ {r}
    BY <1>0, <1>1, WaitingNext
  <1>3. (\A ip \in Ips : Waiting(ip)' \subseteq Waiting(ip)) /\ Cleared' \subseteq Cleared
    BY <1>2
  <1> QED BY <1>0, <1>3, CalmThrottle

LEMMA RightThrottle ==
  ASSUME AccessInv, Throttle, NEW r \in Requests, RightPassphrase(r)
  PROVE  Throttle'
  <1>1. FailsOK /\ request[r].by \in Ips
    BY Parts, UnderWay, StageTypes DEF RightPassphrase
  <1>2. RecordAttempt(request[r].by, "ok") /\ "ok" # "fail" /\ Goto(r, Idle)
    BY DEF RightPassphrase
  <1>3. fails' = fails
    BY <1>1, <1>2, RecordNothing
  <1> QED BY <1>2, <1>3, IdleIsIdle, ElsewhereThrottle

LEMMA SessionThrottle ==
  ASSUME AccessInv, Throttle, NEW r \in Requests,
         (\E t \in Tokens : Load(r, t)) \/ DropExpired(r) \/ Renew(r) \/ Refuse(r)
         \/ Serve(r) \/ ApiLogout(r)
  PROVE  Throttle'
  <1>1. fails' = fails
    BY DEF Load, DropExpired, Renew, Refuse, Serve, ApiLogout, Destroy
  <1>2. ASSUME Goto(r, Idle) PROVE Throttle'
    BY <1>1, <1>2, IdleIsIdle, ElsewhereThrottle
  <1>3. ASSUME NEW t \in Tokens, Load(r, t) PROVE Throttle'
    <2>1. PICK a \in {"expired", "live"} : Goto(r, At(a, t, t \in out))
      BY <1>3 DEF Load
    <2>2. At(a, t, t \in out).at \notin {"counted", "cleared"}
      BY DEF At
    <2> QED BY <1>1, <2>1, <2>2, ElsewhereThrottle
  <1>4. CASE Renew(r)
    <2>1. request[r] \in Stages /\ Goto(r, [request[r] EXCEPT !.at = "admitted"])
      BY <1>4, UnderWay DEF Renew, Advance, Goto
    <2>2. [request[r] EXCEPT !.at = "admitted"].at = "admitted"
      BY <2>1 DEF Stages
    <2> QED BY <1>1, <2>1, <2>2, ElsewhereThrottle
  <1> QED BY <1>2, <1>3, <1>4 DEF DropExpired, Refuse, Serve, ApiLogout

LEMMA InitThrottle == Init => Throttle
  <1> SUFFICES ASSUME Init PROVE Throttle
    OBVIOUS
  <1>0. FailsOK
    BY InitInv, Parts
  <1>1. \A ip \in Ips : fails[ip] \in [Ages -> Nat] /\ \A a \in Ages : fails[ip][a] = 0
    BY <1>0 DEF FailsOK, Init
  <1>2. \A ip \in Ips : \A S \in SUBSET Ages : Total(fails[ip], S) = 0
    <2> TAKE ip \in Ips
    <2> TAKE S \in SUBSET Ages
    <2>1. Counts(fails[ip], S) /\ IsFiniteSet(S) /\ \A a \in S : fails[ip][a] = 0
      BY <1>1, CountsOf
    <2> QED BY <2>1, TotalZero
  <1>3. ASSUME NEW ip \in Ips PROVE Waited(fails[ip], Cardinality(Waiting(ip))) /\ Apart(fails[ip])
    <2>1. Waited(fails[ip], Cardinality(Waiting(ip)))
      <3> SUFFICES ASSUME NEW k \in 0 .. MaxShift, NEW w \in 1 .. Backoff(LoginMax + k),
                          Total(fails[ip], 0 .. w - 1) >= 1
                   PROVE  FALSE
        BY DEF Waited
      <3>1. w \in 1 .. Window
        BY BackoffIs, AgesTypes
      <3>2. 0 .. w - 1 \in SUBSET Ages
        BY <3>1, AgesTypes
      <3>3. Total(fails[ip], 0 .. w - 1) = 0
        BY <1>2, <3>2
      <3> QED BY <3>3
    <2>2. Apart(fails[ip])
      <3> SUFFICES ASSUME NEW a \in Ages, NEW k \in 0 .. MaxShift
                   PROVE  Total(fails[ip], (a .. a + Backoff(LoginMax + k) - 1) \cap Ages) <= Cardinality(Requests)
        BY DEF Apart
      <3>1. Total(fails[ip], (a .. a + Backoff(LoginMax + k) - 1) \cap Ages) = 0
        BY <1>2
      <3> QED BY <3>1, AgesTypes
    <2> QED BY <2>1, <2>2
  <1>4. InAll = 0
    <2>1. \A ip \in Ips : PerIp(fails)[ip] = 0
      BY <1>2 DEF PerIp
    <2>2. Counts(PerIp(fails), Ips) /\ IsFiniteSet(Ips)
      BY <1>0, PerIpTypes, NamesAreFinite DEF FailsOK
    <2> QED BY <2>1, <2>2, TotalZero, InAllIsTotal
  <1>5. Cleared = {}
    BY IdleIsIdle DEF Init, Cleared
  <1>6. Cardinality(Cleared) = 0
    BY <1>5, FS_EmptySet
  <1>7. LoginMaxAll \in Nat \ {0} /\ Cardinality(Requests) \in Nat
    BY LimitsAreNumbers, AgesTypes
  <1> QED BY <1>3, <1>4, <1>6, <1>7 DEF Throttle

LEMMA ThrottleStep == AccessInv /\ Throttle /\ [Next]_vars => Throttle'
  <1> SUFFICES ASSUME AccessInv, Throttle, [Next]_vars PROVE Throttle'
    OBVIOUS
  <1>1. CASE UNCHANGED vars
    <2>1. FailsOK /\ fails' = fails /\ request' = request
      BY <1>1, Parts DEF vars
    <2> QED BY <2>1, CalmThrottle DEF Waiting, Cleared
  <1>2. ASSUME NEW t \in Tokens, Logout(t) PROVE Throttle'
    <2>1. FailsOK /\ fails' = fails /\ request' = request
      BY <1>2, Parts DEF Logout, Destroy
    <2> QED BY <2>1, CalmThrottle DEF Waiting, Cleared
  <1> QED BY <1>1, <1>2, LoginThrottle, CountThrottle, WrongThrottle, RightThrottle,
             SessionThrottle, TickThrottle DEF Next

LEMMA ThrottleHolds == Spec => [](AccessInv /\ Throttle)
  BY InitInv, InvStep, InitThrottle, ThrottleStep, PTL DEF Spec

\* Once an address has reached its limit, its failures come one backoff apart, up to
\* the requests that had counted before the last one was recorded.
THEOREM BackoffIsKept == Spec => []BackoffHolds
  BY ThrottleHolds, ThrottleMeans, PTL

\* All addresses together stay below the hourly limit, up to the requests that were
\* past the count when it was reached.
THEOREM HourIsKept == Spec => []HourIsBounded
  BY ThrottleHolds, ThrottleMeans, PTL
=============================================================================
