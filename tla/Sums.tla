-------------------------------- MODULE Sums --------------------------------
(***************************************************************************)
(* Facts about the sums of the library: what SumFunctionOnSet, a fold that *)
(* takes the summands in some order, has in common with a sum.             *)
(***************************************************************************)
EXTENDS Integers, FiniteSets, Functions, FiniteSetTheorems, WellFoundedInduction, TLAPS

\* The summand that the fold takes, its step, and the function that it builds.
First(s) == CHOOSE x \in s : TRUE
SumStep(f, g, s) == IF s = {} THEN 0 ELSE f[First(s)] + g[s \ {First(s)}]
SumGraph(f, S) == CHOOSE g : g = [s \in SUBSET S |-> SumStep(f, g, s)]

LEMMA SumIs ==
  ASSUME NEW f, NEW S
  PROVE  SumFunctionOnSet(f, S) = SumGraph(f, S)[S]
BY DEF SumFunctionOnSet, FoldFunctionOnSet, MapThenFoldSet, SumGraph, SumStep, First

\* A property of numbers that fails somewhere fails at a least number.
LEMMA LeastExists ==
  ASSUME NEW T \in SUBSET Nat, T # {}
  PROVE  \E k \in T : \A y \in T : k <= y
<1>1. PICK k \in T : \A y \in T : ~ (<<y, k>> \in OpToRel(<, Nat))
  BY WFMin, NatLessThanWellFounded
<1>2. \A y \in T : ~(y < k)
  BY <1>1 DEF OpToRel
<1>3. \A y \in T : y \in Nat /\ k \in Nat
  OBVIOUS
<1>4. \A y \in T : k <= y
  BY <1>2, <1>3
<1> QED BY <1>1, <1>4

\* Summands are integers.
Summable(f, S) == IsFiniteSet(S) /\ \A x \in S : f[x] \in Int

LEMMA FirstIn ==
  ASSUME NEW S, S # {}
  PROVE  First(S) \in S
BY DEF First

LEMMA Smaller ==
  ASSUME NEW f, NEW S, Summable(f, S), NEW T \in SUBSET S
  PROVE  /\ Summable(f, T)
         /\ Cardinality(T) \in Nat
         /\ Cardinality(T) = 0 <=> T = {}
         /\ \A x \in T : T \ {x} \in SUBSET S /\ Cardinality(T \ {x}) = Cardinality(T) - 1
<1>1. IsFiniteSet(T)
  BY FS_Subset DEF Summable
<1>2. Cardinality(T) \in Nat /\ (Cardinality(T) = 0 <=> T = {})
  BY <1>1, FS_CardinalityType, FS_EmptySet
<1>3. \A x \in T : Cardinality(T \ {x}) = Cardinality(T) - 1
  BY <1>1, FS_RemoveElement
<1>4. Summable(f, T)
  BY <1>1 DEF Summable
<1> QED BY <1>2, <1>3, <1>4

-----------------------------------------------------------------------------
(***************************************************************************)
(* The fold is defined: there is a function that makes its steps.          *)
(***************************************************************************)
Sized(S, n) == {s \in SUBSET S : Cardinality(s) <= n}
Partial(f, S, n, g) ==
    g \in [Sized(S, n) -> Int] /\ \A s \in Sized(S, n) : g[s] = SumStep(f, g, s)

LEMMA PartialZero ==
  ASSUME NEW f, NEW S, Summable(f, S)
  PROVE  \E g : Partial(f, S, 0, g)
<1> DEFINE g == [s \in Sized(S, 0) |-> 0]
<1>1. \A s \in Sized(S, 0) : s = {}
  BY Smaller DEF Sized
<1>2. g \in [Sized(S, 0) -> Int]
  OBVIOUS
<1>3. \A s \in Sized(S, 0) : g[s] = SumStep(f, g, s)
  BY <1>1 DEF SumStep
<1> QED BY <1>2, <1>3 DEF Partial

LEMMA PartialNext ==
  ASSUME NEW f, NEW S, Summable(f, S), NEW n \in Nat, NEW g, Partial(f, S, n, g)
  PROVE  \E h : Partial(f, S, n + 1, h)
<1> DEFINE h == [s \in Sized(S, n + 1) |-> IF s \in Sized(S, n) THEN g[s] ELSE SumStep(f, g, s)]
<1>0. g \in [Sized(S, n) -> Int] /\ \A s \in Sized(S, n) : g[s] = SumStep(f, g, s)
  BY DEF Partial
<1>1. ASSUME NEW s \in Sized(S, n + 1), s # {}
      PROVE  /\ First(s) \in s /\ f[First(s)] \in Int
             /\ s \ {First(s)} \in Sized(S, n)
             /\ s \ {First(s)} \in Sized(S, n + 1)
  <2>1. s \in SUBSET S /\ Cardinality(s) <= n + 1
    BY <1>1 DEF Sized
  <2>2. First(s) \in s
    BY <1>1, FirstIn
  <2>3. Summable(f, s) /\ Cardinality(s) \in Nat
    BY <2>1, Smaller
  <2>4. s \ {First(s)} \in SUBSET S /\ Cardinality(s \ {First(s)}) = Cardinality(s) - 1
    BY <2>1, <2>2, Smaller
  <2> QED BY <2>1, <2>2, <2>3, <2>4 DEF Sized, Summable
<1>2. \A s \in Sized(S, n + 1) : h[s] = SumStep(f, g, s)
  BY <1>0
<1>3. ASSUME NEW s \in Sized(S, n + 1)
      PROVE  h[s] \in Int /\ h[s] = SumStep(f, h, s)
  <2>1. CASE s = {}
    <3>1. SumStep(f, g, s) = 0 /\ SumStep(f, h, s) = 0
      BY <2>1 DEF SumStep
    <3> QED BY <1>2, <3>1
  <2>2. CASE s # {}
    <3>1. g[s \ {First(s)}] \in Int /\ h[s \ {First(s)}] = g[s \ {First(s)}]
      BY <1>0, <1>1, <2>2
    <3>2. h[s] = f[First(s)] + g[s \ {First(s)}]
      BY <1>2, <2>2 DEF SumStep
    <3>3. f[First(s)] \in Int
      BY <1>1, <2>2
    <3> HIDE DEF h
    <3> QED BY <2>2, <3>1, <3>2, <3>3 DEF SumStep
  <2> QED BY <2>1, <2>2
<1>4. h \in [Sized(S, n + 1) -> Int]
  BY <1>3
<1>5. Partial(f, S, n + 1, h)
  <2> HIDE DEF h
  <2> QED BY <1>3, <1>4 DEF Partial
<1> QED BY <1>5

LEMMA PartialExists ==
  ASSUME NEW f, NEW S, Summable(f, S), NEW n \in Nat
  PROVE  \E g : Partial(f, S, n, g)
<1> DEFINE T == {m \in Nat : ~\E g : Partial(f, S, m, g)}
<1>1. CASE T = {}
  BY <1>1
<1>2. CASE T # {}
  <2>1. PICK k \in T : \A y \in T : k <= y
    <3>1. T \in SUBSET Nat
      OBVIOUS
    <3> HIDE DEF T
    <3> QED BY <1>2, <3>1, LeastExists
  <2>2. k \in Nat /\ k # 0
    BY <2>1, PartialZero
  <2>3. k - 1 \in Nat /\ ~(k - 1 \in T)
    BY <2>1, <2>2
  <2>4. PICK g : Partial(f, S, k - 1, g)
    BY <2>3
  <2>5. \E h : Partial(f, S, (k - 1) + 1, h)
    BY <2>3, <2>4, PartialNext
  <2>6. (k - 1) + 1 = k
    BY <2>2
  <2> QED BY <2>1, <2>5, <2>6
<1> QED BY <1>1, <1>2

LEMMA GraphExists ==
  ASSUME NEW f, NEW S, Summable(f, S)
  PROVE  /\ SumGraph(f, S) \in [SUBSET S -> Int]
         /\ \A s \in SUBSET S : SumGraph(f, S)[s] = SumStep(f, SumGraph(f, S), s)
<1>1. S \in SUBSET S
  OBVIOUS
<1>2. Cardinality(S) \in Nat
  BY <1>1, Smaller
<1>3. Sized(S, Cardinality(S)) = SUBSET S
  <2>1. \A s \in SUBSET S : Cardinality(s) <= Cardinality(S)
    BY FS_Subset DEF Summable
  <2> QED BY <2>1 DEF Sized
<1>4. PICK g : Partial(f, S, Cardinality(S), g)
  BY <1>2, PartialExists
<1>5. g \in [SUBSET S -> Int] /\ g = [s \in SUBSET S |-> SumStep(f, g, s)]
  BY <1>3, <1>4 DEF Partial
<1> DEFINE G == SumGraph(f, S)
<1>6. G = [s \in SUBSET S |-> SumStep(f, G, s)]
  BY <1>5 DEF SumGraph
<1>7. \A s \in SUBSET S : G[s] = SumStep(f, G, s)
  <2> HIDE DEF G
  <2> QED BY <1>6
<1>8. \A s \in SUBSET S : G[s] = g[s]
  <2> DEFINE T == {Cardinality(s) : s \in {t \in SUBSET S : G[t] # g[t]}}
  <2> HIDE DEF G
  <2>1. CASE T = {}
    BY <2>1
  <2>2. CASE T # {}
    <3>1. T \in SUBSET Nat
      BY Smaller
    <3>2. PICK k \in T : \A y \in T : k <= y
      <4> HIDE DEF T
      <4> QED BY <2>2, <3>1, LeastExists
    <3>3. PICK s \in SUBSET S : G[s] # g[s] /\ Cardinality(s) = k
      BY <3>2
    <3>4. g[s] = SumStep(f, g, s) /\ G[s] = SumStep(f, G, s)
      BY <1>5, <1>7
    <3>5. s # {}
      BY <3>3, <3>4 DEF SumStep
    <3>6. First(s) \in s
      BY <3>5, FirstIn
    <3>7. s \ {First(s)} \in SUBSET S /\ Cardinality(s \ {First(s)}) = k - 1 /\ k \in Nat
      BY <3>1, <3>3, <3>6, Smaller
    <3>8. ~(k - 1 \in T)
      <4> HIDE DEF T
      <4> QED BY <3>2, <3>7
    <3>9. G[s \ {First(s)}] = g[s \ {First(s)}]
      BY <3>7, <3>8
    <3> QED BY <3>3, <3>4, <3>5, <3>9 DEF SumStep
  <2> QED BY <2>1, <2>2
<1>9. G \in [SUBSET S -> Int]
  <2>1. \A s \in SUBSET S : G[s] \in Int
    BY <1>5, <1>8
  <2> HIDE DEF G
  <2> QED BY <1>6, <2>1
<1> QED BY <1>7, <1>9

\* The part of a fold that sums a smaller set is the fold of that set.
LEMMA PartOfGraph ==
  ASSUME NEW f, NEW S, Summable(f, S), NEW R \in SUBSET S
  PROVE  SumGraph(f, S)[R] = SumGraph(f, R)[R]
<1> DEFINE G == SumGraph(f, S)
           g == SumGraph(f, R)
           T == {Cardinality(s) : s \in {t \in SUBSET R : G[t] # g[t]}}
<1>1. \A s \in SUBSET S : G[s] = SumStep(f, G, s)
  BY GraphExists
<1>2. Summable(f, R)
  BY Smaller
<1>3. \A s \in SUBSET R : g[s] = SumStep(f, g, s)
  BY <1>2, GraphExists
<1> HIDE DEF G, g
<1>4. CASE T = {}
  BY <1>4 DEF G, g
<1>5. CASE T # {}
  <2>1. T \in SUBSET Nat
    BY <1>2, Smaller
  <2>2. PICK k \in T : \A y \in T : k <= y
    <3> HIDE DEF T
    <3> QED BY <1>5, <2>1, LeastExists
  <2>3. PICK s \in SUBSET R : G[s] # g[s] /\ Cardinality(s) = k
    BY <2>2
  <2>4. g[s] = SumStep(f, g, s) /\ G[s] = SumStep(f, G, s)
    BY <1>1, <1>3
  <2>5. s # {}
    BY <2>3, <2>4 DEF SumStep
  <2>6. First(s) \in s
    BY <2>5, FirstIn
  <2>7. s \ {First(s)} \in SUBSET R /\ Cardinality(s \ {First(s)}) = k - 1 /\ k \in Nat
    BY <1>2, <2>1, <2>3, <2>6, Smaller
  <2>8. ~(k - 1 \in T)
    <3> HIDE DEF T
    <3> QED BY <2>2, <2>7
  <2>9. G[s \ {First(s)}] = g[s \ {First(s)}]
    BY <2>7, <2>8
  <2> QED BY <2>3, <2>4, <2>5, <2>9 DEF SumStep
<1> QED BY <1>4, <1>5

-----------------------------------------------------------------------------
(***************************************************************************)
(* What a sum is.                                                          *)
(***************************************************************************)
LEMMA SumOfNone ==
  ASSUME NEW f
  PROVE  SumFunctionOnSet(f, {}) = 0
<1>1. Summable(f, {})
  BY FS_EmptySet DEF Summable
<1> QED BY <1>1, SumIs, GraphExists DEF SumStep

LEMMA SumInt ==
  ASSUME NEW f, NEW S, Summable(f, S)
  PROVE  SumFunctionOnSet(f, S) \in Int
<1>1. S \in SUBSET S
  OBVIOUS
<1> DEFINE G == SumGraph(f, S)
<1>2. G \in [SUBSET S -> Int]
  BY GraphExists
<1>3. G[S] \in Int
  <2> HIDE DEF G
  <2> QED BY <1>1, <1>2
<1> QED BY <1>3, SumIs

LEMMA SumFirst ==
  ASSUME NEW f, NEW S, Summable(f, S), S # {}
  PROVE  SumFunctionOnSet(f, S) = f[First(S)] + SumFunctionOnSet(f, S \ {First(S)})
<1>1. SumGraph(f, S)[S] = f[First(S)] + SumGraph(f, S)[S \ {First(S)}]
  <2>1. S \in SUBSET S
    OBVIOUS
  <2>2. SumGraph(f, S)[S] = SumStep(f, SumGraph(f, S), S)
    BY <2>1, GraphExists
  <2> QED BY <2>2 DEF SumStep
<1>2. SumGraph(f, S)[S \ {First(S)}] = SumGraph(f, S \ {First(S)})[S \ {First(S)}]
  BY PartOfGraph
<1> QED BY <1>1, <1>2, SumIs

\* Any summand can be taken out.
LEMMA SumWithout ==
  ASSUME NEW f, NEW S, Summable(f, S), NEW x \in S
  PROVE  SumFunctionOnSet(f, S) = f[x] + SumFunctionOnSet(f, S \ {x})
<1> DEFINE Wrong(s) == \E y \in s : SumFunctionOnSet(f, s) # f[y] + SumFunctionOnSet(f, s \ {y})
           T == {Cardinality(s) : s \in {t \in SUBSET S : Wrong(t)}}
<1>1. CASE T = {}
  BY <1>1
<1>2. CASE T # {}
  <2>1. T \in SUBSET Nat
    BY Smaller
  <2>2. PICK k \in T : \A y \in T : k <= y
    <3> HIDE DEF T
    <3> QED BY <1>2, <2>1, LeastExists
  <2>3. PICK s \in SUBSET S : Wrong(s) /\ Cardinality(s) = k
    BY <2>2
  <2>4. PICK y \in s : SumFunctionOnSet(f, s) # f[y] + SumFunctionOnSet(f, s \ {y})
    BY <2>3
  <2> DEFINE c == First(s)
             Q == (s \ {c}) \ {y}
  <2>5. c \in s
    BY <2>4, FirstIn
  <2>6. Summable(f, s)
    BY Smaller
  <2>7. SumFunctionOnSet(f, s) = f[c] + SumFunctionOnSet(f, s \ {c})
    BY <2>4, <2>6, SumFirst
  <2> HIDE DEF c
  <2>8. c # y
    BY <2>4, <2>7
  <2>9. \A z \in s : s \ {z} \in SUBSET S /\ ~Wrong(s \ {z})
    <3> TAKE z \in s
    <3>1. s \ {z} \in SUBSET S /\ Cardinality(s \ {z}) = k - 1 /\ k \in Nat
      BY <2>1, <2>3, Smaller
    <3>2. ~(k - 1 \in T)
      <4> HIDE DEF T
      <4> QED BY <2>2, <3>1
    <3> QED BY <3>1, <3>2
  <2>10. SumFunctionOnSet(f, s \ {c}) = f[y] + SumFunctionOnSet(f, Q)
    BY <2>4, <2>5, <2>8, <2>9
  <2>11. SumFunctionOnSet(f, s \ {y}) = f[c] + SumFunctionOnSet(f, Q)
    <3>1. (s \ {y}) \ {c} = Q
      OBVIOUS
    <3>2. SumFunctionOnSet(f, s \ {y}) = f[c] + SumFunctionOnSet(f, (s \ {y}) \ {c})
      BY <2>4, <2>5, <2>8, <2>9
    <3> QED BY <3>1, <3>2
  <2>12. SumFunctionOnSet(f, Q) \in Int /\ f[y] \in Int /\ f[c] \in Int
    <3>1. Q \in SUBSET S
      OBVIOUS
    <3>2. Summable(f, Q)
      BY <3>1, Smaller
    <3>3. f[y] \in Int /\ f[c] \in Int
      BY <2>4, <2>5, <2>6 DEF Summable
    <3> QED BY <3>2, <3>3, SumInt
  <2> HIDE DEF Q
  <2> QED BY <2>4, <2>7, <2>10, <2>11, <2>12
<1> QED BY <1>1, <1>2

\* Only the summands count.
LEMMA SumSame ==
  ASSUME NEW f, NEW g, NEW S, Summable(f, S), \A x \in S : f[x] = g[x]
  PROVE  SumFunctionOnSet(f, S) = SumFunctionOnSet(g, S)
<1> DEFINE Wrong(s) == SumFunctionOnSet(f, s) # SumFunctionOnSet(g, s)
           T == {Cardinality(s) : s \in {t \in SUBSET S : Wrong(t)}}
<1>0. Summable(g, S)
  BY DEF Summable
<1>1. CASE T = {}
  BY <1>1
<1>2. CASE T # {}
  <2>1. T \in SUBSET Nat
    BY Smaller
  <2>2. PICK k \in T : \A y \in T : k <= y
    <3> HIDE DEF T
    <3> QED BY <1>2, <2>1, LeastExists
  <2>3. PICK s \in SUBSET S : Wrong(s) /\ Cardinality(s) = k
    BY <2>2
  <2>4. s # {}
    BY <2>3, SumOfNone
  <2>5. First(s) \in s
    BY <2>4, FirstIn
  <2>6. Summable(f, s) /\ Summable(g, s)
    BY <1>0, Smaller
  <2>7. /\ SumFunctionOnSet(f, s) = f[First(s)] + SumFunctionOnSet(f, s \ {First(s)})
        /\ SumFunctionOnSet(g, s) = g[First(s)] + SumFunctionOnSet(g, s \ {First(s)})
    BY <2>4, <2>6, SumFirst
  <2>8. s \ {First(s)} \in SUBSET S /\ Cardinality(s \ {First(s)}) = k - 1 /\ k \in Nat
    BY <2>1, <2>3, <2>5, Smaller
  <2>9. ~(k - 1 \in T)
    <3> HIDE DEF T
    <3> QED BY <2>2, <2>8
  <2> QED BY <2>3, <2>5, <2>7, <2>8, <2>9
<1> QED BY <1>1, <1>2

-----------------------------------------------------------------------------
(***************************************************************************)
(* Sums of consecutive numbers.                                            *)
(***************************************************************************)
LEMMA SummableInterval ==
  ASSUME NEW f, NEW m \in Int, NEW n \in Int, \A i \in m..n : f[i] \in Int
  PROVE  Summable(f, m..n)
BY FS_Interval DEF Summable

\* The last and the first summand of an interval.
LEMMA SumLast ==
  ASSUME NEW f, NEW m \in Int, NEW n \in Int, m <= n, \A i \in m..n : f[i] \in Int
  PROVE  SumFunctionOnSet(f, m..n) = f[n] + SumFunctionOnSet(f, m..n - 1)
<1>1. Summable(f, m..n) /\ n \in m..n
  BY SummableInterval
<1>2. (m..n) \ {n} = m..n - 1
  OBVIOUS
<1> QED BY <1>1, <1>2, SumWithout

LEMMA SumHead ==
  ASSUME NEW f, NEW m \in Int, NEW n \in Int, m <= n, \A i \in m..n : f[i] \in Int
  PROVE  SumFunctionOnSet(f, m..n) = f[m] + SumFunctionOnSet(f, m + 1..n)
<1>1. Summable(f, m..n) /\ m \in m..n
  BY SummableInterval
<1>2. (m..n) \ {m} = m + 1..n
  OBVIOUS
<1> QED BY <1>1, <1>2, SumWithout

\* Where the summands are does not matter.
LEMMA SumShift ==
  ASSUME NEW f, NEW g, NEW n \in Nat, NEW d \in Int,
         \A i \in 1..n : f[i] \in Int /\ g[d + i] = f[i]
  PROVE  SumFunctionOnSet(f, 1..n) = SumFunctionOnSet(g, d + 1..d + n)
<1> DEFINE Wrong(k) == SumFunctionOnSet(f, 1..k) # SumFunctionOnSet(g, d + 1..d + k)
           T == {k \in 0..n : Wrong(k)}
<1>1. CASE T = {}
  <2>1. n \in 0..n
    OBVIOUS
  <2> QED BY <1>1, <2>1
<1>2. CASE T # {}
  <2>1. PICK k \in T : \A y \in T : k <= y
    <3>1. T \in SUBSET Nat
      OBVIOUS
    <3> HIDE DEF T
    <3> QED BY <1>2, <3>1, LeastExists
  <2>2. k \in 0..n /\ Wrong(k)
    BY <2>1
  <2>3. k # 0
    <3>1. 1..0 = {} /\ d + 1..d + 0 = {}
      OBVIOUS
    <3>2. ~Wrong(0)
      BY <3>1, SumOfNone
    <3> QED BY <2>2, <3>2
  <2>4. k - 1 \in 0..n /\ ~(k - 1 \in T)
    <3>1. k - 1 \in 0..n /\ ~(k <= k - 1)
      BY <2>2, <2>3
    <3> HIDE DEF T
    <3> QED BY <2>1, <3>1
  <2>5. ~Wrong(k - 1)
    BY <2>4
  <2>6. SumFunctionOnSet(f, 1..k) = f[k] + SumFunctionOnSet(f, 1..k - 1)
    <3>1. 1 <= k /\ k \in Int /\ \A i \in 1..k : f[i] \in Int
      BY <2>2, <2>3
    <3> QED BY <3>1, SumLast
  <2>7. SumFunctionOnSet(g, d + 1..d + k) = g[d + k] + SumFunctionOnSet(g, d + 1..d + (k - 1))
    <3>1. d + 1 <= d + k /\ d + 1 \in Int /\ d + k \in Int /\ (d + k) - 1 = d + (k - 1)
      BY <2>2, <2>3
    <3>2. ASSUME NEW i \in d + 1..d + k PROVE g[i] \in Int
      <4>1. i - d \in 1..n /\ d + (i - d) = i
        BY <2>2
      <4> QED BY <4>1
    <3> QED BY <3>1, <3>2, SumLast
  <2>8. g[d + k] = f[k]
    BY <2>2, <2>3
  <2> QED BY <2>2, <2>5, <2>6, <2>7, <2>8
<1> QED BY <1>1, <1>2

\* A sum in two parts.
LEMMA SumSplit ==
  ASSUME NEW f, NEW n \in Nat, NEW m \in 0..n, \A i \in 1..n : f[i] \in Int
  PROVE  /\ SumFunctionOnSet(f, 1..n)
                = SumFunctionOnSet(f, 1..m) + SumFunctionOnSet(f, m + 1..n)
         /\ SumFunctionOnSet(f, 1..m) \in Int /\ SumFunctionOnSet(f, m + 1..n) \in Int
<1> DEFINE Low(k) == SumFunctionOnSet(f, 1..k)
           High(k) == SumFunctionOnSet(f, k + 1..n)
           Wrong(k) == Low(n) # Low(k) + High(k)
           T == {k \in 0..n : Wrong(k)}
<1>0. \A k \in 0..n : Low(k) \in Int /\ High(k) \in Int
  <2> TAKE k \in 0..n
  <2>1. Summable(f, 1..k)
    BY SummableInterval
  <2>2. Summable(f, k + 1..n)
    BY SummableInterval
  <2> QED BY <2>1, <2>2, SumInt
<1>1. CASE T = {}
  BY <1>0, <1>1
<1>2. CASE T # {}
  <2>1. PICK k \in T : \A y \in T : k <= y
    <3>1. T \in SUBSET Nat
      OBVIOUS
    <3> HIDE DEF T
    <3> QED BY <1>2, <3>1, LeastExists
  <2>2. k \in 0..n /\ Wrong(k)
    BY <2>1
  <2>3. k # 0
    <3>1. 1..0 = {} /\ 0 + 1..n = 1..n
      OBVIOUS
    <3>2. Low(0) = 0 /\ High(0) = Low(n) /\ Low(n) \in Int
      BY <1>0, <3>1, SumOfNone
    <3> HIDE DEF Low, High
    <3> QED BY <2>2, <3>2
  <2>4. k - 1 \in 0..n /\ ~(k - 1 \in T)
    <3>1. k - 1 \in 0..n /\ ~(k <= k - 1)
      BY <2>2, <2>3
    <3> HIDE DEF T
    <3> QED BY <2>1, <3>1
  <2>5. Low(n) = Low(k - 1) + High(k - 1)
    BY <2>4
  <2>6. Low(k) = f[k] + Low(k - 1)
    <3>1. 1 <= k /\ k \in Int /\ \A i \in 1..k : f[i] \in Int
      BY <2>2, <2>3
    <3> QED BY <3>1, SumLast
  <2>7. High(k - 1) = f[k] + High(k)
    <3>1. k <= n /\ k \in Int /\ \A i \in k..n : f[i] \in Int
      BY <2>2, <2>3
    <3>2. (k - 1) + 1 = k
      BY <2>2
    <3> QED BY <3>1, <3>2, SumHead
  <2>8. f[k] \in Int /\ Low(k) \in Int /\ High(k) \in Int /\ Low(k - 1) \in Int /\ High(k - 1) \in Int
    BY <1>0, <2>2, <2>3, <2>4
  <2> HIDE DEF Low, High
  <2> QED BY <2>2, <2>5, <2>6, <2>7, <2>8
<1> QED BY <1>1, <1>2
=============================================================================
