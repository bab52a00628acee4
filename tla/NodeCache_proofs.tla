-------------------------- MODULE NodeCache_proofs --------------------------
(***************************************************************************)
(* Proofs of the cache of nodes: NodeCache with its server, for any        *)
(* scenario that satisfies the assumption and as many objects as the       *)
(* program asks for (Unlimited).                                           *)
(*                                                                         *)
(* The server's answer to a graph is entered in the cache body by body, in *)
(* the order of the ids, and then the objects are linked. The first        *)
(* sections say what holds of such a fold, of the numbers in order, and of *)
(* linking; the next that every operation of the cache ends in a Later     *)
(* cache, one that has lost and renamed no object; the last go through the *)
(* steps of the pages, the server and the answers.                         *)
(***************************************************************************)
EXTENDS NodeCache, Sums, SequenceTheorems, FunctionTheorems

-----------------------------------------------------------------------------
(***************************************************************************)
(* Folds.  A fold over the subsets of D takes the element pick[s] from s   *)
(* last, and F[s] says what becomes of the result for the others.  When    *)
(* each of these steps stays in the sets X, the fold is defined and its    *)
(* results are in them.                                                    *)
(***************************************************************************)
Folding(D, pick, X, F, base) ==
    /\ IsFiniteSet(D)
    /\ base \in X[{}]
    /\ \A s \in SUBSET D : s # {} =>
        pick[s] \in s /\ \A a \in X[s \ {pick[s]}] : F[s][a] \in X[s]

FoldStep(pick, F, base, g, s) == IF s = {} THEN base ELSE F[s][g[s \ {pick[s]}]]

FoldUpTo(D, pick, X, F, base, n, g) ==
    \A s \in Sized(D, n) : g[s] = FoldStep(pick, F, base, g, s) /\ g[s] \in X[s]

\* The fold, what makes the same steps as long as it stays in the sets X, and what stays.
FoldGraph(D, pick, F, base, g) == g = [s \in SUBSET D |-> FoldStep(pick, F, base, g, s)]

Follows(D, pick, X, F, base, g) ==
    /\ g[{}] = base
    /\ \A s \in SUBSET D : s # {} /\ g[s \ {pick[s]}] \in X[s \ {pick[s]}] =>
        g[s] = F[s][g[s \ {pick[s]}]]

Inside(D, X, g) == \A s \in SUBSET D : g[s] \in X[s]

LEMMA Without ==
  ASSUME NEW D, IsFiniteSet(D), NEW n \in Nat, NEW s \in Sized(D, n + 1), NEW x \in s
  PROVE  s \ {x} \in Sized(D, n) /\ s \ {x} \in Sized(D, n + 1) /\ s \ {x} \in SUBSET D
<1>1. s \in SUBSET D /\ Cardinality(s) <= n + 1
  BY DEF Sized
<1>2. IsFiniteSet(s)
  BY <1>1, FS_Subset
<1>3. Cardinality(s) \in Nat /\ Cardinality(s \ {x}) = Cardinality(s) - 1
  BY <1>2, FS_RemoveElement, FS_CardinalityType
<1> QED BY <1>1, <1>3 DEF Sized

LEMMA FoldUpToZero ==
  ASSUME NEW D, NEW pick, NEW X, NEW F, NEW base, Folding(D, pick, X, F, base)
  PROVE  \E g : g = [s \in Sized(D, 0) |-> g[s]] /\ FoldUpTo(D, pick, X, F, base, 0, g)
<1> DEFINE g == [s \in Sized(D, 0) |-> base]
<1>1. \A s \in Sized(D, 0) : s = {}
  <2>1. ASSUME NEW s \in Sized(D, 0) PROVE s = {}
    <3>1. IsFiniteSet(s) /\ Cardinality(s) <= 0
      BY FS_Subset DEF Sized, Folding
    <3>2. Cardinality(s) = 0
      BY <3>1, FS_CardinalityType
    <3> QED BY <3>1, <3>2, FS_EmptySet
  <2> QED BY <2>1
<1>2. \A s \in Sized(D, 0) : g[s] = base
  OBVIOUS
<1>3. g = [s \in Sized(D, 0) |-> g[s]]
  OBVIOUS
<1>4. FoldUpTo(D, pick, X, F, base, 0, g)
  <2> HIDE DEF g
  <2> QED BY <1>1, <1>2 DEF FoldUpTo, FoldStep, Folding
<1> QED BY <1>3, <1>4

LEMMA FoldUpToNext ==
  ASSUME NEW D, NEW pick, NEW X, NEW F, NEW base, Folding(D, pick, X, F, base),
         NEW n \in Nat, NEW g, FoldUpTo(D, pick, X, F, base, n, g)
  PROVE  \E h : h = [s \in Sized(D, n + 1) |-> h[s]] /\ FoldUpTo(D, pick, X, F, base, n + 1, h)
<1> DEFINE h == [s \in Sized(D, n + 1) |-> FoldStep(pick, F, base, g, s)]
<1>1. \A s \in Sized(D, n + 1) : h[s] = FoldStep(pick, F, base, g, s)
  OBVIOUS
<1>2. h = [s \in Sized(D, n + 1) |-> h[s]]
  OBVIOUS
<1> HIDE DEF h
<1>3. \A s \in Sized(D, n) : s \in Sized(D, n + 1) /\ h[s] = g[s]
  <2>1. \A s \in Sized(D, n) : s \in Sized(D, n + 1)
    <3> SUFFICES ASSUME NEW s \in Sized(D, n) PROVE s \in Sized(D, n + 1)
      OBVIOUS
    <3>1. s \in SUBSET D /\ Cardinality(s) <= n
      BY DEF Sized
    <3>2. Cardinality(s) \in Nat
      BY <3>1, FS_Subset, FS_CardinalityType DEF Folding
    <3> QED BY <3>1, <3>2 DEF Sized
  <2> QED BY <1>1, <2>1 DEF FoldUpTo
<1>4. ASSUME NEW s \in Sized(D, n + 1)
      PROVE  h[s] = FoldStep(pick, F, base, h, s) /\ h[s] \in X[s]
  <2>1. CASE s = {}
    BY <1>1, <2>1 DEF FoldStep, Folding
  <2>2. CASE s # {}
    <3>1. s \in SUBSET D
      BY DEF Sized
    <3>2. pick[s] \in s
      BY <2>2, <3>1 DEF Folding
    <3>3. s \ {pick[s]} \in Sized(D, n)
      BY <3>2, Without DEF Folding
    <3>4. g[s \ {pick[s]}] \in X[s \ {pick[s]}] /\ h[s \ {pick[s]}] = g[s \ {pick[s]}]
      BY <1>3, <3>3 DEF FoldUpTo
    <3>5. h[s] = F[s][g[s \ {pick[s]}]]
      BY <1>1, <2>2 DEF FoldStep
    <3>6. F[s][g[s \ {pick[s]}]] \in X[s]
      BY <2>2, <3>1, <3>4 DEF Folding
    <3> QED BY <2>2, <3>4, <3>5, <3>6 DEF FoldStep
  <2> QED BY <2>1, <2>2
<1>5. FoldUpTo(D, pick, X, F, base, n + 1, h)
  BY <1>4 DEF FoldUpTo
<1> QED BY <1>2, <1>5

LEMMA FoldUpToAny ==
  ASSUME NEW D, NEW pick, NEW X, NEW F, NEW base, Folding(D, pick, X, F, base), NEW n \in Nat
  PROVE  \E g : g = [s \in Sized(D, n) |-> g[s]] /\ FoldUpTo(D, pick, X, F, base, n, g)
<1> DEFINE HasFold(m) == \E g : g = [s \in Sized(D, m) |-> g[s]] /\ FoldUpTo(D, pick, X, F, base, m, g)
           T == {m \in Nat : ~HasFold(m)}
<1>1. CASE T = {}
  BY <1>1
<1>2. CASE T # {}
  <2>1. PICK k \in T : \A y \in T : k <= y
    <3>1. T \in SUBSET Nat
      OBVIOUS
    <3> HIDE DEF T
    <3> QED BY <1>2, <3>1, LeastExists
  <2>2. HasFold(0)
    BY FoldUpToZero
  <2>3. k \in Nat /\ k # 0 /\ ~HasFold(k)
    BY <2>1, <2>2
  <2>4. k - 1 \in Nat /\ (k - 1) + 1 = k
    BY <2>3
  <2>5. k - 1 \notin T
    <3> HIDE DEF T
    <3> QED BY <2>1, <2>3, <2>4
  <2>6. HasFold(k - 1)
    BY <2>4, <2>5
  <2>7. HasFold((k - 1) + 1)
    BY <2>4, <2>6, FoldUpToNext
  <2> HIDE DEF HasFold
  <2> QED BY <2>3, <2>4, <2>7
<1> QED BY <1>1, <1>2

LEMMA AllSized ==
  ASSUME NEW D, IsFiniteSet(D)
  PROVE  Cardinality(D) \in Nat /\ Sized(D, Cardinality(D)) = SUBSET D
<1>1. Cardinality(D) \in Nat
  BY FS_CardinalityType
<1>2. \A s \in SUBSET D : Cardinality(s) <= Cardinality(D)
  BY FS_Subset
<1> QED BY <1>1, <1>2 DEF Sized

LEMMA FoldExists ==
  ASSUME NEW D, NEW pick, NEW X, NEW F, NEW base, Folding(D, pick, X, F, base)
  PROVE  \E g : FoldGraph(D, pick, F, base, g) /\ Inside(D, X, g)
<1>1. Cardinality(D) \in Nat /\ Sized(D, Cardinality(D)) = SUBSET D
  BY AllSized DEF Folding
<1>2. PICK g : /\ g = [s \in Sized(D, Cardinality(D)) |-> g[s]]
               /\ FoldUpTo(D, pick, X, F, base, Cardinality(D), g)
  BY <1>1, FoldUpToAny
<1>3. \A s \in SUBSET D : g[s] = FoldStep(pick, F, base, g, s) /\ g[s] \in X[s]
  BY <1>1, <1>2 DEF FoldUpTo
<1>4. g = [s \in SUBSET D |-> g[s]]
  BY <1>1, <1>2
<1>5. FoldGraph(D, pick, F, base, g)
  BY <1>3, <1>4 DEF FoldGraph
<1> QED BY <1>3, <1>5 DEF Inside

LEMMA FoldStays ==
  ASSUME NEW D, NEW pick, NEW X, NEW F, NEW base, Folding(D, pick, X, F, base),
         NEW g, Follows(D, pick, X, F, base, g)
  PROVE  Inside(D, X, g)
<1> DEFINE T == {Cardinality(s) : s \in {t \in SUBSET D : g[t] \notin X[t]}}
<1>1. CASE T = {}
  BY <1>1 DEF Inside
<1>2. CASE T # {}
  <2>1. T \in SUBSET Nat
    BY FS_Subset, FS_CardinalityType DEF Folding
  <2>2. PICK k \in T : \A y \in T : k <= y
    <3> HIDE DEF T
    <3> QED BY <1>2, <2>1, LeastExists
  <2>3. PICK s \in SUBSET D : g[s] \notin X[s] /\ Cardinality(s) = k
    BY <2>2
  <2>4. s # {}
    BY <2>3 DEF Folding, Follows
  <2>5. pick[s] \in s
    BY <2>4 DEF Folding
  <2>6. s \ {pick[s]} \in SUBSET D /\ Cardinality(s \ {pick[s]}) = k - 1 /\ k \in Nat
    BY <2>1, <2>3, <2>5, FS_Subset, FS_RemoveElement, FS_CardinalityType DEF Folding
  <2>7. k - 1 \notin T
    <3> HIDE DEF T
    <3> QED BY <2>2, <2>6
  <2>8. g[s \ {pick[s]}] \in X[s \ {pick[s]}]
    BY <2>6, <2>7
  <2> QED BY <2>3, <2>4, <2>8 DEF Folding, Follows
<1> QED BY <1>1, <1>2

-----------------------------------------------------------------------------
(***************************************************************************)
(* Numbers: the greatest and the least of a set, and its elements in their *)
(* order.                                                                  *)
(***************************************************************************)
LEMMA MinIn ==
  ASSUME NEW S \in SUBSET Nat, S # {}
  PROVE  Min(S) \in S
<1>1. \E x \in S : \A y \in S : x <= y
  BY LeastExists
<1> QED BY <1>1 DEF Min

LEMMA MaxIn ==
  ASSUME NEW n \in Nat, NEW S \in SUBSET (1..n), S # {}
  PROVE  Max(S) \in S
<1> DEFINE T == {n - x : x \in S}
<1>0. \A x \in S : x \in Nat /\ n - x \in Nat
  OBVIOUS
<1>1. T \in SUBSET Nat /\ T # {}
  BY <1>0
<1>2. PICK k \in T : \A y \in T : k <= y
  <2> HIDE DEF T
  <2> QED BY <1>1, LeastExists
<1>3. PICK x \in S : k = n - x
  BY <1>2
<1>4. \A y \in S : n - x <= n - y
  BY <1>2, <1>3
<1>5. \A y \in S : x >= y
  BY <1>0, <1>4
<1>6. \E m \in S : \A y \in S : m >= y
  BY <1>5
<1> QED BY <1>6 DEF Max

Rank(S, x) == Cardinality({y \in S : y <= x})

LEMMA RankGrows ==
  ASSUME NEW S \in SUBSET Nat, IsFiniteSet(S), NEW x \in S
  PROVE  /\ Rank(S, x) \in 1..Cardinality(S)
         /\ \A y \in S : Rank(S, y) = Rank(S, x) => y = x
<1> DEFINE Upto(z) == {y \in S : y <= z}
<1>1. \A z \in S : IsFiniteSet(Upto(z)) /\ Cardinality(Upto(z)) \in Nat
  BY FS_Subset, FS_CardinalityType
<1>2. Cardinality(Upto(x)) <= Cardinality(S)
  BY FS_Subset
<1>3. Cardinality(Upto(x)) # 0
  <2>1. x \in Upto(x)
    OBVIOUS
  <2> HIDE DEF Upto
  <2> QED BY <1>1, <2>1, FS_EmptySet
<1>4. ASSUME NEW y \in S, NEW z \in S, y < z
      PROVE  Cardinality(Upto(y)) < Cardinality(Upto(z))
  <2>0. y \in Nat /\ z \in Nat /\ \A w \in S : w \in Nat
    OBVIOUS
  <2>1. Upto(y) \subseteq Upto(z) /\ z \in Upto(z) /\ z \notin Upto(y)
    <3>1. ASSUME NEW w \in S, w <= y PROVE w <= z
      BY <1>4, <2>0, <3>1
    <3>2. z <= z /\ ~(z <= y)
      BY <1>4, <2>0
    <3> QED BY <3>1, <3>2
  <2> HIDE DEF Upto
  <2>2. Upto(y) # Upto(z)
    BY <2>1
  <2>3. Cardinality(Upto(y)) <= Cardinality(Upto(z))
    BY <1>1, <2>1, FS_Subset
  <2>4. Cardinality(Upto(y)) # Cardinality(Upto(z))
    BY <1>1, <2>1, <2>2, FS_Subset
  <2> QED BY <1>1, <2>3, <2>4
<1>5. Cardinality(S) \in Nat
  BY FS_CardinalityType
<1>6. \A y \in S : Cardinality(Upto(y)) = Cardinality(Upto(x)) => y = x
  <2> SUFFICES ASSUME NEW y \in S, y # x, Cardinality(Upto(y)) = Cardinality(Upto(x)) PROVE FALSE
    OBVIOUS
  <2>1. y < x \/ x < y
    OBVIOUS
  <2>2. Cardinality(Upto(x)) \in Nat
    BY <1>1
  <2> HIDE DEF Upto
  <2> QED BY <1>4, <2>1, <2>2
<1>7. \A z \in S : Rank(S, z) = Cardinality(Upto(z))
  BY DEF Rank
<1>8. x \in S
  OBVIOUS
<1> HIDE DEF Upto
<1>9. Rank(S, x) \in 1..Cardinality(S)
  BY <1>1, <1>2, <1>3, <1>5, <1>7, <1>8
<1>10. \A y \in S : Rank(S, y) = Rank(S, x) => y = x
  BY <1>6, <1>7, <1>8
<1> QED BY <1>9, <1>10

LEMMA RanksTaken ==
  ASSUME NEW S \in SUBSET Nat, IsFiniteSet(S), NEW k \in 1..Cardinality(S)
  PROVE  \E x \in S : Rank(S, x) = k
<1> DEFINE n == Cardinality(S)
           f == [x \in S |-> Rank(S, x)]
           R == {f[x] : x \in S}
<1>1. f \in [S -> 1..n] /\ \A x, y \in S : f[x] = f[y] => x = y
  BY RankGrows
<1>2. f \in Surjection(S, R)
  BY DEF Surjection
<1>3. f \in Injection(S, R)
  BY <1>1, <1>2 DEF Injection, Surjection, IsInjective
<1>4. f \in Bijection(S, R)
  BY <1>2, <1>3 DEF Bijection
<1>5. Cardinality(S) = Cardinality(R) /\ IsFiniteSet(R)
  BY <1>4, FS_Bijection DEF ExistsBijection
<1>6. n \in Nat /\ IsFiniteSet(1..n) /\ Cardinality(1..n) = n
  BY FS_CardinalityType, FS_Interval
<1>7. R \subseteq 1..n
  BY <1>1
<1>8. R = 1..n
  BY <1>5, <1>6, <1>7, FS_Subset
<1> QED BY <1>8

\* The numbers in order are a sequence with these elements.
LEMMA InOrderIs ==
  ASSUME NEW S \in SUBSET Nat, IsFiniteSet(S)
  PROVE  /\ Cardinality(S) \in Nat
         /\ InOrder(S) \in [1..Cardinality(S) -> S]
         /\ \A x \in S : \E k \in 1..Cardinality(S) : InOrder(S)[k] = x
<1>1. Cardinality(S) \in Nat
  BY FS_CardinalityType
<1>2. \A k \in 1..Cardinality(S) : \E x \in S : Cardinality({y \in S : y <= x}) = k
  BY RanksTaken DEF Rank
<1>3. \A k \in 1..Cardinality(S) :
        InOrder(S)[k] \in S /\ Cardinality({y \in S : y <= InOrder(S)[k]}) = k
  BY <1>2 DEF InOrder
<1>4. InOrder(S) = [k \in 1..Cardinality(S) |-> InOrder(S)[k]]
  BY DEF InOrder
<1>5. InOrder(S) \in [1..Cardinality(S) -> S]
  BY <1>3, <1>4
<1>6. ASSUME NEW x \in S PROVE \E k \in 1..Cardinality(S) : InOrder(S)[k] = x
  <2>1. Rank(S, x) \in 1..Cardinality(S)
    BY RankGrows
  <2>2. InOrder(S)[Rank(S, x)] \in S /\ Rank(S, InOrder(S)[Rank(S, x)]) = Rank(S, x)
    BY <1>3, <2>1 DEF Rank
  <2>3. \A y \in S : Rank(S, y) = Rank(S, x) => y = x
    BY RankGrows
  <2>4. InOrder(S)[Rank(S, x)] = x
    BY <2>2, <2>3
  <2> QED BY <2>1, <2>4
<1> QED BY <1>1, <1>5, <1>6

-----------------------------------------------------------------------------
(***************************************************************************)
(* The invariant of the cache.                                             *)
(***************************************************************************)
\* All that is ever written in a body: with what it links to.
Word(s) ==
    {t \cup links : t \in {FirstText} \cup s.texts \cup {s.server[i].text : i \in DOMAIN s.server},
                   links \in SUBSET {s.version[k] : k \in s.ids \cup {Draft}}}

Key == Id \cup {Draft}
ObjectMap == UNION {[K -> Obj] : K \in SUBSET Key}
NodeObject ==
    [id : Key, type : NodeType, of : Id \cup {None}, text : Word(scenario), public : BOOLEAN,
     children : Seq(Obj), parents : ObjectMap, hasFullGraph : BOOLEAN]
Graph == [Obj -> {Unused} \cup NodeObject]
Used(g) == {o \in Obj : g[o] # Unused}

\* The objects are linked with each other only, and what has not been saved is called
\* a draft.
Linked(g) ==
    \A o \in Used(g) :
        /\ Children(g, o) \subseteq Used(g)
        /\ Range(g[o].parents) \subseteq Used(g)
        /\ g[o].of = None <=> g[o].id = Draft

Proper(g) == g \in Graph /\ IsFiniteSet(Used(g)) /\ Linked(g)

\* What is cached under an id is the object with that id.
Keyed(h) ==
    \A k \in DOMAIN h.nodes : h.nodes[k] \in Used(h.node) /\ h.node[h.nodes[k]].id = k

ProperCache(h) == h \in [node : Graph, nodes : ObjectMap] /\ Proper(h.node) /\ Keyed(h)

\* Every object is cached.
AllCached(h) ==
    \A o \in Used(h.node) : h.node[o].id \in DOMAIN h.nodes /\ h.nodes[h.node[o].id] = o

\* The server's nodes link and edit nodes of the server; what is edited is public.
Row == [type : NodeType, text : Word(scenario), public : BOOLEAN,
        children : SUBSET Id, edits : Id \cup {None}]
Db == UNION {[S -> Row] : S \in SUBSET Id}
ProperDb(db) ==
    /\ db \in Db
    /\ \A i \in DOMAIN db :
        /\ db[i].children \subseteq DOMAIN db
        /\ db[i].edits # None => db[i].edits \in DOMAIN db /\ db[db[i].edits].public

Saving == [type : NodeType, text : Word(scenario), links : SUBSET Key]
Reply == [served : BOOLEAN, ok : BOOLEAN, root : Key \cup {None}, db : Db]
Operation ==
    {"blank", "support", "edit", "makeDraft", "publish", "discard", "graph", "detail", "choices"}
Sent == [op : Ops \cap Operation, obj : Obj \cup {None}, id : Key, fields : Saving \cup {None}, reply : Reply]

\* A request that is about an object is about one in use, and an answer is about a
\* node that the server had.
ProperRequest(g, q) ==
    /\ q \in Sent
    /\ q.op \in {"blank", "support", "publish"} => q.obj \in Used(g)
    /\ q.op \in {"blank", "support", "edit"} => q.fields \in Saving
    /\ q.reply.ok =>
        /\ ProperDb(q.reply.db)
        /\ q.op \notin {"discard", "choices"} => q.reply.root \in DOMAIN q.reply.db
        /\ q.op \in {"graph", "choices"} => q.reply.root = q.id

NothingNew == Ops \cap {"blank", "support"} = {}

CacheOK(h, db, last, sent) ==
    /\ ProperCache(h)
    /\ NothingNew => AllCached(h)
    /\ ProperDb(db)
    /\ last \in Nat /\ \A i \in DOMAIN db : i <= last
    /\ DOMAIN sent = Request
    /\ \A r \in Request : sent[r] # None => ProperRequest(h.node, sent[r])

CacheInv == scenario \in Scenarios /\ CacheOK(heap, server, lastId, request)

-----------------------------------------------------------------------------
(***************************************************************************)
(* What the scenarios are like, and objects.                               *)
(***************************************************************************)
\* What is written stays so when links to nodes are added.
LEMMA WordIs ==
  ASSUME NEW s
  PROVE  /\ \A t \in {FirstText} \cup s.texts \cup {s.server[i].text : i \in DOMAIN s.server} : t \in Word(s)
         /\ \A w \in Word(s), k \in s.ids \cup {Draft} : w \cup {s.version[k]} \in Word(s)
<1> DEFINE T == {FirstText} \cup s.texts \cup {s.server[i].text : i \in DOMAIN s.server}
           V == {s.version[k] : k \in s.ids \cup {Draft}}
<1>1. Word(s) = {t \cup links : t \in T, links \in SUBSET V}
  BY DEF Word
<1>2. \A k \in s.ids \cup {Draft} : s.version[k] \in V
  OBVIOUS
<1> HIDE DEF T, V
<1>3. ASSUME NEW t \in T PROVE t \in Word(s)
  <2>1. PICK links \in SUBSET V : t = t \cup links
    <3>1. t = t \cup {} /\ {} \in SUBSET V
      OBVIOUS
    <3> QED BY <3>1
  <2>2. t \cup links \in Word(s)
    BY <1>1
  <2> QED BY <2>1, <2>2
<1>4. ASSUME NEW w \in Word(s), NEW k \in s.ids \cup {Draft}
      PROVE  w \cup {s.version[k]} \in Word(s)
  <2>1. PICK t \in T, links \in SUBSET V : w = t \cup links
    BY <1>1
  <2> DEFINE more == links \cup {s.version[k]}
  <2>2. more \in SUBSET V
    BY <1>2
  <2>3. w \cup {s.version[k]} = t \cup more
    BY <2>1
  <2> HIDE DEF more
  <2> QED BY <1>1, <2>2, <2>3
<1> QED BY <1>3, <1>4 DEF T

LEMMA ScenarioFacts ==
  ASSUME scenario \in Scenarios
  PROVE  /\ Obj \subseteq Nat /\ None \notin Obj /\ Depth \in Nat \ {0}
         /\ Id \subseteq Nat /\ IsFiniteSet(Id) /\ IsFiniteSet(Key)
         /\ Draft \notin Id /\ None \notin Id /\ Draft # None /\ None \notin Key
         /\ FirstText \in Word(scenario) /\ Text \subseteq Word(scenario)
         /\ MajorVersion \in [Id -> Id]
         /\ \A w \in Word(scenario), k \in Key : w \cup {MajorVersion[k]} \in Word(scenario)
<1>1. IsFiniteSet(Id)
  BY NodeCacheAssumption DEF Id
<1>2. IsFiniteSet(Key)
  BY <1>1, FS_AddElement DEF Key
<1>3. /\ Obj \subseteq Nat /\ None \notin Obj /\ Depth \in Nat \ {0}
      /\ Id \subseteq Nat /\ Draft \notin Id /\ None \notin Id /\ Draft # None
      /\ MajorVersion \in [Id -> Id]
  BY NodeCacheAssumption DEF Id, MajorVersion
<1>4. FirstText \in Word(scenario) /\ Text \subseteq Word(scenario)
  BY WordIs DEF Text
<1>5. \A w \in Word(scenario), k \in Key : w \cup {MajorVersion[k]} \in Word(scenario)
  BY WordIs DEF Key, Id, MajorVersion
<1> QED BY <1>1, <1>2, <1>3, <1>4, <1>5 DEF Key

\* Objects by their ids.
LEMMA ObjectMaps ==
  ASSUME NEW f
  PROVE  f \in ObjectMap <=> DOMAIN f \subseteq Key /\ f \in [DOMAIN f -> Obj]
BY DEF ObjectMap

LEMMA PutMap ==
  ASSUME NEW f \in ObjectMap, NEW k \in Key, NEW o \in Obj
  PROVE  /\ Put(f, k, o) \in ObjectMap
         /\ DOMAIN Put(f, k, o) = DOMAIN f \cup {k}
         /\ \A x \in DOMAIN f \cup {k} : Put(f, k, o)[x] = IF x = k THEN o ELSE f[x]
         /\ Range(Put(f, k, o)) \subseteq Range(f) \cup {o}
<1>1. DOMAIN f \subseteq Key /\ f \in [DOMAIN f -> Obj]
  BY ObjectMaps
<1>2. /\ DOMAIN Put(f, k, o) = DOMAIN f \cup {k}
      /\ \A x \in DOMAIN f \cup {k} : Put(f, k, o)[x] = IF x = k THEN o ELSE f[x]
  BY DEF Put
<1>3. Put(f, k, o) \in [DOMAIN f \cup {k} -> Obj]
  BY <1>1 DEF Put
<1>4. Put(f, k, o) \in ObjectMap
  BY <1>1, <1>2, <1>3, ObjectMaps
<1>5. Range(Put(f, k, o)) \subseteq Range(f) \cup {o}
  BY <1>2 DEF Range
<1> QED BY <1>2, <1>4, <1>5

LEMMA DeleteMap ==
  ASSUME NEW f \in ObjectMap, NEW k
  PROVE  /\ Delete(f, k) \in ObjectMap
         /\ DOMAIN Delete(f, k) = DOMAIN f \ {k}
         /\ \A x \in DOMAIN f \ {k} : Delete(f, k)[x] = f[x]
         /\ Range(Delete(f, k)) \subseteq Range(f)
<1>1. DOMAIN f \subseteq Key /\ f \in [DOMAIN f -> Obj]
  BY ObjectMaps
<1>2. /\ DOMAIN Delete(f, k) = DOMAIN f \ {k}
      /\ \A x \in DOMAIN f \ {k} : Delete(f, k)[x] = f[x]
  BY DEF Delete, Restrict
<1>3. Delete(f, k) \in [DOMAIN f \ {k} -> Obj]
  BY <1>1 DEF Delete, Restrict
<1>4. Delete(f, k) \in ObjectMap
  BY <1>1, <1>2, <1>3, ObjectMaps
<1>5. Range(Delete(f, k)) \subseteq Range(f)
  BY <1>2 DEF Range
<1> QED BY <1>2, <1>4, <1>5

LEMMA ObjectUsed ==
  ASSUME scenario \in Scenarios, NEW g \in Graph, NEW o \in Obj
  PROVE  /\ o \in Used(g) <=> g[o] # Unused
         /\ o \in Used(g) => g[o] \in NodeObject
         /\ \A n \in NodeObject : n # Unused
<1>1. None \notin Key
  BY ScenarioFacts
<1>2. \A n \in NodeObject : n.id \in Key
  BY DEF NodeObject
<1>3. Unused.id = None
  BY DEF Unused
<1>4. \A n \in NodeObject : n # Unused
  BY <1>1, <1>2, <1>3
<1>5. g[o] \in {Unused} \cup NodeObject
  BY DEF Graph
<1> QED BY <1>4, <1>5 DEF Used

-----------------------------------------------------------------------------
(***************************************************************************)
(* Linking objects differently: which are used, and what they are called,  *)
(* stays.                                                                  *)
(***************************************************************************)
Relinked(g0) ==
    {g \in Graph : \A o \in Obj :
        /\ g[o] = Unused <=> g0[o] = Unused
        /\ o \in Used(g0) =>
            /\ g[o].id = g0[o].id /\ (g[o].of = None <=> g0[o].of = None)
            /\ Children(g, o) \subseteq Used(g0)
            /\ Range(g[o].parents) \subseteq Used(g0)}

LEMMA RelinkedRefl ==
  ASSUME NEW g, Proper(g)
  PROVE  g \in Relinked(g)
BY DEF Proper, Linked, Relinked

LEMMA RelinkedUsed ==
  ASSUME NEW g0, NEW g \in Relinked(g0)
  PROVE  Used(g) = Used(g0)
BY DEF Relinked, Used

LEMMA RelinkedProper ==
  ASSUME NEW g0, Proper(g0), NEW g \in Relinked(g0)
  PROVE  Proper(g) /\ Used(g) = Used(g0)
<1>1. Used(g) = Used(g0)
  BY RelinkedUsed
<1>2. g \in Graph
  BY DEF Relinked
<1>3. Linked(g)
  <2> SUFFICES ASSUME NEW o \in Used(g)
               PROVE  /\ Children(g, o) \subseteq Used(g)
                      /\ Range(g[o].parents) \subseteq Used(g)
                      /\ g[o].of = None <=> g[o].id = Draft
    BY DEF Linked
  <2>1. o \in Used(g0) /\ o \in Obj
    BY <1>1 DEF Used
  <2>2. /\ g[o].id = g0[o].id /\ (g[o].of = None <=> g0[o].of = None)
        /\ Children(g, o) \subseteq Used(g0)
        /\ Range(g[o].parents) \subseteq Used(g0)
    BY <2>1 DEF Relinked
  <2>3. g0[o].of = None <=> g0[o].id = Draft
    BY <2>1 DEF Proper, Linked
  <2> QED BY <1>1, <2>2, <2>3
<1> QED BY <1>1, <1>2, <1>3 DEF Proper

LEMMA RelinkedTrans ==
  ASSUME NEW g0, NEW g1 \in Relinked(g0), NEW g2 \in Relinked(g1)
  PROVE  g2 \in Relinked(g0)
<1>1. Used(g1) = Used(g0)
  BY RelinkedUsed
<1>2. g2 \in Graph
  BY DEF Relinked
<1>3. ASSUME NEW o \in Obj
      PROVE  /\ g2[o] = Unused <=> g0[o] = Unused
             /\ o \in Used(g0) =>
                 /\ g2[o].id = g0[o].id /\ (g2[o].of = None <=> g0[o].of = None)
                 /\ Children(g2, o) \subseteq Used(g0)
                 /\ Range(g2[o].parents) \subseteq Used(g0)
  BY <1>1 DEF Relinked
<1> QED BY <1>2, <1>3 DEF Relinked

LEMMA RelinkOne ==
  ASSUME scenario \in Scenarios, NEW g, Proper(g), NEW o \in Used(g), NEW n \in NodeObject,
         n.id = g[o].id, n.of = None <=> g[o].of = None,
         Range(n.children) \subseteq Used(g), Range(n.parents) \subseteq Used(g)
  PROVE  [g EXCEPT ![o] = n] \in Relinked(g)
<1> DEFINE h == [g EXCEPT ![o] = n]
<1>1. g \in Graph /\ o \in Obj
  BY DEF Proper, Used
<1>2. h[o] = n /\ \A p \in Obj : p # o => h[p] = g[p]
  BY <1>1 DEF Graph
<1>3. h \in Graph
  BY <1>1 DEF Graph
<1>4. n # Unused /\ g[o] # Unused
  BY <1>1, ObjectUsed
<1> HIDE DEF h
<1>5. ASSUME NEW p \in Obj
      PROVE  /\ h[p] = Unused <=> g[p] = Unused
             /\ p \in Used(g) =>
                 /\ h[p].id = g[p].id /\ (h[p].of = None <=> g[p].of = None)
                 /\ Children(h, p) \subseteq Used(g)
                 /\ Range(h[p].parents) \subseteq Used(g)
  <2>1. CASE p = o
    BY <1>2, <1>4, <2>1 DEF Children
  <2>2. CASE p # o
    BY <1>2, <2>2 DEF Proper, Linked, Children
  <2> QED BY <2>1, <2>2
<1>6. h \in Relinked(g)
  BY <1>3, <1>5 DEF Relinked
<1> QED BY <1>6 DEF h

LEMMA SetChildren ==
  ASSUME scenario \in Scenarios, NEW g, Proper(g), NEW o \in Used(g),
         NEW c \in Seq(Obj), Range(c) \subseteq Used(g)
  PROVE  [g EXCEPT ![o].children = c] \in Relinked(g)
<1> DEFINE n == [g[o] EXCEPT !.children = c]
<1>1. g \in Graph /\ o \in Obj
  BY DEF Proper, Used
<1>2. g[o] \in NodeObject
  BY <1>1, ObjectUsed
<1>3. n \in NodeObject /\ n.id = g[o].id /\ n.of = g[o].of /\ n.children = c
      /\ n.parents = g[o].parents
  BY <1>2 DEF NodeObject
<1>4. Range(g[o].parents) \subseteq Used(g)
  BY DEF Proper, Linked
<1>5. [g EXCEPT ![o].children = c] = [g EXCEPT ![o] = n]
  OBVIOUS
<1> HIDE DEF n
<1> QED BY <1>3, <1>4, <1>5, RelinkOne

LEMMA SetParents ==
  ASSUME scenario \in Scenarios, NEW g, Proper(g), NEW o \in Used(g),
         NEW p \in ObjectMap, Range(p) \subseteq Used(g)
  PROVE  [g EXCEPT ![o].parents = p] \in Relinked(g)
<1> DEFINE n == [g[o] EXCEPT !.parents = p]
<1>1. g \in Graph /\ o \in Obj
  BY DEF Proper, Used
<1>2. g[o] \in NodeObject
  BY <1>1, ObjectUsed
<1>3. n \in NodeObject /\ n.id = g[o].id /\ n.of = g[o].of /\ n.children = g[o].children
      /\ n.parents = p
  BY <1>2 DEF NodeObject
<1>4. Range(g[o].children) \subseteq Used(g)
  BY DEF Proper, Linked, Children
<1>5. [g EXCEPT ![o].parents = p] = [g EXCEPT ![o] = n]
  OBVIOUS
<1> HIDE DEF n
<1> QED BY <1>3, <1>4, <1>5, RelinkOne

\* The object o, with its children and parents.
LEMMA UsedObject ==
  ASSUME scenario \in Scenarios, NEW g, Proper(g), NEW o \in Used(g)
  PROVE  /\ g \in Graph /\ o \in Obj /\ g[o] \in NodeObject
         /\ g[o].id \in Key /\ g[o].children \in Seq(Obj) /\ g[o].parents \in ObjectMap
         /\ Range(g[o].children) \subseteq Used(g)
         /\ Range(g[o].parents) \subseteq Used(g)
         /\ g[o].of = None <=> g[o].id = Draft
         /\ IsFiniteSet(DOMAIN g[o].parents)
<1>1. g \in Graph /\ o \in Obj
  BY DEF Proper, Used
<1>2. g[o] \in NodeObject
  BY <1>1, ObjectUsed
<1>3. g[o].id \in Key /\ g[o].children \in Seq(Obj) /\ g[o].parents \in ObjectMap
  BY <1>2 DEF NodeObject
<1>4. IsFiniteSet(DOMAIN g[o].parents)
  BY <1>3, ObjectMaps, ScenarioFacts, FS_Subset
<1> QED BY <1>1, <1>2, <1>3, <1>4 DEF Proper, Linked, Children

LEMMA AddChildRelinks ==
  ASSUME scenario \in Scenarios, NEW g, Proper(g), NEW o \in Used(g), NEW child \in Used(g)
  PROVE  AddChild(g, o, child) \in Relinked(g)
<1>1. CASE ChildrenWithId(g, o, g[child].id) # {}
  BY <1>1, RelinkedRefl DEF AddChild
<1>2. CASE ChildrenWithId(g, o, g[child].id) = {}
  <2> DEFINE c == Append(g[o].children, child)
             h == [g EXCEPT ![o].children = c]
             p == Put(h[child].parents, h[o].id, o)
  <2>1. c \in Seq(Obj) /\ Range(c) \subseteq Used(g)
    <3>1. g[o].children \in Seq(Obj) /\ child \in Obj /\ Range(g[o].children) \subseteq Used(g)
      BY UsedObject
    <3>2. c \in Seq(Obj)
      BY <3>1
    <3>3. \A i \in DOMAIN c : c[i] = child \/ (i \in DOMAIN g[o].children /\ c[i] = g[o].children[i])
      BY <3>1
    <3> QED BY <3>1, <3>2, <3>3 DEF Range
  <2>2. h \in Relinked(g)
    <3> HIDE DEF c
    <3> QED BY <2>1, SetChildren
  <2> HIDE DEF h
  <2>3. Proper(h) /\ Used(h) = Used(g)
    BY <2>2, RelinkedProper
  <2>4. p \in ObjectMap /\ Range(p) \subseteq Used(h)
    <3>1. /\ h[child].parents \in ObjectMap /\ Range(h[child].parents) \subseteq Used(h)
          /\ h[o].id \in Key /\ o \in Obj
      BY <2>3, UsedObject
    <3>2. p \in ObjectMap /\ Range(p) \subseteq Range(h[child].parents) \cup {o}
      <4> DEFINE f == h[child].parents
                 k == h[o].id
      <4>1. f \in ObjectMap /\ k \in Key /\ o \in Obj
        BY <3>1
      <4> HIDE DEF f, k
      <4>2. Put(f, k, o) \in ObjectMap /\ Range(Put(f, k, o)) \subseteq Range(f) \cup {o}
        BY <4>1, PutMap
      <4> QED BY <4>2 DEF f, k
    <3> HIDE DEF p
    <3> QED BY <2>3, <3>1, <3>2
  <2>5. [h EXCEPT ![child].parents = p] \in Relinked(h)
    <3> HIDE DEF p
    <3> QED BY <2>3, <2>4, SetParents
  <2>6. h[o].id = g[o].id
    BY <2>2 DEF Relinked, Used
  <2>7. AddChild(g, o, child) = [h EXCEPT ![child].parents = p]
    <3>1. AddChild(g, o, child) = [h EXCEPT ![child].parents = Put(@, g[o].id, o)]
      BY <1>2 DEF AddChild, h
    <3> QED BY <2>6, <3>1
  <2> QED BY <2>2, <2>5, <2>7, RelinkedTrans
<1> QED BY <1>1, <1>2

LEMMA RemoveAtIs ==
  ASSUME NEW S, NEW s \in Seq(S), NEW i \in DOMAIN s
  PROVE  RemoveAt(s, i) \in Seq(S) /\ Range(RemoveAt(s, i)) \subseteq Range(s)
<1> DEFINE a == SubSeq(s, 1, i - 1)
           b == SubSeq(s, i + 1, Len(s))
<1>1. Len(s) \in Nat /\ DOMAIN s = 1..Len(s) /\ i \in 1..Len(s)
  OBVIOUS
<1>2. a \in Seq(S) /\ Len(a) = i - 1 /\ \A k \in 1..(i - 1) : a[k] = s[k]
  BY <1>1, SubSeqProperties
<1>3. b \in Seq(S) /\ Len(b) = Len(s) - i /\ \A k \in 1..(Len(s) - i) : b[k] = s[i + k]
  <2>1. CASE i = Len(s)
    BY <1>1, <2>1, SubSeqProperties
  <2>2. CASE i < Len(s)
    BY <1>1, <2>2, SubSeqProperties
  <2> QED BY <1>1, <2>1, <2>2
<1> HIDE DEF a, b
<1>4. a \o b \in Seq(S)
  BY <1>2, <1>3
<1>5. ASSUME NEW k \in DOMAIN (a \o b) PROVE \E m \in DOMAIN s : (a \o b)[k] = s[m]
  <2>1. k \in 1..(Len(a) + Len(b))
    BY <1>2, <1>3
  <2>2. CASE k <= Len(a)
    <3>1. (a \o b)[k] = a[k]
      BY <1>2, <1>3, <2>1, <2>2
    <3> QED BY <1>1, <1>2, <2>1, <2>2, <3>1
  <2>3. CASE k > Len(a)
    <3>1. (a \o b)[k] = b[k - Len(a)]
      BY <1>2, <1>3, <2>1, <2>3
    <3>2. k - Len(a) \in 1..(Len(s) - i) /\ i + (k - Len(a)) \in 1..Len(s)
      BY <1>1, <1>2, <1>3, <2>1, <2>3
    <3> QED BY <1>1, <1>3, <3>1, <3>2
  <2> QED BY <1>1, <1>2, <2>1, <2>2, <2>3
<1>6. RemoveAt(s, i) = a \o b
  BY DEF RemoveAt, a, b
<1>7. Range(a \o b) \subseteq Range(s)
  BY <1>5 DEF Range
<1> QED BY <1>4, <1>6, <1>7

LEMMA RemoveChildRelinks ==
  ASSUME scenario \in Scenarios, NEW g, Proper(g), NEW o \in Used(g), NEW child \in Used(g)
  PROVE  RemoveChild(g, o, child) \in Relinked(g)
<1> DEFINE found == ChildrenWithId(g, o, g[child].id)
<1>1. CASE found = {}
  BY <1>1, RelinkedRefl DEF RemoveChild
<1>2. CASE found # {}
  <2> DEFINE c == RemoveAt(g[o].children, Min(found))
             h == [g EXCEPT ![o].children = c]
             p == Delete(h[child].parents, g[o].id)
  <2>1. c \in Seq(Obj) /\ Range(c) \subseteq Used(g)
    <3>1. g[o].children \in Seq(Obj) /\ Range(g[o].children) \subseteq Used(g)
      BY UsedObject
    <3>2. found \subseteq DOMAIN g[o].children /\ DOMAIN g[o].children \subseteq Nat
      BY <3>1 DEF ChildrenWithId
    <3>3. Min(found) \in DOMAIN g[o].children
      <4> HIDE DEF found
      <4> QED BY <1>2, <3>2, MinIn
    <3> HIDE DEF found
    <3> QED BY <3>1, <3>3, RemoveAtIs
  <2>2. h \in Relinked(g)
    <3> HIDE DEF c
    <3> QED BY <2>1, SetChildren
  <2> HIDE DEF h
  <2>3. Proper(h) /\ Used(h) = Used(g)
    BY <2>2, RelinkedProper
  <2>4. p \in ObjectMap /\ Range(p) \subseteq Used(h)
    <3>1. h[child].parents \in ObjectMap /\ Range(h[child].parents) \subseteq Used(h)
      BY <2>3, UsedObject
    <3> QED BY <3>1, DeleteMap
  <2>5. [h EXCEPT ![child].parents = p] \in Relinked(h)
    <3> HIDE DEF p
    <3> QED BY <2>3, <2>4, SetParents
  <2>6. RemoveChild(g, o, child) = [h EXCEPT ![child].parents = p]
    BY <1>2 DEF RemoveChild, h
  <2> QED BY <2>2, <2>5, <2>6, RelinkedTrans
<1> QED BY <1>1, <1>2

-----------------------------------------------------------------------------
(***************************************************************************)
(* What may become of the cache, but for the answers to a save: no object  *)
(* is lost or renamed, and no entry is lost or changed.                    *)
(***************************************************************************)
Grows(h0, h) ==
    /\ \A o \in Used(h0.node) : o \in Used(h.node) /\ h.node[o].id = h0.node[o].id
    /\ \A k \in DOMAIN h0.nodes : k \in DOMAIN h.nodes /\ h.nodes[k] = h0.nodes[k]

Later(h0) ==
    {h \in [node : Graph, nodes : ObjectMap] :
        ProperCache(h) /\ Grows(h0, h) /\ (AllCached(h0) => AllCached(h))}

LEMMA LaterRefl ==
  ASSUME NEW h, ProperCache(h)
  PROVE  h \in Later(h)
BY DEF Later, Grows, ProperCache

LEMMA LaterIs ==
  ASSUME NEW h0, NEW h \in Later(h0)
  PROVE  ProperCache(h) /\ Grows(h0, h) /\ (AllCached(h0) => AllCached(h))
BY DEF Later

LEMMA LaterTrans ==
  ASSUME NEW h0, NEW h1 \in Later(h0), NEW h2 \in Later(h1)
  PROVE  h2 \in Later(h0)
BY DEF Later, Grows

LEMMA CacheFacts ==
  ASSUME NEW h, ProperCache(h)
  PROVE  /\ h.node \in Graph /\ h.nodes \in ObjectMap /\ Proper(h.node)
         /\ h = [node |-> h.node, nodes |-> h.nodes]
         /\ \A k \in DOMAIN h.nodes :
                k \in Key /\ h.nodes[k] \in Used(h.node) /\ h.node[h.nodes[k]].id = k
<1>1. h \in [node : Graph, nodes : ObjectMap] /\ Proper(h.node) /\ Keyed(h)
  BY DEF ProperCache
<1>2. h.nodes \in ObjectMap /\ h = [node |-> h.node, nodes |-> h.nodes]
  BY <1>1
<1>3. DOMAIN h.nodes \subseteq Key
  BY <1>2, ObjectMaps
<1> QED BY <1>1, <1>2, <1>3 DEF Keyed

LEMMA RelinkLater ==
  ASSUME NEW h, ProperCache(h), NEW g \in Relinked(h.node)
  PROVE  [h EXCEPT !.node = g] \in Later(h)
<1> DEFINE k == [h EXCEPT !.node = g]
<1>1. h = [node |-> h.node, nodes |-> h.nodes] /\ h.nodes \in ObjectMap /\ Proper(h.node)
  BY CacheFacts
<1>2. k.node = g /\ k.nodes = h.nodes /\ k = [node |-> g, nodes |-> h.nodes]
  BY <1>1
<1>3. Proper(g) /\ Used(g) = Used(h.node) /\ g \in Graph
  BY <1>1, RelinkedProper DEF Relinked
<1>4. k \in [node : Graph, nodes : ObjectMap]
  BY <1>1, <1>2, <1>3
<1>5. \A o \in Used(h.node) : g[o].id = h.node[o].id
  BY DEF Relinked, Used
<1> HIDE DEF k
<1>6. Keyed(k)
  BY <1>2, <1>3, <1>5, CacheFacts DEF Keyed
<1>7. ProperCache(k) /\ Grows(h, k)
  BY <1>2, <1>3, <1>4, <1>5, <1>6 DEF ProperCache, Grows
<1>8. AllCached(h) => AllCached(k)
  BY <1>2, <1>3, <1>5 DEF AllCached
<1>9. k \in Later(h)
  BY <1>4, <1>7, <1>8 DEF Later
<1> QED BY <1>9 DEF k

-----------------------------------------------------------------------------
(***************************************************************************)
(* New objects.  There always is one: objects are as many as memory holds, *)
(* and the repository does not count them.                                 *)
(***************************************************************************)
Unlimited == ~IsFiniteSet(Obj)

LEMMA FreshIs ==
  ASSUME Unlimited, scenario \in Scenarios, NEW h, Proper(h.node)
  PROVE  FreshObject(h) \in Obj /\ FreshObject(h) \notin Used(h.node)
<1> DEFINE S == {o \in Obj : h.node[o] = Unused}
<1>1. IsFiniteSet(Used(h.node))
  BY DEF Proper
<1>2. S # {}
  <2> SUFFICES ASSUME S = {} PROVE FALSE
    OBVIOUS
  <2>1. Obj = Used(h.node)
    BY DEF Used
  <2> QED BY <1>1, <2>1 DEF Unlimited
<1>3. S \in SUBSET Nat
  BY ScenarioFacts
<1>4. FreshObject(h) = Min(S)
  BY DEF FreshObject
<1>5. Min(S) \in S
  <2> HIDE DEF S
  <2> QED BY <1>2, <1>3, MinIn
<1> QED BY <1>4, <1>5 DEF Used

\* An object without family.
Alone(n) ==
    /\ n \in NodeObject /\ (n.of = None <=> n.id = Draft)
    /\ Range(n.children) = {} /\ Range(n.parents) = {}

LEMMA NewObject ==
  ASSUME scenario \in Scenarios, NEW g, Proper(g), NEW o \in Obj, o \notin Used(g),
         NEW n, Alone(n)
  PROVE  /\ Proper([g EXCEPT ![o] = n])
         /\ Used([g EXCEPT ![o] = n]) = Used(g) \cup {o}
         /\ [g EXCEPT ![o] = n][o] = n
         /\ \A p \in Obj : p # o => [g EXCEPT ![o] = n][p] = g[p]
<1> DEFINE h == [g EXCEPT ![o] = n]
<1>1. g \in Graph /\ n \in NodeObject
  BY DEF Proper, Alone
<1>2. h[o] = n /\ \A p \in Obj : p # o => h[p] = g[p]
  BY <1>1 DEF Graph
<1>3. h \in Graph
  BY <1>1 DEF Graph
<1>4. n # Unused
  BY <1>1, ObjectUsed
<1> HIDE DEF h
<1>5. Used(h) = Used(g) \cup {o}
  BY <1>2, <1>4 DEF Used
<1>6. IsFiniteSet(Used(h))
  BY <1>5, FS_AddElement DEF Proper
<1>7. Linked(h)
  <2> SUFFICES ASSUME NEW p \in Used(h)
               PROVE  /\ Children(h, p) \subseteq Used(h)
                      /\ Range(h[p].parents) \subseteq Used(h)
                      /\ h[p].of = None <=> h[p].id = Draft
    BY DEF Linked
  <2>1. CASE p = o
    BY <1>2, <2>1 DEF Alone, Children
  <2>2. CASE p # o
    <3>1. p \in Used(g) /\ h[p] = g[p]
      BY <1>2, <1>5, <2>2 DEF Used
    <3> QED BY <1>5, <3>1 DEF Proper, Linked, Children
  <2> QED BY <2>1, <2>2
<1>8. Proper(h)
  BY <1>3, <1>6, <1>7 DEF Proper
<1> QED BY <1>2, <1>5, <1>8 DEF h

LEMMA InsertNew ==
  ASSUME scenario \in Scenarios, NEW h, ProperCache(h), NEW o \in Obj, o \notin Used(h.node),
         NEW n, Alone(n), n.id \notin DOMAIN h.nodes,
         NEW k, k = [node |-> [h.node EXCEPT ![o] = n], nodes |-> Put(h.nodes, n.id, o)]
  PROVE  k \in Later(h) /\ n.id \in DOMAIN k.nodes /\ k.nodes[n.id] = o
<1>1. h.nodes \in ObjectMap /\ Proper(h.node)
  BY CacheFacts
<1>2. /\ Proper(k.node) /\ Used(k.node) = Used(h.node) \cup {o}
      /\ k.node[o] = n /\ \A p \in Obj : p # o => k.node[p] = h.node[p]
  BY <1>1, NewObject
<1>3. n.id \in Key
  BY DEF Alone, NodeObject
<1>4. /\ k.nodes \in ObjectMap /\ DOMAIN k.nodes = DOMAIN h.nodes \cup {n.id}
      /\ \A x \in DOMAIN h.nodes \cup {n.id} : k.nodes[x] = IF x = n.id THEN o ELSE h.nodes[x]
  <2> DEFINE key == n.id
             f == h.nodes
  <2>1. key \in Key /\ f \in ObjectMap
    BY <1>1, <1>3
  <2>2. k.nodes = Put(f, key, o)
    OBVIOUS
  <2> HIDE DEF key, f
  <2>3. /\ Put(f, key, o) \in ObjectMap /\ DOMAIN Put(f, key, o) = DOMAIN f \cup {key}
        /\ \A x \in DOMAIN f \cup {key} : Put(f, key, o)[x] = IF x = key THEN o ELSE f[x]
    <3>1. Put(f, key, o) \in ObjectMap
      BY <2>1, PutMap
    <3>2. DOMAIN Put(f, key, o) = DOMAIN f \cup {key}
      BY DEF Put
    <3>3. \A x \in DOMAIN f \cup {key} : Put(f, key, o)[x] = IF x = key THEN o ELSE f[x]
      BY DEF Put
    <3> QED BY <3>1, <3>2, <3>3
  <2> QED BY <2>2, <2>3 DEF key, f
<1>5. k \in [node : Graph, nodes : ObjectMap]
  BY <1>2, <1>4 DEF Proper
<1>6. \A p \in Used(h.node) : p \in Obj /\ p # o /\ k.node[p] = h.node[p]
  BY <1>2 DEF Used
<1>7. Keyed(k)
  <2> SUFFICES ASSUME NEW x \in DOMAIN k.nodes
               PROVE  k.nodes[x] \in Used(k.node) /\ k.node[k.nodes[x]].id = x
    BY DEF Keyed
  <2>1. CASE x = n.id
    BY <1>2, <1>4, <2>1
  <2>2. CASE x # n.id
    <3>1. x \in DOMAIN h.nodes /\ k.nodes[x] = h.nodes[x]
      BY <1>4, <2>2
    <3>2. h.nodes[x] \in Used(h.node) /\ h.node[h.nodes[x]].id = x
      BY <3>1, CacheFacts
    <3> QED BY <1>2, <1>6, <3>1, <3>2
  <2> QED BY <2>1, <2>2
<1>8. ProperCache(k)
  BY <1>2, <1>5, <1>7 DEF ProperCache
<1>9. Grows(h, k)
  BY <1>2, <1>4, <1>6 DEF Grows
<1>10. ASSUME AllCached(h) PROVE AllCached(k)
  <2> SUFFICES ASSUME NEW p \in Used(k.node)
               PROVE  k.node[p].id \in DOMAIN k.nodes /\ k.nodes[k.node[p].id] = p
    BY DEF AllCached
  <2>1. CASE p = o
    BY <1>2, <1>4, <2>1
  <2>2. CASE p # o
    <3>1. p \in Used(h.node) /\ k.node[p] = h.node[p]
      BY <1>2, <1>6, <2>2
    <3>2. h.node[p].id \in DOMAIN h.nodes /\ h.nodes[h.node[p].id] = p
      BY <1>10, <3>1 DEF AllCached
    <3> QED BY <1>4, <3>1, <3>2
  <2> QED BY <2>1, <2>2
<1> QED BY <1>4, <1>5, <1>8, <1>9, <1>10 DEF Later

-----------------------------------------------------------------------------
(***************************************************************************)
(* Bodies from the server.                                                 *)
(***************************************************************************)
Body == [id : Id, type : NodeType, text : Word(scenario), public : BOOLEAN]

LEMMA DbIs ==
  ASSUME NEW db, ProperDb(db)
  PROVE  /\ DOMAIN db \subseteq Id /\ db \in [DOMAIN db -> Row]
         /\ \A i \in DOMAIN db : db[i] \in Row /\ Data(db, i) \in Body /\ Data(db, i).id = i
                                 /\ db[i].children \subseteq DOMAIN db
<1>1. DOMAIN db \subseteq Id /\ db \in [DOMAIN db -> Row]
  BY DEF ProperDb, Db
<1>2. \A i \in DOMAIN db : db[i] \in Row /\ i \in Id
  BY <1>1
<1>3. \A i \in DOMAIN db : Data(db, i) \in Body /\ Data(db, i).id = i
  BY <1>2 DEF Data, Body, Row
<1> QED BY <1>1, <1>2, <1>3 DEF ProperDb

\* What becomes of an object.
Renewed(n, data) ==
    [n EXCEPT !.id = IF n.of # None THEN n.id ELSE data.id, !.of = data.id,
              !.type = data.type, !.text = data.text, !.public = data.public]

LEMMA RenewedIs ==
  ASSUME scenario \in Scenarios, NEW n \in NodeObject, NEW data \in Body
  PROVE  /\ Renewed(n, data) \in NodeObject
         /\ Renewed(n, data).id = IF n.of # None THEN n.id ELSE data.id
         /\ Renewed(n, data).of = data.id /\ data.id \in Id /\ data.id # None /\ data.id # Draft
         /\ Renewed(n, data).children = n.children
         /\ Renewed(n, data).parents = n.parents
<1>1. data.id \in Id /\ data.type \in NodeType /\ data.text \in Word(scenario)
      /\ data.public \in BOOLEAN
  BY DEF Body
<1>2. data.id \in Key /\ data.id # None /\ data.id # Draft
  BY <1>1, ScenarioFacts DEF Key
<1> QED BY <1>1, <1>2 DEF Renewed, NodeObject

LEMMA AssimilateIs ==
  ASSUME NEW g \in Graph, NEW o \in Obj, g[o] \in NodeObject, NEW data
  PROVE  Assimilate(g, o, data) = [g EXCEPT ![o] = Renewed(g[o], data)]
BY DEF Assimilate, Renewed, IsPersisted, Graph, NodeObject

LEMMA AssimilateRelinks ==
  ASSUME scenario \in Scenarios, NEW g, Proper(g), NEW o \in Used(g), g[o].of # None,
         NEW data \in Body
  PROVE  Assimilate(g, o, data) \in Relinked(g)
<1>1. /\ g \in Graph /\ o \in Obj /\ g[o] \in NodeObject
      /\ Range(g[o].children) \subseteq Used(g) /\ Range(g[o].parents) \subseteq Used(g)
  BY UsedObject
<1> DEFINE n == Renewed(g[o], data)
<1>2. /\ n \in NodeObject /\ n.id = g[o].id /\ (n.of = None <=> g[o].of = None)
      /\ n.children = g[o].children /\ n.parents = g[o].parents
  BY <1>1, RenewedIs
<1>3. Assimilate(g, o, data) = [g EXCEPT ![o] = n]
  BY <1>1, AssimilateIs
<1> HIDE DEF n
<1> QED BY <1>1, <1>2, <1>3, RelinkOne

LEMMA NewNodeIs ==
  ASSUME scenario \in Scenarios, NEW id \in Key, NEW type \in NodeType, NEW public \in BOOLEAN
  PROVE  /\ NewNode(id, type, public) \in NodeObject
         /\ NewNode(id, type, public).id = id
         /\ NewNode(id, type, public).of = None
         /\ Range(NewNode(id, type, public).children) = {}
         /\ Range(NewNode(id, type, public).parents) = {}
<1>1. <<>> \in Seq(Obj) /\ DOMAIN <<>> = {}
  OBVIOUS
<1>2. [i \in {} |-> None] \in ObjectMap /\ DOMAIN [i \in {} |-> None] = {}
  <2>1. DOMAIN [i \in {} |-> None] = {}
    OBVIOUS
  <2>2. [i \in {} |-> None] \in [{} -> Obj]
    OBVIOUS
  <2> QED BY <2>1, <2>2 DEF ObjectMap
<1>3. FirstText \in Word(scenario)
  BY ScenarioFacts
<1>4. NewNode(id, type, public).children = <<>> /\ NewNode(id, type, public).parents = [i \in {} |-> None]
  BY DEF NewNode
<1>5. NewNode(id, type, public) \in NodeObject
  <2> DEFINE p == [i \in {} |-> None]
  <2>1. p \in ObjectMap
    BY <1>2
  <2>2. NewNode(id, type, public) =
            [id |-> id, type |-> type, of |-> None, text |-> FirstText, public |-> public,
             children |-> <<>>, parents |-> p, hasFullGraph |-> FALSE]
    BY DEF NewNode
  <2> HIDE DEF p
  <2> QED BY <1>1, <1>3, <2>1, <2>2 DEF NodeObject
<1>6. Range(<<>>) = {} /\ Range([i \in {} |-> None]) = {}
  BY <1>1, <1>2 DEF Range
<1> QED BY <1>4, <1>5, <1>6 DEF NewNode

\* A body is an object afterwards.
LEMMA AddOrUpdateLater ==
  ASSUME Unlimited, scenario \in Scenarios, NEW h, ProperCache(h), NEW data \in Body
  PROVE  AddOrUpdateNode(h, data) \in Later(h) /\ data.id \in DOMAIN AddOrUpdateNode(h, data).nodes
<1>1. /\ h.nodes \in ObjectMap /\ Proper(h.node) /\ h.node \in Graph
      /\ h = [node |-> h.node, nodes |-> h.nodes]
  BY CacheFacts
<1>2. data.id \in Id /\ data.id # Draft /\ data.id \in Key
      /\ data.type \in NodeType /\ data.public \in BOOLEAN
  BY ScenarioFacts DEF Body, Key
<1>3. CASE data.id \in DOMAIN h.nodes
  <2> DEFINE o == h.nodes[data.id]
             g == Assimilate(h.node, o, data)
  <2>1. o \in Used(h.node) /\ h.node[o].id = data.id
    BY <1>3, CacheFacts
  <2>2. h.node[o].of # None
    BY <1>1, <1>2, <2>1, UsedObject
  <2>3. g \in Relinked(h.node)
    <3> HIDE DEF o
    <3> QED BY <1>1, <2>1, <2>2, AssimilateRelinks
  <2>4. AddOrUpdateNode(h, data) = [h EXCEPT !.node = g]
    BY <1>3 DEF AddOrUpdateNode
  <2> HIDE DEF g
  <2>5. [h EXCEPT !.node = g] \in Later(h)
    BY <2>3, RelinkLater
  <2>6. [h EXCEPT !.node = g].nodes = h.nodes
    BY <1>1
  <2> QED BY <1>3, <2>4, <2>5, <2>6
<1>4. CASE data.id \notin DOMAIN h.nodes
  <2> DEFINE o == FreshObject(h)
             m == NewNode(data.id, data.type, data.public)
             n == Renewed(m, data)
             made == [h.node EXCEPT ![o] = m]
             k == [node |-> [h.node EXCEPT ![o] = n], nodes |-> Put(h.nodes, n.id, o)]
  <2>1. o \in Obj /\ o \notin Used(h.node)
    BY <1>1, FreshIs
  <2>2. /\ m \in NodeObject /\ m.id = data.id /\ m.of = None
        /\ Range(m.children) = {} /\ Range(m.parents) = {}
    <3> DEFINE i == data.id
               t == data.type
               p == data.public
    <3>1. i \in Key /\ t \in NodeType /\ p \in BOOLEAN
      BY <1>2
    <3> HIDE DEF i, t, p
    <3>2. /\ NewNode(i, t, p) \in NodeObject /\ NewNode(i, t, p).id = i
          /\ NewNode(i, t, p).of = None
          /\ Range(NewNode(i, t, p).children) = {} /\ Range(NewNode(i, t, p).parents) = {}
      BY <3>1, NewNodeIs
    <3> QED BY <3>2 DEF i, t, p
  <2>3. /\ n \in NodeObject /\ n.id = data.id /\ n.of = data.id /\ data.id # None
        /\ n.children = m.children /\ n.parents = m.parents
    <3> HIDE DEF m
    <3> QED BY <2>2, RenewedIs
  <2>4. Alone(n)
    <3> HIDE DEF m, n
    <3> QED BY <1>2, <2>2, <2>3 DEF Alone
  <2>5. AddOrUpdateNode(h, data) = k
    <3>1. AddOrUpdateNode(h, data) =
            Insert([[h EXCEPT !.node[o] = m] EXCEPT !.node = Assimilate(@, o, data)], o)
      BY <1>4 DEF AddOrUpdateNode
    <3>2. [h EXCEPT !.node[o] = m] = [node |-> made, nodes |-> h.nodes]
      BY <1>1
    <3>3. made \in Graph /\ made[o] = m
      <4> HIDE DEF o, m
      <4> QED BY <1>1, <2>1, <2>2 DEF Graph
    <3>4. Assimilate(made, o, data) = [made EXCEPT ![o] = n]
      <4> HIDE DEF o, m, made
      <4> QED BY <2>1, <2>2, <3>3, AssimilateIs
    <3>5. [made EXCEPT ![o] = n] = [h.node EXCEPT ![o] = n]
      BY <1>1 DEF Graph
    <3> DEFINE j == [node |-> [h.node EXCEPT ![o] = n], nodes |-> h.nodes]
    <3>6. AddOrUpdateNode(h, data) = Insert(j, o)
      <4>1. [[node |-> made, nodes |-> h.nodes] EXCEPT !.node = Assimilate(@, o, data)]
                = [node |-> Assimilate(made, o, data), nodes |-> h.nodes]
        <5> HIDE DEF made, o
        <5> QED OBVIOUS
      <4> HIDE DEF o, m, n, made
      <4> QED BY <3>1, <3>2, <3>4, <3>5, <4>1
    <3>7. j.node[o] = n
      <4> HIDE DEF o, n
      <4> QED BY <1>1, <2>1, <2>3 DEF Graph
    <3>8. Insert(j, o) = [node |-> j.node, nodes |-> Put(j.nodes, j.node[o].id, o)]
      <4> HIDE DEF o, n
      <4> QED BY DEF Insert
    <3> HIDE DEF o, n
    <3> QED BY <3>6, <3>7, <3>8
  <2> HIDE DEF o, m, n
  <2>6. k \in Later(h) /\ n.id \in DOMAIN k.nodes
    <3> HIDE DEF k
    <3>1. k = [node |-> [h.node EXCEPT ![o] = n], nodes |-> Put(h.nodes, n.id, o)]
      BY DEF k
    <3>2. n.id \notin DOMAIN h.nodes
      BY <1>4, <2>3
    <3> QED BY <2>1, <2>4, <3>1, <3>2, InsertNew
  <2> HIDE DEF k
  <2> QED BY <2>3, <2>5, <2>6
<1> QED BY <1>3, <1>4

-----------------------------------------------------------------------------
(***************************************************************************)
(* The folds of the cache.                                                 *)
(***************************************************************************)
LastOf(D) == [s \in SUBSET D |-> Max(s)]

LEMMA LastOfIs ==
  ASSUME NEW n \in Nat
  PROVE  /\ IsFiniteSet(1..n)
         /\ \A s \in SUBSET (1..n) : LastOf(1..n)[s] = Max(s)
         /\ \A s \in SUBSET (1..n) : s # {} => Max(s) \in s /\ s \ {Max(s)} \in SUBSET (1..n)
<1>1. IsFiniteSet(1..n)
  BY FS_Interval
<1>2. \A s \in SUBSET (1..n) : LastOf(1..n)[s] = Max(s)
  BY DEF LastOf
<1>3. \A s \in SUBSET (1..n) : s # {} => Max(s) \in s
  BY MaxIn
<1> QED BY <1>1, <1>2, <1>3

\* Many bodies are objects afterwards.
LEMMA AddNodesLater ==
  ASSUME Unlimited, scenario \in Scenarios, NEW h, ProperCache(h),
         NEW db, ProperDb(db), NEW ids \in SUBSET DOMAIN db
  PROVE  /\ AddNodesUnlinked(h, db, ids) \in Later(h)
         /\ ids \subseteq DOMAIN AddNodesUnlinked(h, db, ids).nodes
<1> DEFINE n == Cardinality(ids)
           D == 1..n
           seq == InOrder(ids)
           Entered(s) == {k \in Later(h) : \A i \in s : seq[i] \in DOMAIN k.nodes}
           X == [s \in SUBSET D |-> Entered(s)]
           Do(k, i) == AddOrUpdateNode(k, Data(db, seq[i]))
           F == [s \in SUBSET D |-> [k \in Entered(s \ {Max(s)}) |-> Do(k, Max(s))]]
           step(g, s) == IF s = {} THEN h ELSE Do(g[s \ {Max(s)}], Max(s))
           G == CHOOSE g : g = [s \in SUBSET D |-> step(g, s)]
<1>1. ids \in SUBSET Nat /\ IsFiniteSet(ids)
  BY DbIs, ScenarioFacts, FS_Subset
<1>2. n \in Nat /\ seq \in [D -> ids] /\ \A x \in ids : \E i \in D : seq[i] = x
  BY <1>1, InOrderIs
<1>3. AddNodesUnlinked(h, db, ids) = G[D]
  <2>1. DOMAIN seq = D
    BY DEF InOrder
  <2> QED BY <2>1 DEF AddNodesUnlinked, FoldLeft, MapThenFoldSet
<1>4. ASSUME NEW k \in Later(h), NEW i \in D
      PROVE  Do(k, i) \in Later(k) /\ seq[i] \in DOMAIN Do(k, i).nodes
  <2>1. Data(db, seq[i]) \in Body /\ Data(db, seq[i]).id = seq[i]
    BY <1>2, DbIs
  <2>2. ProperCache(k)
    BY LaterIs
  <2> QED BY <2>1, <2>2, AddOrUpdateLater
<1> HIDE DEF seq, Do, n
<1>5. ASSUME NEW s \in SUBSET D, s # {}, NEW k \in Entered(s \ {Max(s)})
      PROVE  Do(k, Max(s)) \in Entered(s)
  <2>1. Max(s) \in s /\ Max(s) \in D
    BY <1>2, <1>5, LastOfIs
  <2>2. k \in Later(h) /\ \A i \in s \ {Max(s)} : seq[i] \in DOMAIN k.nodes
    OBVIOUS
  <2>3. Do(k, Max(s)) \in Later(k) /\ seq[Max(s)] \in DOMAIN Do(k, Max(s)).nodes
    BY <1>4, <2>1, <2>2
  <2>4. Do(k, Max(s)) \in Later(h)
    BY <2>2, <2>3, LaterTrans
  <2>5. \A x \in DOMAIN k.nodes : x \in DOMAIN Do(k, Max(s)).nodes
    BY <2>3, LaterIs DEF Grows
  <2> QED BY <2>2, <2>3, <2>4, <2>5
<1>6. h \in Entered({})
  BY LaterRefl
<1> HIDE DEF Entered
<1>7. Folding(D, LastOf(D), X, F, h)
  <2>1. IsFiniteSet(D) /\ h \in X[{}]
    BY <1>2, <1>6, LastOfIs
  <2>2. ASSUME NEW s \in SUBSET D, s # {}
        PROVE  LastOf(D)[s] \in s /\ \A a \in X[s \ {LastOf(D)[s]}] : F[s][a] \in X[s]
    <3>1. LastOf(D)[s] = Max(s) /\ Max(s) \in s /\ s \ {Max(s)} \in SUBSET D
      BY <1>2, <2>2, LastOfIs
    <3> QED BY <1>5, <2>2, <3>1
  <2> QED BY <2>1, <2>2 DEF Folding
<1>8. PICK g : FoldGraph(D, LastOf(D), F, h, g) /\ Inside(D, X, g)
  <2> HIDE DEF X, F
  <2> QED BY <1>7, FoldExists
<1>9. ASSUME NEW f, NEW s \in SUBSET D, s # {}, f[s \ {Max(s)}] \in X[s \ {Max(s)}]
      PROVE  F[s][f[s \ {Max(s)}]] = step(f, s) /\ LastOf(D)[s] = Max(s)
  <2>1. s \ {Max(s)} \in SUBSET D /\ LastOf(D)[s] = Max(s)
    BY <1>2, LastOfIs
  <2> QED BY <1>9, <2>1
<1>10. \A s \in SUBSET D : g[s] = step(g, s)
  <2> SUFFICES ASSUME NEW s \in SUBSET D PROVE g[s] = step(g, s)
    OBVIOUS
  <2>1. g[s] = FoldStep(LastOf(D), F, h, g, s)
    BY <1>8 DEF FoldGraph
  <2>2. CASE s = {}
    BY <2>1, <2>2 DEF FoldStep
  <2>3. CASE s # {}
    <3>1. s \ {Max(s)} \in SUBSET D
      OBVIOUS
    <3>2. g[s \ {Max(s)}] \in X[s \ {Max(s)}]
      BY <1>8, <3>1 DEF Inside
    <3>3. F[s][g[s \ {Max(s)}]] = step(g, s) /\ LastOf(D)[s] = Max(s)
      BY <1>9, <2>3, <3>2
    <3> HIDE DEF F, X
    <3> QED BY <2>1, <2>3, <3>3 DEF FoldStep
  <2> QED BY <2>2, <2>3
<1>11. g = [s \in SUBSET D |-> step(g, s)]
  <2> HIDE DEF F, X
  <2>1. g = [s \in SUBSET D |-> g[s]]
    BY <1>8 DEF FoldGraph
  <2> HIDE DEF step
  <2> QED BY <1>10, <2>1
<1>12. G = [s \in SUBSET D |-> step(G, s)]
  BY <1>11
<1>13. \A s \in SUBSET D : G[s] = step(G, s)
  <2> HIDE DEF G, step
  <2> QED BY <1>12
<1>14. Follows(D, LastOf(D), X, F, h, G)
  <2>1. G[{}] = h
    BY <1>13
  <2>2. ASSUME NEW s \in SUBSET D, s # {}, G[s \ {LastOf(D)[s]}] \in X[s \ {LastOf(D)[s]}]
        PROVE  G[s] = F[s][G[s \ {LastOf(D)[s]}]]
    <3>1. LastOf(D)[s] = Max(s)
      BY <1>2, LastOfIs
    <3>2. F[s][G[s \ {Max(s)}]] = step(G, s) /\ G[s] = step(G, s)
      <4> HIDE DEF G, X, F, step
      <4> QED BY <1>9, <1>13, <2>2, <3>1
    <3> HIDE DEF G, X, F
    <3> QED BY <3>1, <3>2
  <2> HIDE DEF G, X, F
  <2> QED BY <2>1, <2>2 DEF Follows
<1>15. G[D] \in Entered(D)
  <2>1. Inside(D, X, G)
    <3> HIDE DEF G, X, F, D
    <3> QED BY <1>7, <1>14, FoldStays
  <2> HIDE DEF G
  <2> QED BY <2>1 DEF Inside
<1> QED
  <2> HIDE DEF G
  <2> QED BY <1>2, <1>3, <1>15 DEF Entered

\* Children by their ids.
LEMMA LinkChildrenRelinks ==
  ASSUME scenario \in Scenarios, NEW g0, Proper(g0), NEW base \in Relinked(g0),
         NEW o \in Used(g0), NEW nodes, \A c \in DOMAIN nodes : nodes[c] \in Used(g0),
         NEW n \in Nat, NEW seq, DOMAIN seq = 1..n
  PROVE  LinkChildren(nodes, base, o, seq) \in Relinked(g0)
<1> DEFINE D == 1..n
           Entered(s) == Relinked(g0)
           X == [s \in SUBSET D |-> Entered(s)]
           Do(k, i) == IF seq[i] \in DOMAIN nodes THEN AddChild(k, o, nodes[seq[i]]) ELSE k
           F == [s \in SUBSET D |-> [k \in Entered(s \ {Max(s)}) |-> Do(k, Max(s))]]
           step(g, s) == IF s = {} THEN base ELSE Do(g[s \ {Max(s)}], Max(s))
           G == CHOOSE g : g = [s \in SUBSET D |-> step(g, s)]
<1>1. LinkChildren(nodes, base, o, seq) = G[D]
  BY DEF LinkChildren, FoldLeft, MapThenFoldSet
<1>2. ASSUME NEW k \in Relinked(g0), NEW i PROVE Do(k, i) \in Relinked(g0)
  <2>1. Proper(k) /\ Used(k) = Used(g0)
    BY RelinkedProper
  <2>2. CASE seq[i] \in DOMAIN nodes
    <3> DEFINE child == nodes[seq[i]]
    <3>1. child \in Used(k)
      BY <2>1, <2>2
    <3>2. Do(k, i) = AddChild(k, o, child)
      BY <2>2
    <3> HIDE DEF child, Do
    <3>3. Do(k, i) \in Relinked(k)
      BY <2>1, <3>1, <3>2, AddChildRelinks
    <3> QED BY <3>3, RelinkedTrans
  <2>3. CASE seq[i] \notin DOMAIN nodes
    BY <2>3
  <2> QED BY <2>2, <2>3
<1> HIDE DEF Do
<1>5. ASSUME NEW s \in SUBSET D, s # {}, NEW k \in Entered(s \ {Max(s)})
      PROVE  Do(k, Max(s)) \in Entered(s)
  BY <1>2
<1>6. base \in Entered({})
  OBVIOUS
<1> HIDE DEF Entered
<1>7. Folding(D, LastOf(D), X, F, base)
  <2>1. IsFiniteSet(D) /\ base \in X[{}]
    BY <1>6, LastOfIs
  <2>2. ASSUME NEW s \in SUBSET D, s # {}
        PROVE  LastOf(D)[s] \in s /\ \A a \in X[s \ {LastOf(D)[s]}] : F[s][a] \in X[s]
    <3>1. LastOf(D)[s] = Max(s) /\ Max(s) \in s /\ s \ {Max(s)} \in SUBSET D
      BY <2>2, LastOfIs
    <3> QED BY <1>5, <2>2, <3>1
  <2> QED BY <2>1, <2>2 DEF Folding
<1>8. PICK g : FoldGraph(D, LastOf(D), F, base, g) /\ Inside(D, X, g)
  <2> HIDE DEF X, F
  <2> QED BY <1>7, FoldExists
<1>9. ASSUME NEW f, NEW s \in SUBSET D, s # {}, f[s \ {Max(s)}] \in X[s \ {Max(s)}]
      PROVE  F[s][f[s \ {Max(s)}]] = step(f, s) /\ LastOf(D)[s] = Max(s)
  <2>1. s \ {Max(s)} \in SUBSET D /\ LastOf(D)[s] = Max(s)
    BY LastOfIs
  <2> QED BY <1>9, <2>1
<1>10. \A s \in SUBSET D : g[s] = step(g, s)
  <2> SUFFICES ASSUME NEW s \in SUBSET D PROVE g[s] = step(g, s)
    OBVIOUS
  <2>1. g[s] = FoldStep(LastOf(D), F, base, g, s)
    BY <1>8 DEF FoldGraph
  <2>2. CASE s = {}
    BY <2>1, <2>2 DEF FoldStep
  <2>3. CASE s # {}
    <3>1. s \ {Max(s)} \in SUBSET D
      OBVIOUS
    <3>2. g[s \ {Max(s)}] \in X[s \ {Max(s)}]
      BY <1>8, <3>1 DEF Inside
    <3>3. F[s][g[s \ {Max(s)}]] = step(g, s) /\ LastOf(D)[s] = Max(s)
      BY <1>9, <2>3, <3>2
    <3> HIDE DEF F, X
    <3> QED BY <2>1, <2>3, <3>3 DEF FoldStep
  <2> QED BY <2>2, <2>3
<1>11. g = [s \in SUBSET D |-> step(g, s)]
  <2> HIDE DEF F, X
  <2>1. g = [s \in SUBSET D |-> g[s]]
    BY <1>8 DEF FoldGraph
  <2> HIDE DEF step
  <2> QED BY <1>10, <2>1
<1>12. G = [s \in SUBSET D |-> step(G, s)]
  BY <1>11
<1>13. \A s \in SUBSET D : G[s] = step(G, s)
  <2> HIDE DEF G, step
  <2> QED BY <1>12
<1>14. Follows(D, LastOf(D), X, F, base, G)
  <2>1. G[{}] = base
    BY <1>13
  <2>2. ASSUME NEW s \in SUBSET D, s # {}, G[s \ {LastOf(D)[s]}] \in X[s \ {LastOf(D)[s]}]
        PROVE  G[s] = F[s][G[s \ {LastOf(D)[s]}]]
    <3>1. LastOf(D)[s] = Max(s)
      BY LastOfIs
    <3>2. F[s][G[s \ {Max(s)}]] = step(G, s) /\ G[s] = step(G, s)
      <4> HIDE DEF G, X, F, step
      <4> QED BY <1>9, <1>13, <2>2, <3>1
    <3> HIDE DEF G, X, F
    <3> QED BY <3>1, <3>2
  <2> HIDE DEF G, X, F
  <2> QED BY <2>1, <2>2 DEF Follows
<1>15. G[D] \in Entered(D)
  <2>1. Inside(D, X, G)
    <3> HIDE DEF G, X, F, D
    <3> QED BY <1>7, <1>14, FoldStays
  <2> HIDE DEF G
  <2> QED BY <2>1 DEF Inside
<1> QED
  <2> HIDE DEF G
  <2> QED BY <1>1, <1>15 DEF Entered

\* What is reached stays where all that is below leads.
LEMMA ReachedIs ==
  ASSUME NEW T, NEW below, \A x \in T : below[x] \subseteq T, NEW S \in SUBSET T, NEW n \in Nat
  PROVE  Reached(S, below, n) \subseteq T /\ S \subseteq Reached(S, below, n)
<1> DEFINE D == 1..n
           base == S
           Entered(s) == {R \in SUBSET T : S \subseteq R}
           X == [s \in SUBSET D |-> Entered(s)]
           Do(k, i) == UNION {before \cup UNION {below[x] : x \in before} : before \in {k}}
           F == [s \in SUBSET D |-> [k \in Entered(s \ {Max(s)}) |-> Do(k, Max(s))]]
           step(g, s) == IF s = {} THEN base ELSE Do(g[s \ {Max(s)}], Max(s))
           G == CHOOSE g : g = [s \in SUBSET D |-> step(g, s)]
<1>1. Reached(S, below, n) = G[D]
  BY DEF Reached, FoldLeft, MapThenFoldSet
<1>2. ASSUME NEW k, k \in SUBSET T, S \subseteq k, NEW i
      PROVE  Do(k, i) \in SUBSET T /\ S \subseteq Do(k, i)
  <2>1. Do(k, i) = k \cup UNION {below[x] : x \in k}
    OBVIOUS
  <2>2. \A x \in k : below[x] \subseteq T
    BY <1>2
  <2> HIDE DEF Do
  <2> QED BY <1>2, <2>1, <2>2
<1> HIDE DEF Do
<1>5. ASSUME NEW s \in SUBSET D, s # {}, NEW k \in Entered(s \ {Max(s)})
      PROVE  Do(k, Max(s)) \in Entered(s)
  BY <1>2
<1>6. base \in Entered({})
  OBVIOUS
<1> HIDE DEF Entered
<1>7. Folding(D, LastOf(D), X, F, base)
  <2>1. IsFiniteSet(D) /\ base \in X[{}]
    BY <1>6, LastOfIs
  <2>2. ASSUME NEW s \in SUBSET D, s # {}
        PROVE  LastOf(D)[s] \in s /\ \A a \in X[s \ {LastOf(D)[s]}] : F[s][a] \in X[s]
    <3>1. LastOf(D)[s] = Max(s) /\ Max(s) \in s /\ s \ {Max(s)} \in SUBSET D
      BY <2>2, LastOfIs
    <3> QED BY <1>5, <2>2, <3>1
  <2> QED BY <2>1, <2>2 DEF Folding
<1>8. PICK g : FoldGraph(D, LastOf(D), F, base, g) /\ Inside(D, X, g)
  <2> HIDE DEF X, F
  <2> QED BY <1>7, FoldExists
<1>9. ASSUME NEW f, NEW s \in SUBSET D, s # {}, f[s \ {Max(s)}] \in X[s \ {Max(s)}]
      PROVE  F[s][f[s \ {Max(s)}]] = step(f, s) /\ LastOf(D)[s] = Max(s)
  <2>1. s \ {Max(s)} \in SUBSET D /\ LastOf(D)[s] = Max(s)
    BY LastOfIs
  <2> QED BY <1>9, <2>1
<1>10. \A s \in SUBSET D : g[s] = step(g, s)
  <2> SUFFICES ASSUME NEW s \in SUBSET D PROVE g[s] = step(g, s)
    OBVIOUS
  <2>1. g[s] = FoldStep(LastOf(D), F, base, g, s)
    BY <1>8 DEF FoldGraph
  <2>2. CASE s = {}
    BY <2>1, <2>2 DEF FoldStep
  <2>3. CASE s # {}
    <3>1. s \ {Max(s)} \in SUBSET D
      OBVIOUS
    <3>2. g[s \ {Max(s)}] \in X[s \ {Max(s)}]
      BY <1>8, <3>1 DEF Inside
    <3>3. F[s][g[s \ {Max(s)}]] = step(g, s) /\ LastOf(D)[s] = Max(s)
      BY <1>9, <2>3, <3>2
    <3> HIDE DEF F, X
    <3> QED BY <2>1, <2>3, <3>3 DEF FoldStep
  <2> QED BY <2>2, <2>3
<1>11. g = [s \in SUBSET D |-> step(g, s)]
  <2> HIDE DEF F, X
  <2>1. g = [s \in SUBSET D |-> g[s]]
    BY <1>8 DEF FoldGraph
  <2> HIDE DEF step
  <2> QED BY <1>10, <2>1
<1>12. G = [s \in SUBSET D |-> step(G, s)]
  BY <1>11
<1>13. \A s \in SUBSET D : G[s] = step(G, s)
  <2> HIDE DEF G, step
  <2> QED BY <1>12
<1>14. Follows(D, LastOf(D), X, F, base, G)
  <2>1. G[{}] = base
    BY <1>13
  <2>2. ASSUME NEW s \in SUBSET D, s # {}, G[s \ {LastOf(D)[s]}] \in X[s \ {LastOf(D)[s]}]
        PROVE  G[s] = F[s][G[s \ {LastOf(D)[s]}]]
    <3>1. LastOf(D)[s] = Max(s)
      BY LastOfIs
    <3>2. F[s][G[s \ {Max(s)}]] = step(G, s) /\ G[s] = step(G, s)
      <4> HIDE DEF G, X, F, step
      <4> QED BY <1>9, <1>13, <2>2, <3>1
    <3> HIDE DEF G, X, F
    <3> QED BY <3>1, <3>2
  <2> HIDE DEF G, X, F
  <2> QED BY <2>1, <2>2 DEF Follows
<1>15. G[D] \in Entered(D)
  <2>1. Inside(D, X, G)
    <3> HIDE DEF G, X, F, D
    <3> QED BY <1>7, <1>14, FoldStays
  <2> HIDE DEF G
  <2> QED BY <2>1 DEF Inside
<1> QED
  <2> HIDE DEF G
  <2> QED BY <1>1, <1>15 DEF Entered

\* What is within reach of a node of the database are nodes of the database.
LEMMA WithinIs ==
  ASSUME NEW db, \A i \in DOMAIN db : db[i].children \subseteq DOMAIN db,
         NEW root \in DOMAIN db, NEW n \in Nat
  PROVE  Within(db, root, n) \subseteq DOMAIN db /\ root \in Within(db, root, n)
<1> DEFINE below == [i \in DOMAIN db |-> db[i].children]
           S == {root}
<1>1. (\A x \in DOMAIN db : below[x] \subseteq DOMAIN db) /\ S \in SUBSET DOMAIN db
  OBVIOUS
<1>2. Within(db, root, n) = Reached(S, below, n)
  BY DEF Within
<1> HIDE DEF below, S
<1>3. Reached(S, below, n) \subseteq DOMAIN db /\ S \subseteq Reached(S, below, n)
  BY <1>1, ReachedIs
<1> QED BY <1>2, <1>3 DEF S

LEMMA WithChildrenLater ==
  ASSUME scenario \in Scenarios, NEW h, ProperCache(h), NEW id \in DOMAIN h.nodes,
         NEW n \in Nat, NEW childIds, DOMAIN childIds = 1..n
  PROVE  WithChildren(h, id, childIds) \in Later(h)
<1> DEFINE o == h.nodes[id]
           cut == [h.node EXCEPT ![o].children = <<>>]
           linked == LinkChildren(h.nodes, cut, o, childIds)
           bare == [linked EXCEPT ![o].children = <<>>]
<1>1. Proper(h.node) /\ o \in Used(h.node) /\ \A c \in DOMAIN h.nodes : h.nodes[c] \in Used(h.node)
  BY CacheFacts
<1>2. <<>> \in Seq(Obj) /\ \A S : Range(<<>>) \subseteq S
  BY DEF Range
<1> DEFINE nodes == h.nodes
<1>3. cut \in Relinked(h.node)
  <2> HIDE DEF o
  <2> QED BY <1>1, <1>2, SetChildren
<1>4. linked \in Relinked(h.node)
  <2>1. \A c \in DOMAIN nodes : nodes[c] \in Used(h.node)
    BY <1>1
  <2>2. linked = LinkChildren(nodes, cut, o, childIds)
    OBVIOUS
  <2> HIDE DEF nodes, o, cut, linked
  <2> QED BY <1>1, <1>3, <2>1, <2>2, LinkChildrenRelinks
<1>5. bare \in Relinked(h.node)
  <2> HIDE DEF linked, o
  <2>1. Proper(linked) /\ Used(linked) = Used(h.node)
    BY <1>1, <1>4, RelinkedProper
  <2>2. bare \in Relinked(linked)
    BY <1>1, <1>2, <2>1, SetChildren
  <2> QED BY <1>4, <2>2, RelinkedTrans
<1>6. WithChildren(h, id, childIds) = [h EXCEPT !.node = IF IsInfinite(linked, o) THEN bare ELSE linked]
  BY DEF WithChildren
<1> HIDE DEF linked, bare, o
<1>7. (IF IsInfinite(linked, o) THEN bare ELSE linked) \in Relinked(h.node)
  BY <1>4, <1>5
<1> QED BY <1>6, <1>7, RelinkLater

LEMMA EdgesIs ==
  ASSUME scenario \in Scenarios, NEW db, ProperDb(db), NEW root, NEW id \in DOMAIN db
  PROVE  \E n \in Nat : DOMAIN Edges(db, root, id) = 1..n
<1>1. db[id].children \in SUBSET Nat /\ IsFiniteSet(db[id].children)
  BY DbIs, ScenarioFacts, FS_Subset
<1>2. Cardinality(db[id].children) \in Nat
  BY <1>1, FS_CardinalityType
<1>3. DOMAIN InOrder(db[id].children) = 1..Cardinality(db[id].children)
  BY DEF InOrder
<1>4. DOMAIN <<>> = 1..0
  OBVIOUS
<1> QED BY <1>2, <1>3, <1>4 DEF Edges

\* The second half of inductQuickGraph.
LEMMA PopulateLater ==
  ASSUME scenario \in Scenarios, NEW h, ProperCache(h), NEW db, ProperDb(db), NEW root,
         NEW ids \in SUBSET DOMAIN db, ids \subseteq DOMAIN h.nodes,
         NEW base \in Later(h)
  PROVE  PopulateChildren(base, db, root, ids) \in Later(h)
<1> DEFINE n == Cardinality(ids)
           D == 1..n
           seq == InOrder(ids)
           Entered(s) == Later(h)
           X == [s \in SUBSET D |-> Entered(s)]
           Do(k, i) == WithChildren(k, seq[i], Edges(db, root, seq[i]))
           F == [s \in SUBSET D |-> [k \in Entered(s \ {Max(s)}) |-> Do(k, Max(s))]]
           step(g, s) == IF s = {} THEN base ELSE Do(g[s \ {Max(s)}], Max(s))
           G == CHOOSE g : g = [s \in SUBSET D |-> step(g, s)]
<1>1. ids \in SUBSET Nat /\ IsFiniteSet(ids)
  BY DbIs, ScenarioFacts, FS_Subset
<1>2. n \in Nat /\ seq \in [D -> ids]
  BY <1>1, InOrderIs
<1>3. PopulateChildren(base, db, root, ids) = G[D]
  <2>1. DOMAIN seq = D
    BY DEF InOrder
  <2> QED BY <2>1 DEF PopulateChildren, FoldLeft, MapThenFoldSet
<1>4. ASSUME NEW k \in Later(h), NEW i \in D PROVE Do(k, i) \in Later(h)
  <2>1. ProperCache(k) /\ seq[i] \in DOMAIN k.nodes /\ seq[i] \in DOMAIN db
    BY <1>2, LaterIs DEF Grows
  <2>2. \E m \in Nat : DOMAIN Edges(db, root, seq[i]) = 1..m
    BY <2>1, EdgesIs
  <2> DEFINE id == seq[i]
             childIds == Edges(db, root, id)
  <2> HIDE DEF seq
  <2>3. Do(k, i) = WithChildren(k, id, childIds)
    OBVIOUS
  <2> HIDE DEF Do, id, childIds
  <2>4. Do(k, i) \in Later(k)
    <3>1. id \in DOMAIN k.nodes /\ \E m \in Nat : DOMAIN childIds = 1..m
      BY <2>1, <2>2 DEF id, childIds
    <3> QED BY <2>1, <2>3, <3>1, WithChildrenLater
  <2> QED BY <2>4, LaterTrans
<1> HIDE DEF seq, Do, n
<1>5. ASSUME NEW s \in SUBSET D, s # {}, NEW k \in Entered(s \ {Max(s)})
      PROVE  Do(k, Max(s)) \in Entered(s)
  <2>1. Max(s) \in D
    BY <1>2, <1>5, LastOfIs
  <2> QED BY <1>4, <2>1
<1>6. base \in Entered({})
  OBVIOUS
<1> HIDE DEF Entered
<1>7. Folding(D, LastOf(D), X, F, base)
  <2>1. IsFiniteSet(D) /\ base \in X[{}]
    BY <1>6, <1>2, LastOfIs
  <2>2. ASSUME NEW s \in SUBSET D, s # {}
        PROVE  LastOf(D)[s] \in s /\ \A a \in X[s \ {LastOf(D)[s]}] : F[s][a] \in X[s]
    <3>1. LastOf(D)[s] = Max(s) /\ Max(s) \in s /\ s \ {Max(s)} \in SUBSET D
      BY <2>2, <1>2, LastOfIs
    <3> QED BY <1>5, <2>2, <3>1
  <2> QED BY <2>1, <2>2 DEF Folding
<1>8. PICK g : FoldGraph(D, LastOf(D), F, base, g) /\ Inside(D, X, g)
  <2> HIDE DEF X, F
  <2> QED BY <1>7, FoldExists
<1>9. ASSUME NEW f, NEW s \in SUBSET D, s # {}, f[s \ {Max(s)}] \in X[s \ {Max(s)}]
      PROVE  F[s][f[s \ {Max(s)}]] = step(f, s) /\ LastOf(D)[s] = Max(s)
  <2>1. s \ {Max(s)} \in SUBSET D /\ LastOf(D)[s] = Max(s)
    BY <1>2, LastOfIs
  <2> QED BY <1>9, <2>1
<1>10. \A s \in SUBSET D : g[s] = step(g, s)
  <2> SUFFICES ASSUME NEW s \in SUBSET D PROVE g[s] = step(g, s)
    OBVIOUS
  <2>1. g[s] = FoldStep(LastOf(D), F, base, g, s)
    BY <1>8 DEF FoldGraph
  <2>2. CASE s = {}
    BY <2>1, <2>2 DEF FoldStep
  <2>3. CASE s # {}
    <3>1. s \ {Max(s)} \in SUBSET D
      OBVIOUS
    <3>2. g[s \ {Max(s)}] \in X[s \ {Max(s)}]
      BY <1>8, <3>1 DEF Inside
    <3>3. F[s][g[s \ {Max(s)}]] = step(g, s) /\ LastOf(D)[s] = Max(s)
      BY <1>9, <2>3, <3>2
    <3> HIDE DEF F, X
    <3> QED BY <2>1, <2>3, <3>3 DEF FoldStep
  <2> QED BY <2>2, <2>3
<1>11. g = [s \in SUBSET D |-> step(g, s)]
  <2> HIDE DEF F, X
  <2>1. g = [s \in SUBSET D |-> g[s]]
    BY <1>8 DEF FoldGraph
  <2> HIDE DEF step
  <2> QED BY <1>10, <2>1
<1>12. G = [s \in SUBSET D |-> step(G, s)]
  BY <1>11
<1>13. \A s \in SUBSET D : G[s] = step(G, s)
  <2> HIDE DEF G, step
  <2> QED BY <1>12
<1>14. Follows(D, LastOf(D), X, F, base, G)
  <2>1. G[{}] = base
    BY <1>13
  <2>2. ASSUME NEW s \in SUBSET D, s # {}, G[s \ {LastOf(D)[s]}] \in X[s \ {LastOf(D)[s]}]
        PROVE  G[s] = F[s][G[s \ {LastOf(D)[s]}]]
    <3>1. LastOf(D)[s] = Max(s)
      BY <1>2, LastOfIs
    <3>2. F[s][G[s \ {Max(s)}]] = step(G, s) /\ G[s] = step(G, s)
      <4> HIDE DEF G, X, F, step
      <4> QED BY <1>9, <1>13, <2>2, <3>1
    <3> HIDE DEF G, X, F
    <3> QED BY <3>1, <3>2
  <2> HIDE DEF G, X, F
  <2> QED BY <2>1, <2>2 DEF Follows
<1>15. G[D] \in Entered(D)
  <2>1. Inside(D, X, G)
    <3> HIDE DEF G, X, F, D
    <3> QED BY <1>7, <1>14, FoldStays
  <2> HIDE DEF G
  <2> QED BY <2>1 DEF Inside
<1> QED
  <2> HIDE DEF G
  <2> QED BY <1>3, <1>15 DEF Entered

LEMMA InductLater ==
  ASSUME Unlimited, scenario \in Scenarios, NEW h, ProperCache(h),
         NEW db, ProperDb(db), NEW root \in DOMAIN db
  PROVE  /\ InductQuickGraph(h, db, root) \in Later(h)
         /\ root \in DOMAIN InductQuickGraph(h, db, root).nodes
<1> DEFINE ids == Within(db, root, Depth)
           consumers == Consumers(db, root)
           first == AddNodesUnlinked(h, db, ids)
           added == AddNodesUnlinked(first, db, consumers)
           p == [i \in consumers |-> added.nodes[i]]
           o == added.nodes[root]
           g == [added.node EXCEPT ![o].parents = p]
           rooted == [added EXCEPT !.node = g]
<1>1. ids \in SUBSET DOMAIN db /\ root \in ids
  BY DbIs, ScenarioFacts, WithinIs
<1>2. consumers \in SUBSET DOMAIN db
  BY DEF Consumers
<1>3. first \in Later(h) /\ ids \subseteq DOMAIN first.nodes
  BY <1>1, AddNodesLater
<1>4. added \in Later(first) /\ consumers \subseteq DOMAIN added.nodes
  <2> HIDE DEF first
  <2> QED BY <1>2, <1>3, LaterIs, AddNodesLater
<1> HIDE DEF ids, consumers, first, added
<1>5. ProperCache(added) /\ added \in Later(h) /\ ids \subseteq DOMAIN added.nodes
  BY <1>3, <1>4, LaterIs, LaterTrans DEF Grows
<1>6. Proper(added.node) /\ \A k \in DOMAIN added.nodes : k \in Key /\ added.nodes[k] \in Used(added.node)
  BY <1>5, CacheFacts
<1>7. p \in ObjectMap /\ Range(p) \subseteq Used(added.node)
  <2>1. DOMAIN p = consumers /\ \A i \in consumers : p[i] \in Used(added.node) /\ i \in Key
    BY <1>4, <1>6
  <2>2. p \in [consumers -> Obj]
    BY <2>1 DEF Used
  <2>3. consumers \subseteq Key
    BY <2>1
  <2> QED BY <2>1, <2>2, <2>3 DEF ObjectMap, Range
<1>8. g \in Relinked(added.node)
  <2>1. o \in Used(added.node)
    BY <1>1, <1>5, <1>6
  <2> HIDE DEF p, o
  <2> QED BY <1>6, <1>7, <2>1, SetParents
<1>9. rooted \in Later(added)
  <2> HIDE DEF g
  <2> QED BY <1>5, <1>8, RelinkLater
<1>10. rooted \in Later(h)
  <2> HIDE DEF rooted
  <2> QED BY <1>5, <1>9, LaterTrans
<1>11. InductQuickGraph(h, db, root) = PopulateChildren(rooted, db, root, ids)
  <2>1. rooted = [added EXCEPT !.node[added.nodes[root]].parents = p]
    OBVIOUS
  <2> HIDE DEF rooted
  <2> QED BY <2>1 DEF InductQuickGraph, ids, consumers, first, added
<1> HIDE DEF rooted
<1>12. PopulateChildren(rooted, db, root, ids) \in Later(added)
  BY <1>1, <1>5, <1>9, PopulateLater
<1>13. PopulateChildren(rooted, db, root, ids) \in Later(h)
  BY <1>5, <1>12, LaterTrans
<1>14. root \in DOMAIN PopulateChildren(rooted, db, root, ids).nodes
  BY <1>1, <1>5, <1>12, LaterIs DEF Grows
<1> QED BY <1>11, <1>13, <1>14

\* A node leaves its children, and its parents.
LEMMA LeaveChildrenRelinks ==
  ASSUME scenario \in Scenarios, NEW g0, Proper(g0), NEW o \in Used(g0)
  PROVE  LeaveChildren(g0, o) \in Relinked(g0)
<1> DEFINE n == Len(g0[o].children)
           D == 1..n
           base == g0
           seq == g0[o].children
           Entered(s) == Relinked(g0)
           X == [s \in SUBSET D |-> Entered(s)]
           Do(k, i) == [k EXCEPT ![seq[i]].parents = Delete(@, k[o].id)]
           F == [s \in SUBSET D |-> [k \in Entered(s \ {Max(s)}) |-> Do(k, Max(s))]]
           step(g, s) == IF s = {} THEN base ELSE Do(g[s \ {Max(s)}], Max(s))
           G == CHOOSE g : g = [s \in SUBSET D |-> step(g, s)]
<1>1. seq \in Seq(Obj) /\ Range(seq) \subseteq Used(g0)
  BY UsedObject
<1>2. n \in Nat /\ DOMAIN seq = D /\ \A i \in D : seq[i] \in Used(g0)
  <2>1. n \in Nat /\ DOMAIN seq = D
    BY <1>1
  <2> QED BY <1>1, <2>1 DEF Range
<1>3. LeaveChildren(g0, o) = G[D]
  BY <1>2 DEF LeaveChildren, FoldLeft, MapThenFoldSet
<1>4. ASSUME NEW k \in Relinked(g0), NEW i \in D PROVE Do(k, i) \in Relinked(g0)
  <2> DEFINE c == seq[i]
             key == k[o].id
             p == Delete(k[c].parents, key)
  <2>1. Proper(k) /\ c \in Used(k)
    BY <1>2, RelinkedProper
  <2> HIDE DEF c, key
  <2>2. k[c].parents \in ObjectMap /\ Range(k[c].parents) \subseteq Used(k)
    BY <2>1, UsedObject
  <2>3. p \in ObjectMap /\ Range(p) \subseteq Used(k)
    BY <2>2, DeleteMap
  <2>4. Do(k, i) = [k EXCEPT ![c].parents = p]
    BY DEF c, key
  <2> HIDE DEF p, Do
  <2>5. [k EXCEPT ![c].parents = p] \in Relinked(k)
    BY <2>1, <2>3, SetParents
  <2> QED BY <2>4, <2>5, RelinkedTrans
<1> HIDE DEF seq, Do, n
<1>5. ASSUME NEW s \in SUBSET D, s # {}, NEW k \in Entered(s \ {Max(s)})
      PROVE  Do(k, Max(s)) \in Entered(s)
  <2>1. Max(s) \in D
    BY <1>2, <1>5, LastOfIs
  <2> QED BY <1>4, <2>1
<1>6. base \in Entered({})
  BY RelinkedRefl
<1> HIDE DEF base
<1> HIDE DEF Entered
<1>7. Folding(D, LastOf(D), X, F, base)
  <2>1. IsFiniteSet(D) /\ base \in X[{}]
    BY <1>6, <1>2, LastOfIs
  <2>2. ASSUME NEW s \in SUBSET D, s # {}
        PROVE  LastOf(D)[s] \in s /\ \A a \in X[s \ {LastOf(D)[s]}] : F[s][a] \in X[s]
    <3>1. LastOf(D)[s] = Max(s) /\ Max(s) \in s /\ s \ {Max(s)} \in SUBSET D
      BY <2>2, <1>2, LastOfIs
    <3> QED BY <1>5, <2>2, <3>1
  <2> QED BY <2>1, <2>2 DEF Folding
<1>8. PICK g : FoldGraph(D, LastOf(D), F, base, g) /\ Inside(D, X, g)
  <2> HIDE DEF X, F
  <2> QED BY <1>7, FoldExists
<1>9. ASSUME NEW f, NEW s \in SUBSET D, s # {}, f[s \ {Max(s)}] \in X[s \ {Max(s)}]
      PROVE  F[s][f[s \ {Max(s)}]] = step(f, s) /\ LastOf(D)[s] = Max(s)
  <2>1. s \ {Max(s)} \in SUBSET D /\ LastOf(D)[s] = Max(s)
    BY <1>2, LastOfIs
  <2> QED BY <1>9, <2>1
<1>10. \A s \in SUBSET D : g[s] = step(g, s)
  <2> SUFFICES ASSUME NEW s \in SUBSET D PROVE g[s] = step(g, s)
    OBVIOUS
  <2>1. g[s] = FoldStep(LastOf(D), F, base, g, s)
    BY <1>8 DEF FoldGraph
  <2>2. CASE s = {}
    BY <2>1, <2>2 DEF FoldStep
  <2>3. CASE s # {}
    <3>1. s \ {Max(s)} \in SUBSET D
      OBVIOUS
    <3>2. g[s \ {Max(s)}] \in X[s \ {Max(s)}]
      BY <1>8, <3>1 DEF Inside
    <3>3. F[s][g[s \ {Max(s)}]] = step(g, s) /\ LastOf(D)[s] = Max(s)
      BY <1>9, <2>3, <3>2
    <3> HIDE DEF F, X
    <3> QED BY <2>1, <2>3, <3>3 DEF FoldStep
  <2> QED BY <2>2, <2>3
<1>11. g = [s \in SUBSET D |-> step(g, s)]
  <2> HIDE DEF F, X
  <2>1. g = [s \in SUBSET D |-> g[s]]
    BY <1>8 DEF FoldGraph
  <2> HIDE DEF step
  <2> QED BY <1>10, <2>1
<1>12. G = [s \in SUBSET D |-> step(G, s)]
  BY <1>11
<1>13. \A s \in SUBSET D : G[s] = step(G, s)
  <2> HIDE DEF G, step
  <2> QED BY <1>12
<1>14. Follows(D, LastOf(D), X, F, base, G)
  <2>1. G[{}] = base
    BY <1>13
  <2>2. ASSUME NEW s \in SUBSET D, s # {}, G[s \ {LastOf(D)[s]}] \in X[s \ {LastOf(D)[s]}]
        PROVE  G[s] = F[s][G[s \ {LastOf(D)[s]}]]
    <3>1. LastOf(D)[s] = Max(s)
      BY <1>2, LastOfIs
    <3>2. F[s][G[s \ {Max(s)}]] = step(G, s) /\ G[s] = step(G, s)
      <4> HIDE DEF G, X, F, step
      <4> QED BY <1>9, <1>13, <2>2, <3>1
    <3> HIDE DEF G, X, F
    <3> QED BY <3>1, <3>2
  <2> HIDE DEF G, X, F
  <2> QED BY <2>1, <2>2 DEF Follows
<1>15. G[D] \in Entered(D)
  <2>1. Inside(D, X, G)
    <3> HIDE DEF G, X, F, D
    <3> QED BY <1>7, <1>14, FoldStays
  <2> HIDE DEF G
  <2> QED BY <2>1 DEF Inside
<1> QED
  <2> HIDE DEF G
  <2> QED BY <1>3, <1>15 DEF Entered

FirstOf(D) == [s \in SUBSET D |-> First(s)]

LEMMA FirstOfIs ==
  ASSUME NEW D
  PROVE  /\ \A s \in SUBSET D : FirstOf(D)[s] = First(s)
         /\ \A s \in SUBSET D : s # {} => First(s) \in s /\ s \ {First(s)} \in SUBSET D
BY FirstIn DEF FirstOf

LEMMA LeaveParentsRelinks ==
  ASSUME scenario \in Scenarios, NEW g0, Proper(g0), NEW o \in Used(g0)
  PROVE  LeaveParents(g0, o) \in Relinked(g0)
<1> DEFINE D == DOMAIN g0[o].parents
           base == g0
           Entered(s) == Relinked(g0)
           X == [s \in SUBSET D |-> Entered(s)]
           Do(k, i) == IF i \in DOMAIN k[o].parents THEN RemoveChild(k, k[o].parents[i], o) ELSE k
           F == [s \in SUBSET D |-> [k \in Entered(s \ {First(s)}) |-> Do(k, First(s))]]
           step(g, s) == IF s = {} THEN base ELSE Do(g[s \ {First(s)}], First(s))
           G == CHOOSE g : g = [s \in SUBSET D |-> step(g, s)]
<1>2. IsFiniteSet(D)
  BY UsedObject
<1>3. LeaveParents(g0, o) = G[D]
  BY DEF LeaveParents, FoldSet, MapThenFoldSet, First
<1>4. ASSUME NEW k \in Relinked(g0), NEW i PROVE Do(k, i) \in Relinked(g0)
  <2>1. Proper(k) /\ o \in Used(k)
    BY RelinkedProper
  <2>2. CASE i \in DOMAIN k[o].parents
    <3> DEFINE q == k[o].parents[i]
    <3>1. q \in Used(k)
      BY <2>1, <2>2, UsedObject DEF Range
    <3>2. Do(k, i) = RemoveChild(k, q, o)
      BY <2>2
    <3> HIDE DEF q, Do
    <3>3. Do(k, i) \in Relinked(k)
      BY <2>1, <3>1, <3>2, RemoveChildRelinks
    <3> QED BY <3>3, RelinkedTrans
  <2>3. CASE i \notin DOMAIN k[o].parents
    BY <2>3
  <2> QED BY <2>2, <2>3
<1> HIDE DEF Do, D
<1>5. ASSUME NEW s \in SUBSET D, s # {}, NEW k \in Entered(s \ {First(s)})
      PROVE  Do(k, First(s)) \in Entered(s)
  BY <1>4
<1>6. base \in Entered({})
  BY RelinkedRefl
<1> HIDE DEF base
<1> HIDE DEF Entered
<1>7. Folding(D, FirstOf(D), X, F, base)
  <2>1. IsFiniteSet(D) /\ base \in X[{}]
    BY <1>6, <1>2, FirstOfIs
  <2>2. ASSUME NEW s \in SUBSET D, s # {}
        PROVE  FirstOf(D)[s] \in s /\ \A a \in X[s \ {FirstOf(D)[s]}] : F[s][a] \in X[s]
    <3>1. FirstOf(D)[s] = First(s) /\ First(s) \in s /\ s \ {First(s)} \in SUBSET D
      BY <2>2, <1>2, FirstOfIs
    <3> QED BY <1>5, <2>2, <3>1
  <2> QED BY <2>1, <2>2 DEF Folding
<1>8. PICK g : FoldGraph(D, FirstOf(D), F, base, g) /\ Inside(D, X, g)
  <2> HIDE DEF X, F
  <2> QED BY <1>7, FoldExists
<1>9. ASSUME NEW f, NEW s \in SUBSET D, s # {}, f[s \ {First(s)}] \in X[s \ {First(s)}]
      PROVE  F[s][f[s \ {First(s)}]] = step(f, s) /\ FirstOf(D)[s] = First(s)
  <2>1. s \ {First(s)} \in SUBSET D /\ FirstOf(D)[s] = First(s)
    BY <1>2, FirstOfIs
  <2> QED BY <1>9, <2>1
<1>10. \A s \in SUBSET D : g[s] = step(g, s)
  <2> SUFFICES ASSUME NEW s \in SUBSET D PROVE g[s] = step(g, s)
    OBVIOUS
  <2>1. g[s] = FoldStep(FirstOf(D), F, base, g, s)
    BY <1>8 DEF FoldGraph
  <2>2. CASE s = {}
    BY <2>1, <2>2 DEF FoldStep
  <2>3. CASE s # {}
    <3>1. s \ {First(s)} \in SUBSET D
      OBVIOUS
    <3>2. g[s \ {First(s)}] \in X[s \ {First(s)}]
      BY <1>8, <3>1 DEF Inside
    <3>3. F[s][g[s \ {First(s)}]] = step(g, s) /\ FirstOf(D)[s] = First(s)
      BY <1>9, <2>3, <3>2
    <3> HIDE DEF F, X
    <3> QED BY <2>1, <2>3, <3>3 DEF FoldStep
  <2> QED BY <2>2, <2>3
<1>11. g = [s \in SUBSET D |-> step(g, s)]
  <2> HIDE DEF F, X
  <2>1. g = [s \in SUBSET D |-> g[s]]
    BY <1>8 DEF FoldGraph
  <2> HIDE DEF step
  <2> QED BY <1>10, <2>1
<1>12. G = [s \in SUBSET D |-> step(G, s)]
  BY <1>11
<1>13. \A s \in SUBSET D : G[s] = step(G, s)
  <2> HIDE DEF G, step
  <2> QED BY <1>12
<1>14. Follows(D, FirstOf(D), X, F, base, G)
  <2>1. G[{}] = base
    BY <1>13
  <2>2. ASSUME NEW s \in SUBSET D, s # {}, G[s \ {FirstOf(D)[s]}] \in X[s \ {FirstOf(D)[s]}]
        PROVE  G[s] = F[s][G[s \ {FirstOf(D)[s]}]]
    <3>1. FirstOf(D)[s] = First(s)
      BY <1>2, FirstOfIs
    <3>2. F[s][G[s \ {First(s)}]] = step(G, s) /\ G[s] = step(G, s)
      <4> HIDE DEF G, X, F, step
      <4> QED BY <1>9, <1>13, <2>2, <3>1
    <3> HIDE DEF G, X, F
    <3> QED BY <3>1, <3>2
  <2> HIDE DEF G, X, F
  <2> QED BY <2>1, <2>2 DEF Follows
<1>15. G[D] \in Entered(D)
  <2>1. Inside(D, X, G)
    <3> HIDE DEF G, X, F, D
    <3> QED BY <1>7, <1>14, FoldStays
  <2> HIDE DEF G
  <2> QED BY <2>1 DEF Inside
<1> QED
  <2> HIDE DEF G
  <2> QED BY <1>3, <1>15 DEF Entered

LEMMA ForgetLater ==
  ASSUME scenario \in Scenarios, NEW h, ProperCache(h), NEW id
  PROVE  ForgetNode(h, id) \in Later(h)
<1>1. CASE id \notin DOMAIN h.nodes
  BY <1>1, LaterRefl DEF ForgetNode
<1>2. CASE id \in DOMAIN h.nodes
  <2> DEFINE o == h.nodes[id]
             alone == LeaveChildren(h.node, o)
             g == LeaveParents(alone, o)
  <2>1. Proper(h.node) /\ o \in Used(h.node) /\ h = [node |-> h.node, nodes |-> h.nodes]
    BY <1>2, CacheFacts
  <2>2. alone \in Relinked(h.node)
    <3> HIDE DEF o
    <3> QED BY <2>1, LeaveChildrenRelinks
  <2>3. Proper(alone) /\ o \in Used(alone)
    <3> HIDE DEF alone, o
    <3> QED BY <2>1, <2>2, RelinkedProper
  <2>4. g \in Relinked(alone)
    <3> HIDE DEF alone, o
    <3> QED BY <2>3, LeaveParentsRelinks
  <2>5. g \in Relinked(h.node)
    <3> HIDE DEF alone, g
    <3> QED BY <2>2, <2>4, RelinkedTrans
  <2>6. ForgetNode(h, id) = [h EXCEPT !.node = g]
    BY <1>2 DEF ForgetNode
  <2> HIDE DEF g
  <2> QED BY <2>5, <2>6, RelinkLater
<1> QED BY <1>1, <1>2

LEMMA AddToParentsRelinks ==
  ASSUME scenario \in Scenarios, NEW g0, Proper(g0), NEW o \in Used(g0), NEW child \in Used(g0)
  PROVE  AddToParents(g0, o, child) \in Relinked(g0)
<1> DEFINE D == DOMAIN g0[o].parents
           base == g0
           Entered(s) == Relinked(g0)
           X == [s \in SUBSET D |-> Entered(s)]
           Do(k, i) == AddChild(k, g0[o].parents[i], child)
           F == [s \in SUBSET D |-> [k \in Entered(s \ {First(s)}) |-> Do(k, First(s))]]
           step(g, s) == IF s = {} THEN base ELSE Do(g[s \ {First(s)}], First(s))
           G == CHOOSE g : g = [s \in SUBSET D |-> step(g, s)]
<1>2. IsFiniteSet(D) /\ \A i \in D : g0[o].parents[i] \in Used(g0)
  BY UsedObject DEF Range
<1>3. AddToParents(g0, o, child) = G[D]
  BY DEF AddToParents, FoldSet, MapThenFoldSet, First
<1>4. ASSUME NEW k \in Relinked(g0), NEW i \in D PROVE Do(k, i) \in Relinked(g0)
  <2> DEFINE q == g0[o].parents[i]
  <2>1. Proper(k) /\ q \in Used(k) /\ child \in Used(k)
    BY <1>2, RelinkedProper
  <2>2. Do(k, i) = AddChild(k, q, child)
    OBVIOUS
  <2> HIDE DEF q, Do
  <2>3. Do(k, i) \in Relinked(k)
    BY <2>1, <2>2, AddChildRelinks
  <2> QED BY <2>3, RelinkedTrans
<1> HIDE DEF Do, D
<1>5. ASSUME NEW s \in SUBSET D, s # {}, NEW k \in Entered(s \ {First(s)})
      PROVE  Do(k, First(s)) \in Entered(s)
  <2>1. First(s) \in D
    BY <1>5, FirstIn
  <2> QED BY <1>4, <2>1
<1>6. base \in Entered({})
  BY RelinkedRefl
<1> HIDE DEF base
<1> HIDE DEF Entered
<1>7. Folding(D, FirstOf(D), X, F, base)
  <2>1. IsFiniteSet(D) /\ base \in X[{}]
    BY <1>6, <1>2, FirstOfIs
  <2>2. ASSUME NEW s \in SUBSET D, s # {}
        PROVE  FirstOf(D)[s] \in s /\ \A a \in X[s \ {FirstOf(D)[s]}] : F[s][a] \in X[s]
    <3>1. FirstOf(D)[s] = First(s) /\ First(s) \in s /\ s \ {First(s)} \in SUBSET D
      BY <2>2, <1>2, FirstOfIs
    <3> QED BY <1>5, <2>2, <3>1
  <2> QED BY <2>1, <2>2 DEF Folding
<1>8. PICK g : FoldGraph(D, FirstOf(D), F, base, g) /\ Inside(D, X, g)
  <2> HIDE DEF X, F
  <2> QED BY <1>7, FoldExists
<1>9. ASSUME NEW f, NEW s \in SUBSET D, s # {}, f[s \ {First(s)}] \in X[s \ {First(s)}]
      PROVE  F[s][f[s \ {First(s)}]] = step(f, s) /\ FirstOf(D)[s] = First(s)
  <2>1. s \ {First(s)} \in SUBSET D /\ FirstOf(D)[s] = First(s)
    BY <1>2, FirstOfIs
  <2> QED BY <1>9, <2>1
<1>10. \A s \in SUBSET D : g[s] = step(g, s)
  <2> SUFFICES ASSUME NEW s \in SUBSET D PROVE g[s] = step(g, s)
    OBVIOUS
  <2>1. g[s] = FoldStep(FirstOf(D), F, base, g, s)
    BY <1>8 DEF FoldGraph
  <2>2. CASE s = {}
    BY <2>1, <2>2 DEF FoldStep
  <2>3. CASE s # {}
    <3>1. s \ {First(s)} \in SUBSET D
      OBVIOUS
    <3>2. g[s \ {First(s)}] \in X[s \ {First(s)}]
      BY <1>8, <3>1 DEF Inside
    <3>3. F[s][g[s \ {First(s)}]] = step(g, s) /\ FirstOf(D)[s] = First(s)
      BY <1>9, <2>3, <3>2
    <3> HIDE DEF F, X
    <3> QED BY <2>1, <2>3, <3>3 DEF FoldStep
  <2> QED BY <2>2, <2>3
<1>11. g = [s \in SUBSET D |-> step(g, s)]
  <2> HIDE DEF F, X
  <2>1. g = [s \in SUBSET D |-> g[s]]
    BY <1>8 DEF FoldGraph
  <2> HIDE DEF step
  <2> QED BY <1>10, <2>1
<1>12. G = [s \in SUBSET D |-> step(G, s)]
  BY <1>11
<1>13. \A s \in SUBSET D : G[s] = step(G, s)
  <2> HIDE DEF G, step
  <2> QED BY <1>12
<1>14. Follows(D, FirstOf(D), X, F, base, G)
  <2>1. G[{}] = base
    BY <1>13
  <2>2. ASSUME NEW s \in SUBSET D, s # {}, G[s \ {FirstOf(D)[s]}] \in X[s \ {FirstOf(D)[s]}]
        PROVE  G[s] = F[s][G[s \ {FirstOf(D)[s]}]]
    <3>1. FirstOf(D)[s] = First(s)
      BY <1>2, FirstOfIs
    <3>2. F[s][G[s \ {First(s)}]] = step(G, s) /\ G[s] = step(G, s)
      <4> HIDE DEF G, X, F, step
      <4> QED BY <1>9, <1>13, <2>2, <3>1
    <3> HIDE DEF G, X, F
    <3> QED BY <3>1, <3>2
  <2> HIDE DEF G, X, F
  <2> QED BY <2>1, <2>2 DEF Follows
<1>15. G[D] \in Entered(D)
  <2>1. Inside(D, X, G)
    <3> HIDE DEF G, X, F, D
    <3> QED BY <1>7, <1>14, FoldStays
  <2> HIDE DEF G
  <2> QED BY <2>1 DEF Inside
<1> QED
  <2> HIDE DEF G
  <2> QED BY <1>3, <1>15 DEF Entered

LEMMA InductPublishedLater ==
  ASSUME Unlimited, scenario \in Scenarios, NEW h, ProperCache(h),
         NEW db, ProperDb(db), NEW root \in DOMAIN db, NEW o \in Used(h.node)
  PROVE  InductPublished(h, db, root, o) \in Later(h)
<1> DEFINE inducted == InductQuickGraph(h, db, root)
           forgotten == ForgetNode(inducted, h.node[o].id)
           child == inducted.nodes[root]
           g == AddToParents(forgotten.node, o, child)
<1>1. inducted \in Later(h) /\ root \in DOMAIN inducted.nodes
  BY InductLater
<1>2. ProperCache(inducted) /\ child \in Used(inducted.node) /\ o \in Used(inducted.node)
  <2> HIDE DEF inducted
  <2>1. ProperCache(inducted) /\ Grows(h, inducted)
    BY <1>1, LaterIs
  <2> QED BY <1>1, <2>1, CacheFacts DEF Grows
<1> HIDE DEF inducted, child
<1>3. forgotten \in Later(inducted)
  <2> DEFINE id == h.node[o].id
  <2>1. forgotten = ForgetNode(inducted, id)
    OBVIOUS
  <2> HIDE DEF id, forgotten
  <2> QED BY <1>2, <2>1, ForgetLater
<1> HIDE DEF forgotten
<1>4. ProperCache(forgotten) /\ child \in Used(forgotten.node) /\ o \in Used(forgotten.node)
  BY <1>2, <1>3, LaterIs DEF Grows
<1>5. g \in Relinked(forgotten.node)
  BY <1>4, CacheFacts, AddToParentsRelinks
<1>6. [forgotten EXCEPT !.node = g] \in Later(forgotten)
  <2> HIDE DEF g
  <2> QED BY <1>4, <1>5, RelinkLater
<1>7. [forgotten EXCEPT !.node = g] \in Later(h)
  <2> DEFINE k == [forgotten EXCEPT !.node = g]
  <2>1. k \in Later(forgotten)
    BY <1>6
  <2> HIDE DEF k
  <2>2. k \in Later(h)
    BY <1>1, <1>3, <2>1, LaterTrans
  <2> QED BY <2>2 DEF k
<1>8. InductPublished(h, db, root, o) =
        IF root = h.node[o].id THEN inducted ELSE [forgotten EXCEPT !.node = g]
  BY <1>4, CacheFacts DEF InductPublished, inducted, forgotten, child
<1> HIDE DEF g
<1> QED BY <1>1, <1>7, <1>8

-----------------------------------------------------------------------------
(***************************************************************************)
(* The answers.                                                            *)
(***************************************************************************)
LEMMA SetText ==
  ASSUME scenario \in Scenarios, NEW g, Proper(g), NEW o \in Used(g), NEW text \in Word(scenario)
  PROVE  [g EXCEPT ![o].text = text] \in Relinked(g)
<1> DEFINE n == [g[o] EXCEPT !.text = text]
<1>1. /\ g[o] \in NodeObject
      /\ Range(g[o].children) \subseteq Used(g) /\ Range(g[o].parents) \subseteq Used(g)
  BY UsedObject
<1>2. n \in NodeObject /\ n.id = g[o].id /\ n.of = g[o].of /\ n.children = g[o].children
      /\ n.parents = g[o].parents
  BY <1>1 DEF NodeObject
<1>3. [g EXCEPT ![o].text = text] = [g EXCEPT ![o] = n]
  OBVIOUS
<1> HIDE DEF n
<1> QED BY <1>1, <1>2, <1>3, RelinkOne

LEMMA SetFullGraph ==
  ASSUME scenario \in Scenarios, NEW g, Proper(g), NEW o \in Used(g), NEW full \in BOOLEAN
  PROVE  /\ [g[o] EXCEPT !.hasFullGraph = full] \in NodeObject
         /\ [g EXCEPT ![o].hasFullGraph = full] \in Relinked(g)
<1> DEFINE n == [g[o] EXCEPT !.hasFullGraph = full]
<1>1. /\ g[o] \in NodeObject
      /\ Range(g[o].children) \subseteq Used(g) /\ Range(g[o].parents) \subseteq Used(g)
  BY UsedObject
<1>2. n \in NodeObject /\ n.id = g[o].id /\ n.of = g[o].of /\ n.children = g[o].children
      /\ n.parents = g[o].parents
  BY <1>1 DEF NodeObject
<1>3. [g EXCEPT ![o].hasFullGraph = full] = [g EXCEPT ![o] = n]
  OBVIOUS
<1>4. n \in NodeObject
  BY <1>2
<1> HIDE DEF n
<1>5. [g EXCEPT ![o] = n] \in Relinked(g)
  BY <1>1, <1>2, RelinkOne
<1> QED BY <1>3, <1>4, <1>5 DEF n

\* The answer to any request but a save.
LEMMA AnsweredLater ==
  ASSUME Unlimited, scenario \in Scenarios, NEW h, ProperCache(h),
         NEW q, ProperRequest(h.node, q), q.reply.ok, q.op \notin {"blank", "support"}
  PROVE  /\ Answered(h, q) \in Later(h)
         /\ q.op \in {"graph", "makeDraft"} => q.reply.root \in DOMAIN Answered(h, q).nodes
         /\ q.op = "choices" =>
                InVersion(q.reply.db, q.id) \subseteq DOMAIN Answered(h, q).nodes
<1> DEFINE db == q.reply.db
           root == q.reply.root
<1>1. ProperDb(db)
  BY DEF ProperRequest
<1>2. q.op \notin {"discard", "choices"} => root \in DOMAIN db
  BY DEF ProperRequest
<1>3. q.op = "publish" => q.obj \in Used(h.node)
  BY DEF ProperRequest
<1>4. \A i \in DOMAIN db : Data(db, i) \in Body /\ Data(db, i).id = i
  BY <1>1, DbIs
<1> HIDE DEF db, root
<1>5. CASE q.op \in {"edit", "detail"}
  <2>1. Answered(h, q) = AddOrUpdateNode(h, Data(db, root))
    BY <1>5 DEF Answered, db, root
  <2>2. Data(db, root) \in Body
    BY <1>2, <1>4, <1>5
  <2> QED BY <1>5, <2>1, <2>2, AddOrUpdateLater
<1>6. CASE q.op = "makeDraft"
  <2> DEFINE k == AddOrUpdateNode(h, Data(db, root))
  <2>1. Answered(h, q) = InductQuickGraph(k, db, root)
    BY <1>6 DEF Answered, db, root
  <2>2. root \in DOMAIN db /\ Data(db, root) \in Body
    BY <1>2, <1>4, <1>6
  <2>3. k \in Later(h)
    BY <2>2, AddOrUpdateLater
  <2> HIDE DEF k
  <2>4. ProperCache(k)
    BY <2>3, LaterIs
  <2>5. /\ InductQuickGraph(k, db, root) \in Later(k)
        /\ root \in DOMAIN InductQuickGraph(k, db, root).nodes
    BY <1>1, <2>2, <2>4, InductLater
  <2>6. Answered(h, q) \in Later(h)
    BY <2>1, <2>3, <2>5, LaterTrans
  <2> QED BY <1>6, <2>1, <2>5, <2>6 DEF root
<1>7. CASE q.op = "publish"
  <2>1. Answered(h, q) = InductPublished(h, db, root, q.obj)
    BY <1>7 DEF Answered, db, root
  <2>2. root \in DOMAIN db /\ q.obj \in Used(h.node)
    BY <1>2, <1>3, <1>7
  <2> QED BY <1>1, <1>7, <2>1, <2>2, InductPublishedLater
<1>8. CASE q.op = "discard"
  <2>1. Answered(h, q) = ForgetNode(h, q.id)
    BY <1>8 DEF Answered
  <2> QED BY <1>8, <2>1, ForgetLater
<1>9. CASE q.op = "graph"
  <2> DEFINE k == InductQuickGraph(h, db, root)
             o == k.nodes[root]
             g == [k.node EXCEPT ![o].hasFullGraph = TRUE]
  <2>1. Answered(h, q) = [k EXCEPT !.node[o].hasFullGraph = TRUE]
    BY <1>9 DEF Answered, db, root
  <2>2. root \in DOMAIN db
    BY <1>2, <1>9
  <2>3. k \in Later(h) /\ root \in DOMAIN k.nodes
    BY <1>1, <2>2, InductLater
  <2> HIDE DEF k
  <2>4. ProperCache(k)
    BY <2>3, LaterIs
  <2>5. /\ Proper(k.node) /\ k = [node |-> k.node, nodes |-> k.nodes]
        /\ o \in Used(k.node)
    BY <2>3, <2>4, CacheFacts
  <2> HIDE DEF o
  <2>6. g \in Relinked(k.node)
    BY <2>5, SetFullGraph
  <2>7. Answered(h, q) = [k EXCEPT !.node = g]
    BY <2>1
  <2> HIDE DEF g
  <2>8. [k EXCEPT !.node = g] \in Later(k)
    BY <2>4, <2>6, RelinkLater
  <2>9. Answered(h, q) \in Later(h)
    BY <2>3, <2>7, <2>8, LaterTrans
  <2>10. [k EXCEPT !.node = g].nodes = k.nodes
    BY <2>5
  <2> QED BY <1>9, <2>3, <2>7, <2>9, <2>10 DEF root
<1>10. CASE q.op = "choices"
  <2>1. Answered(h, q) = AddNodesUnlinked(h, db, InVersion(db, root))
    BY <1>10 DEF Answered, db, root
  <2>2. InVersion(db, root) \in SUBSET DOMAIN db
    BY DEF InVersion
  <2> DEFINE ids == InVersion(db, root)
  <2>3. ids \in SUBSET DOMAIN db
    BY <2>2
  <2>4. ids = InVersion(q.reply.db, q.id)
    BY <1>10 DEF ProperRequest, db, root
  <2> HIDE DEF ids
  <2>5. /\ AddNodesUnlinked(h, db, ids) \in Later(h)
        /\ ids \subseteq DOMAIN AddNodesUnlinked(h, db, ids).nodes
    BY <1>1, <2>3, AddNodesLater
  <2> QED BY <1>10, <2>1, <2>4, <2>5 DEF ids
<1>11. q.op \in Operation
  BY DEF ProperRequest, Sent
<1> QED BY <1>5, <1>6, <1>7, <1>8, <1>9, <1>10, <1>11 DEF Operation

\* The answer to a save: the object gets its id, and loses the entry of the drafts.
LEMMA AnsweredSaveProper ==
  ASSUME scenario \in Scenarios, NEW h, ProperCache(h),
         NEW q, ProperRequest(h.node, q), q.reply.ok, q.op \in {"blank", "support"}
  PROVE  /\ ProperCache(Answered(h, q))
         /\ Used(Answered(h, q).node) = Used(h.node)
         /\ Answered(h, q).node[q.obj].id \in Id
         /\ \A p \in Used(h.node) :
                \/ Answered(h, q).node[p].id = h.node[p].id
                \/ h.node[p].id = Draft
<1> DEFINE o == q.obj
           data == Data(q.reply.db, q.reply.root)
           n == Renewed(h.node[o], data)
           g == [h.node EXCEPT ![o] = n]
           m == Put(h.nodes, n.id, o)
           k == [node |-> g, nodes |-> Delete(m, Draft)]
<1>1. o \in Used(h.node) /\ data \in Body
  <2>1. ProperDb(q.reply.db) /\ q.reply.root \in DOMAIN q.reply.db
    BY DEF ProperRequest
  <2> QED BY <2>1, DbIs DEF ProperRequest
<1> HIDE DEF o, data
<1>2. /\ Proper(h.node) /\ h.nodes \in ObjectMap
      /\ h = [node |-> h.node, nodes |-> h.nodes]
      /\ \A x \in DOMAIN h.nodes :
            x \in Key /\ h.nodes[x] \in Used(h.node) /\ h.node[h.nodes[x]].id = x
  BY CacheFacts
<1>3. /\ h.node \in Graph /\ o \in Obj /\ h.node[o] \in NodeObject
      /\ h.node[o].of = None <=> h.node[o].id = Draft
      /\ Range(h.node[o].children) \subseteq Used(h.node)
      /\ Range(h.node[o].parents) \subseteq Used(h.node)
  BY <1>1, <1>2, UsedObject
<1>4. /\ n \in NodeObject /\ n.of # None /\ n.id # Draft /\ n.id \in Key
      /\ n.id # h.node[o].id => h.node[o].id = Draft
      /\ n.children = h.node[o].children /\ n.parents = h.node[o].parents
  <2> DEFINE b == h.node[o]
  <2>1. b \in NodeObject
    BY <1>3
  <2>2. /\ n \in NodeObject /\ n.id = IF b.of # None THEN b.id ELSE data.id
        /\ n.of = data.id /\ data.id \in Id /\ data.id # None /\ data.id # Draft
        /\ n.children = b.children /\ n.parents = b.parents
    <3> HIDE DEF b
    <3>1. /\ Renewed(b, data) \in NodeObject
          /\ Renewed(b, data).id = IF b.of # None THEN b.id ELSE data.id
          /\ Renewed(b, data).of = data.id /\ data.id \in Id /\ data.id # None /\ data.id # Draft
          /\ Renewed(b, data).children = b.children
          /\ Renewed(b, data).parents = b.parents
      BY <1>1, <2>1, RenewedIs
    <3> QED BY <3>1 DEF b
  <2> HIDE DEF n
  <2>3. n.id \in Key
    BY <2>2 DEF NodeObject
  <2> QED BY <1>3, <2>2, <2>3
<1>5. Answered(h, q) = k
  <2>1. Answered(h, q) = AnsweredSave(h, q)
    BY DEF Answered
  <2>2. Assimilate(h.node, o, data) = g
    BY <1>3, AssimilateIs
  <2>3. AnsweredSave(h, q) =
            [Insert([h EXCEPT !.node = Assimilate(@, o, data)], o) EXCEPT !.nodes = Delete(@, Draft)]
    BY DEF AnsweredSave, o, data
  <2>4. g[o] = n
    <3> HIDE DEF n
    <3> QED BY <1>3 DEF Graph
  <2> HIDE DEF g, n
  <2>5. [h EXCEPT !.node = Assimilate(@, o, data)] = [node |-> g, nodes |-> h.nodes]
    BY <1>2, <2>2
  <2>6. Insert([node |-> g, nodes |-> h.nodes], o) = [node |-> g, nodes |-> m]
    BY <2>4 DEF Insert
  <2> HIDE DEF m
  <2> QED BY <2>1, <2>3, <2>5, <2>6
<1> HIDE DEF n
<1>6. g[o] = n /\ (\A p \in Obj : p # o => g[p] = h.node[p]) /\ g \in Graph
  BY <1>3, <1>4 DEF Graph
<1> HIDE DEF g
<1>7. Used(g) = Used(h.node)
  BY <1>1, <1>3, <1>4, <1>6, ObjectUsed DEF Used
<1>8. Linked(g)
  <2> SUFFICES ASSUME NEW p \in Used(g)
               PROVE  /\ Children(g, p) \subseteq Used(g)
                      /\ Range(g[p].parents) \subseteq Used(g)
                      /\ g[p].of = None <=> g[p].id = Draft
    BY DEF Linked
  <2>1. CASE p = o
    BY <1>3, <1>4, <1>6, <1>7, <2>1 DEF Children
  <2>2. CASE p # o
    <3>1. p \in Used(h.node) /\ g[p] = h.node[p]
      BY <1>6, <1>7, <2>2 DEF Used
    <3> QED BY <1>2, <1>7, <3>1 DEF Proper, Linked, Children
  <2> QED BY <2>1, <2>2
<1>9. Proper(g)
  BY <1>2, <1>6, <1>7, <1>8 DEF Proper
<1>10. /\ m \in ObjectMap /\ DOMAIN m = DOMAIN h.nodes \cup {n.id}
       /\ \A x \in DOMAIN h.nodes \cup {n.id} : m[x] = IF x = n.id THEN o ELSE h.nodes[x]
  <2> DEFINE key == n.id
             f == h.nodes
             e == o
  <2>1. key \in Key /\ f \in ObjectMap /\ e \in Obj
    BY <1>2, <1>3, <1>4
  <2> HIDE DEF key, f, e
  <2>2. /\ Put(f, key, e) \in ObjectMap /\ DOMAIN Put(f, key, e) = DOMAIN f \cup {key}
        /\ \A x \in DOMAIN f \cup {key} : Put(f, key, e)[x] = IF x = key THEN e ELSE f[x]
    <3>1. /\ Put(f, key, e) \in ObjectMap
          /\ DOMAIN Put(f, key, e) = DOMAIN f \cup {key}
      BY <2>1, PutMap
    <3>2. \A x \in DOMAIN f \cup {key} : Put(f, key, e)[x] = IF x = key THEN e ELSE f[x]
      BY DEF Put
    <3> QED BY <3>1, <3>2
  <2>3. m = Put(f, key, e)
    BY DEF key, f, e
  <2> QED BY <2>2, <2>3 DEF key, f, e
<1> HIDE DEF m
<1>11. /\ Delete(m, Draft) \in ObjectMap
       /\ DOMAIN Delete(m, Draft) = DOMAIN m \ {Draft}
       /\ \A x \in DOMAIN m \ {Draft} : Delete(m, Draft)[x] = m[x]
  BY <1>10, DeleteMap
<1>12. k.node = g /\ k.nodes = Delete(m, Draft) /\ k \in [node : Graph, nodes : ObjectMap]
  BY <1>6, <1>11
<1> HIDE DEF k
<1>13. Keyed(k)
  <2> SUFFICES ASSUME NEW x \in DOMAIN k.nodes
               PROVE  k.nodes[x] \in Used(k.node) /\ k.node[k.nodes[x]].id = x
    BY DEF Keyed
  <2>1. x # Draft /\ x \in DOMAIN h.nodes \cup {n.id}
        /\ k.nodes[x] = IF x = n.id THEN o ELSE h.nodes[x]
    BY <1>10, <1>11, <1>12
  <2>2. CASE x = n.id
    BY <1>1, <1>6, <1>7, <1>12, <2>1, <2>2
  <2>3. CASE x # n.id
    <3> DEFINE p == h.nodes[x]
    <3>1. p \in Used(h.node) /\ h.node[p].id = x /\ k.nodes[x] = p
      BY <1>2, <2>1, <2>3
    <3> HIDE DEF p
    <3>2. p # o
      BY <1>4, <2>1, <2>3, <3>1
    <3>3. g[p] = h.node[p]
      BY <1>6, <3>1, <3>2 DEF Used
    <3> QED BY <1>7, <1>12, <3>1, <3>3
  <2> QED BY <2>2, <2>3
<1>14. ProperCache(k)
  BY <1>9, <1>12, <1>13 DEF ProperCache
<1>15. \A p \in Used(h.node) : g[p].id = h.node[p].id \/ h.node[p].id = Draft
  BY <1>4, <1>6 DEF Used
<1>16. g[o].id \in Id
  BY <1>4, <1>6 DEF Key
<1> QED BY <1>5, <1>7, <1>12, <1>14, <1>15, <1>16 DEF o

-----------------------------------------------------------------------------
(***************************************************************************)
(* Requests.                                                               *)
(***************************************************************************)
LEMMA RequestStays ==
  ASSUME NEW g, NEW g2, Used(g) \subseteq Used(g2), NEW q, ProperRequest(g, q)
  PROVE  ProperRequest(g2, q)
BY DEF ProperRequest

LEMMA NoReply ==
    /\ NotServed \in Reply /\ ~NotServed.ok
    /\ [NotServed EXCEPT !.served = TRUE] \in Reply
    /\ ~[NotServed EXCEPT !.served = TRUE].ok
<1>1. <<>> \in Db
  <2>1. <<>> \in [{} -> Row]
    OBVIOUS
  <2>2. {} \in SUBSET Id
    OBVIOUS
  <2> QED BY <2>1, <2>2 DEF Db
<1> DEFINE e == <<>>
           n == [served |-> FALSE, ok |-> FALSE, root |-> None, db |-> e]
<1>2. NotServed = n
  BY DEF NotServed
<1>3. e \in Db
  BY <1>1
<1> HIDE DEF e
<1>4. n \in Reply /\ ~n.ok
  BY <1>3 DEF Reply
<1>5. [n EXCEPT !.served = TRUE] \in Reply /\ ~[n EXCEPT !.served = TRUE].ok
  BY <1>3 DEF Reply
<1> QED BY <1>2, <1>4, <1>5

LEMMA SentOK ==
  ASSUME NEW g, NEW op \in Ops \cap Operation, NEW o \in Obj \cup {None}, NEW id \in Key,
         NEW fields \in Saving \cup {None},
         op \in {"blank", "support", "publish"} => o \in Used(g),
         op \in {"blank", "support", "edit"} => fields \in Saving
  PROVE  ProperRequest(g, [op |-> op, obj |-> o, id |-> id, fields |-> fields, reply |-> NotServed])
<1> DEFINE q == [op |-> op, obj |-> o, id |-> id, fields |-> fields, reply |-> NotServed]
<1>1. q \in Sent
  BY NoReply DEF Sent
<1>2. q.op = op /\ q.obj = o /\ q.fields = fields /\ q.reply = NotServed
  OBVIOUS
<1> HIDE DEF q
<1>3. ProperRequest(g, q)
  BY <1>1, <1>2, NoReply DEF ProperRequest
<1> QED BY <1>3 DEF q

LEMMA RepliedOK ==
  ASSUME NEW g, NEW q, ProperRequest(g, q), NEW reply \in Reply,
         reply.ok => /\ ProperDb(reply.db)
                     /\ q.op \notin {"discard", "choices"} => reply.root \in DOMAIN reply.db
                     /\ q.op \in {"graph", "choices"} => reply.root = q.id
  PROVE  ProperRequest(g, [q EXCEPT !.reply = reply])
<1> DEFINE p == [q EXCEPT !.reply = reply]
<1>1. q \in Sent
  BY DEF ProperRequest
<1>2. p \in Sent /\ p.op = q.op /\ p.obj = q.obj /\ p.fields = q.fields /\ p.id = q.id /\ p.reply = reply
  BY <1>1 DEF Sent
<1> HIDE DEF p
<1>3. ProperRequest(g, p)
  BY <1>2 DEF ProperRequest
<1> QED BY <1>3 DEF p

LEMMA AnsweredOK ==
  ASSUME NEW g, NEW q, ProperRequest(g, q), NEW db, ProperDb(db), NEW root \in Key \cup {None},
         q.op \notin {"discard", "choices"} => root \in DOMAIN db,
         q.op \in {"graph", "choices"} => root = q.id
  PROVE  ProperRequest(g, [q EXCEPT !.reply =
            [served |-> TRUE, ok |-> TRUE, root |-> root, db |-> db]])
<1> DEFINE p == [served |-> TRUE, ok |-> TRUE, root |-> root, db |-> db]
<1>1. db \in Db
  BY DEF ProperDb
<1>2. p \in Reply /\ p.db = db /\ p.root = root
  BY <1>1 DEF Reply
<1> HIDE DEF p
<1>3. ProperRequest(g, [q EXCEPT !.reply = p])
  BY <1>2, RepliedOK
<1> QED BY <1>3 DEF p

LEMMA RefusedOK ==
  ASSUME NEW g, NEW q, ProperRequest(g, q)
  PROVE  ProperRequest(g, [q EXCEPT !.reply = [NotServed EXCEPT !.served = TRUE]])
<1> DEFINE p == [NotServed EXCEPT !.served = TRUE]
<1>1. p \in Reply /\ ~p.ok
  BY NoReply
<1> HIDE DEF p
<1>2. ProperRequest(g, [q EXCEPT !.reply = p])
  BY <1>1, RepliedOK
<1> QED BY <1>2 DEF p

\* A step that changes the cache, and maybe one request.
LEMMA HeapStep ==
  ASSUME NEW h, NEW db, NEW last, NEW sent, CacheOK(h, db, last, sent),
         NEW h2, ProperCache(h2), NothingNew => AllCached(h2), Used(h.node) \subseteq Used(h2.node)
  PROVE  /\ CacheOK(h2, db, last, sent)
         /\ \A r \in Request : \A q :
                q = None \/ ProperRequest(h2.node, q) => CacheOK(h2, db, last, [sent EXCEPT ![r] = q])
<1>1. \A r \in Request : sent[r] # None => ProperRequest(h2.node, sent[r])
  BY RequestStays DEF CacheOK
<1>2. CacheOK(h2, db, last, sent)
  BY <1>1 DEF CacheOK
<1>3. ASSUME NEW r \in Request, NEW q, q = None \/ ProperRequest(h2.node, q)
      PROVE  CacheOK(h2, db, last, [sent EXCEPT ![r] = q])
  <2> DEFINE s == [sent EXCEPT ![r] = q]
  <2>1. DOMAIN s = Request /\ \A x \in Request : s[x] = IF x = r THEN q ELSE sent[x]
    BY DEF CacheOK
  <2> HIDE DEF s
  <2>2. \A x \in Request : s[x] # None => ProperRequest(h2.node, s[x])
    BY <1>1, <1>3, <2>1
  <2>3. CacheOK(h2, db, last, s)
    BY <2>1, <2>2 DEF CacheOK
  <2> QED BY <2>3 DEF s
<1> QED BY <1>2, <1>3

LEMMA LaterStep ==
  ASSUME NEW h, NEW db, NEW last, NEW sent, CacheOK(h, db, last, sent), NEW h2 \in Later(h)
  PROVE  /\ CacheOK(h2, db, last, sent)
         /\ \A r \in Request : \A q :
                q = None \/ ProperRequest(h2.node, q) => CacheOK(h2, db, last, [sent EXCEPT ![r] = q])
<1>1. ProperCache(h2) /\ Grows(h, h2) /\ (AllCached(h) => AllCached(h2))
  BY LaterIs
<1>2. Used(h.node) \subseteq Used(h2.node)
  BY <1>1 DEF Grows
<1>3. NothingNew => AllCached(h2)
  BY <1>1 DEF CacheOK
<1> QED BY <1>1, <1>2, <1>3, HeapStep

\* A step that leaves the cache alone.
LEMMA RequestStep ==
  ASSUME NEW h, NEW db, NEW last, NEW sent, CacheOK(h, db, last, sent),
         NEW db2, ProperDb(db2), NEW last2 \in Nat, \A i \in DOMAIN db2 : i <= last2,
         NEW r \in Request, NEW q, q = None \/ ProperRequest(h.node, q)
  PROVE  CacheOK(h, db2, last2, [sent EXCEPT ![r] = q])
<1>1. CacheOK(h, db2, last2, sent)
  BY DEF CacheOK
<1>2. ProperCache(h) /\ (NothingNew => AllCached(h))
  BY DEF CacheOK
<1> QED BY <1>1, <1>2, HeapStep

-----------------------------------------------------------------------------
(***************************************************************************)
(* The server.                                                             *)
(***************************************************************************)
LEMMA RowAdded ==
  ASSUME NEW db, ProperDb(db), NEW id \in Id, id \notin DOMAIN db, NEW row \in Row,
         row.children \subseteq DOMAIN db,
         row.edits # None => row.edits \in DOMAIN db /\ db[row.edits].public
  PROVE  ProperDb(Put(db, id, row)) /\ DOMAIN Put(db, id, row) = DOMAIN db \cup {id}
<1> DEFINE new == Put(db, id, row)
<1>1. DOMAIN db \subseteq Id /\ \A i \in DOMAIN db : db[i] \in Row
  BY DbIs
<1>2. /\ new = [x \in DOMAIN db \cup {id} |-> new[x]] /\ DOMAIN new = DOMAIN db \cup {id}
      /\ new[id] = row /\ \A i \in DOMAIN db : new[i] = db[i]
  BY DEF Put
<1> HIDE DEF new
<1>3. new \in [DOMAIN db \cup {id} -> Row]
  BY <1>1, <1>2
<1>4. new \in Db
  BY <1>1, <1>3 DEF Db
<1>5. ASSUME NEW i \in DOMAIN new
      PROVE  /\ new[i].children \subseteq DOMAIN new
             /\ new[i].edits # None => new[i].edits \in DOMAIN new /\ new[new[i].edits].public
  BY <1>2 DEF ProperDb
<1> QED BY <1>2, <1>4, <1>5 DEF ProperDb, new

LEMMA RowEdited ==
  ASSUME NEW db, ProperDb(db), NEW id \in DOMAIN db, NEW text \in Word(scenario),
         NEW links \in SUBSET DOMAIN db
  PROVE  /\ ProperDb([db EXCEPT ![id].text = text, ![id].children = links])
         /\ DOMAIN [db EXCEPT ![id].text = text, ![id].children = links] = DOMAIN db
<1> DEFINE new == [db EXCEPT ![id].text = text, ![id].children = links]
           row == [db[id] EXCEPT !.text = text, !.children = links]
<1>1. DOMAIN db \subseteq Id /\ db \in [DOMAIN db -> Row] /\ \A i \in DOMAIN db : db[i] \in Row
  BY DbIs
<1>2. /\ row \in Row /\ row.public = db[id].public /\ row.edits = db[id].edits
      /\ row.children = links
  BY <1>1 DEF Row
<1>3. new = [db EXCEPT ![id] = row]
  OBVIOUS
<1> HIDE DEF row
<1>4. /\ new \in [DOMAIN db -> Row] /\ DOMAIN new = DOMAIN db
      /\ \A i \in DOMAIN db : new[i] = IF i = id THEN row ELSE db[i]
  BY <1>1, <1>2, <1>3
<1> HIDE DEF new
<1>5. new \in Db
  BY <1>1, <1>4 DEF Db
<1>6. ASSUME NEW i \in DOMAIN new
      PROVE  /\ new[i].children \subseteq DOMAIN new
             /\ new[i].edits # None => new[i].edits \in DOMAIN new /\ new[new[i].edits].public
  BY <1>2, <1>4 DEF ProperDb
<1> QED BY <1>4, <1>5, <1>6 DEF ProperDb, new

LEMMA RowRemoved ==
  ASSUME NEW db, ProperDb(db), NEW id \in DOMAIN db, ~db[id].public,
         NEW new, new = [i \in DOMAIN db \ {id} |-> [db[i] EXCEPT !.children = @ \ {id}]]
  PROVE  ProperDb(new)
<1>1. DOMAIN db \subseteq Id /\ \A i \in DOMAIN db : db[i] \in Row
  BY DbIs
<1>2. ASSUME NEW i \in DOMAIN db \ {id}
      PROVE  /\ new[i] \in Row /\ new[i].children = db[i].children \ {id}
             /\ new[i].edits = db[i].edits /\ new[i].public = db[i].public
  <2>1. db[i] \in Row /\ new[i] = [db[i] EXCEPT !.children = @ \ {id}]
    BY <1>1
  <2> QED BY <2>1 DEF Row
<1>3. new = [i \in DOMAIN db \ {id} |-> new[i]] /\ DOMAIN new = DOMAIN db \ {id}
  OBVIOUS
<1>4. new \in [DOMAIN db \ {id} -> Row]
  BY <1>2, <1>3
<1>5. new \in Db
  BY <1>1, <1>4 DEF Db
<1>6. ASSUME NEW i \in DOMAIN new
      PROVE  /\ new[i].children \subseteq DOMAIN new
             /\ new[i].edits # None => new[i].edits \in DOMAIN new /\ new[new[i].edits].public
  <2>1. db[i].children \subseteq DOMAIN db
        /\ (db[i].edits # None => db[i].edits \in DOMAIN db /\ db[db[i].edits].public)
    BY <1>3 DEF ProperDb
  <2>2. new[i].children \subseteq DOMAIN new
    BY <1>2, <1>3, <2>1
  <2>3. db[i].edits # None => db[i].edits \in DOMAIN db \ {id} /\ db[db[i].edits].public
    BY <2>1
  <2> QED BY <1>2, <1>3, <2>2, <2>3
<1> QED BY <1>5, <1>6 DEF ProperDb

\* What ServePublish makes of the nodes: drafts, and which of them are merged into the
\* nodes that they edit.
Published(db, drafts, merged, into, content, new) ==
    /\ merged = {i \in drafts : db[i].edits \in DOMAIN db}
    /\ into = [i \in DOMAIN db |-> IF i \in merged THEN db[i].edits ELSE i]
    /\ \A i \in DOMAIN db :
        \/ content[i] = db[i] /\ \A d \in merged : db[d].edits # i
        \/ \E d \in merged : db[d].edits = i /\ content[i] = db[d]
    /\ new = [i \in DOMAIN db \ merged |->
                [content[i] EXCEPT !.public = @ \/ \E d \in drafts : into[d] = i,
                                   !.children = {into[c] : c \in @},
                                   !.edits = IF i \in drafts THEN None ELSE db[i].edits]]

LEMMA RowsPublished ==
  ASSUME scenario \in Scenarios,
         NEW db, ProperDb(db), NEW drafts \in SUBSET DOMAIN db,
         \A i \in drafts : ~db[i].public,
         NEW merged, NEW into, NEW content, NEW new,
         Published(db, drafts, merged, into, content, new)
  PROVE  ProperDb(new) /\ \A i \in DOMAIN db : into[i] \in DOMAIN new
<1>1. DOMAIN db \subseteq Id /\ \A i \in DOMAIN db : db[i] \in Row
  BY DbIs
<1>2. \A i \in DOMAIN db : /\ db[i].children \subseteq DOMAIN db
                           /\ db[i].edits # None => db[i].edits \in DOMAIN db /\ db[db[i].edits].public
  BY DEF ProperDb
<1>3. None \notin Id
  BY ScenarioFacts
<1>4. merged \subseteq drafts /\ \A d \in merged : db[d].edits \in DOMAIN db
  BY DEF Published
<1>5. \A i \in DOMAIN db : db[i].edits \in DOMAIN db => db[i].edits \notin merged
  BY <1>1, <1>2, <1>3, <1>4
<1>6. \A i \in DOMAIN db : into[i] = IF i \in merged THEN db[i].edits ELSE i
  BY DEF Published
<1>7. \A i \in DOMAIN db : into[i] \in DOMAIN db \ merged
  BY <1>4, <1>5, <1>6
<1>8. DOMAIN new = DOMAIN db \ merged /\ new = [i \in DOMAIN db \ merged |-> new[i]]
  BY DEF Published
<1>9. \A i \in DOMAIN db : \E d \in DOMAIN db : content[i] = db[d]
  <2>1. \A i \in DOMAIN db : content[i] = db[i] \/ \E d \in merged : content[i] = db[d]
    BY DEF Published
  <2> QED BY <1>4, <2>1
<1>10. ASSUME NEW i \in DOMAIN db \ merged
      PROVE  /\ new[i] \in Row
             /\ new[i].children \subseteq DOMAIN db \ merged
             /\ new[i].edits = IF i \in drafts THEN None ELSE db[i].edits
             /\ new[i].public <=> (content[i].public \/ \E d \in drafts : into[d] = i)
  <2> DEFINE p == content[i].public \/ \E d \in drafts : into[d] = i
             c == {into[x] : x \in content[i].children}
             e == IF i \in drafts THEN None ELSE db[i].edits
  <2>1. new[i] = [content[i] EXCEPT !.public = p, !.children = c, !.edits = e]
    BY DEF Published
  <2>2. content[i] \in Row /\ content[i].children \subseteq DOMAIN db
    BY <1>1, <1>2, <1>9
  <2>3. c \subseteq DOMAIN db \ merged /\ c \in SUBSET Id
    BY <1>1, <1>7, <2>2
  <2>4. e \in Id \cup {None}
    <3>1. db[i] \in Row
      BY <1>1
    <3> QED BY <3>1 DEF Row
  <2>5. p \in BOOLEAN
    OBVIOUS
  <2>6. e = IF i \in drafts THEN None ELSE db[i].edits
    OBVIOUS
  <2>7. p <=> (content[i].public \/ \E d \in drafts : into[d] = i)
    OBVIOUS
  <2> HIDE DEF p, c, e
  <2>8. /\ new[i] \in Row /\ new[i].children = c /\ new[i].edits = e /\ new[i].public = p
    BY <2>1, <2>2, <2>3, <2>4, <2>5 DEF Row
  <2> QED BY <2>3, <2>6, <2>7, <2>8
<1>11. new \in [DOMAIN db \ merged -> Row]
  <2>1. \A i \in DOMAIN db \ merged : new[i] \in Row
    BY <1>10
  <2> QED BY <1>8, <2>1
<1>12. new \in Db
  BY <1>1, <1>11 DEF Db
<1>13. ASSUME NEW i \in DOMAIN new
       PROVE  /\ new[i].children \subseteq DOMAIN new
              /\ new[i].edits # None => new[i].edits \in DOMAIN new /\ new[new[i].edits].public
  <2>1. i \in DOMAIN db \ merged
    BY <1>8
  <2>2. new[i].children \subseteq DOMAIN new
    BY <1>8, <1>10, <2>1
  <2>3. ASSUME new[i].edits # None
        PROVE  new[i].edits \in DOMAIN new /\ new[new[i].edits].public
    <3> DEFINE e == db[i].edits
    <3>1. new[i].edits = e /\ e # None
      BY <1>10, <2>1, <2>3
    <3>2. e \in DOMAIN db /\ db[e].public /\ e \notin merged
      BY <1>2, <1>5, <2>1, <3>1
    <3> HIDE DEF e
    <3>3. new[e].public <=> (content[e].public \/ \E d \in drafts : into[d] = e)
      BY <1>10, <3>2
    <3>4. content[e] = db[e] \/ \E d \in merged : db[d].edits = e
      BY <3>2 DEF Published
    <3>5. \A d \in merged : d \in drafts /\ d \in DOMAIN db /\ into[d] = db[d].edits
      BY <1>4, <1>6
    <3> QED BY <1>8, <3>1, <3>2, <3>3, <3>4, <3>5
  <2> QED BY <2>2, <2>3
<1> QED BY <1>7, <1>8, <1>12, <1>13 DEF ProperDb

-----------------------------------------------------------------------------
(***************************************************************************)
(* Each step of the cache, its pages and the server.                       *)
(***************************************************************************)
Kept == CacheOK(heap', server', lastId', request')

LEMMA Facts ==
  ASSUME CacheInv
  PROVE  /\ scenario \in Scenarios /\ CacheOK(heap, server, lastId, request)
         /\ ProperCache(heap) /\ Proper(heap.node) /\ heap.nodes \in ObjectMap
         /\ heap = [node |-> heap.node, nodes |-> heap.nodes]
         /\ Range(heap.nodes) \subseteq Used(heap.node)
         /\ ProperDb(server) /\ lastId \in Nat /\ \A i \in DOMAIN server : i <= lastId
         /\ DOMAIN request = Request
         /\ \A r \in Request : request[r] # None => ProperRequest(heap.node, request[r])
<1>1. /\ scenario \in Scenarios /\ CacheOK(heap, server, lastId, request)
      /\ ProperCache(heap)
      /\ ProperDb(server) /\ lastId \in Nat /\ \A i \in DOMAIN server : i <= lastId
      /\ DOMAIN request = Request
      /\ \A r \in Request : request[r] # None => ProperRequest(heap.node, request[r])
  BY DEF CacheInv, CacheOK
<1>2. /\ Proper(heap.node) /\ heap.nodes \in ObjectMap
      /\ heap = [node |-> heap.node, nodes |-> heap.nodes]
      /\ \A k \in DOMAIN heap.nodes : heap.nodes[k] \in Used(heap.node)
  BY <1>1, CacheFacts
<1>3. Range(heap.nodes) \subseteq Used(heap.node)
  BY <1>2 DEF Range
<1> QED BY <1>1, <1>2, <1>3

LEMMA FieldsOK ==
  ASSUME CacheInv, NEW o \in Used(heap.node)
  PROVE  Fields(o) \in Saving
<1> DEFINE g == heap.node
<1>1. scenario \in Scenarios /\ Proper(g)
  BY Facts
<1>2. /\ g[o] \in NodeObject /\ g[o].children \in Seq(Obj)
      /\ Range(g[o].children) \subseteq Used(g)
  BY <1>1, UsedObject
<1>3. \A c \in Children(g, o) : g[c].id \in Key
  BY <1>1, <1>2, UsedObject DEF Children
<1>4. g[o].children # <<>> => g[o].children[1] \in Children(g, o)
  <2> DEFINE s == g[o].children
  <2>1. s \in Seq(Obj)
    BY <1>2
  <2> HIDE DEF s
  <2>2. s # <<>> => 1 \in DOMAIN s
    BY <2>1
  <2>3. s # <<>> => s[1] \in Range(s)
    BY <2>2 DEF Range
  <2> QED BY <2>3 DEF s, Children
<1>5. Links(g, o) \in SUBSET Key
  <2> HIDE DEF g
  <2> QED BY <1>3, <1>4 DEF Links
<1>6. g[o].type \in NodeType /\ g[o].text \in Word(scenario)
  BY <1>2 DEF NodeObject
<1> DEFINE l == Links(g, o)
<1>7. Fields(o) = [type |-> g[o].type, text |-> g[o].text, links |-> l]
  BY DEF Fields
<1>8. l \in SUBSET Key
  BY <1>5
<1> HIDE DEF l
<1> QED BY <1>6, <1>7, <1>8 DEF Saving

\* A request is sent and the cache stays.
LEMMA SendStep ==
  ASSUME CacheInv, NEW r \in Request, NEW op \in Operation, NEW o \in Obj \cup {None},
         NEW id \in Key, NEW fields \in Saving \cup {None},
         op \in {"blank", "support", "publish"} => o \in Used(heap.node),
         op \in {"blank", "support", "edit"} => fields \in Saving,
         Send(r, op, o, id, fields), UNCHANGED <<heap, server, lastId>>
  PROVE  Kept
<1> DEFINE q == [op |-> op, obj |-> o, id |-> id, fields |-> fields, reply |-> NotServed]
<1>1. op \in Ops \cap Operation /\ request' = [request EXCEPT ![r] = q]
  BY DEF Send
<1>2. ProperRequest(heap.node, q)
  BY <1>1, SentOK
<1> HIDE DEF q
<1>3. CacheOK(heap, server, lastId, [request EXCEPT ![r] = q])
  BY <1>2, Facts, RequestStep
<1> QED BY <1>1, <1>3 DEF Kept

LEMMA OpenBlankNodeKept ==
  ASSUME Unlimited, CacheInv, NEW type \in {"assertion", "source"}, OpenBlankNode(type)
  PROVE  Kept /\ heap' \in Later(heap) /\ Draft \in DOMAIN heap'.nodes
<1> DEFINE o == FreshObject(heap)
           n == NewNode(Draft, type, FALSE)
           k == [node |-> [heap.node EXCEPT ![o] = n], nodes |-> Put(heap.nodes, n.id, o)]
<1>1. /\ scenario \in Scenarios /\ CacheOK(heap, server, lastId, request)
      /\ ProperCache(heap) /\ Proper(heap.node)
      /\ heap = [node |-> heap.node, nodes |-> heap.nodes]
  BY Facts
<1>2. o \in Obj /\ o \notin Used(heap.node)
  BY <1>1, FreshIs
<1>3. Draft \in Key /\ type \in NodeType /\ FALSE \in BOOLEAN
  BY DEF Key, NodeType, LeafType
<1>4. Alone(n) /\ n.id = Draft
  <2>1. /\ n \in NodeObject /\ n.id = Draft /\ n.of = None
        /\ Range(n.children) = {} /\ Range(n.parents) = {}
    BY <1>1, <1>3, NewNodeIs
  <2> HIDE DEF n
  <2> QED BY <2>1 DEF Alone
<1>5. n.id \notin DOMAIN heap.nodes
  BY <1>4 DEF OpenBlankNode, Cached
<1> HIDE DEF n
<1>6. heap' = k
  <2>1. heap' = Insert([heap EXCEPT !.node[o] = n], o)
    BY DEF OpenBlankNode, n
  <2>2. heap.node \in Graph
    BY <1>1 DEF Proper
  <2> HIDE DEF o
  <2>3. [heap.node EXCEPT ![o] = n][o] = n
    BY <1>2, <2>2 DEF Graph
  <2> DEFINE g == [heap.node EXCEPT ![o] = n]
  <2>4. [heap EXCEPT !.node[o] = n] = [node |-> g, nodes |-> heap.nodes]
    BY <1>1
  <2>5. g[o] = n
    BY <2>3
  <2> HIDE DEF g
  <2>6. Insert([node |-> g, nodes |-> heap.nodes], o) = [node |-> g, nodes |-> Put(heap.nodes, n.id, o)]
    BY <2>5 DEF Insert
  <2> QED BY <2>1, <2>4, <2>6 DEF g
<1> HIDE DEF o
<1>7. k \in Later(heap) /\ Draft \in DOMAIN k.nodes
  BY <1>1, <1>2, <1>4, <1>5, InsertNew
<1> HIDE DEF k
<1>8. CacheOK(k, server, lastId, request)
  BY <1>1, <1>7, LaterStep
<1>9. UNCHANGED <<server, lastId, request>>
  BY DEF OpenBlankNode
<1> QED BY <1>6, <1>7, <1>8, <1>9 DEF Kept

LEMMA WriteKept ==
  ASSUME CacheInv, NEW o \in Used(heap.node), NEW text \in Text, Write(o, text)
  PROVE  Kept /\ heap' \in Later(heap)
<1> DEFINE g == [heap.node EXCEPT ![o].text = text]
<1>1. /\ scenario \in Scenarios /\ CacheOK(heap, server, lastId, request)
      /\ ProperCache(heap) /\ Proper(heap.node) /\ o \in Used(heap.node)
  BY Facts
<1>2. text \in Word(scenario)
  BY <1>1, ScenarioFacts
<1>3. g \in Relinked(heap.node)
  BY <1>1, <1>2, SetText
<1>4. heap' = [heap EXCEPT !.node = g] /\ UNCHANGED <<server, lastId, request>>
  BY DEF Write
<1> HIDE DEF g
<1>5. [heap EXCEPT !.node = g] \in Later(heap)
  BY <1>1, <1>3, RelinkLater
<1>6. CacheOK([heap EXCEPT !.node = g], server, lastId, request)
  BY <1>1, <1>5, LaterStep
<1> QED BY <1>4, <1>5, <1>6 DEF Kept

LEMMA SaveBlankSlateNodeKept ==
  ASSUME CacheInv, NEW r \in Request, SaveBlankSlateNode(r)
  PROVE  Kept
<1> DEFINE o == heap.nodes[Draft]
<1>1. o \in Used(heap.node)
  BY Facts DEF SaveBlankSlateNode, Cached, Range
<1>2. /\ Send(r, "blank", o, Draft, Fields(o)) /\ UNCHANGED <<heap, server, lastId>>
  BY DEF SaveBlankSlateNode
<1> HIDE DEF o
<1>3. Fields(o) \in Saving /\ o \in Obj /\ Draft \in Key /\ "blank" \in Operation
  BY <1>1, FieldsOK DEF Used, Key, Operation
<1> QED BY <1>1, <1>2, <1>3, SendStep

LEMMA SaveNodeEditKept ==
  ASSUME CacheInv, NEW r \in Request, NEW o \in Used(heap.node), SaveNodeEdit(r, o)
  PROVE  Kept
<1> DEFINE id == heap.node[o].id
<1>1. Fields(o) \in Saving /\ o \in Obj /\ id \in Key /\ "edit" \in Operation
  BY Facts, UsedObject, FieldsOK DEF Operation
<1>2. /\ Send(r, "edit", o, id, Fields(o)) /\ UNCHANGED <<heap, server, lastId>>
  BY DEF SaveNodeEdit
<1> HIDE DEF id
<1> QED BY <1>1, <1>2, SendStep

LEMMA MakeDraftKept ==
  ASSUME CacheInv, NEW r \in Request, NEW o \in Used(heap.node), MakeDraft(r, o)
  PROVE  Kept
<1> DEFINE id == heap.node[o].id
<1>1. o \in Obj /\ id \in Key /\ "makeDraft" \in Operation
  BY Facts, UsedObject DEF Operation
<1>2. /\ Send(r, "makeDraft", o, id, None) /\ UNCHANGED <<heap, server, lastId>>
  BY DEF MakeDraft
<1> HIDE DEF id
<1> QED BY <1>1, <1>2, SendStep

LEMMA DiscardDraftKept ==
  ASSUME CacheInv, NEW r \in Request, NEW o \in Used(heap.node), DiscardDraft(r, o)
  PROVE  Kept
<1> DEFINE id == heap.node[o].id
<1>1. o \in Obj /\ id \in Key /\ "discard" \in Operation
  BY Facts, UsedObject DEF Operation
<1>2. /\ Send(r, "discard", o, id, None) /\ UNCHANGED <<heap, server, lastId>>
  BY DEF DiscardDraft
<1> HIDE DEF id
<1> QED BY <1>1, <1>2, SendStep

LEMMA FetchKept ==
  ASSUME CacheInv, NEW r \in Request, NEW id \in Id,
         FetchGraphForId(r, id) \/ FetchDetail(r, id) \/ FetchLinkChoices(r, id)
  PROVE  Kept
<1>1. id \in Key /\ {"graph", "detail", "choices"} \subseteq Operation
  BY DEF Key, Operation
<1>2. CASE FetchGraphForId(r, id)
  <2>1. Send(r, "graph", None, id, None) /\ UNCHANGED <<heap, server, lastId>>
    BY <1>2 DEF FetchGraphForId
  <2> QED BY <1>1, <2>1, SendStep
<1>3. CASE FetchDetail(r, id)
  <2>1. Send(r, "detail", None, id, None) /\ UNCHANGED <<heap, server, lastId>>
    BY <1>3 DEF FetchDetail
  <2> QED BY <1>1, <2>1, SendStep
<1>4. CASE FetchLinkChoices(r, id)
  <2>1. Send(r, "choices", None, id, None) /\ UNCHANGED <<heap, server, lastId>>
    BY <1>4 DEF FetchLinkChoices
  <2> QED BY <1>1, <2>1, SendStep
<1> QED BY <1>2, <1>3, <1>4

LEMMA CreateNodeWithSupportKept ==
  ASSUME Unlimited, CacheInv, NEW r \in Request, NEW child \in Used(heap.node),
         CreateNodeWithSupport(r, child)
  PROVE  Kept
<1> DEFINE o == FreshObject(heap)
           type == IF heap.node[child].type \in LeafType THEN "interpretation" ELSE "assertion"
           n == NewNode(Draft, type, FALSE)
           made == [heap.node EXCEPT ![o] = n]
           g == AddChild(made, o, child)
           k == [heap EXCEPT !.node = g]
           fields == [type |-> type, text |-> FirstText, links |-> {heap.node[child].id}]
           q == [op |-> "support", obj |-> o, id |-> Draft, fields |-> fields, reply |-> NotServed]
<1>1. /\ scenario \in Scenarios /\ CacheOK(heap, server, lastId, request)
      /\ ProperCache(heap) /\ Proper(heap.node) /\ heap.nodes \in ObjectMap
      /\ heap = [node |-> heap.node, nodes |-> heap.nodes]
  BY Facts
<1>2. o \in Obj /\ o \notin Used(heap.node)
  BY <1>1, FreshIs
<1>3. Draft \in Key /\ type \in NodeType /\ FALSE \in BOOLEAN
  BY DEF Key, NodeType, LeafType
<1>4. /\ heap' = k /\ "support" \in Ops /\ request' = [request EXCEPT ![r] = q]
      /\ UNCHANGED <<server, lastId>>
  BY DEF CreateNodeWithSupport, Send
<1>5. fields \in Saving
  <2>1. heap.node[child].id \in Key /\ FirstText \in Word(scenario)
    BY <1>1, UsedObject, ScenarioFacts
  <2> HIDE DEF type
  <2> QED BY <1>3, <2>1 DEF Saving
<1> HIDE DEF fields, type
<1>6. Alone(n)
  <2>1. /\ n \in NodeObject /\ n.id = Draft /\ n.of = None
        /\ Range(n.children) = {} /\ Range(n.parents) = {}
    BY <1>1, <1>3, NewNodeIs
  <2> HIDE DEF n
  <2> QED BY <2>1 DEF Alone
<1> HIDE DEF o, n
<1>7. /\ Proper(made) /\ Used(made) = Used(heap.node) \cup {o}
      /\ \A p \in Obj : p # o => made[p] = heap.node[p]
  BY <1>1, <1>2, <1>6, NewObject
<1> HIDE DEF made
<1>8. g \in Relinked(made)
  BY <1>1, <1>7, AddChildRelinks
<1> HIDE DEF g
<1>9. /\ Proper(g) /\ Used(g) = Used(heap.node) \cup {o}
      /\ \A p \in Used(made) : g[p].id = made[p].id
  BY <1>7, <1>8, RelinkedProper DEF Relinked, Used
<1>10. k.node = g /\ k.nodes = heap.nodes /\ k \in [node : Graph, nodes : ObjectMap]
  <2>1. k = [node |-> g, nodes |-> heap.nodes] /\ g \in Graph
    BY <1>1, <1>9 DEF Proper
  <2> HIDE DEF k
  <2> QED BY <1>1, <2>1
<1> HIDE DEF k
<1>11. Keyed(k)
  <2> SUFFICES ASSUME NEW x \in DOMAIN k.nodes
               PROVE  k.nodes[x] \in Used(k.node) /\ k.node[k.nodes[x]].id = x
    BY DEF Keyed
  <2> DEFINE p == heap.nodes[x]
  <2>1. p \in Used(heap.node) /\ heap.node[p].id = x
    BY <1>1, <1>10, CacheFacts
  <2>2. p \in Obj /\ p # o
    BY <1>2, <2>1 DEF Used
  <2> HIDE DEF p
  <2>3. g[p].id = x /\ p \in Used(g)
    BY <1>7, <1>9, <2>1, <2>2
  <2> QED BY <1>10, <2>3 DEF p
<1>12. ProperCache(k) /\ ~NothingNew /\ Used(heap.node) \subseteq Used(k.node)
  BY <1>4, <1>9, <1>10, <1>11 DEF ProperCache, NothingNew
<1>13. ProperRequest(k.node, q)
  <2>1. "support" \in Ops \cap Operation
    BY <1>4 DEF Operation
  <2>2. o \in Used(k.node) /\ o \in Obj
    BY <1>2, <1>9, <1>10
  <2> QED BY <1>3, <1>5, <2>1, <2>2, SentOK
<1> HIDE DEF q
<1>14. CacheOK(k, server, lastId, [request EXCEPT ![r] = q])
  BY <1>1, <1>12, <1>13, HeapStep
<1> QED BY <1>4, <1>14 DEF Kept

LEMMA PublishNodeKept ==
  ASSUME CacheInv, NEW r \in Request, NEW o \in Used(heap.node), PublishNode(r, o)
  PROVE  Kept /\ heap' \in Later(heap)
<1> DEFINE parents == Range(heap.node[o].parents)
           g == [p \in Obj |-> IF p \in parents THEN [heap.node[p] EXCEPT !.hasFullGraph = FALSE]
                               ELSE heap.node[p]]
           id == heap.node[o].id
           q == [op |-> "publish", obj |-> o, id |-> id, fields |-> None, reply |-> NotServed]
<1>1. /\ scenario \in Scenarios /\ CacheOK(heap, server, lastId, request)
      /\ ProperCache(heap) /\ Proper(heap.node) /\ heap.node \in Graph
  BY Facts DEF Proper
<1>2. parents \subseteq Used(heap.node) /\ id \in Key /\ o \in Obj
  BY <1>1, UsedObject
<1>3. /\ heap' = [heap EXCEPT !.node = g] /\ "publish" \in Ops
      /\ request' = [request EXCEPT ![r] = q] /\ UNCHANGED <<server, lastId>>
  BY DEF PublishNode, Send
<1> HIDE DEF parents, id
<1>4. g \in Relinked(heap.node)
  <2>1. ASSUME NEW p \in Obj
        PROVE  /\ g[p] \in {Unused} \cup NodeObject
               /\ g[p] = Unused <=> heap.node[p] = Unused
               /\ p \in Used(heap.node) =>
                    /\ g[p].id = heap.node[p].id /\ (g[p].of = None <=> heap.node[p].of = None)
                    /\ Children(g, p) \subseteq Used(heap.node)
                    /\ Range(g[p].parents) \subseteq Used(heap.node)
    <3>1. CASE p \in parents
      <4> DEFINE n == [heap.node[p] EXCEPT !.hasFullGraph = FALSE]
      <4>1. p \in Used(heap.node) /\ g[p] = n
        BY <1>2, <3>1
      <4>2. /\ heap.node[p] \in NodeObject
            /\ Range(heap.node[p].children) \subseteq Used(heap.node)
            /\ Range(heap.node[p].parents) \subseteq Used(heap.node)
        BY <1>1, <4>1, UsedObject
      <4>3. /\ n \in NodeObject /\ n.id = heap.node[p].id /\ n.of = heap.node[p].of
            /\ n.children = heap.node[p].children /\ n.parents = heap.node[p].parents
        BY <4>2 DEF NodeObject
      <4> HIDE DEF n, g
      <4>4. n # Unused /\ heap.node[p] # Unused
        BY <1>1, <4>1, <4>3, ObjectUsed
      <4> QED BY <4>1, <4>2, <4>3, <4>4 DEF Children
    <3>2. CASE p \notin parents
      <4>1. g[p] = heap.node[p]
        BY <3>2
      <4> HIDE DEF g
      <4> QED BY <1>1, <4>1 DEF Graph, Proper, Linked, Children
    <3> QED BY <3>1, <3>2
  <2>2. g \in Graph
    <3>1. g = [p \in Obj |-> g[p]]
      OBVIOUS
    <3> HIDE DEF g
    <3> QED BY <2>1, <3>1 DEF Graph
  <2> HIDE DEF g
  <2> QED BY <2>1, <2>2 DEF Relinked
<1> HIDE DEF g
<1> DEFINE k == [heap EXCEPT !.node = g]
<1>5. k \in Later(heap)
  BY <1>1, <1>4, RelinkLater
<1>6. ProperRequest(k.node, q)
  <2>1. Used(heap.node) \subseteq Used(k.node)
    BY <1>5, LaterIs DEF Grows
  <2>2. "publish" \in Ops \cap Operation
    BY <1>3 DEF Operation
  <2> HIDE DEF k
  <2> QED BY <1>2, <2>1, <2>2, SentOK
<1> HIDE DEF k, q
<1>7. CacheOK(k, server, lastId, [request EXCEPT ![r] = q])
  BY <1>1, <1>5, <1>6, LaterStep
<1> QED BY <1>3, <1>5, <1>7 DEF Kept, k

LEMMA AnswerIs ==
  ASSUME NEW r, NEW root, NEW db, Answer(r, root, db)
  PROVE  request' = [request EXCEPT ![r] = [request[r] EXCEPT !.reply =
            [served |-> TRUE, ok |-> TRUE, root |-> root, db |-> db]]]
BY DEF Answer

\* The server's nodes change and the request is answered.
LEMMA ServedStep ==
  ASSUME CacheInv, NEW r \in Request, request[r] # None,
         NEW db, ProperDb(db), NEW last \in Nat, \A i \in DOMAIN db : i <= last,
         NEW root \in Key \cup {None},
         request[r].op \notin {"discard", "choices"} => root \in DOMAIN db,
         request[r].op \in {"graph", "choices"} => root = request[r].id,
         Answer(r, root, db), heap' = heap, server' = db, lastId' = last
  PROVE  Kept
<1> DEFINE q == [request[r] EXCEPT !.reply = [served |-> TRUE, ok |-> TRUE, root |-> root, db |-> db]]
<1>1. ProperRequest(heap.node, q)
  BY Facts, AnsweredOK
<1>2. request' = [request EXCEPT ![r] = q]
  BY AnswerIs
<1> HIDE DEF q
<1>3. CacheOK(heap, db, last, [request EXCEPT ![r] = q])
  BY <1>1, Facts, RequestStep
<1> QED BY <1>2, <1>3 DEF Kept

LEMMA ServeCreateKept ==
  ASSUME CacheInv, NEW r \in Request, ServeCreate(r)
  PROVE  Kept
<1> DEFINE f == request[r].fields
           id == lastId + 1
           row == [type |-> f.type, text |-> f.text, public |-> FALSE,
                   children |-> f.links, edits |-> None]
           db == Put(server, id, row)
<1>1. /\ request[r] # None /\ request[r].op \in {"blank", "support"}
      /\ f.links \subseteq DOMAIN server /\ id \in Id
      /\ server' = db /\ lastId' = id /\ Answer(r, id, db) /\ heap' = heap
  BY DEF ServeCreate, Open
<1>2. /\ ProperDb(server) /\ lastId \in Nat /\ \A i \in DOMAIN server : i <= lastId
  BY Facts
<1>3. f \in Saving
  BY <1>1, Facts DEF ProperRequest
<1>4. DOMAIN server \subseteq Id
  BY <1>2, DbIs
<1> HIDE DEF f
<1>5. row \in Row /\ row.children \subseteq DOMAIN server /\ row.edits = None
  BY <1>1, <1>3, <1>4 DEF Row, Saving
<1>6. id \notin DOMAIN server /\ id \in Nat /\ \A i \in DOMAIN server \cup {id} : i <= id
  <2>1. DOMAIN server \subseteq Nat
    BY <1>4, Facts, ScenarioFacts
  <2> QED BY <1>2, <2>1
<1> HIDE DEF row, id
<1>7. ProperDb(db) /\ DOMAIN db = DOMAIN server \cup {id}
  BY <1>1, <1>2, <1>5, <1>6, RowAdded
<1>8. id \in Key
  BY <1>1 DEF Key
<1> HIDE DEF db
<1> QED BY <1>1, <1>6, <1>7, <1>8, ServedStep

LEMMA ServeEditKept ==
  ASSUME CacheInv, NEW r \in Request, ServeEdit(r)
  PROVE  Kept
<1> DEFINE id == request[r].id
           f == request[r].fields
           text == f.text
           links == f.links
           db == [server EXCEPT ![id].text = text, ![id].children = links]
<1>1. /\ request[r] # None /\ request[r].op = "edit"
      /\ id \in DOMAIN server /\ links \subseteq DOMAIN server
      /\ server' = db /\ lastId' = lastId /\ Answer(r, id, db) /\ heap' = heap
  BY DEF ServeEdit, Open
<1>2. /\ ProperDb(server) /\ lastId \in Nat /\ \A i \in DOMAIN server : i <= lastId
  BY Facts
<1>3. text \in Word(scenario)
  <2>1. f \in Saving
    BY <1>1, Facts DEF ProperRequest
  <2> QED BY <2>1 DEF Saving
<1>4. id \in Key
  BY <1>1, <1>2, DbIs DEF Key
<1> HIDE DEF id, text, links
<1>5. ProperDb(db) /\ DOMAIN db = DOMAIN server
  BY <1>1, <1>2, <1>3, RowEdited
<1> HIDE DEF db
<1> QED BY <1>1, <1>2, <1>4, <1>5, ServedStep

LEMMA ServeMakeDraftKept ==
  ASSUME CacheInv, NEW r \in Request, ServeMakeDraft(r)
  PROVE  Kept
<1> DEFINE of == request[r].id
           id == lastId + 1
           row == [server[of] EXCEPT !.public = FALSE, !.edits = of]
           db == Put(server, id, row)
<1>1. /\ request[r] # None /\ request[r].op = "makeDraft"
      /\ of \in DOMAIN server /\ server[of].public /\ id \in Id
      /\ server' = db /\ lastId' = id /\ Answer(r, id, db) /\ heap' = heap
  BY DEF ServeMakeDraft, Open
<1>2. /\ ProperDb(server) /\ lastId \in Nat /\ \A i \in DOMAIN server : i <= lastId
  BY Facts
<1>3. /\ DOMAIN server \subseteq Id /\ server[of] \in Row
      /\ server[of].children \subseteq DOMAIN server
  BY <1>1, <1>2, DbIs
<1> HIDE DEF of
<1>4. row \in Row /\ row.children = server[of].children /\ row.edits = of
  BY <1>1, <1>3 DEF Row
<1>5. id \notin DOMAIN server /\ id \in Nat /\ \A i \in DOMAIN server \cup {id} : i <= id
  <2>1. DOMAIN server \subseteq Nat
    BY <1>3, Facts, ScenarioFacts
  <2> QED BY <1>2, <2>1
<1> HIDE DEF row, id
<1>6. ProperDb(db) /\ DOMAIN db = DOMAIN server \cup {id}
  BY <1>1, <1>2, <1>3, <1>4, <1>5, RowAdded
<1>7. id \in Key
  BY <1>1 DEF Key
<1> HIDE DEF db
<1> QED BY <1>1, <1>5, <1>6, <1>7, ServedStep

LEMMA PublishIs ==
  ASSUME CacheInv, NEW r \in Request, ServePublish(r)
  PROVE  /\ request[r] # None /\ request[r].op = "publish" /\ request[r].id \in DOMAIN server
         /\ lastId' = lastId /\ heap' = heap /\ DOMAIN server' \subseteq DOMAIN server
         /\ \E drafts, merged, into, content :
                /\ drafts \in SUBSET DOMAIN server /\ \A i \in drafts : ~server[i].public
                /\ Published(server, drafts, merged, into, content, server')
                /\ Answer(r, into[request[r].id], server')
<1> DEFINE id == request[r].id
           drafts == Publishable(id)
           merged == {i \in drafts : server[i].edits \in DOMAIN server}
           Into(i) == IF i \in merged THEN server[i].edits ELSE i
           Content(i) == IF \E d \in merged : server[d].edits = i
                         THEN server[CHOOSE d \in merged : server[d].edits = i]
                         ELSE server[i]
           into == [i \in DOMAIN server |-> Into(i)]
           content == [i \in DOMAIN server |-> Content(i)]
           db == server'
           root == Into(id)
<1>1. /\ request[r] # None /\ request[r].op = "publish" /\ id \in DOMAIN server
      /\ server' = [i \in DOMAIN server \ merged |->
                [Content(i) EXCEPT !.public = @ \/ \E d \in drafts : Into(d) = i,
                                   !.children = {Into(c) : c \in @},
                                   !.edits = IF i \in drafts THEN None ELSE server[i].edits]]
      /\ Answer(r, root, db) /\ lastId' = lastId /\ heap' = heap
  BY DEF ServePublish, Open
<1>2. /\ ProperDb(server) /\ lastId \in Nat /\ \A i \in DOMAIN server : i <= lastId
      /\ scenario \in Scenarios
  BY Facts
<1>3. /\ DOMAIN server \subseteq Id
      /\ \A i \in DOMAIN server : server[i] \in Row /\ server[i].children \subseteq DOMAIN server
  BY <1>2, DbIs
<1>4. drafts \in SUBSET DOMAIN server /\ \A i \in drafts : ~server[i].public
  <2>1. Cardinality(DOMAIN server) \in Nat
    BY <1>2, <1>3, ScenarioFacts, FS_Subset, FS_CardinalityType
  <2> DEFINE n == Cardinality(DOMAIN server)
  <2>2. n \in Nat
    BY <2>1
  <2> HIDE DEF n
  <2>3. Within(server, id, n) \subseteq DOMAIN server
    BY <1>1, <1>3, <2>2, WithinIs
  <2> QED BY <2>3 DEF Publishable, n
<1> HIDE DEF drafts, id
<1>5. \A i \in DOMAIN server : into[i] = Into(i) /\ content[i] = Content(i)
  OBVIOUS
<1>6. \A i \in DOMAIN server :
        \/ content[i] = server[i] /\ \A d \in merged : server[d].edits # i
        \/ \E d \in merged : server[d].edits = i /\ content[i] = server[d]
  <2> HIDE DEF merged
  <2> QED OBVIOUS
<1>7. Published(server, drafts, merged, into, content, server')
  <2>1. ASSUME NEW i \in DOMAIN server \ merged
        PROVE  server'[i] =
                [content[i] EXCEPT !.public = @ \/ \E d \in drafts : into[d] = i,
                                   !.children = {into[c] : c \in @},
                                   !.edits = IF i \in drafts THEN None ELSE server[i].edits]
    <3> DEFINE p == Content(i).public \/ \E d \in drafts : Into(d) = i
               c == {Into(x) : x \in Content(i).children}
               e == IF i \in drafts THEN None ELSE server[i].edits
    <3>1. server'[i] = [Content(i) EXCEPT !.public = p, !.children = c, !.edits = e]
      BY <1>1
    <3>2. content[i] = Content(i)
      BY <1>5
    <3>3. content[i].children \subseteq DOMAIN server
      <4>1. content[i] = server[i] \/ \E d \in merged : content[i] = server[d]
        BY <1>6
      <4>2. merged \subseteq DOMAIN server
        BY <1>4
      <4> HIDE DEF content, merged
      <4> QED BY <1>3, <4>1, <4>2
    <3>4. p = (content[i].public \/ \E d \in drafts : into[d] = i)
      <4> HIDE DEF content, into, Into, Content
      <4> QED BY <1>4, <1>5, <3>2
    <3>5. c = {into[x] : x \in content[i].children}
      <4> HIDE DEF content, into, Into, Content
      <4> QED BY <1>5, <3>2, <3>3
    <3> HIDE DEF content, into, Into, Content, p, c
    <3> QED BY <3>1, <3>2, <3>4, <3>5
  <2>2. server' = [i \in DOMAIN server \ merged |-> server'[i]]
    BY <1>1
  <2> HIDE DEF content
  <2>3. server' = [i \in DOMAIN server \ merged |->
            [content[i] EXCEPT !.public = @ \/ \E d \in drafts : into[d] = i,
                               !.children = {into[c] : c \in @},
                               !.edits = IF i \in drafts THEN None ELSE server[i].edits]]
    <3> DEFINE S == DOMAIN server \ merged
               all == [i \in S |->
                        [content[i] EXCEPT !.public = @ \/ \E d \in drafts : into[d] = i,
                                           !.children = {into[c] : c \in @},
                                           !.edits = IF i \in drafts THEN None ELSE server[i].edits]]
    <3> HIDE DEF into, merged
    <3>1. ASSUME NEW i \in S PROVE server'[i] = all[i]
      <4>1. server'[i] = [content[i] EXCEPT !.public = @ \/ \E d \in drafts : into[d] = i,
                                            !.children = {into[c] : c \in @},
                                            !.edits = IF i \in drafts THEN None ELSE server[i].edits]
        BY <2>1
      <4> QED BY <4>1
    <3>2. all = [i \in S |-> all[i]] /\ server' = [i \in S |-> server'[i]]
      BY <2>2
    <3> HIDE DEF S
    <3>3. server' = all
      <4> HIDE DEF all
      <4> QED BY <3>1, <3>2
    <3> QED BY <3>3 DEF S
  <2>4. into = [i \in DOMAIN server |-> IF i \in merged THEN server[i].edits ELSE i]
    OBVIOUS
  <2>5. merged = {i \in drafts : server[i].edits \in DOMAIN server}
    OBVIOUS
  <2> HIDE DEF into, merged
  <2> QED BY <1>6, <2>3, <2>4, <2>5 DEF Published
<1> HIDE DEF content
<1>8. into[id] = root
  BY <1>1
<1>9. DOMAIN server' \subseteq DOMAIN server
  BY <1>1
<1> HIDE DEF into, merged, root
<1> QED BY <1>1, <1>4, <1>7, <1>8, <1>9 DEF id

LEMMA ServePublishKept ==
  ASSUME CacheInv, NEW r \in Request, ServePublish(r)
  PROVE  Kept
<1>1. /\ request[r] # None /\ request[r].op = "publish" /\ request[r].id \in DOMAIN server
      /\ lastId' = lastId /\ heap' = heap /\ DOMAIN server' \subseteq DOMAIN server
  BY PublishIs
<1>2. PICK drafts, merged, into, content :
        /\ drafts \in SUBSET DOMAIN server /\ \A i \in drafts : ~server[i].public
        /\ Published(server, drafts, merged, into, content, server')
        /\ Answer(r, into[request[r].id], server')
  BY PublishIs
<1>3. /\ ProperDb(server) /\ lastId \in Nat /\ \A i \in DOMAIN server : i <= lastId
      /\ scenario \in Scenarios
  BY Facts
<1>4. ProperDb(server') /\ \A i \in DOMAIN server : into[i] \in DOMAIN server'
  BY <1>2, <1>3, RowsPublished
<1> DEFINE root == into[request[r].id]
           db == server'
<1>5. root \in DOMAIN db
  BY <1>1, <1>4
<1>6. DOMAIN db \subseteq Id
  BY <1>4, DbIs
<1>7. root \in Key /\ \A i \in DOMAIN db : i <= lastId
  BY <1>1, <1>3, <1>5, <1>6 DEF Key
<1> HIDE DEF root
<1>8. Answer(r, root, db) /\ server' = db
  BY <1>2 DEF root
<1>9. ProperDb(db)
  BY <1>4
<1> HIDE DEF db
<1> QED BY <1>1, <1>3, <1>5, <1>7, <1>8, <1>9, ServedStep

LEMMA ServeDiscardKept ==
  ASSUME CacheInv, NEW r \in Request, ServeDiscard(r)
  PROVE  Kept
<1> DEFINE id == request[r].id
           db == [i \in DOMAIN server \ {id} |-> [server[i] EXCEPT !.children = @ \ {id}]]
<1>1. /\ request[r] # None /\ request[r].op = "discard"
      /\ id \in DOMAIN server /\ ~server[id].public
      /\ server' = db /\ lastId' = lastId /\ Answer(r, id, db) /\ heap' = heap
  BY DEF ServeDiscard, Open
<1>2. /\ ProperDb(server) /\ lastId \in Nat /\ \A i \in DOMAIN server : i <= lastId
  BY Facts
<1>3. id \in Key
  BY <1>1, <1>2, DbIs DEF Key
<1> HIDE DEF id
<1>4. DOMAIN db = DOMAIN server \ {id}
  OBVIOUS
<1>5. ProperDb(db)
  BY <1>1, <1>2, RowRemoved
<1> HIDE DEF db
<1> QED BY <1>1, <1>2, <1>3, <1>4, <1>5, ServedStep

LEMMA ServeQueryKept ==
  ASSUME CacheInv, NEW r \in Request, ServeQuery(r)
  PROVE  Kept
<1> DEFINE id == request[r].id
<1>1. /\ request[r] # None /\ (request[r].op = "choices" \/ id \in DOMAIN server)
      /\ Answer(r, id, server) /\ server' = server /\ lastId' = lastId /\ heap' = heap
  BY DEF ServeQuery, Open
<1>2. /\ ProperDb(server) /\ lastId \in Nat /\ \A i \in DOMAIN server : i <= lastId
      /\ ProperRequest(heap.node, request[r])
  BY <1>1, Facts
<1>3. id \in Key /\ id = request[r].id
  BY <1>2 DEF ProperRequest, Sent
<1> HIDE DEF id
<1> QED BY <1>1, <1>2, <1>3, ServedStep

LEMMA RefuseKept ==
  ASSUME CacheInv, NEW r \in Request, Refuse(r) \/ LoseAnswer(r)
  PROVE  Kept
<1> DEFINE q == [request[r] EXCEPT !.reply = [NotServed EXCEPT !.served = TRUE]]
<1>1. /\ request[r] # None /\ request' = [request EXCEPT ![r] = q]
      /\ UNCHANGED <<heap, server, lastId>>
  BY DEF Refuse, LoseAnswer
<1>2. ProperRequest(heap.node, q)
  BY <1>1, Facts, RefusedOK
<1> HIDE DEF q
<1>3. CacheOK(heap, server, lastId, [request EXCEPT ![r] = q])
  BY <1>2, Facts, RequestStep
<1> QED BY <1>1, <1>3 DEF Kept

LEMMA ReceiveErrorKept ==
  ASSUME CacheInv, NEW r \in Request, ReceiveError(r)
  PROVE  Kept
<1>1. request' = [request EXCEPT ![r] = None] /\ UNCHANGED <<heap, server, lastId>>
  BY DEF ReceiveError, Done
<1>2. CacheOK(heap, server, lastId, [request EXCEPT ![r] = None])
  BY Facts, RequestStep
<1> QED BY <1>1, <1>2 DEF Kept

LEMMA ReceiveKept ==
  ASSUME Unlimited, CacheInv, NEW r \in Request, Receive(r)
  PROVE  /\ Kept
         /\ request[r].op \notin {"blank", "support"} => heap' \in Later(heap)
<1> DEFINE q == request[r]
           k == Answered(heap, q)
<1>1. /\ q # None /\ q.reply.ok /\ heap' = k /\ request' = [request EXCEPT ![r] = None]
      /\ UNCHANGED <<server, lastId>>
  BY DEF Receive, Done
<1>2. /\ scenario \in Scenarios /\ CacheOK(heap, server, lastId, request)
      /\ ProperCache(heap) /\ ProperRequest(heap.node, q)
  BY <1>1, Facts
<1> HIDE DEF q
<1>3. CacheOK(k, server, lastId, [request EXCEPT ![r] = None])
  <2>1. CASE q.op \in {"blank", "support"}
    <3>1. ProperCache(k) /\ Used(k.node) = Used(heap.node)
      BY <1>1, <1>2, <2>1, AnsweredSaveProper
    <3>2. ~NothingNew
      BY <1>2, <2>1 DEF NothingNew, ProperRequest, Sent
    <3> HIDE DEF k
    <3> QED BY <1>2, <3>1, <3>2, HeapStep
  <2>2. CASE q.op \notin {"blank", "support"}
    <3>1. k \in Later(heap)
      BY <1>1, <1>2, <2>2, AnsweredLater
    <3> HIDE DEF k
    <3> QED BY <1>2, <3>1, LaterStep
  <2> QED BY <2>1, <2>2
<1>4. q.op \notin {"blank", "support"} => k \in Later(heap)
  BY <1>1, <1>2, AnsweredLater
<1> QED BY <1>1, <1>3, <1>4 DEF Kept, q

-----------------------------------------------------------------------------
(***************************************************************************)
(* The whole behaviour.                                                    *)
(***************************************************************************)
\* The empty cache of a page that has been loaded.
LEMMA InitInv ==
  ASSUME CacheInit
  PROVE  CacheInv
<1>1. scenario \in Scenarios /\ server = scenario.server /\ lastId = Cardinality(DOMAIN server)
      /\ request = [r \in Request |-> None]
  BY DEF CacheInit
<1> DEFINE g == [o \in Obj |-> Unused]
           m == [i \in {} |-> None]
<1>2. heap = [node |-> g, nodes |-> m]
  BY DEF CacheInit
<1>3. g \in Graph /\ Used(g) = {}
  BY DEF Graph, Used
<1>4. m \in ObjectMap /\ DOMAIN m = {}
  <2>1. DOMAIN m = {} /\ m \in [{} -> Obj]
    OBVIOUS
  <2> HIDE DEF m
  <2> QED BY <2>1, ObjectMaps
<1> HIDE DEF g, m
<1>5. Proper(g)
  BY <1>3, FS_EmptySet DEF Proper, Linked
<1>6. ProperCache(heap) /\ AllCached(heap)
  BY <1>2, <1>3, <1>4, <1>5 DEF ProperCache, Keyed, AllCached
<1>7. DOMAIN server \subseteq Id /\ \A i \in DOMAIN server :
        /\ i <= Cardinality(DOMAIN server)
        /\ server[i] \in Stored(scenario)
        /\ server[i].edits # None => server[server[i].edits].public
  BY <1>1, NodeCacheAssumption DEF Id
<1>8. \A i \in DOMAIN server :
        /\ server[i] \in Row /\ server[i].children \subseteq DOMAIN server
        /\ server[i].edits # None => server[i].edits \in DOMAIN server
  <2>1. \A i \in DOMAIN server : server[i].text \in Word(scenario)
    BY <1>1, WordIs
  <2> QED BY <1>1, <1>7, <2>1 DEF Stored, Row
<1>9. ProperDb(server)
  <2>1. server = [i \in DOMAIN server |-> server[i]]
    <3>1. server = scenario.server
      BY <1>1
    <3> QED BY <1>1, NodeCacheAssumption
  <2>2. server \in [DOMAIN server -> Row]
    BY <1>8, <2>1
  <2> QED BY <1>7, <1>8, <2>2 DEF ProperDb, Db
<1>10. lastId \in Nat /\ \A i \in DOMAIN server : i <= lastId
  BY <1>1, <1>7, ScenarioFacts, FS_Subset, FS_CardinalityType
<1> QED BY <1>1, <1>6, <1>9, <1>10 DEF CacheInv, CacheOK

\* The scenario stays.
LEMMA KeptInv ==
  ASSUME scenario \in Scenarios, scenario' = scenario, Kept
  PROVE  CacheInv'
<1>1. /\ Id' = Id /\ Ops' = Ops /\ Word(scenario)' = Word(scenario)
  BY DEF Id, Ops, Word
<1>2. Key' = Key
  BY <1>1 DEF Key
<1>3. ObjectMap' = ObjectMap
  BY <1>2 DEF ObjectMap
<1>4. NodeObject' = NodeObject
  BY <1>1, <1>2, <1>3 DEF NodeObject
<1>5. Graph' = Graph
  BY <1>4 DEF Graph
<1>6. Row' = Row
  BY <1>1 DEF Row
<1>7. Db' = Db
  BY <1>1, <1>6 DEF Db
<1>8. Saving' = Saving
  BY <1>1, <1>2 DEF Saving
<1>9. Reply' = Reply
  BY <1>2, <1>7 DEF Reply
<1>10. Sent' = Sent
  BY <1>1, <1>2, <1>8, <1>9 DEF Sent
<1>11. /\ ProperCache(heap') /\ (NothingNew => AllCached(heap')) /\ ProperDb(server')
       /\ lastId' \in Nat /\ \A i \in DOMAIN server' : i <= lastId'
       /\ DOMAIN request' = Request
       /\ \A r \in Request : request'[r] # None => ProperRequest(heap'.node, request'[r])
  BY DEF Kept, CacheOK
<1>12. ProperCache(heap)'
  BY <1>3, <1>5, <1>11 DEF ProperCache, Proper, Linked, Keyed, Used, Children
<1>13. (NothingNew => AllCached(heap))'
  BY <1>1, <1>11 DEF NothingNew, AllCached, Used
<1>14. ProperDb(server)'
  BY <1>7, <1>11 DEF ProperDb
<1>15. \A r \in Request : request'[r] # None => ProperRequest(heap.node, request[r])'
  BY <1>7, <1>8, <1>10, <1>11 DEF ProperRequest, ProperDb, Used
<1> QED BY <1>11, <1>12, <1>13, <1>14, <1>15 DEF CacheInv, CacheOK

LEMMA UsePageKept ==
  ASSUME Unlimited, CacheInv, NEW r \in Request, UsePage(r)
  PROVE  Kept
<1>1. CASE SaveBlankSlateNode(r)
  BY <1>1, SaveBlankSlateNodeKept
<1>2. ASSUME NEW id \in Id, FetchGraphForId(r, id) \/ FetchDetail(r, id)
      PROVE  Kept
  BY <1>2, FetchKept
<1>3. ASSUME NEW version \in Range(MajorVersion), FetchLinkChoices(r, version)
      PROVE  Kept
  <2>1. version \in Id
    BY Facts, ScenarioFacts DEF Range
  <2> QED BY <1>3, <2>1, FetchKept
<1>4. ASSUME NEW o \in Shown,
             \/ CreateNodeWithSupport(r, o)
             \/ SaveNodeEdit(r, o) \/ PublishNode(r, o) \/ DiscardDraft(r, o)
             \/ MakeDraft(r, o)
      PROVE  Kept
  <2>1. o \in Used(heap.node)
    BY Facts DEF Shown
  <2> QED BY <1>4, <2>1, CreateNodeWithSupportKept, SaveNodeEditKept, PublishNodeKept,
             DiscardDraftKept, MakeDraftKept
<1> QED BY <1>1, <1>2, <1>3, <1>4 DEF UsePage

LEMMA NextKept ==
  ASSUME Unlimited, CacheInv, CacheNext
  PROVE  Kept
<1>1. ASSUME NEW type \in {"assertion", "source"}, OpenBlankNode(type)
      PROVE  Kept
  BY <1>1, OpenBlankNodeKept
<1>2. ASSUME NEW o \in Range(heap.nodes), NEW text \in Text, Write(o, text)
      PROVE  Kept
  BY <1>2, Facts, WriteKept
<1>3. ASSUME NEW r \in Request, Serve(r)
      PROVE  Kept
  BY <1>3, ServeCreateKept, ServeEditKept, ServeMakeDraftKept, ServePublishKept,
     ServeDiscardKept, ServeQueryKept DEF Serve
<1>4. ASSUME NEW r \in Request,
             UsePage(r) \/ Refuse(r) \/ LoseAnswer(r) \/ Receive(r) \/ ReceiveError(r)
      PROVE  Kept
  BY <1>4, UsePageKept, RefuseKept, ReceiveKept, ReceiveErrorKept
<1> QED BY <1>1, <1>2, <1>3, <1>4 DEF CacheNext

\* Two objects with one id would both be what is cached under it.
LEMMA InvOneObject ==
  ASSUME CacheInv
  PROVE  OneObjectPerNode
<1>1. /\ ProperCache(heap) /\ Proper(heap.node) /\ scenario \in Scenarios
      /\ \A k \in DOMAIN heap.nodes :
            heap.nodes[k] \in Used(heap.node) /\ heap.node[heap.nodes[k]].id = k
  BY Facts, CacheFacts
<1>2. Ops \cap {"blank", "support"} = {} => AllCached(heap)
  BY DEF CacheInv, CacheOK, NothingNew
<1>3. InUse = Used(heap.node)
  BY DEF InUse, Used
<1>4. Ops \cap {"blank", "support"} = {} =>
        \A o, p \in InUse : heap.node[o].id = heap.node[p].id => o = p
  BY <1>2, <1>3 DEF AllCached
<1>5. Cached(Draft) => ~IsPersisted(heap.node, heap.nodes[Draft])
  BY <1>1, UsedObject DEF Cached, IsPersisted
<1> QED BY <1>1, <1>4, <1>5 DEF OneObjectPerNode

\* Whatever is fetched, edited, published and discarded, and in whatever order the answers
\* arrive: the objects of node-cache.js link objects of the cache only, what is cached
\* under an id is the object with this id, and what the server stores and answers is whole.
THEOREM CacheInvariant ==
  ASSUME Unlimited
  PROVE  CacheSpec => []CacheInv
<1>1. CacheInit => CacheInv
  BY InitInv
<1>2. CacheInv /\ [CacheNext /\ UNCHANGED scenario]_<<cacheVars, scenario>> => CacheInv'
  <2> SUFFICES ASSUME CacheInv, [CacheNext /\ UNCHANGED scenario]_<<cacheVars, scenario>>
               PROVE  CacheInv'
    OBVIOUS
  <2>1. CASE CacheNext /\ UNCHANGED scenario
    BY <2>1, NextKept, KeptInv, Facts
  <2>2. CASE UNCHANGED <<cacheVars, scenario>>
    <3>1. Kept
      BY <2>2, Facts DEF Kept, cacheVars
    <3> QED BY <2>2, <3>1, KeptInv, Facts
  <2> QED BY <2>1, <2>2
<1> QED BY <1>1, <1>2, PTL DEF CacheSpec

\* node-cache.js has one object for each node, so that all pages, editors and pictures of
\* it show the same text; and the draft that has not been saved is never one that has.
THEOREM OneObjectPerNodeCorrect ==
  ASSUME Unlimited
  PROVE  CacheSpec => []OneObjectPerNode
<1>1. CacheInv => OneObjectPerNode
  BY InvOneObject
<1> QED BY <1>1, CacheInvariant, PTL
=============================================================================
