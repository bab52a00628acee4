-------------------------- MODULE NodeEditor_proofs --------------------------
(***************************************************************************)
(* Proofs of the page of the graph and of the editor on it: GraphPage and  *)
(* NodeEditor over the cache of nodes, for any scenario that satisfies     *)
(* the assumptions and as many objects as the program asks for             *)
(* (Unlimited).                                                            *)
(*                                                                         *)
(* The invariant of the cache is kept by the steps of the page as by those *)
(* of the cache, for the page changes the cache by its operations only.    *)
(* PageInv adds what the pages know: the root of the page is the node of   *)
(* its address, and an answer is shown on the page that asked for it.      *)
(* EditorInv adds the editors, and TextInv what is written in a body, what *)
(* is sent to be saved, and what the server stores.                        *)
(***************************************************************************)
EXTENDS NodeEditor, NodeCache_proofs

-----------------------------------------------------------------------------
(***************************************************************************)
(* The page: its invariant.                                                *)
(***************************************************************************)
Address == Id \cup {Home, Create}

\* The id of the node that an address names.
KeyOf(p) == IF p = Create THEN Draft ELSE p

PageOK(g, x) ==
    /\ x = [path |-> x.path, root |-> x.root, blocked |-> x.blocked]
    /\ x.path \in Address
    /\ x.root # None => x.root \in Used(g) /\ x.path \in Id \cup {Create}

\* The root of a page is the node of its address; only a new node that has been saved
\* is another one, and then the address has changed.
Rooted(g, x, p) ==
    x.root # None => \/ g[x.root].id = KeyOf(x.path)
                     \/ x.path = Create /\ p # Create

PagesOK(g, n, pages, p) ==
    /\ n \in Nat /\ n <= scenario.visits /\ p \in Address
    /\ pages = [v \in 1..n |-> pages[v]]
    /\ \A v \in 1..n : PageOK(g, pages[v])
    /\ n > 0 => Rooted(g, pages[n], p)

\* The answer of a graph that a page has asked for is shown on this page.
Sender(g, n) == [visit : 0..n, editor : Used(g) \cup {None}]

SendersOK(g, n, pages, sent, from) ==
    /\ DOMAIN from = Request
    /\ \A r \in Request : sent[r] # None =>
        /\ from[r] \in Sender(g, n)
        /\ sent[r].op = "graph" /\ from[r].editor = None =>
            /\ sent[r].id \in Id /\ from[r].visit \in 1..n
            /\ pages[from[r].visit].path = sent[r].id

\* What is selected, opened and edited is there.
LooksOK(g, select, show, edit) == select \cup show \cup edit \subseteq Used(g)

PageInv ==
    /\ CacheInv
    /\ PagesOK(heap.node, visit, page, path)
    /\ SendersOK(heap.node, visit, page, request, sender)
    /\ LooksOK(heap.node, selected, shown, editing)

PageKept ==
    /\ Kept
    /\ PagesOK(heap'.node, visit', page', path')
    /\ SendersOK(heap'.node, visit', page', request', sender')
    /\ LooksOK(heap'.node, selected', shown', editing')

Named(g, g2) == \A o \in Used(g) : o \in Used(g2) /\ g2[o].id = g[o].id

LEMMA LaterNamed ==
  ASSUME NEW h, NEW h2 \in Later(h)
  PROVE  Named(h.node, h2.node) /\ ProperCache(h2)
BY LaterIs DEF Grows, Named

LEMMA AddressFacts ==
  ASSUME scenario \in Scenarios
  PROVE  /\ Create \notin Id /\ Home \notin Id /\ Home # Create /\ Draft \notin Id
         /\ None \notin Id /\ None \notin Obj
         /\ scenario.path \in Address /\ scenario.visits \in Nat
BY GraphPageAssumption, ScenarioFacts DEF Id, Address

LEMMA PagesStay ==
  ASSUME NEW g, NEW n, NEW pages, NEW p, PagesOK(g, n, pages, p), NEW g2, Named(g, g2)
  PROVE  PagesOK(g2, n, pages, p)
BY DEF PagesOK, PageOK, Rooted, Named

LEMMA PathChanges ==
  ASSUME NEW g, NEW n, NEW pages, NEW p, PagesOK(g, n, pages, p), NEW p2 \in Address, p2 # Create
  PROVE  PagesOK(g, n, pages, p2)
BY DEF PagesOK, Rooted

LEMMA PathNavigated ==
  ASSUME NEW g, NEW n, NEW pages, NEW p, PagesOK(g, n, pages, p), NEW p2 \in Address,
         n # 0, pages[n].path = p
  PROVE  PagesOK(g, n, pages, p2)
<1>1. n \in Nat /\ n > 0 /\ Rooted(g, pages[n], p)
  BY DEF PagesOK
<1>2. Rooted(g, pages[n], p2)
  BY <1>1 DEF Rooted
<1> QED BY <1>2 DEF PagesOK

LEMMA PageAdded ==
  ASSUME NEW g, NEW n, NEW pages, NEW p, PagesOK(g, n, pages, p), n < scenario.visits,
         scenario.visits \in Nat,
         NEW x, PageOK(g, x), Rooted(g, x, p),
         NEW pages2, pages2 = [v \in 1..(n + 1) |-> IF v = n + 1 THEN x ELSE pages[v]]
  PROVE  /\ PagesOK(g, n + 1, pages2, p)
         /\ \A v \in 1..n : v \in 1..(n + 1) /\ pages2[v] = pages[v]
<1>1. n \in Nat /\ n + 1 \in Nat /\ n + 1 <= scenario.visits /\ p \in Address
  BY DEF PagesOK
<1>2. \A v \in 1..(n + 1) : v = n + 1 \/ v \in 1..n
  BY <1>1
<1>3. pages2[n + 1] = x /\ \A v \in 1..n : v \in 1..(n + 1) /\ pages2[v] = pages[v]
  BY <1>1
<1>4. pages2 = [v \in 1..(n + 1) |-> pages2[v]]
  OBVIOUS
<1>5. \A v \in 1..(n + 1) : PageOK(g, pages2[v])
  BY <1>2, <1>3 DEF PagesOK
<1> QED BY <1>1, <1>3, <1>4, <1>5 DEF PagesOK

\* What is set of a page.
SetRoot(pages, v, root, b) == [pages EXCEPT ![v].root = root, ![v].blocked = b]
PutRoot(pages, v, root) == [pages EXCEPT ![v].root = root]
SetBlocked(pages, v, b) == [pages EXCEPT ![v].blocked = b]

PageSet(n, pages, v, x, pages2) ==
    /\ pages2 = [w \in 1..n |-> pages2[w]]
    /\ \A w \in 1..n : pages2[w] = IF w = v THEN x ELSE pages[w]

LEMMA PageSetIs ==
  ASSUME NEW g, NEW n, NEW pages, NEW p, PagesOK(g, n, pages, p), NEW v \in 1..n, NEW x
  PROVE  PageSet(n, pages, v, x, [pages EXCEPT ![v] = x])
<1>1. DOMAIN pages = 1..n
  <2>1. pages = [w \in 1..n |-> pages[w]]
    BY DEF PagesOK
  <2> QED BY <2>1
<1> DEFINE q == [pages EXCEPT ![v] = x]
<1>2. \A w \in 1..n : q[w] = IF w = v THEN x ELSE pages[w]
  BY <1>1
<1>3. q = [w \in 1..n |-> q[w]]
  BY <1>1
<1> QED BY <1>2, <1>3 DEF PageSet

LEMMA SetIs ==
  ASSUME NEW g, NEW n, NEW pages, NEW p, PagesOK(g, n, pages, p), NEW v \in 1..n, NEW root, NEW b
  PROVE  /\ PageSet(n, pages, v, [path |-> pages[v].path, root |-> root, blocked |-> b],
                    SetRoot(pages, v, root, b))
         /\ PageSet(n, pages, v, [path |-> pages[v].path, root |-> root, blocked |-> pages[v].blocked],
                    PutRoot(pages, v, root))
         /\ PageSet(n, pages, v, [path |-> pages[v].path, root |-> pages[v].root, blocked |-> b],
                    SetBlocked(pages, v, b))
<1> DEFINE a == pages[v].path
           c == pages[v].root
           d == pages[v].blocked
           y == [path |-> a, root |-> c, blocked |-> d]
           z == [path |-> a, root |-> root, blocked |-> d]
           x == [path |-> a, root |-> root, blocked |-> b]
           u == [path |-> a, root |-> c, blocked |-> b]
<1>1. pages[v] = y
  BY DEF PagesOK, PageOK
<1>2. [y EXCEPT !.root = root] = z
  <2> HIDE DEF a, c, d
  <2> QED BY SMT
<1>3. [z EXCEPT !.blocked = b] = x
  <2> HIDE DEF a, c, d
  <2> QED BY SMT
<1>4. [y EXCEPT !.blocked = b] = u
  <2> HIDE DEF a, c, d
  <2> QED BY SMT
<1> HIDE DEF y, z, x, u
<1>5. SetRoot(pages, v, root, b) = [pages EXCEPT ![v] = x]
  <2>1. SetRoot(pages, v, root, b) =
            [pages EXCEPT ![v] = [pages[v] EXCEPT !.root = root, !.blocked = b]]
    BY DEF SetRoot
  <2> QED BY <1>1, <1>2, <1>3, <2>1
<1>6. PutRoot(pages, v, root) = [pages EXCEPT ![v] = z]
  BY <1>1, <1>2 DEF PutRoot
<1>7. SetBlocked(pages, v, b) = [pages EXCEPT ![v] = u]
  BY <1>1, <1>4 DEF SetBlocked
<1>8. /\ PageSet(n, pages, v, x, [pages EXCEPT ![v] = x])
      /\ PageSet(n, pages, v, z, [pages EXCEPT ![v] = z])
      /\ PageSet(n, pages, v, u, [pages EXCEPT ![v] = u])
  BY PageSetIs
<1>9. /\ PageSet(n, pages, v, x, SetRoot(pages, v, root, b))
      /\ PageSet(n, pages, v, z, PutRoot(pages, v, root))
      /\ PageSet(n, pages, v, u, SetBlocked(pages, v, b))
  BY <1>5, <1>6, <1>7, <1>8
<1> QED BY <1>9 DEF x, z, u

\* A page gets its root, or stays with the one it has.
LEMMA RootShown ==
  ASSUME NEW g, NEW n, NEW pages, NEW p, PagesOK(g, n, pages, p),
         NEW v \in 1..n, NEW root, NEW b,
         \/ /\ pages[v].path \in Id \cup {Create} /\ root \in Used(g)
            /\ g[root].id = KeyOf(pages[v].path)
         \/ root = pages[v].root,
         NEW pages2, PageSet(n, pages, v, [path |-> pages[v].path, root |-> root, blocked |-> b], pages2)
  PROVE  PagesOK(g, n, pages2, p) /\ \A w \in 1..n : pages2[w].path = pages[w].path
<1> DEFINE x == [path |-> pages[v].path, root |-> root, blocked |-> b]
<1>1. /\ n \in Nat /\ n <= scenario.visits /\ p \in Address
      /\ \A w \in 1..n : PageOK(g, pages[w])
      /\ n > 0 => Rooted(g, pages[n], p)
  BY DEF PagesOK
<1>2. x.path = pages[v].path /\ x.root = root /\ x.blocked = b
  OBVIOUS
<1>3. PageSet(n, pages, v, x, pages2)
  OBVIOUS
<1>4. x = [path |-> x.path, root |-> x.root, blocked |-> x.blocked]
  BY <1>2
<1> HIDE DEF x
<1>5. PageOK(g, x) /\ (v = n => Rooted(g, x, p))
  <2>1. x.path \in Address
    BY <1>1, <1>2 DEF PageOK
  <2>2. v = n => n > 0
    BY <1>1
  <2> QED BY <1>1, <1>2, <1>4, <2>1, <2>2 DEF PageOK, Rooted
<1>7. \A w \in 1..n : pages2[w] = IF w = v THEN x ELSE pages[w]
  BY <1>3 DEF PageSet
<1>8. pages2 = [w \in 1..n |-> pages2[w]]
  BY <1>3 DEF PageSet
<1>9. \A w \in 1..n : PageOK(g, pages2[w]) /\ pages2[w].path = pages[w].path
  BY <1>1, <1>2, <1>5, <1>7
<1>10. n > 0 => Rooted(g, pages2[n], p)
  <2>1. n > 0 => n \in 1..n
    BY <1>1
  <2> QED BY <1>1, <1>5, <1>7, <2>1
<1> QED BY <1>1, <1>8, <1>9, <1>10 DEF PagesOK

LEMMA SetShown ==
  ASSUME NEW g, NEW n, NEW pages, NEW p, PagesOK(g, n, pages, p),
         NEW v \in 1..n, pages[v].path \in Id \cup {Create}, NEW b,
         NEW root \in Used(g), g[root].id = KeyOf(pages[v].path)
  PROVE  /\ PagesOK(g, n, SetRoot(pages, v, root, b), p)
         /\ \A w \in 1..n : SetRoot(pages, v, root, b)[w].path = pages[w].path
         /\ PagesOK(g, n, PutRoot(pages, v, root), p)
         /\ \A w \in 1..n : PutRoot(pages, v, root)[w].path = pages[w].path
<1> DEFINE pages2 == SetRoot(pages, v, root, b)
           pages3 == PutRoot(pages, v, root)
           d == pages[v].blocked
<1>1. /\ PageSet(n, pages, v, [path |-> pages[v].path, root |-> root, blocked |-> b], pages2)
      /\ PageSet(n, pages, v, [path |-> pages[v].path, root |-> root, blocked |-> d], pages3)
  BY SetIs
<1> HIDE DEF pages2, pages3, d
<1>2. PagesOK(g, n, pages2, p) /\ \A w \in 1..n : pages2[w].path = pages[w].path
  BY <1>1, RootShown
<1>3. PagesOK(g, n, pages3, p) /\ \A w \in 1..n : pages3[w].path = pages[w].path
  BY <1>1, RootShown
<1> QED BY <1>2, <1>3 DEF pages2, pages3

LEMMA SetBlockedShown ==
  ASSUME NEW g, NEW n, NEW pages, NEW p, PagesOK(g, n, pages, p), NEW v \in 1..n, NEW b
  PROVE  /\ PagesOK(g, n, SetBlocked(pages, v, b), p)
         /\ \A w \in 1..n : SetBlocked(pages, v, b)[w].path = pages[w].path
<1> DEFINE pages2 == SetBlocked(pages, v, b)
           root == pages[v].root
<1>1. PageSet(n, pages, v, [path |-> pages[v].path, root |-> root, blocked |-> b], pages2)
  BY SetIs
<1>2. root = pages[v].root
  OBVIOUS
<1> HIDE DEF pages2, root
<1>3. PagesOK(g, n, pages2, p) /\ \A w \in 1..n : pages2[w].path = pages[w].path
  BY <1>1, <1>2, RootShown
<1> QED BY <1>3 DEF pages2

LEMMA PagesRenamed ==
  ASSUME NEW g, NEW n, NEW pages, NEW p, PagesOK(g, n, pages, p), NEW p2 \in Id,
         Draft \notin Id, Create \notin Id,
         NEW g2, \A o \in Used(g) : o \in Used(g2) /\ (g2[o].id = g[o].id \/ g[o].id = Draft)
  PROVE  PagesOK(g2, n, pages, p2)
<1>1. /\ n \in Nat /\ n <= scenario.visits /\ p2 \in Address /\ p2 # Create
      /\ pages = [v \in 1..n |-> pages[v]]
      /\ \A v \in 1..n : PageOK(g, pages[v])
      /\ n > 0 => Rooted(g, pages[n], p)
  BY DEF PagesOK, Address
<1>2. \A v \in 1..n : PageOK(g2, pages[v])
  BY <1>1 DEF PageOK
<1>3. ASSUME n > 0 PROVE Rooted(g2, pages[n], p2)
  <2>1. PageOK(g, pages[n]) /\ Rooted(g, pages[n], p)
    BY <1>1, <1>3
  <2> QED BY <1>1, <2>1 DEF PageOK, Rooted, KeyOf
<1> QED BY <1>1, <1>2, <1>3 DEF PagesOK

LEMMA SendersStay ==
  ASSUME NEW g, NEW n, NEW pages, NEW sent, NEW from, SendersOK(g, n, pages, sent, from),
         NEW g2, Used(g) \subseteq Used(g2),
         NEW n2, NEW pages2, \A v \in 1..n : v \in 1..n2 /\ pages2[v].path = pages[v].path,
         n \in Nat, n2 \in Nat, n <= n2
  PROVE  SendersOK(g2, n2, pages2, sent, from)
<1>1. Sender(g, n) \subseteq Sender(g2, n2)
  <2>1. 0..n \subseteq 0..n2
    OBVIOUS
  <2> QED BY <2>1 DEF Sender
<1> QED BY <1>1 DEF SendersOK

LEMMA SenderAdded ==
  ASSUME NEW g, NEW n, NEW pages, NEW sent, NEW from, SendersOK(g, n, pages, sent, from),
         NEW r \in Request, NEW sent2, NEW from2, DOMAIN from2 = Request,
         \A y \in Request : y # r => sent2[y] = sent[y] /\ from2[y] = from[y],
         from2[r] \in Sender(g, n),
         sent2[r].op = "graph" /\ from2[r].editor = None =>
            /\ sent2[r].id \in Id /\ from2[r].visit \in 1..n
            /\ pages[from2[r].visit].path = sent2[r].id
  PROVE  SendersOK(g, n, pages, sent2, from2)
BY DEF SendersOK

\* A request and its answer.
LEMMA SendsIs ==
  ASSUME NEW g, NEW n, NEW pages, SendersOK(g, n, pages, request, sender), DOMAIN request = Request,
         NEW r \in Request, NEW op, NEW o, NEW id, NEW fields, Send(r, op, o, id, fields),
         NEW e \in Used(g) \cup {None}, Sends(r, e), visit' \in 0..n,
         op = "graph" /\ e = None => id \in Id /\ visit' \in 1..n /\ pages[visit'].path = id
  PROVE  SendersOK(g, n, pages, request', sender')
<1> DEFINE q == [op |-> op, obj |-> o, id |-> id, fields |-> fields, reply |-> NotServed]
           x == [visit |-> visit', editor |-> e]
<1>1. q.op = op /\ q.id = id
  OBVIOUS
<1>2. x \in Sender(g, n) /\ x.visit = visit' /\ x.editor = e
  BY DEF Sender
<1>3. request' = [request EXCEPT ![r] = q] /\ sender' = [sender EXCEPT ![r] = x]
  BY DEF Send, Sends
<1> HIDE DEF q, x
<1>4. DOMAIN sender = Request
  BY DEF SendersOK
<1>5. /\ DOMAIN sender' = Request /\ sender'[r] = x /\ request'[r] = q
      /\ \A y \in Request : y # r => request'[y] = request[y] /\ sender'[y] = sender[y]
  BY <1>3, <1>4
<1> QED BY <1>1, <1>2, <1>5, SenderAdded

Answering(r) ==
    \A y \in Request : request'[y] # None =>
        /\ request[y] # None
        /\ request'[y].op = request[y].op /\ request'[y].id = request[y].id

LEMMA SendersAnswered ==
  ASSUME NEW g, NEW n, NEW pages, SendersOK(g, n, pages, request, sender), NEW r, Answering(r),
         DOMAIN sender' = Request,
         \A y \in Request : request'[y] # None => sender'[y] = sender[y]
  PROVE  SendersOK(g, n, pages, request', sender')
BY DEF SendersOK, Answering

LEMMA ReplyAnswers ==
  ASSUME NEW r \in Request, DOMAIN request = Request, request[r] # None, request[r] \in Sent,
         NEW reply, request' = [request EXCEPT ![r] = [request[r] EXCEPT !.reply = reply]]
  PROVE  Answering(r)
<1> DEFINE q == [request[r] EXCEPT !.reply = reply]
<1>1. q.op = request[r].op /\ q.id = request[r].id
  BY DEF Sent
<1> HIDE DEF q
<1>2. \A y \in Request : request'[y] = IF y = r THEN q ELSE request[y]
  BY DEF q
<1> QED BY <1>1, <1>2 DEF Answering

LEMMA DoneAnswers ==
  ASSUME NEW r \in Request, DOMAIN request = Request, Done(r), Forget(r), DOMAIN sender = Request
  PROVE  /\ Answering(r) /\ DOMAIN sender' = Request
         /\ \A y \in Request : request'[y] # None => sender'[y] = sender[y]
BY DEF Done, Forget, Answering

LEMMA AppendIs ==
  ASSUME NEW n \in Nat, NEW s, s = [v \in 1..n |-> s[v]], NEW x
  PROVE  /\ Append(s, x) = [v \in 1..(n + 1) |-> IF v = n + 1 THEN x ELSE s[v]]
         /\ Len(s) = n
<1> DEFINE S == {s[v] : v \in 1..n} \cup {x}
           t == Append(s, x)
           u == [v \in 1..(n + 1) |-> IF v = n + 1 THEN x ELSE s[v]]
<1>1. s \in [1..n -> S]
  OBVIOUS
<1>2. x \in S
  OBVIOUS
<1> HIDE DEF S
<1>3. s \in Seq(S) /\ Len(s) = n
  BY <1>1
<1>4. /\ t \in Seq(S) /\ Len(t) = n + 1
      /\ \A v \in 1..n : t[v] = s[v]
      /\ t[n + 1] = x
  BY <1>2, <1>3, AppendProperties
<1>5. t = [v \in 1..(n + 1) |-> t[v]]
  <2> HIDE DEF t
  <2> QED BY <1>4, LenProperties
<1>6. \A v \in 1..(n + 1) : t[v] = u[v]
  <2>1. \A v \in 1..(n + 1) : v = n + 1 \/ v \in 1..n
    OBVIOUS
  <2>2. \A v \in 1..(n + 1) : t[v] = IF v = n + 1 THEN x ELSE s[v]
    <3> HIDE DEF t
    <3> QED BY <1>4, <2>1
  <2> HIDE DEF t
  <2> QED BY <2>2
<1>7. u = [v \in 1..(n + 1) |-> u[v]]
  OBVIOUS
<1> HIDE DEF t, u
<1>8. t = u
  BY <1>5, <1>6, <1>7
<1> QED BY <1>3, <1>8 DEF t, u

-----------------------------------------------------------------------------
(***************************************************************************)
(* What is seen from a node: other nodes.                                  *)
(***************************************************************************)
LEMMA SizeIs ==
  ASSUME NEW g, Proper(g)
  PROVE  Size(g) \in Nat
<1>1. IsFiniteSet(Used(g))
  BY DEF Proper
<1>2. Size(g) = Cardinality(Used(g))
  BY DEF Size, Used
<1> QED BY <1>1, <1>2, FS_CardinalityType

LEMMA ChildrenUsed ==
  ASSUME NEW g, Proper(g), NEW o \in Used(g)
  PROVE  Children(g, o) \subseteq Used(g)
BY DEF Proper, Linked

LEMMA DescendantsUsed ==
  ASSUME NEW g, Proper(g), NEW o \in Used(g)
  PROVE  DescendantsOf(g, o) \subseteq Used(g)
<1> DEFINE below == [x \in Obj |-> Children(g, x)]
           n == Size(g)
           S == Children(g, o)
<1>1. \A x \in Used(g) : below[x] \subseteq Used(g)
  BY ChildrenUsed DEF Used
<1>2. S \in SUBSET Used(g) /\ n \in Nat
  BY ChildrenUsed, SizeIs
<1>3. DescendantsOf(g, o) = Reached(S, below, n)
  BY DEF DescendantsOf
<1> HIDE DEF below, n, S
<1>4. Reached(S, below, n) \subseteq Used(g)
  BY <1>1, <1>2, ReachedIs
<1> QED BY <1>3, <1>4

LEMMA AncestorsUsed ==
  ASSUME NEW g, Proper(g), NEW root \in Used(g), NEW o
  PROVE  AncestorsBelow(g, root, o) \subseteq Used(g)
BY DescendantsUsed DEF AncestorsBelow

LEMMA ChainUsed ==
  ASSUME NEW g, Proper(g), NEW root \in Used(g)
  PROVE  Chain(g, root) \subseteq Used(g)
<1> DEFINE below == [o \in Obj |-> IF Len(g[o].children) = 1 THEN Children(g, o) ELSE {}]
           n == Size(g)
           S == {root}
<1>1. \A x \in Used(g) : below[x] \subseteq Used(g)
  BY ChildrenUsed DEF Used
<1>2. S \in SUBSET Used(g) /\ n \in Nat
  BY SizeIs
<1>3. Chain(g, root) = Reached(S, below, n)
  BY DEF Chain
<1> HIDE DEF below, n, S
<1>4. Reached(S, below, n) \subseteq Used(g)
  BY <1>1, <1>2, ReachedIs
<1> QED BY <1>3, <1>4

LEMMA DisplayedUsed ==
  ASSUME Proper(heap.node), Current.root \in Used(heap.node)
  PROVE  Displayed \subseteq Used(heap.node)
<1> DEFINE g == heap.node
           below == [o \in Obj |-> IF o \in shown THEN Children(g, o) ELSE {}]
           n == Size(g)
           S == {Current.root} \cup Children(g, Current.root)
<1>1. \A x \in Used(g) : below[x] \subseteq Used(g)
  BY ChildrenUsed DEF Used
<1>2. S \in SUBSET Used(g) /\ n \in Nat
  BY ChildrenUsed, SizeIs
<1>3. Displayed = Reached(S, below, n)
  BY DEF Displayed
<1> HIDE DEF below, n, S
<1>4. Reached(S, below, n) \subseteq Used(g)
  BY <1>1, <1>2, ReachedIs
<1> QED BY <1>3, <1>4

LEMMA RevealUsed ==
  ASSUME NEW g, Proper(g), NEW nodes \in SUBSET Used(g), NEW also \in SUBSET Used(g),
         LooksOK(g, selected, shown, editing), RevealChildren(g, nodes, also)
  PROVE  LooksOK(g, selected', shown', editing)
<1>1. UNION {Leaves(g, o) : o \in nodes} \subseteq Used(g)
  BY ChildrenUsed DEF Leaves
<1> DEFINE leaves == UNION {Leaves(g, o) : o \in nodes}
<1>2. /\ shown' = shown \cup nodes
      /\ selected' = selected \cup leaves \cup also
  BY DEF RevealChildren
<1> HIDE DEF leaves
<1>3. leaves \subseteq Used(g)
  BY <1>1 DEF leaves
<1> QED BY <1>2, <1>3 DEF LooksOK

LEMMA ShowRootIs ==
  ASSUME NEW h, Proper(h.node), NEW pages, NEW v, NEW root \in Used(h.node),
         LooksOK(h.node, selected, shown, editing), ShowRoot(h, pages, v, root)
  PROVE  /\ LooksOK(h.node, selected', shown', editing)
         /\ page' = SetRoot(pages, v, root, Blocked(h.node, root))
<1> DEFINE nodes == {o \in Chain(h.node, root) : Len(h.node[o].children) = 1}
           none == {}
<1>1. nodes \in SUBSET Used(h.node) /\ none \in SUBSET Used(h.node)
  BY ChainUsed
<1>2. RevealChildren(h.node, nodes, none)
  BY DEF ShowRoot
<1> HIDE DEF nodes, none
<1>3. LooksOK(h.node, selected', shown', editing)
  BY <1>1, <1>2, RevealUsed
<1> QED BY <1>3 DEF ShowRoot, SetRoot

-----------------------------------------------------------------------------
(***************************************************************************)
(* What happens on a page.                                                 *)
(***************************************************************************)
LEMMA PageFacts ==
  ASSUME PageInv
  PROVE  /\ CacheInv /\ scenario \in Scenarios /\ ProperCache(heap) /\ Proper(heap.node)
         /\ PagesOK(heap.node, visit, page, path)
         /\ SendersOK(heap.node, visit, page, request, sender)
         /\ LooksOK(heap.node, selected, shown, editing)
         /\ visit \in Nat /\ path \in Address /\ scenario.visits \in Nat
         /\ Create \notin Id /\ Home \notin Id /\ Home # Create /\ Draft \notin Id /\ None \notin Id
         /\ None \notin Obj
         /\ DOMAIN request = Request
         /\ Named(heap.node, heap.node)
<1>1. /\ CacheInv
      /\ PagesOK(heap.node, visit, page, path)
      /\ SendersOK(heap.node, visit, page, request, sender)
      /\ LooksOK(heap.node, selected, shown, editing)
  BY DEF PageInv
<1>2. /\ scenario \in Scenarios /\ ProperCache(heap) /\ Proper(heap.node)
      /\ DOMAIN request = Request
  BY <1>1, Facts
<1>3. visit \in Nat /\ path \in Address
  BY <1>1 DEF PagesOK
<1> QED BY <1>1, <1>2, <1>3, AddressFacts DEF Named

\* On a page with a root there is this node.
LEMMA RootUsed ==
  ASSUME PageInv, OnPage
  PROVE  /\ visit \in 1..visit /\ Current.root \in Used(heap.node)
         /\ heap.node[Current.root].id = KeyOf(path) /\ page[visit].path = path
<1>1. PagesOK(heap.node, visit, page, path) /\ visit \in Nat
  BY PageFacts
<1>2. visit # 0 /\ page[visit].path = path /\ page[visit].root # None
  BY <1>1 DEF OnPage, Moving, Current
<1>3. visit \in 1..visit /\ visit > 0
  BY <1>1, <1>2
<1>4. PageOK(heap.node, page[visit]) /\ Rooted(heap.node, page[visit], path)
  BY <1>1, <1>3 DEF PagesOK
<1> QED BY <1>2, <1>3, <1>4 DEF PageOK, Rooted, Current

LEMMA CacheStays ==
  ASSUME CacheInv, UNCHANGED cacheVars
  PROVE  Kept /\ heap' = heap /\ request' = request /\ server' = server
BY Facts DEF Kept, cacheVars

\* What is shown of the old nodes holds of the new ones.
LEMMA PageStepKept ==
  ASSUME PageInv, Kept, Named(heap.node, heap'.node),
         PagesOK(heap.node, visit', page', path'),
         SendersOK(heap.node, visit', page', request', sender'),
         LooksOK(heap.node, selected', shown', editing')
  PROVE  PageKept
<1>1. PagesOK(heap'.node, visit', page', path')
  BY PagesStay
<1>2. Used(heap.node) \subseteq Used(heap'.node)
  BY DEF Named
<1>3. visit' \in Nat
  BY DEF PagesOK
<1>4. SendersOK(heap'.node, visit', page', request', sender')
  <2>1. \A v \in 1..visit' : v \in 1..visit' /\ page'[v].path = page'[v].path
    OBVIOUS
  <2>2. visit' <= visit'
    BY <1>3
  <2> QED BY <1>2, <1>3, <2>1, <2>2, SendersStay
<1>5. LooksOK(heap'.node, selected', shown', editing')
  BY <1>2 DEF LooksOK
<1> QED BY <1>1, <1>4, <1>5 DEF PageKept

\* A page is added.
LEMMA NextPageIs ==
  ASSUME PageInv, visit < scenario.visits
  PROVE  /\ PagesOK(heap.node, visit + 1, NextPage, path)
         /\ visit + 1 \in Nat /\ visit + 1 \in 1..(visit + 1)
         /\ NextPage[visit + 1] = [path |-> path, root |-> None, blocked |-> TRUE]
         /\ NextPage[visit + 1].path = path
         /\ SendersOK(heap.node, visit + 1, NextPage, request, sender)
<1> DEFINE x == [path |-> path, root |-> None, blocked |-> TRUE]
           n == visit
           pages2 == [v \in 1..(n + 1) |-> IF v = n + 1 THEN x ELSE page[v]]
<1>1. /\ PagesOK(heap.node, visit, page, path) /\ visit \in Nat /\ scenario.visits \in Nat
      /\ SendersOK(heap.node, visit, page, request, sender) /\ path \in Address
  BY PageFacts
<1>2. x.path = path /\ x.root = None /\ x.blocked = TRUE
  OBVIOUS
<1>3. x = [path |-> x.path, root |-> x.root, blocked |-> x.blocked]
  OBVIOUS
<1>4. PageOK(heap.node, x) /\ Rooted(heap.node, x, path)
  <2> HIDE DEF x
  <2> QED BY <1>1, <1>2, <1>3 DEF PageOK, Rooted
<1>5. NextPage = pages2
  <2>1. page = [v \in 1..n |-> page[v]]
    BY <1>1 DEF PagesOK
  <2>2. Append(page, x) = pages2
    <3> HIDE DEF x
    <3> QED BY <1>1, <2>1, AppendIs
  <2> QED BY <2>2 DEF NextPage
<1> HIDE DEF x
<1>6. PagesOK(heap.node, n + 1, NextPage, path) /\ \A v \in 1..n : v \in 1..(n + 1) /\ NextPage[v] = page[v]
  BY <1>1, <1>4, <1>5, PageAdded
<1>7. n + 1 \in Nat /\ n + 1 \in 1..(n + 1) /\ n <= n + 1
  BY <1>1
<1>8. NextPage[n + 1] = x
  BY <1>5, <1>7
<1>9. SendersOK(heap.node, n + 1, NextPage, request, sender)
  <2>1. \A v \in 1..n : v \in 1..(n + 1) /\ NextPage[v].path = page[v].path
    BY <1>6
  <2> QED BY <1>1, <1>7, <2>1, SendersStay
<1> QED BY <1>2, <1>6, <1>7, <1>8, <1>9 DEF x

LEMMA VisitHomeKept ==
  ASSUME PageInv, VisitHome
  PROVE  PageKept /\ Named(heap.node, heap'.node)
<1>1. /\ visit < scenario.visits /\ visit' = visit + 1 /\ page' = NextPage
      /\ UNCHANGED cacheVars /\ path' = path /\ sender' = sender /\ editing' = editing
      /\ selected' = selected /\ shown' = shown
  BY DEF VisitHome, Visit, lookVars
<1>2. Kept /\ heap' = heap /\ request' = request
  BY <1>1, CacheStays, PageFacts
<1> QED BY <1>1, <1>2, NextPageIs, PageFacts, PageStepKept

LEMMA VisitCachedKept ==
  ASSUME PageInv, VisitCached
  PROVE  PageKept /\ Named(heap.node, heap'.node)
<1> DEFINE root == heap.nodes[path]
           b == Blocked(heap.node, root)
           n == visit + 1
<1>1. /\ visit < scenario.visits /\ visit' = n /\ path \in Id /\ path \in DOMAIN heap.nodes
      /\ ShowRoot(heap, NextPage, n, root)
      /\ UNCHANGED cacheVars /\ path' = path /\ sender' = sender /\ editing' = editing
  BY DEF VisitCached, Visit, Cached
<1>2. Kept /\ heap' = heap /\ request' = request
  BY <1>1, CacheStays, PageFacts
<1>3. root \in Used(heap.node) /\ heap.node[root].id = path
  BY <1>1, PageFacts, CacheFacts
<1>4. KeyOf(path) = path
  BY <1>1, PageFacts DEF KeyOf
<1> HIDE DEF root, b, n
<1>5. /\ LooksOK(heap.node, selected', shown', editing)
      /\ page' = SetRoot(NextPage, n, root, b)
  BY <1>1, <1>3, PageFacts, ShowRootIs DEF b
<1>6. /\ PagesOK(heap.node, n, NextPage, path) /\ n \in 1..n /\ NextPage[n].path = path /\ n \in Nat
      /\ SendersOK(heap.node, n, NextPage, request, sender)
  BY <1>1, NextPageIs DEF n
<1>8. PagesOK(heap.node, n, page', path) /\ \A w \in 1..n : page'[w].path = NextPage[w].path
  BY <1>1, <1>3, <1>4, <1>5, <1>6, SetShown
<1>9. SendersOK(heap.node, n, page', request, sender)
  BY <1>6, <1>8, SendersStay
<1> QED BY <1>1, <1>2, <1>5, <1>8, <1>9, PageStepKept, PageFacts

LEMMA VisitCreateKept ==
  ASSUME Unlimited, PageInv, NEW type \in {"assertion", "source"}, VisitCreate(type)
  PROVE  PageKept /\ Named(heap.node, heap'.node)
<1> DEFINE o == heap'.nodes[Draft]
           n == visit + 1
<1>1. /\ visit < scenario.visits /\ visit' = n /\ path = Create
      /\ OpenBlankNode(type) \/ (Cached(Draft) /\ UNCHANGED cacheVars)
      /\ page' = PutRoot(NextPage, n, o)
      /\ editing' = editing \cup {o} /\ selected' = selected \cup {o} /\ shown' = shown
      /\ path' = path /\ sender' = sender
  BY DEF VisitCreate, Visit, PutRoot
<1>2. Kept /\ Named(heap.node, heap'.node) /\ Draft \in DOMAIN heap'.nodes /\ request' = request
  <2>1. CASE OpenBlankNode(type)
    BY <2>1, OpenBlankNodeKept, LaterNamed, PageFacts DEF OpenBlankNode
  <2>2. CASE Cached(Draft) /\ UNCHANGED cacheVars
    BY <2>2, CacheStays, PageFacts DEF Cached
  <2> QED BY <1>1, <2>1, <2>2
<1>3. ProperCache(heap')
  BY <1>2 DEF Kept, CacheOK
<1>4. o \in Used(heap'.node) /\ heap'.node[o].id = Draft
  BY <1>2, <1>3, CacheFacts
<1>5. KeyOf(path) = Draft
  BY <1>1 DEF KeyOf
<1>6. /\ PagesOK(heap.node, n, NextPage, path) /\ n \in 1..n /\ NextPage[n].path = path /\ n \in Nat
      /\ SendersOK(heap.node, n, NextPage, request, sender)
  BY <1>1, NextPageIs
<1> HIDE DEF o, n
<1>7. PagesOK(heap'.node, n, NextPage, path)
  BY <1>2, <1>6, PagesStay
<1>8. PagesOK(heap'.node, n, page', path) /\ \A w \in 1..n : page'[w].path = NextPage[w].path
  BY <1>1, <1>4, <1>5, <1>6, <1>7, SetShown
<1>9. Used(heap.node) \subseteq Used(heap'.node)
  BY <1>2 DEF Named
<1>10. SendersOK(heap'.node, n, page', request, sender)
  BY <1>6, <1>8, <1>9, SendersStay
<1>11. LooksOK(heap'.node, selected', shown', editing')
  BY <1>1, <1>4, <1>9, PageFacts DEF LooksOK
<1> QED BY <1>1, <1>2, <1>8, <1>10, <1>11 DEF PageKept

LEMMA VisitFetchedKept ==
  ASSUME PageInv, NEW r \in Request, VisitFetched(r)
  PROVE  PageKept /\ Named(heap.node, heap'.node)
<1> DEFINE n == visit + 1
<1>1. /\ visit < scenario.visits /\ visit' = n /\ path \in Id
      /\ FetchGraphForId(r, path) /\ page' = NextPage /\ Sends(r, None)
      /\ path' = path /\ editing' = editing /\ selected' = selected /\ shown' = shown
  BY DEF VisitFetched, Visit, lookVars
<1>2. Kept
  BY <1>1, FetchKept, PageFacts
<1>3. heap' = heap /\ Send(r, "graph", None, path, None)
  BY <1>1 DEF FetchGraphForId
<1>4. /\ PagesOK(heap.node, n, NextPage, path) /\ n \in 1..n /\ NextPage[n].path = path /\ n \in Nat
      /\ SendersOK(heap.node, n, NextPage, request, sender)
  BY <1>1, NextPageIs
<1> HIDE DEF n
<1>5. visit' \in 0..n
  BY <1>1, <1>4
<1>6. SendersOK(heap.node, n, NextPage, request', sender')
  BY <1>1, <1>3, <1>4, <1>5, SendsIs, PageFacts
<1> QED BY <1>1, <1>2, <1>3, <1>4, <1>6, PageStepKept, PageFacts

LEMMA NavigateKept ==
  ASSUME PageInv, NEW p \in Id \cup {Home, Create}, Navigate(p)
  PROVE  PageKept /\ Named(heap.node, heap'.node)
<1>1. /\ ~Moving /\ path' = p /\ visit' = visit /\ page' = page /\ sender' = sender
      /\ UNCHANGED cacheVars /\ editing' = editing /\ selected' = selected /\ shown' = shown
  BY DEF Navigate, lookVars
<1>2. Kept /\ heap' = heap /\ request' = request
  BY <1>1, CacheStays, PageFacts
<1>3. visit # 0 /\ page[visit].path = path
  BY <1>1, PageFacts DEF Moving
<1>4. p \in Address
  BY DEF Address
<1>5. PagesOK(heap.node, visit, page, p)
  BY <1>3, <1>4, PathNavigated, PageFacts
<1> QED BY <1>1, <1>2, <1>5, PageStepKept, PageFacts

\* What the user looks at changes, and nothing else.
LEMMA LookKept ==
  ASSUME PageInv, UNCHANGED <<cacheVars, path, visit, page, sender>>,
         LooksOK(heap.node, selected', shown', editing')
  PROVE  PageKept /\ Named(heap.node, heap'.node)
<1>1. Kept /\ heap' = heap /\ request' = request
  BY CacheStays, PageFacts
<1> QED BY <1>1, PageStepKept, PageFacts

LEMMA ShownAreUsed ==
  ASSUME PageInv, OnPage
  PROVE  /\ Displayed \subseteq Used(heap.node)
         /\ {Current.root} \cup DescendantsOf(heap.node, Current.root) \subseteq Used(heap.node)
BY RootUsed, DisplayedUsed, DescendantsUsed, PageFacts

LEMMA LookingKept ==
  ASSUME PageInv, OnPage, NEW o \in Used(heap.node),
         ToggleSelect(o) \/ ToggleChildren(o) \/ EnterEditMode(o) \/ SpotlightNode(o)
  PROVE  PageKept /\ Named(heap.node, heap'.node)
<1>1. UNCHANGED <<cacheVars, path, visit, page, sender>>
  BY DEF ToggleSelect, ToggleChildren, EnterEditMode, SpotlightNode
<1>2. LooksOK(heap.node, selected, shown, editing) /\ Proper(heap.node)
  BY PageFacts
<1>3. CASE ToggleSelect(o)
  <2>1. /\ selected' \subseteq selected \cup {o} /\ shown' = shown /\ editing' = editing
    BY <1>3 DEF ToggleSelect
  <2> QED BY <1>1, <1>2, <2>1, LookKept DEF LooksOK
<1>4. CASE ToggleChildren(o)
  <2> DEFINE one == {o}
             none == {}
  <2>1. one \in SUBSET Used(heap.node) /\ none \in SUBSET Used(heap.node)
    OBVIOUS
  <2>2. editing' = editing
    BY <1>4 DEF ToggleChildren
  <2>3. CASE o \in shown
    <3>1. shown' \subseteq shown /\ selected' = selected
      BY <1>4, <2>3 DEF ToggleChildren
    <3> QED BY <1>1, <1>2, <2>2, <3>1, LookKept DEF LooksOK
  <2>4. CASE o \notin shown
    <3>1. RevealChildren(heap.node, one, none)
      BY <1>4, <2>4 DEF ToggleChildren
    <3> HIDE DEF one, none
    <3>2. LooksOK(heap.node, selected', shown', editing)
      BY <1>2, <2>1, <3>1, RevealUsed
    <3> QED BY <1>1, <2>2, <3>2, LookKept
  <2> QED BY <2>3, <2>4
<1>5. CASE EnterEditMode(o)
  <2>1. editing' = editing \cup {o} /\ selected' = selected /\ shown' = shown
    BY <1>5 DEF EnterEditMode
  <2> QED BY <1>1, <1>2, <2>1, LookKept DEF LooksOK
<1>6. CASE SpotlightNode(o)
  <2> DEFINE nodes == AncestorsBelow(heap.node, Current.root, o)
             one == {o}
  <2>1. nodes \in SUBSET Used(heap.node) /\ one \in SUBSET Used(heap.node)
    BY <1>2, AncestorsUsed, RootUsed
  <2>2. RevealChildren(heap.node, nodes, one) /\ editing' = editing
    BY <1>6 DEF SpotlightNode
  <2> HIDE DEF nodes, one
  <2>3. LooksOK(heap.node, selected', shown', editing)
    BY <1>2, <2>1, <2>2, RevealUsed
  <2> QED BY <1>1, <2>2, <2>3, LookKept
<1> QED BY <1>3, <1>4, <1>5, <1>6

\* A request of the page that is there.
LEMMA AskKept ==
  ASSUME PageInv, NEW r \in Request, NEW op, NEW o, NEW id, NEW fields,
         Send(r, op, o, id, fields), Kept, Named(heap.node, heap'.node),
         NEW e \in Used(heap.node) \cup {None}, op # "graph" \/ e # None, Sends(r, e),
         UNCHANGED <<path, visit, page, editing, selected, shown>>
  PROVE  PageKept
<1>1. visit' \in 0..visit
  BY PageFacts
<1>2. SendersOK(heap.node, visit, page, request', sender')
  BY <1>1, SendsIs, PageFacts
<1> QED BY <1>2, PageStepKept, PageFacts

LEMMA AskingKept ==
  ASSUME PageInv, NEW r \in Request,
         EditPublic(r) \/ (OnPage /\ \E o \in Displayed : Publish(r, o)) \/ Discard(r)
            \/ \E id \in Id : AskDetail(r, id)
  PROVE  PageKept /\ Named(heap.node, heap'.node)
<1>1. CacheInv /\ Named(heap.node, heap.node)
  BY PageFacts
<1>2. CASE EditPublic(r)
  <2>1. Current.root \in Used(heap.node)
    BY <1>2, RootUsed DEF EditPublic
  <2>2. /\ MakeDraft(r, Current.root) /\ Sends(r, None)
        /\ UNCHANGED <<path, visit, page, editing, selected, shown>>
    BY <1>2 DEF EditPublic, lookVars
  <2>3. Kept
    BY <1>1, <2>1, <2>2, MakeDraftKept
  <2>4. heap' = heap /\ Send(r, "makeDraft", Current.root, heap.node[Current.root].id, None)
    BY <2>2 DEF MakeDraft
  <2> QED BY <1>1, <2>2, <2>3, <2>4, AskKept
<1>3. CASE OnPage /\ \E o \in Displayed : Publish(r, o)
  <2>1. PICK o \in Displayed : Publish(r, o)
    BY <1>3
  <2>2. o \in Used(heap.node)
    BY <1>3, ShownAreUsed
  <2>3. /\ PublishNode(r, o) /\ Sends(r, None)
        /\ UNCHANGED <<path, visit, page, editing, selected, shown>>
    BY <2>1 DEF Publish, lookVars
  <2>4. Kept /\ Named(heap.node, heap'.node)
    BY <1>1, <2>2, <2>3, PublishNodeKept, LaterNamed
  <2>5. Send(r, "publish", o, heap.node[o].id, None)
    BY <2>3 DEF PublishNode
  <2> QED BY <2>3, <2>4, <2>5, AskKept
<1>4. CASE Discard(r)
  <2>1. Current.root \in Used(heap.node)
    BY <1>4, RootUsed DEF Discard
  <2>2. /\ DiscardDraft(r, Current.root) /\ Sends(r, None)
        /\ UNCHANGED <<path, visit, page, editing, selected, shown>>
    BY <1>4 DEF Discard, lookVars
  <2>3. Kept
    BY <1>1, <2>1, <2>2, DiscardDraftKept
  <2>4. heap' = heap /\ Send(r, "discard", Current.root, heap.node[Current.root].id, None)
    BY <2>2 DEF DiscardDraft
  <2> QED BY <1>1, <2>2, <2>3, <2>4, AskKept
<1>5. CASE \E id \in Id : AskDetail(r, id)
  <2>1. PICK id \in Id : AskDetail(r, id)
    BY <1>5
  <2>2. /\ FetchDetail(r, id) /\ Sends(r, None)
        /\ UNCHANGED <<path, visit, page, editing, selected, shown>>
    BY <2>1 DEF AskDetail
  <2>3. Kept
    BY <1>1, <2>2, FetchKept
  <2>4. heap' = heap /\ Send(r, "detail", None, id, None)
    BY <2>2 DEF FetchDetail
  <2> QED BY <1>1, <2>2, <2>3, <2>4, AskKept
<1> QED BY <1>2, <1>3, <1>4, <1>5

-----------------------------------------------------------------------------
(***************************************************************************)
(* Answers on a page.                                                      *)
(***************************************************************************)
LEMMA ServeAnswers ==
  ASSUME CacheInv, NEW r \in Request, Serve(r) \/ Refuse(r) \/ LoseAnswer(r)
  PROVE  Answering(r) /\ heap' = heap
<1>1. DOMAIN request = Request /\ (request[r] # None => request[r] \in Sent)
  BY Facts DEF ProperRequest
<1>2. request[r] # None /\ heap' = heap
  BY DEF Serve, ServeCreate, ServeEdit, ServeMakeDraft, ServePublish, ServeDiscard, ServeQuery,
         Refuse, LoseAnswer, Open
<1>3. \E reply : request' = [request EXCEPT ![r] = [request[r] EXCEPT !.reply = reply]]
  <2>1. CASE Serve(r)
    <3>1. \E root, db : Answer(r, root, db)
      BY <2>1 DEF Serve, ServeCreate, ServeEdit, ServeMakeDraft, ServePublish, ServeDiscard, ServeQuery
    <3>2. PICK root, db : Answer(r, root, db)
      BY <3>1
    <3> QED BY <3>2, AnswerIs
  <2>2. CASE Refuse(r) \/ LoseAnswer(r)
    <3> DEFINE no == [NotServed EXCEPT !.served = TRUE]
    <3>1. request' = [request EXCEPT ![r].reply = no]
      BY <2>2 DEF Refuse, LoseAnswer
    <3> HIDE DEF no
    <3> QED BY <3>1
  <2> QED BY <2>1, <2>2
<1> QED BY <1>1, <1>2, <1>3, ReplyAnswers

LEMMA ServerStepKept ==
  ASSUME PageInv, NEW r \in Request, ServerStep(r)
  PROVE  PageKept /\ Named(heap.node, heap'.node)
<1>1. (Serve(r) \/ Refuse(r) \/ LoseAnswer(r)) /\ UNCHANGED pageVars
  BY DEF ServerStep
<1>2. CacheInv
  BY PageFacts
<1>3. Kept
  BY <1>1, <1>2, ServeCreateKept, ServeEditKept, ServeMakeDraftKept, ServePublishKept,
     ServeDiscardKept, ServeQueryKept, RefuseKept DEF Serve
<1>4. Answering(r) /\ heap' = heap
  BY <1>1, <1>2, ServeAnswers
<1>5. /\ path' = path /\ visit' = visit /\ page' = page /\ sender' = sender /\ editing' = editing
      /\ selected' = selected /\ shown' = shown
  BY <1>1 DEF pageVars, lookVars
<1>6. SendersOK(heap.node, visit, page, request', sender')
  <2>1. SendersOK(heap.node, visit, page, request, sender)
    BY PageFacts
  <2>2. DOMAIN sender' = Request
    BY <1>5, <2>1 DEF SendersOK
  <2> QED BY <1>4, <1>5, <2>1, <2>2, SendersAnswered
<1> QED BY <1>3, <1>4, <1>5, <1>6, PageStepKept, PageFacts

\* What every answer on a page does to the cache and to what was sent.
LEMMA ArrivedIs ==
  ASSUME Unlimited, PageInv, NEW r \in Request, Receive(r), Forget(r),
         request[r].op \notin {"blank", "support"}
  PROVE  /\ Kept /\ heap' \in Later(heap) /\ Named(heap.node, heap'.node)
         /\ request[r] # None /\ ProperRequest(heap.node, request[r]) /\ request[r].reply.ok
         /\ heap' = Answered(heap, request[r])
         /\ SendersOK(heap.node, visit, page, request', sender')
<1>1. /\ request[r] # None /\ request[r].reply.ok /\ heap' = Answered(heap, request[r]) /\ Done(r)
  BY DEF Receive
<1>2. Kept /\ heap' \in Later(heap)
  BY ReceiveKept, PageFacts
<1>3. ProperRequest(heap.node, request[r])
  BY <1>1, PageFacts, Facts
<1>4. SendersOK(heap.node, visit, page, request, sender)
  BY PageFacts
<1>5. Answering(r) /\ DOMAIN sender' = Request
      /\ \A y \in Request : request'[y] # None => sender'[y] = sender[y]
  <2>1. DOMAIN sender = Request
    BY <1>4 DEF SendersOK
  <2> QED BY <1>1, <2>1, DoneAnswers, PageFacts
<1>6. SendersOK(heap.node, visit, page, request', sender')
  BY <1>4, <1>5, SendersAnswered
<1> QED BY <1>1, <1>2, <1>3, <1>6, LaterNamed

LEMMA GraphArrivesKept ==
  ASSUME Unlimited, PageInv, NEW r \in Request, GraphArrives(r)
  PROVE  PageKept /\ Named(heap.node, heap'.node)
<1> DEFINE v == sender[r].visit
           id == request[r].id
           root == heap'.nodes[id]
           b == Blocked(heap'.node, root)
<1>1. /\ Receive(r) /\ request[r].op = "graph" /\ sender[r].editor = None /\ Forget(r)
      /\ ShowRoot(heap', page, v, root)
      /\ path' = path /\ visit' = visit /\ editing' = editing
  BY DEF GraphArrives, Answers
<1>2. /\ Kept /\ heap' \in Later(heap) /\ Named(heap.node, heap'.node)
      /\ request[r] # None /\ ProperRequest(heap.node, request[r]) /\ request[r].reply.ok
      /\ heap' = Answered(heap, request[r])
      /\ SendersOK(heap.node, visit, page, request', sender')
  BY <1>1, ArrivedIs
<1>3. ProperCache(heap') /\ Proper(heap'.node)
  BY <1>2, LaterNamed, CacheFacts
<1>4. id \in DOMAIN heap'.nodes
  <2>1. request[r].reply.root = id
    BY <1>1, <1>2 DEF ProperRequest
  <2>2. scenario \in Scenarios /\ ProperCache(heap)
    BY PageFacts
  <2> QED BY <1>1, <1>2, <2>1, <2>2, AnsweredLater
<1>5. root \in Used(heap'.node) /\ heap'.node[root].id = id
  BY <1>3, <1>4, CacheFacts
<1>6. /\ id \in Id /\ v \in 1..visit /\ page[v].path = id
  BY <1>1, <1>2, PageFacts DEF SendersOK
<1>7. page[v].path \in Id \cup {Create} /\ heap'.node[root].id = KeyOf(page[v].path)
  BY <1>5, <1>6, PageFacts DEF KeyOf
<1>8. Used(heap.node) \subseteq Used(heap'.node)
  BY <1>2 DEF Named
<1>9. LooksOK(heap'.node, selected, shown, editing)
  BY <1>8, PageFacts DEF LooksOK
<1> HIDE DEF v, id, root, b
<1>10. LooksOK(heap'.node, selected', shown', editing) /\ page' = SetRoot(page, v, root, b)
  BY <1>1, <1>3, <1>5, <1>9, ShowRootIs DEF b
<1>11. PagesOK(heap'.node, visit, page, path)
  BY <1>2, PagesStay, PageFacts
<1>12. PagesOK(heap'.node, visit, page', path) /\ \A w \in 1..visit : page'[w].path = page[w].path
  BY <1>5, <1>6, <1>7, <1>10, <1>11, SetShown
<1>13. visit \in Nat /\ visit <= visit /\ \A w \in 1..visit : w \in 1..visit /\ page'[w].path = page[w].path
  BY <1>12, PageFacts
<1>14. SendersOK(heap'.node, visit, page', request', sender')
  BY <1>2, <1>8, <1>13, SendersStay
<1> QED BY <1>1, <1>2, <1>10, <1>12, <1>14 DEF PageKept

\* An answer that leads to another address, or to none.
LEMMA ArrivedKept ==
  ASSUME Unlimited, PageInv, NEW r \in Request, Receive(r), Forget(r),
         request[r].op \notin {"blank", "support"},
         path' = path \/ (path' \in Address /\ path' # Create), UNCHANGED <<visit, page>>,
         LooksOK(heap'.node, selected', shown', editing')
  PROVE  PageKept /\ Named(heap.node, heap'.node)
<1>1. Kept /\ Named(heap.node, heap'.node) /\ SendersOK(heap.node, visit, page, request', sender')
  BY ArrivedIs
<1>2. PagesOK(heap.node, visit, page, path) /\ visit \in Nat
  BY PageFacts
<1>3. PagesOK(heap.node, visit, page, path')
  BY <1>2, PathChanges
<1>4. PagesOK(heap'.node, visit, page, path')
  BY <1>1, <1>3, PagesStay
<1>5. Used(heap.node) \subseteq Used(heap'.node)
  BY <1>1 DEF Named
<1>6. visit <= visit /\ \A w \in 1..visit : w \in 1..visit /\ page[w].path = page[w].path
  BY <1>2
<1>7. SendersOK(heap'.node, visit, page, request', sender')
  BY <1>1, <1>2, <1>5, <1>6, SendersStay
<1> QED BY <1>1, <1>4, <1>7 DEF PageKept

LEMMA RootAnswered ==
  ASSUME PageInv, NEW r \in Request, Receive(r), request[r].op \notin {"discard", "choices"}
  PROVE  request[r].reply.root \in Address /\ request[r].reply.root # Create
<1>1. ProperRequest(heap.node, request[r]) /\ request[r].reply.ok
  BY PageFacts, Facts DEF Receive
<1>2. ProperDb(request[r].reply.db) /\ request[r].reply.root \in DOMAIN request[r].reply.db
  BY <1>1 DEF ProperRequest
<1>3. request[r].reply.root \in Id
  BY <1>2, DbIs
<1> QED BY <1>3, PageFacts DEF Address

LEMMA DraftArrivesKept ==
  ASSUME Unlimited, PageInv, NEW r \in Request, DraftArrives(r)
  PROVE  PageKept /\ Named(heap.node, heap'.node)
<1> DEFINE draft == heap'.nodes[request[r].reply.root]
<1>1. /\ Receive(r) /\ request[r].op = "makeDraft" /\ Forget(r)
      /\ path' = request[r].reply.root
      /\ editing' = editing \cup {draft} /\ selected' = selected \cup {draft}
      /\ UNCHANGED <<visit, page, shown>>
  BY DEF DraftArrives, Answers
<1>2. /\ heap' \in Later(heap) /\ Named(heap.node, heap'.node)
      /\ ProperRequest(heap.node, request[r]) /\ request[r].reply.ok
      /\ heap' = Answered(heap, request[r])
  BY <1>1, ArrivedIs
<1>3. draft \in Used(heap'.node)
  <2>1. request[r].reply.root \in DOMAIN heap'.nodes
    BY <1>1, <1>2, PageFacts, AnsweredLater
  <2>2. ProperCache(heap')
    BY <1>2, LaterNamed
  <2> QED BY <2>1, <2>2, CacheFacts
<1> HIDE DEF draft
<1>4. Used(heap.node) \subseteq Used(heap'.node)
  BY <1>2 DEF Named
<1>5. LooksOK(heap'.node, selected', shown', editing')
  BY <1>1, <1>3, <1>4, PageFacts DEF LooksOK
<1>6. path' \in Address /\ path' # Create
  BY <1>1, RootAnswered
<1> QED BY <1>1, <1>5, <1>6, ArrivedKept

LEMMA OtherArrivesKept ==
  ASSUME Unlimited, PageInv, NEW r \in Request,
         PublicationArrives(r) \/ DiscardArrives(r) \/ DetailArrives(r)
  PROVE  PageKept /\ Named(heap.node, heap'.node)
<1>1. /\ Receive(r) /\ request[r].op \in {"publish", "discard", "detail"} /\ Forget(r)
      /\ UNCHANGED <<visit, page, editing, selected, shown>>
  BY DEF PublicationArrives, DiscardArrives, DetailArrives, Answers, lookVars
<1>2. path' = path \/ (path' \in Address /\ path' # Create)
  <2>1. CASE PublicationArrives(r)
    <3>1. request[r].op = "publish" /\ (path' = path \/ path' = request[r].reply.root)
      BY <2>1 DEF PublicationArrives, Answers
    <3> QED BY <1>1, <3>1, RootAnswered
  <2>2. CASE DiscardArrives(r)
    BY <2>2, PageFacts DEF DiscardArrives, Address
  <2>3. CASE DetailArrives(r)
    BY <2>3 DEF DetailArrives
  <2> QED BY <2>1, <2>2, <2>3
<1>3. Named(heap.node, heap'.node)
  BY <1>1, ArrivedIs
<1>4. LooksOK(heap'.node, selected', shown', editing')
  BY <1>1, <1>3, PageFacts DEF LooksOK, Named
<1> QED BY <1>1, <1>2, <1>4, ArrivedKept

LEMMA ErrorArrivesKept ==
  ASSUME PageInv, NEW r \in Request, ErrorArrives(r)
  PROVE  PageKept /\ Named(heap.node, heap'.node)
<1>1. /\ ReceiveError(r) /\ Done(r) /\ Forget(r) /\ heap' = heap
      /\ path' = path /\ visit' = visit /\ page' = page /\ editing' = editing
      /\ selected' = selected /\ shown' = shown
  BY DEF ErrorArrives, ReceiveError, lookVars
<1>2. Kept
  BY <1>1, ReceiveErrorKept, PageFacts
<1>3. SendersOK(heap.node, visit, page, request, sender)
  BY PageFacts
<1>4. DOMAIN sender = Request
  BY <1>3 DEF SendersOK
<1>5. Answering(r) /\ DOMAIN sender' = Request
      /\ \A y \in Request : request'[y] # None => sender'[y] = sender[y]
  BY <1>1, <1>4, DoneAnswers, PageFacts
<1>6. SendersOK(heap.node, visit, page, request', sender')
  BY <1>3, <1>5, SendersAnswered
<1> QED BY <1>1, <1>2, <1>6, PageStepKept, PageFacts

\* What the user does to the nodes, without a request.
LEMMA RelinkStep ==
  ASSUME CacheInv, NEW g \in Relinked(heap.node), heap' = [heap EXCEPT !.node = g],
         UNCHANGED <<server, lastId, request>>
  PROVE  Kept /\ Named(heap.node, heap'.node) /\ Used(heap'.node) = Used(heap.node)
<1>1. CacheOK(heap, server, lastId, request) /\ ProperCache(heap)
      /\ heap = [node |-> heap.node, nodes |-> heap.nodes]
  BY Facts
<1> DEFINE k == [heap EXCEPT !.node = g]
<1>2. k \in Later(heap)
  BY <1>1, RelinkLater
<1>3. k.node = g
  BY <1>1
<1> HIDE DEF k
<1>4. CacheOK(k, server, lastId, request)
  BY <1>1, <1>2, LaterStep
<1>5. heap' = k
  BY DEF k
<1> QED BY <1>2, <1>3, <1>4, <1>5, LaterNamed, RelinkedUsed DEF Kept

LEMMA RetypeBlankKept ==
  ASSUME PageInv, NEW type \in {"assertion", "source"}, RetypeBlank(type)
  PROVE  PageKept /\ Named(heap.node, heap'.node)
<1> DEFINE o == Current.root
           n == [heap.node[o] EXCEPT !.type = type]
           g == [heap.node EXCEPT ![o].type = type]
<1>1. /\ heap' = [heap EXCEPT !.node = g] /\ UNCHANGED <<server, lastId, request>>
      /\ UNCHANGED <<path, visit, page, sender, editing, selected, shown>>
  BY DEF RetypeBlank, pageVars, lookVars
<1>2. o \in Used(heap.node)
  BY RootUsed DEF RetypeBlank
<1>3. /\ heap.node[o] \in NodeObject
      /\ Range(heap.node[o].children) \subseteq Used(heap.node)
      /\ Range(heap.node[o].parents) \subseteq Used(heap.node)
  BY <1>2, UsedObject, PageFacts
<1>4. n \in NodeObject /\ n.id = heap.node[o].id /\ n.of = heap.node[o].of
      /\ n.children = heap.node[o].children /\ n.parents = heap.node[o].parents
  BY <1>3 DEF NodeObject, NodeType, LeafType
<1>5. g = [heap.node EXCEPT ![o] = n]
  OBVIOUS
<1> HIDE DEF n, o
<1>6. g \in Relinked(heap.node)
  BY <1>2, <1>3, <1>4, <1>5, RelinkOne, PageFacts
<1> HIDE DEF g
<1>7. Kept /\ Named(heap.node, heap'.node)
  BY <1>1, <1>6, RelinkStep, PageFacts
<1> QED BY <1>1, <1>7, PageStepKept, PageFacts

LEMMA PageNextKept ==
  ASSUME Unlimited, PageInv, PageNext
  PROVE  PageKept /\ Named(heap.node, heap'.node)
<1>1. CASE VisitHome \/ VisitCached
            \/ \E type \in {"assertion", "source"} : VisitCreate(type) \/ RetypeBlank(type)
  BY <1>1, VisitHomeKept, VisitCachedKept, VisitCreateKept, RetypeBlankKept
<1>2. CASE \E p \in Id \cup {Home, Create} : Navigate(p)
  BY <1>2, NavigateKept
<1>3. CASE OnPage /\ \E o \in Displayed : ToggleSelect(o) \/ ToggleChildren(o) \/ EnterEditMode(o)
  BY <1>3, ShownAreUsed, LookingKept
<1>4. CASE OnPage /\ \E o \in {Current.root} \cup DescendantsOf(heap.node, Current.root) :
                SpotlightNode(o)
  BY <1>4, ShownAreUsed, LookingKept
<1>5. ASSUME NEW r \in Request,
             VisitFetched(r) \/ ServerStep(r) \/ GraphArrives(r) \/ DraftArrives(r)
                \/ ErrorArrives(r)
      PROVE  PageKept /\ Named(heap.node, heap'.node)
  BY <1>5, VisitFetchedKept, ServerStepKept, GraphArrivesKept, DraftArrivesKept, ErrorArrivesKept
<1>6. ASSUME NEW r \in Request,
             EditPublic(r) \/ (OnPage /\ \E o \in Displayed : Publish(r, o)) \/ Discard(r)
                \/ \E id \in Id : AskDetail(r, id)
      PROVE  PageKept /\ Named(heap.node, heap'.node)
  BY <1>6, AskingKept
<1>7. ASSUME NEW r \in Request,
             PublicationArrives(r) \/ DiscardArrives(r) \/ DetailArrives(r)
      PROVE  PageKept /\ Named(heap.node, heap'.node)
  BY <1>7, OtherArrivesKept
<1> QED BY <1>1, <1>2, <1>3, <1>4, <1>5, <1>6, <1>7 DEF PageNext

-----------------------------------------------------------------------------
(***************************************************************************)
(* Editors and the dialog: their invariant.                                *)
(***************************************************************************)
\* What an editor found, and what it holds for an orphan, are nodes that are there.
Backup(g) ==
    {x \in [text : Word(scenario), children : Seq(Obj), orphans : SUBSET Obj] :
        Range(x.children) \cup x.orphans \subseteq Used(g)}

EditorsOK(g, edit, eds) ==
    /\ eds = [o \in Obj |-> eds[o]]
    /\ \A o \in Obj : eds[o] # None => o \in edit /\ eds[o] \in Backup(g)

DialogOK(g, d) ==
    d # None => d \in [node : Used(g), chosen : Used(g) \cup {None}]

EditorInv ==
    /\ PageInv
    /\ EditorsOK(heap.node, editing, editor)
    /\ DialogOK(heap.node, dialog)

EditorKept ==
    /\ PageKept
    /\ EditorsOK(heap'.node, editing', editor')
    /\ DialogOK(heap'.node, dialog')

LEMMA EditorFacts ==
  ASSUME EditorInv
  PROVE  /\ PageInv /\ CacheInv /\ scenario \in Scenarios
         /\ ProperCache(heap) /\ Proper(heap.node)
         /\ EditorsOK(heap.node, editing, editor) /\ DialogOK(heap.node, dialog)
         /\ LooksOK(heap.node, selected, shown, editing)
         /\ None \notin Obj /\ Named(heap.node, heap.node)
BY PageFacts DEF EditorInv

LEMMA EditorsLater ==
  ASSUME NEW g, NEW edit, NEW eds, EditorsOK(g, edit, eds), NEW g2, Used(g) \subseteq Used(g2)
  PROVE  EditorsOK(g2, edit, eds)
BY DEF EditorsOK, Backup

LEMMA DialogLater ==
  ASSUME NEW g, NEW d, DialogOK(g, d), NEW g2, Used(g) \subseteq Used(g2)
  PROVE  DialogOK(g2, d)
BY DEF DialogOK

\* Editors whose nodes are not shown in edit mode any more are gone.
LEMMA FollowOK ==
  ASSUME NEW g, EditorsOK(g, editing, editor), EditorsFollow, NEW g2, Used(g) \subseteq Used(g2)
  PROVE  EditorsOK(g2, editing', editor')
<1>1. EditorsOK(g2, editing, editor)
  BY EditorsLater
<1> DEFINE In(o) == visit' = visit /\ o \in editing' \cap Visible'
<1>2. editor' = [o \in Obj |-> IF In(o) THEN editor[o] ELSE None]
  BY DEF EditorsFollow
<1>3. \A o \in Obj : editor'[o] # None => o \in editing' /\ editor'[o] = editor[o]
  BY <1>2
<1>4. editor' = [o \in Obj |-> editor'[o]]
  BY <1>2
<1> HIDE DEF In
<1> QED BY <1>1, <1>3, <1>4 DEF EditorsOK

\* What is set of an editor.
PutOrphans(eds, o, orphans) == [eds EXCEPT ![o].orphans = orphans]

LEMMA OrphansPut ==
  ASSUME NEW g, NEW edit, NEW eds, EditorsOK(g, edit, eds), NEW o \in Obj, eds[o] # None,
         NEW orphans \in SUBSET Used(g)
  PROVE  EditorsOK(g, edit, PutOrphans(eds, o, orphans))
<1> DEFINE x == [eds[o] EXCEPT !.orphans = orphans]
           t == eds[o].text
           c == eds[o].children
<1>1. /\ eds[o] \in [text : Word(scenario), children : Seq(Obj), orphans : SUBSET Obj]
      /\ Range(c) \subseteq Used(g) /\ o \in edit
  BY DEF EditorsOK, Backup
<1>2. x = [text |-> t, children |-> c, orphans |-> orphans]
  BY <1>1
<1>3. t \in Word(scenario) /\ c \in Seq(Obj) /\ orphans \in SUBSET Obj
  BY <1>1 DEF Used
<1> HIDE DEF x, t, c
<1>4. x \in [text : Word(scenario), children : Seq(Obj), orphans : SUBSET Obj]
      /\ x.children = c /\ x.orphans = orphans
  BY <1>2, <1>3
<1>5. x \in Backup(g)
  BY <1>1, <1>4 DEF Backup
<1>6. PutOrphans(eds, o, orphans) = [eds EXCEPT ![o] = x]
  BY DEF PutOrphans, x
<1>7. eds = [p \in Obj |-> eds[p]] /\ \A p \in Obj : eds[p] # None => p \in edit /\ eds[p] \in Backup(g)
  BY DEF EditorsOK
<1> DEFINE e == [eds EXCEPT ![o] = x]
<1>8. e = [p \in Obj |-> e[p]] /\ \A p \in Obj : e[p] = IF p = o THEN x ELSE eds[p]
  BY <1>7
<1> HIDE DEF e
<1>9. EditorsOK(g, edit, e)
  BY <1>1, <1>5, <1>7, <1>8 DEF EditorsOK
<1> QED BY <1>6, <1>9 DEF e

LEMMA EditorPut ==
  ASSUME NEW g, NEW edit, NEW eds, EditorsOK(g, edit, eds), NEW o \in edit, NEW x \in Backup(g)
  PROVE  EditorsOK(g, edit, [eds EXCEPT ![o] = x])
<1> DEFINE e == [eds EXCEPT ![o] = x]
<1>1. eds = [p \in Obj |-> eds[p]] /\ \A p \in Obj : eds[p] # None => p \in edit /\ eds[p] \in Backup(g)
  BY DEF EditorsOK
<1>2. e = [p \in Obj |-> e[p]] /\ \A p \in Obj : e[p] = IF p = o THEN x ELSE eds[p]
  BY <1>1
<1> HIDE DEF e
<1>3. EditorsOK(g, edit, e)
  BY <1>1, <1>2 DEF EditorsOK
<1> QED BY <1>3 DEF e

LEMMA EditorClosed ==
  ASSUME NEW g, NEW edit, NEW eds, EditorsOK(g, edit, eds), NEW o
  PROVE  EditorsOK(g, edit \ {o}, [eds EXCEPT ![o] = None])
<1> DEFINE e == [eds EXCEPT ![o] = None]
<1>1. eds = [p \in Obj |-> eds[p]] /\ \A p \in Obj : eds[p] # None => p \in edit /\ eds[p] \in Backup(g)
  BY DEF EditorsOK
<1>2. e = [p \in Obj |-> e[p]] /\ \A p \in Obj : e[p] = IF p = o THEN None ELSE eds[p]
  BY <1>1
<1> HIDE DEF e
<1>3. EditorsOK(g, edit \ {o}, e)
  BY <1>1, <1>2 DEF EditorsOK
<1> QED BY <1>3 DEF e

\* A node that is edited, and what its editor holds.
LEMMA EditsIs ==
  ASSUME EditorInv, NEW o \in Obj, Edits(o)
  PROVE  /\ o \in Used(heap.node) /\ editor[o] \in Backup(heap.node) /\ editor[o] # None
         /\ editor[o].orphans \subseteq Used(heap.node)
         /\ editor[o].text \in Word(scenario)
         /\ editor[o].children \in Seq(Obj) /\ Range(editor[o].children) \subseteq Used(heap.node)
<1>1. o \in editing /\ editor[o] # None
  BY DEF Edits
<1> QED BY <1>1, EditorFacts DEF EditorsOK, Backup, LooksOK

LEMMA OrphansUsed ==
  ASSUME NEW g, Proper(g), NEW o \in Used(g), NEW before \in SUBSET Used(g)
  PROVE  Orphans(g, o, before) \subseteq Used(g)
BY ChildrenUsed DEF Orphans

LEMMA HandKept ==
  ASSUME EditorInv, Kept, Named(heap.node, heap'.node),
         UNCHANGED <<path, visit, page, sender, request, selected>>, editing' \subseteq editing,
         shown' \subseteq Used(heap.node),
         EditorsOK(heap.node, editing', editor'), DialogOK(heap.node, dialog')
  PROVE  EditorKept
<1>1. Used(heap.node) \subseteq Used(heap'.node)
  BY DEF Named
<1>2. LooksOK(heap.node, selected', shown', editing')
  BY EditorFacts DEF LooksOK
<1>3. PageKept
  BY <1>2, PageStepKept, PageFacts, EditorFacts
<1> QED BY <1>1, <1>3, EditorsLater, DialogLater DEF EditorKept

LEMMA OpenEditorKept ==
  ASSUME EditorInv, NEW o \in Obj, OpenEditor(o)
  PROVE  EditorKept
<1> DEFINE g == heap.node
           t == g[o].text
           c == g[o].children
           lone == {x \in Children(g, o) : Version(g, x) \notin t}
           x == [text |-> t, children |-> c, orphans |-> lone]
<1>1. /\ o \in editing /\ editor' = [editor EXCEPT ![o] = x]
      /\ UNCHANGED cacheVars /\ UNCHANGED <<path, visit, page, sender, editing, selected, shown, dialog>>
  BY DEF OpenEditor, pageVars, lookVars
<1>2. o \in Used(g)
  BY <1>1, EditorFacts DEF LooksOK
<1>3. /\ g[o] \in NodeObject /\ Range(c) \subseteq Used(g) /\ c \in Seq(Obj)
  BY <1>2, UsedObject, EditorFacts
<1>4. t \in Word(scenario)
  BY <1>3 DEF NodeObject
<1>5. lone \subseteq Used(g) /\ lone \subseteq Obj
  BY <1>2, ChildrenUsed, EditorFacts DEF Used
<1> HIDE DEF t, c, lone
<1>6. x \in Backup(g)
  BY <1>3, <1>4, <1>5 DEF Backup
<1> HIDE DEF x
<1>7. EditorsOK(g, editing, editor')
  BY <1>1, <1>6, EditorPut, EditorFacts
<1>8. Kept /\ heap' = heap /\ request' = request
  BY <1>1, CacheStays, EditorFacts
<1> QED BY <1>1, <1>7, <1>8, HandKept, EditorFacts DEF LooksOK

LEMMA TypeTextKept ==
  ASSUME EditorInv, NEW o \in Obj, NEW text \in Text, TypeText(o, text)
  PROVE  EditorKept
<1>1. /\ Edits(o) /\ Write(o, text) /\ UNCHANGED <<path, visit, page, sender, editing, selected, shown>>
      /\ UNCHANGED <<editor, dialog>>
  BY DEF TypeText, pageVars, lookVars, editorVars
<1>2. Kept /\ Named(heap.node, heap'.node)
  BY <1>1, EditsIs, WriteKept, EditorFacts, LaterNamed
<1>3. request' = request
  BY <1>1 DEF Write
<1> QED BY <1>1, <1>2, <1>3, HandKept, EditorFacts DEF LooksOK

LEMMA RestoreOrphanKept ==
  ASSUME EditorInv, NEW o \in Obj, NEW c \in Obj, RestoreOrphan(o, c)
  PROVE  EditorKept
<1> DEFINE g == heap.node
           t == g[o].text \cup {Version(g, c)}
           written == [g EXCEPT ![o].text = t]
           lone == Orphans(written, o, editor[o].orphans)
<1>1. /\ Edits(o) /\ c \in editor[o].orphans
      /\ heap' = [heap EXCEPT !.node = written]
      /\ editor' = PutOrphans(editor, o, lone)
      /\ UNCHANGED <<server, lastId, request>>
      /\ UNCHANGED <<path, visit, page, sender, editing, selected, shown, dialog>>
  BY DEF RestoreOrphan, PutOrphans, pageVars, lookVars
<1>2. o \in Used(g) /\ c \in Used(g) /\ editor[o].orphans \in SUBSET Used(g) /\ editor[o] # None
  BY <1>1, EditsIs
<1>3. t \in Word(scenario)
  <2>1. g[o] \in NodeObject /\ g[c].id \in Key
    BY <1>2, UsedObject, EditorFacts
  <2>2. g[o].text \in Word(scenario)
    BY <2>1 DEF NodeObject
  <2> QED BY <2>1, <2>2, ScenarioFacts, EditorFacts DEF Version
<1> HIDE DEF t
<1>4. written \in Relinked(g)
  BY <1>2, <1>3, SetText, EditorFacts
<1>5. Kept /\ Named(g, heap'.node) /\ Used(heap'.node) = Used(g)
  BY <1>1, <1>4, RelinkStep, EditorFacts
<1>6. lone \subseteq Used(g)
  BY <1>2, <1>4, RelinkedProper, OrphansUsed, EditorFacts
<1> HIDE DEF lone, written
<1>7. EditorsOK(g, editing, editor')
  BY <1>1, <1>2, <1>6, OrphansPut, EditorFacts
<1> QED BY <1>1, <1>5, <1>7, HandKept, EditorFacts DEF LooksOK

LEMMA DetachOrphanKept ==
  ASSUME EditorInv, NEW o \in Obj, NEW c \in Obj, DetachOrphan(o, c)
  PROVE  EditorKept
<1> DEFINE g == heap.node
           apart == RemoveChild(g, o, c)
           lone == editor[o].orphans \ {c}
<1>1. /\ Edits(o) /\ c \in editor[o].orphans
      /\ heap' = [heap EXCEPT !.node = apart]
      /\ editor' = PutOrphans(editor, o, lone)
      /\ UNCHANGED <<server, lastId, request>>
      /\ UNCHANGED <<path, visit, page, sender, editing, selected, shown, dialog>>
  BY DEF DetachOrphan, PutOrphans, pageVars, lookVars
<1>2. o \in Used(g) /\ c \in Used(g) /\ lone \in SUBSET Used(g) /\ editor[o] # None
  BY <1>1, EditsIs
<1>3. apart \in Relinked(g)
  BY <1>2, RemoveChildRelinks, EditorFacts
<1> HIDE DEF apart, lone
<1>4. Kept /\ Named(g, heap'.node)
  BY <1>1, <1>3, RelinkStep, EditorFacts
<1>5. EditorsOK(g, editing, editor')
  BY <1>1, <1>2, OrphansPut, EditorFacts
<1> QED BY <1>1, <1>4, <1>5, HandKept, EditorFacts DEF LooksOK

LEMMA CancelKept ==
  ASSUME EditorInv, NEW o \in Obj, Cancel(o)
  PROVE  EditorKept
<1> DEFINE g == heap.node
           t == editor[o].text
           c == editor[o].children
           g1 == [g EXCEPT ![o].text = t]
           g2 == [g1 EXCEPT ![o].children = c]
<1>1. /\ Edits(o)
      /\ heap' = [heap EXCEPT !.node[o].text = t, !.node[o].children = c]
      /\ editing' = editing \ {o}
      /\ editor' = [editor EXCEPT ![o] = None]
      /\ UNCHANGED <<server, lastId, request>>
      /\ UNCHANGED <<path, visit, page, sender, selected, shown, dialog>>
  BY DEF Cancel, lookVars
<1>2. /\ o \in Used(g) /\ t \in Word(scenario) /\ c \in Seq(Obj) /\ Range(c) \subseteq Used(g)
  BY <1>1, EditsIs
<1>3. heap' = [heap EXCEPT !.node = g2]
  <2>1. heap = [node |-> g, nodes |-> heap.nodes]
    BY Facts, EditorFacts
  <2> HIDE DEF t, c
  <2>2. heap' = [heap EXCEPT !.node = [[heap.node EXCEPT ![o].text = t] EXCEPT ![o].children = c]]
    BY <1>1, <2>1
  <2> QED BY <2>2
<1> HIDE DEF t, c
<1>4. g1 \in Relinked(g)
  BY <1>2, SetText, EditorFacts
<1>5. Proper(g1) /\ Used(g1) = Used(g)
  BY <1>4, RelinkedProper, EditorFacts
<1> HIDE DEF g1
<1>6. g2 \in Relinked(g1)
  BY <1>2, <1>5, SetChildren, EditorFacts
<1> HIDE DEF g2
<1>7. g2 \in Relinked(g)
  BY <1>4, <1>6, RelinkedTrans
<1>8. Kept /\ Named(g, heap'.node)
  BY <1>1, <1>3, <1>7, RelinkStep, EditorFacts
<1>9. EditorsOK(g, editing', editor')
  BY <1>1, EditorClosed, EditorFacts
<1> QED BY <1>1, <1>8, <1>9, HandKept, EditorFacts DEF LooksOK

LEMMA RefuseSaveKept ==
  ASSUME EditorInv, NEW o \in Obj, RefuseSave(o)
  PROVE  EditorKept
<1> DEFINE g == heap.node
           lone == Orphans(g, o, editor[o].orphans)
<1>1. /\ Edits(o) /\ editor' = PutOrphans(editor, o, lone)
      /\ UNCHANGED cacheVars /\ UNCHANGED <<path, visit, page, sender, editing, selected, shown, dialog>>
  BY DEF RefuseSave, PutOrphans, pageVars, lookVars
<1>2. o \in Used(g) /\ lone \in SUBSET Used(g) /\ editor[o] # None
  BY <1>1, EditsIs, OrphansUsed, EditorFacts
<1> HIDE DEF lone
<1>3. EditorsOK(g, editing, editor')
  BY <1>1, <1>2, OrphansPut, EditorFacts
<1>4. Kept /\ heap' = heap /\ request' = request
  BY <1>1, CacheStays, EditorFacts
<1> QED BY <1>1, <1>3, <1>4, HandKept, EditorFacts DEF LooksOK

LEMMA DialogStepKept ==
  ASSUME EditorInv, CloseDialog \/ CreateNewNode \/ (\E o \in Obj : OpenDialog(o))
  PROVE  EditorKept
<1>1. /\ UNCHANGED cacheVars
      /\ UNCHANGED <<path, visit, page, sender, editing, selected, shown, editor>>
  BY DEF CloseDialog, CreateNewNode, OpenDialog, pageVars, lookVars
<1>2. DialogOK(heap.node, dialog')
  <2>1. CASE CloseDialog \/ CreateNewNode
    BY <2>1 DEF CloseDialog, CreateNewNode, DialogOK
  <2>2. CASE \E o \in Obj : OpenDialog(o)
    <3>1. PICK o \in Obj : Edits(o) /\ dialog' = [node |-> o, chosen |-> None]
      BY <2>2 DEF OpenDialog
    <3>2. o \in Used(heap.node)
      BY <3>1, EditsIs
    <3> QED BY <3>1, <3>2 DEF DialogOK
  <2> QED BY <2>1, <2>2
<1>3. Kept /\ heap' = heap /\ request' = request
  BY <1>1, CacheStays, EditorFacts
<1> QED BY <1>1, <1>2, <1>3, HandKept, EditorFacts DEF LooksOK

-----------------------------------------------------------------------------
(***************************************************************************)
(* Requests of an editor and of the dialog, and their answers.             *)
(***************************************************************************)
LEMMA PageStepEditorKept ==
  ASSUME Unlimited, EditorInv, PageStep
  PROVE  EditorKept
<1>1. PageNext /\ EditorsFollow /\ dialog' = dialog
  BY DEF PageStep
<1>2. PageKept /\ Named(heap.node, heap'.node)
  BY <1>1, PageNextKept, EditorFacts
<1>3. Used(heap.node) \subseteq Used(heap'.node)
  BY <1>2 DEF Named
<1> QED BY <1>1, <1>2, <1>3, FollowOK, DialogLater, EditorFacts DEF EditorKept

LEMMA SaveNodeKept ==
  ASSUME EditorInv, NEW r \in Request, NEW o \in Obj, SaveNode(r, o)
  PROVE  EditorKept
<1> DEFINE none == {}
           blank == IsBlankSlateNode(o)
<1>1. /\ Edits(o) /\ Sends(r, o) /\ editor' = PutOrphans(editor, o, none)
      /\ IF blank THEN SaveBlankSlateNode(r) ELSE SaveNodeEdit(r, o)
      /\ UNCHANGED <<path, visit, page, editing, selected, shown, dialog>>
  BY DEF SaveNode, PutOrphans, lookVars
<1>2. o \in Used(heap.node) /\ o # None /\ editor[o] # None
  BY <1>1, EditsIs, EditorFacts
<1>3. Kept
  BY <1>1, <1>2, SaveBlankSlateNodeKept, SaveNodeEditKept, EditorFacts
<1>4. heap' = heap /\ \E op, x, id, fields : Send(r, op, x, id, fields)
  BY <1>1 DEF SaveBlankSlateNode, SaveNodeEdit
<1>5. PageKept
  <2>1. PICK op, x, id, fields : Send(r, op, x, id, fields)
    BY <1>4
  <2> QED BY <1>1, <1>2, <1>3, <1>4, <2>1, AskKept, EditorFacts
<1> HIDE DEF none
<1>6. none \in SUBSET Used(heap.node)
  BY DEF none
<1>7. EditorsOK(heap.node, editing, editor')
  BY <1>1, <1>2, <1>6, OrphansPut, EditorFacts
<1> QED BY <1>1, <1>4, <1>5, <1>7, EditorFacts DEF EditorKept

LEMMA SelectSearchResultKept ==
  ASSUME EditorInv, NEW r \in Request, NEW version \in scenario.searched, SelectSearchResult(r, version)
  PROVE  EditorKept
<1>1. /\ dialog # None /\ FetchLinkChoices(r, version) /\ Sends(r, dialog.node)
      /\ UNCHANGED <<path, visit, page, editing, selected, shown, editor, dialog>>
  BY DEF SelectSearchResult, lookVars, editorVars
<1>2. version \in Id
  BY NodeEditorAssumption, EditorFacts DEF Id
<1>3. Kept
  BY <1>1, <1>2, FetchKept, EditorFacts
<1>4. heap' = heap /\ Send(r, "choices", None, version, None)
  BY <1>1 DEF FetchLinkChoices
<1>5. dialog.node \in Used(heap.node)
  BY <1>1, EditorFacts DEF DialogOK
<1>6. PageKept
  BY <1>1, <1>3, <1>4, <1>5, AskKept, EditorFacts
<1> QED BY <1>1, <1>4, <1>6, EditorFacts DEF EditorKept

\* The answer to the first save of a new node.
LEMMA SavedBlankArrivesKept ==
  ASSUME Unlimited, EditorInv, NEW r \in Request, SavedBlankArrives(r)
  PROVE  EditorKept
<1> DEFINE q == request[r]
<1>1. /\ Receive(r) /\ q.op = "blank" /\ Forget(r)
      /\ path' = heap'.node[q.obj].id /\ editing' \subseteq editing
      /\ EditorsFollow /\ UNCHANGED <<visit, page, selected, shown, dialog>>
  BY DEF SavedBlankArrives, Answers, lookVars
<1>2. /\ q # None /\ q.reply.ok /\ heap' = Answered(heap, q) /\ Done(r)
  BY <1>1 DEF Receive
<1>3. Kept
  BY <1>1, ReceiveKept, EditorFacts
<1>4. ProperRequest(heap.node, q)
  BY <1>2, EditorFacts, Facts
<1> HIDE DEF q
<1>5. /\ Used(heap'.node) = Used(heap.node) /\ heap'.node[q.obj].id \in Id
      /\ \A p \in Used(heap.node) :
            heap'.node[p].id = heap.node[p].id \/ heap.node[p].id = Draft
  BY <1>1, <1>2, <1>4, AnsweredSaveProper, EditorFacts
<1>6. PagesOK(heap.node, visit, page, path) /\ SendersOK(heap.node, visit, page, request, sender)
      /\ Draft \notin Id /\ Create \notin Id /\ DOMAIN request = Request
  BY PageFacts, EditorFacts
<1>7. PagesOK(heap'.node, visit, page, path')
  BY <1>1, <1>5, <1>6, PagesRenamed
<1>8. DOMAIN sender = Request
  BY <1>6 DEF SendersOK
<1>9. Answering(r) /\ DOMAIN sender' = Request
      /\ \A y \in Request : request'[y] # None => sender'[y] = sender[y]
  BY <1>1, <1>2, <1>6, <1>8, DoneAnswers
<1>10. SendersOK(heap.node, visit, page, request', sender')
  BY <1>6, <1>9, SendersAnswered
<1>11. SendersOK(heap'.node, visit, page, request', sender')
  BY <1>5, <1>10 DEF SendersOK, Sender
<1>12. LooksOK(heap'.node, selected', shown', editing')
  BY <1>1, <1>5, EditorFacts DEF LooksOK
<1>13. PageKept
  BY <1>1, <1>3, <1>7, <1>11, <1>12 DEF PageKept
<1>14. EditorsOK(heap'.node, editing', editor')
  BY <1>1, <1>5, FollowOK, EditorFacts
<1> QED BY <1>1, <1>5, <1>13, <1>14, DialogLater, EditorFacts DEF EditorKept

\* An answer to an editor, or to the dialog, which leaves the address as it is.
LEMMA EditorAnswered ==
  ASSUME Unlimited, EditorInv, NEW r \in Request, Receive(r), Forget(r),
         request[r].op \notin {"blank", "support"},
         UNCHANGED <<path, visit, page>>, selected' = selected, shown' \subseteq Used(heap.node),
         editing' \subseteq editing, EditorsFollow, DialogOK(heap'.node, dialog')
  PROVE  EditorKept
<1>1. Named(heap.node, heap'.node)
  BY ArrivedIs, EditorFacts
<1>2. Used(heap.node) \subseteq Used(heap'.node)
  BY <1>1 DEF Named
<1>3. LooksOK(heap'.node, selected', shown', editing')
  BY <1>2, EditorFacts DEF LooksOK
<1>4. PageKept
  BY <1>3, ArrivedKept, EditorFacts
<1> QED BY <1>2, <1>4, FollowOK, EditorFacts DEF EditorKept

LEMMA SavedEditArrivesKept ==
  ASSUME Unlimited, EditorInv, NEW r \in Request, SavedEditArrives(r)
  PROVE  EditorKept
<1> DEFINE b == Blocked(heap'.node, Current.root)
<1>1. /\ Receive(r) /\ request[r].op = "edit" /\ Forget(r)
      /\ page' = page \/ page' = SetBlocked(page, visit, b)
      /\ editing' \subseteq editing /\ EditorsFollow
      /\ UNCHANGED <<path, visit, selected, shown, dialog>>
  BY DEF SavedEditArrives, Answers, SetBlocked, lookVars
<1>2. /\ Kept /\ Named(heap.node, heap'.node)
      /\ SendersOK(heap.node, visit, page, request', sender')
  BY <1>1, ArrivedIs, EditorFacts
<1>3. PagesOK(heap.node, visit, page, path) /\ visit \in Nat
  BY PageFacts, EditorFacts
<1> HIDE DEF b
<1>4. PagesOK(heap.node, visit, page', path) /\ \A w \in 1..visit : page'[w].path = page[w].path
  <2>1. CASE page' = page
    BY <1>3, <2>1
  <2>2. CASE page' = SetBlocked(page, visit, b) /\ visit \in 1..visit
    BY <1>3, <2>2, SetBlockedShown
  <2>3. CASE page' = SetBlocked(page, visit, b) /\ visit \notin 1..visit
    <3>1. visit = 0 /\ 1..visit = {}
      BY <1>3, <2>3
    <3>2. page = [w \in {} |-> page[w]]
      BY <1>3, <3>1 DEF PagesOK
    <3> DEFINE x == [page[visit] EXCEPT !.blocked = b]
    <3>3. page' = [page EXCEPT ![visit] = x]
      BY <2>3 DEF SetBlocked
    <3> HIDE DEF x
    <3>4. page' = page
      BY <3>2, <3>3
    <3> QED BY <1>3, <3>4
  <2> QED BY <1>1, <2>1, <2>2, <2>3
<1>5. Used(heap.node) \subseteq Used(heap'.node)
  BY <1>2 DEF Named
<1>6. SendersOK(heap.node, visit, page', request', sender')
  <2>1. visit <= visit /\ \A w \in 1..visit : w \in 1..visit /\ page'[w].path = page[w].path
    BY <1>3, <1>4
  <2> QED BY <1>2, <1>3, <2>1, SendersStay
<1>7. LooksOK(heap.node, selected', shown', editing')
  BY <1>1, EditorFacts DEF LooksOK
<1>8. PageKept
  BY <1>1, <1>2, <1>4, <1>6, <1>7, PageStepKept, EditorFacts
<1> QED BY <1>1, <1>5, <1>8, FollowOK, DialogLater, EditorFacts DEF EditorKept

LEMMA ChoicesArriveKept ==
  ASSUME Unlimited, EditorInv, NEW r \in Request, ChoicesArrive(r)
  PROVE  EditorKept
<1> DEFINE found == InVersion(request[r].reply.db, request[r].id)
           id == CHOOSE x \in found : TRUE
           o == heap'.nodes[id]
<1>1. /\ Receive(r) /\ request[r].op = "choices" /\ Forget(r) /\ EditorsFollow
      /\ UNCHANGED <<path, visit, page, editing, selected, shown>>
      /\ \/ dialog' = dialog
         \/ dialog # None /\ Cardinality(found) = 1 /\ dialog' = [dialog EXCEPT !.chosen = o]
  BY DEF ChoicesArrive, Answers, lookVars
<1>2. /\ Named(heap.node, heap'.node) /\ heap' \in Later(heap)
      /\ ProperRequest(heap.node, request[r]) /\ request[r].reply.ok
      /\ heap' = Answered(heap, request[r])
  BY <1>1, ArrivedIs, EditorFacts
<1>3. found \subseteq DOMAIN heap'.nodes
  BY <1>1, <1>2, AnsweredLater, EditorFacts
<1>4. Used(heap.node) \subseteq Used(heap'.node)
  BY <1>2 DEF Named
<1>5. DialogOK(heap'.node, dialog')
  <2>1. DialogOK(heap'.node, dialog)
    BY <1>4, DialogLater, EditorFacts
  <2>2. CASE dialog' = dialog
    BY <2>1, <2>2
  <2>3. CASE dialog # None /\ Cardinality(found) = 1 /\ dialog' = [dialog EXCEPT !.chosen = o]
    <3>1. found # {}
      BY <2>3, FS_EmptySet
    <3>2. id \in found
      BY <3>1
    <3>3. o \in Used(heap'.node)
      <4> HIDE DEF found, id
      <4> QED BY <1>2, <1>3, <3>2, LaterNamed, CacheFacts
    <3> HIDE DEF found, id, o
    <3>4. dialog \in [node : Used(heap'.node), chosen : Used(heap'.node) \cup {None}]
      BY <2>1, <2>3 DEF DialogOK
    <3>5. dialog' \in [node : Used(heap'.node), chosen : Used(heap'.node) \cup {None}]
      BY <2>3, <3>3, <3>4
    <3> QED BY <3>5 DEF DialogOK
  <2> QED BY <1>1, <2>2, <2>3
<1> HIDE DEF found, id, o
<1> QED BY <1>1, <1>5, EditorAnswered, EditorFacts DEF LooksOK

LEMMA AttachedGraphArrivesKept ==
  ASSUME Unlimited, EditorInv, NEW r \in Request, AttachedGraphArrives(r)
  PROVE  EditorKept
<1>1. /\ Receive(r) /\ request[r].op = "graph" /\ sender[r].editor # None /\ Forget(r)
      /\ shown' = shown \cup {sender[r].editor} /\ EditorsFollow
      /\ UNCHANGED <<path, visit, page, editing, selected, dialog>>
  BY DEF AttachedGraphArrives, Answers
<1>2. request[r] # None /\ Named(heap.node, heap'.node)
  BY <1>1, ArrivedIs, EditorFacts
<1>3. sender[r].editor \in Used(heap.node)
  BY <1>1, <1>2, PageFacts, EditorFacts DEF SendersOK, Sender
<1>4. shown' \subseteq Used(heap.node)
  BY <1>1, <1>3, EditorFacts DEF LooksOK
<1>5. DialogOK(heap'.node, dialog')
  BY <1>1, <1>2, DialogLater, EditorFacts DEF Named
<1> QED BY <1>1, <1>4, <1>5, EditorAnswered

\* A child is attached.
LEMMA AttachRelinks ==
  ASSUME EditorInv, NEW o \in Used(heap.node), NEW child \in Used(heap.node)
  PROVE  Attach(o, child) \in Relinked(heap.node)
<1> DEFINE g == heap.node
           g1 == AddChild(g, o, child)
           t == TextLinking(o, child)
<1>1. g1 \in Relinked(g)
  BY AddChildRelinks, EditorFacts
<1>2. t \in Word(scenario)
  <2>1. g[o] \in NodeObject /\ g[child].id \in Key
    BY UsedObject, EditorFacts
  <2>2. g[o].text \in Word(scenario)
    BY <2>1 DEF NodeObject
  <2>3. g[o].text \cup {Version(g, child)} \in Word(scenario)
    BY <2>1, <2>2, ScenarioFacts, EditorFacts DEF Version
  <2> DEFINE old == g[o].text
             new == old \cup {Version(g, child)}
  <2>4. t = old \/ t = new
    BY DEF TextLinking
  <2> HIDE DEF t, old
  <2> QED BY <2>2, <2>3, <2>4 DEF old
<1>3. Proper(g1) /\ Used(g1) = Used(g)
  BY <1>1, RelinkedProper, EditorFacts
<1>4. Attach(o, child) = [g1 EXCEPT ![o].text = t]
  BY DEF Attach
<1> HIDE DEF g1, t
<1>5. [g1 EXCEPT ![o].text = t] \in Relinked(g1)
  BY <1>2, <1>3, SetText, EditorFacts
<1> QED BY <1>1, <1>4, <1>5, RelinkedTrans

LEMMA ChosenIs ==
  ASSUME EditorInv, HasChosen
  PROVE  dialog.node \in Used(heap.node) /\ dialog.chosen \in Used(heap.node)
BY EditorFacts DEF HasChosen, DialogOK

LEMMA ChooseKnownKept ==
  ASSUME EditorInv, ChooseKnown
  PROVE  EditorKept
<1> DEFINE g == Attach(dialog.node, dialog.chosen)
<1>1. /\ HasChosen /\ heap' = [heap EXCEPT !.node = g] /\ dialog' = None
      /\ shown' = shown \cup {dialog.node}
      /\ EditorsFollow
      /\ UNCHANGED <<server, lastId, request>>
      /\ UNCHANGED <<path, visit, page, sender, editing, selected>>
  BY DEF ChooseKnown, Choose
<1>2. dialog.node \in Used(heap.node) /\ dialog.chosen \in Used(heap.node)
  BY <1>1, ChosenIs
<1>3. g \in Relinked(heap.node)
  BY <1>2, AttachRelinks
<1> HIDE DEF g
<1>4. Kept /\ Named(heap.node, heap'.node)
  BY <1>1, <1>3, RelinkStep, EditorFacts
<1>5. EditorsOK(heap.node, editing', editor')
  BY <1>1, FollowOK, EditorFacts
<1>6. DialogOK(heap.node, dialog')
  BY <1>1 DEF DialogOK
<1>7. shown' \subseteq Used(heap.node)
  BY <1>1, <1>2, EditorFacts DEF LooksOK
<1> QED BY <1>1, <1>4, <1>5, <1>6, <1>7, HandKept

LEMMA ChooseUnknownKept ==
  ASSUME EditorInv, NEW r \in Request, ChooseUnknown(r)
  PROVE  EditorKept
<1> DEFINE g == Attach(dialog.node, dialog.chosen)
           id == heap.node[dialog.chosen].id
           q == [op |-> "graph", obj |-> None, id |-> id, fields |-> None, reply |-> NotServed]
           k == [heap EXCEPT !.node = g]
<1>1. /\ HasChosen /\ heap' = k /\ dialog' = None
      /\ Send(r, "graph", None, id, None) /\ Sends(r, dialog.node)
      /\ EditorsFollow
      /\ UNCHANGED <<server, lastId>>
      /\ UNCHANGED <<path, visit, page, editing, selected, shown>>
  BY DEF ChooseUnknown, Choose
<1>2. dialog.node \in Used(heap.node) /\ dialog.chosen \in Used(heap.node) /\ dialog.node # None
  BY <1>1, ChosenIs, EditorFacts DEF Used
<1>3. g \in Relinked(heap.node)
  BY <1>2, AttachRelinks
<1>4. id \in Key
  BY <1>2, UsedObject, EditorFacts
<1> HIDE DEF g, id
<1>5. k \in Later(heap)
  BY <1>3, RelinkLater, EditorFacts
<1>6. request' = [request EXCEPT ![r] = q] /\ "graph" \in Ops
  BY <1>1 DEF Send
<1>7. ProperRequest(k.node, q)
  <2>1. "graph" \in Ops \cap Operation
    BY <1>6 DEF Operation
  <2> HIDE DEF k
  <2> QED BY <1>4, <2>1, SentOK
<1> HIDE DEF k, q
<1>8. CacheOK(k, server, lastId, [request EXCEPT ![r] = q])
  BY <1>5, <1>7, LaterStep, EditorFacts, Facts
<1>9. Kept /\ Named(heap.node, heap'.node)
  BY <1>1, <1>5, <1>6, <1>8, LaterNamed DEF Kept
<1>10. PageKept
  BY <1>1, <1>2, <1>9, AskKept, EditorFacts
<1>11. Used(heap.node) \subseteq Used(heap'.node)
  BY <1>9 DEF Named
<1>12. EditorsOK(heap'.node, editing', editor')
  BY <1>1, <1>11, FollowOK, EditorFacts
<1> QED BY <1>1, <1>10, <1>12 DEF EditorKept, DialogOK

-----------------------------------------------------------------------------
(***************************************************************************)
(* The whole behaviour.                                                    *)
(***************************************************************************)
LEMMA EditorNextKept ==
  ASSUME Unlimited, EditorInv, EditorNext
  PROVE  EditorKept
<1>1. CASE PageStep
  BY <1>1, PageStepEditorKept
<1>2. ASSUME NEW o \in Obj,
             \/ OpenEditor(o)
             \/ \E text \in Text : TypeText(o, text)
             \/ \E c \in Obj : RestoreOrphan(o, c) \/ DetachOrphan(o, c)
             \/ Cancel(o)
             \/ RefuseSave(o)
      PROVE  EditorKept
  BY <1>2, OpenEditorKept, TypeTextKept, RestoreOrphanKept, DetachOrphanKept, CancelKept, RefuseSaveKept
<1>3. CASE CloseDialog \/ CreateNewNode \/ (\E o \in Obj : OpenDialog(o))
  BY <1>3, DialogStepKept
<1>4. CASE ChooseKnown
  BY <1>4, ChooseKnownKept
<1>5. ASSUME NEW r \in Request,
             \/ \E o \in Obj : SaveNode(r, o)
             \/ SavedBlankArrives(r)
             \/ SavedEditArrives(r)
             \/ \E version \in scenario.searched : SelectSearchResult(r, version)
             \/ ChoicesArrive(r)
             \/ ChooseUnknown(r)
             \/ AttachedGraphArrives(r)
      PROVE  EditorKept
  BY <1>5, SaveNodeKept, SavedBlankArrivesKept, SavedEditArrivesKept, SelectSearchResultKept,
     ChoicesArriveKept, ChooseUnknownKept, AttachedGraphArrivesKept
<1> QED BY <1>1, <1>2, <1>3, <1>4, <1>5 DEF EditorNext

LEMMA PageInitInv ==
  ASSUME PageInit
  PROVE  PageInv
<1>1. CacheInv
  BY InitInv DEF PageInit
<1>2. /\ scenario \in Scenarios /\ request = [r \in Request |-> None]
      /\ path = scenario.path /\ visit = 0 /\ page = <<>>
      /\ sender = [r \in Request |-> None] /\ selected = {} /\ shown = {} /\ editing = {}
  BY DEF PageInit, CacheInit
<1>3. path \in Address /\ scenario.visits \in Nat
  BY <1>2, AddressFacts
<1>4. PagesOK(heap.node, visit, page, path)
  <2>1. visit \in Nat /\ visit <= scenario.visits /\ 1..visit = {} /\ ~(visit > 0)
    BY <1>2, <1>3
  <2>2. page = [v \in 1..visit |-> page[v]]
    BY <1>2, <2>1
  <2> QED BY <1>3, <2>1, <2>2 DEF PagesOK
<1>5. SendersOK(heap.node, visit, page, request, sender)
  BY <1>2 DEF SendersOK
<1>6. LooksOK(heap.node, selected, shown, editing)
  BY <1>2 DEF LooksOK
<1> QED BY <1>1, <1>4, <1>5, <1>6 DEF PageInv

LEMMA PageKeptInv ==
  ASSUME scenario \in Scenarios, scenario' = scenario, PageKept
  PROVE  PageInv'
<1>1. CacheInv'
  BY KeptInv DEF PageKept
<1>2. Id' = Id /\ Address' = Address
  BY DEF Id, Address
<1>3. /\ PagesOK(heap'.node, visit', page', path')
      /\ SendersOK(heap'.node, visit', page', request', sender')
      /\ LooksOK(heap'.node, selected', shown', editing')
  BY DEF PageKept
<1>4. PagesOK(heap.node, visit, page, path)'
  BY <1>2, <1>3 DEF PagesOK, PageOK, Rooted, KeyOf, Used
<1>5. SendersOK(heap.node, visit, page, request, sender)'
  BY <1>2, <1>3 DEF SendersOK, Sender, Used
<1>6. LooksOK(heap.node, selected, shown, editing)'
  BY <1>3 DEF LooksOK, Used
<1> QED BY <1>1, <1>4, <1>5, <1>6 DEF PageInv

LEMMA PageNextInv ==
  ASSUME Unlimited, PageInv, [PageNext /\ UNCHANGED scenario]_<<cacheVars, pageVars, scenario>>
  PROVE  PageInv'
<1>1. CASE PageNext /\ UNCHANGED scenario
  BY <1>1, PageNextKept, PageKeptInv, PageFacts
<1>2. CASE UNCHANGED <<cacheVars, pageVars, scenario>>
  <2>1. UNCHANGED <<cacheVars, path, visit, page, sender>>
        /\ UNCHANGED <<selected, shown, editing, scenario>>
    BY <1>2 DEF pageVars, lookVars
  <2>2. PageKept
    BY <2>1, LookKept, PageFacts
  <2> QED BY <2>1, <2>2, PageKeptInv, PageFacts
<1> QED BY <1>1, <1>2

LEMMA EditorInitInv ==
  ASSUME EditorInit
  PROVE  EditorInv
<1>1. PageInv
  BY PageInitInv DEF EditorInit
<1>2. EditorsOK(heap.node, editing, editor)
  BY DEF EditorInit, EditorsOK
<1>3. DialogOK(heap.node, dialog)
  BY DEF EditorInit, DialogOK
<1> QED BY <1>1, <1>2, <1>3 DEF EditorInv

LEMMA EditorKeptInv ==
  ASSUME scenario \in Scenarios, scenario' = scenario, EditorKept
  PROVE  EditorInv'
<1>1. PageInv'
  BY PageKeptInv DEF EditorKept
<1>2. Word(scenario)' = Word(scenario)
  BY DEF Word
<1>3. EditorsOK(heap'.node, editing', editor') /\ DialogOK(heap'.node, dialog')
  BY DEF EditorKept
<1>4. EditorsOK(heap.node, editing, editor)'
  BY <1>2, <1>3 DEF EditorsOK, Backup, Used
<1>5. DialogOK(heap.node, dialog)'
  BY <1>3 DEF DialogOK, Used
<1> QED BY <1>1, <1>4, <1>5 DEF EditorInv

LEMMA InvPageRoot ==
  ASSUME PageInv
  PROVE  PageShowsItsRoot
BY RootUsed DEF PageShowsItsRoot, KeyOf

LEMMA InvTypeOK ==
  ASSUME EditorInv
  PROVE  EditorTypeOK
<1>1. /\ PagesOK(heap.node, visit, page, path) /\ visit \in Nat /\ scenario.visits \in Nat
      /\ SendersOK(heap.node, visit, page, request, sender)
  BY PageFacts, EditorFacts
<1>2. \A o \in Obj : heap.node[o] = Unused
        \/ /\ heap.node[o].id \in Id \cup {Draft}
           /\ \A c \in Children(heap.node, o) \cup Range(heap.node[o].parents) :
                c \in Obj /\ heap.node[c] # Unused
  BY UsedObject, EditorFacts DEF Used, Key, Children
<1>3. Range(heap.nodes) \subseteq Obj
  BY Facts, EditorFacts DEF Used
<1>4. path \in Id \cup {Home, Create}
  BY <1>1 DEF PagesOK, Address
<1>5. visit \in 0..scenario.visits /\ Len(page) = visit
  <2>1. visit <= scenario.visits /\ page = [v \in 1..visit |-> page[v]]
    BY <1>1 DEF PagesOK
  <2> QED BY <1>1, <2>1, AppendIs
<1>6. \A v \in 1..visit : page[v].root # None => heap.node[page[v].root] # Unused
  BY <1>1 DEF PagesOK, PageOK, Used
<1>7. \A o \in selected \cup shown \cup editing : heap.node[o] # Unused
  BY EditorFacts DEF LooksOK, Used
<1>8. \A r \in Request : request[r] # None =>
        sender[r] \in [visit : 0..visit, editor : Obj \cup {None}]
  BY <1>1 DEF SendersOK, Sender, Used
<1>9. \A o \in Obj : editor[o] # None =>
        /\ o \in editing
        /\ \A c \in editor[o].orphans \cup Range(editor[o].children) : heap.node[c] # Unused
  BY EditorFacts DEF EditorsOK, Backup, Used
<1>10. dialog # None => dialog.node \in Obj /\ dialog.chosen \in Obj \cup {None}
  BY EditorFacts DEF DialogOK, Used
<1> QED BY <1>2, <1>3, <1>4, <1>5, <1>6, <1>7, <1>8, <1>9, <1>10 DEF EditorTypeOK

\* The pages, editors and the dialog of graph-directive.js and node-editor-directive.js
\* refer to nodes of the cache, and a page and the graph it waits for are those of one
\* address, whatever is asked, left, saved and answered in between.
THEOREM EditorInvariant ==
  ASSUME Unlimited
  PROVE  EditorSpec => []EditorInv
<1>1. EditorInit => EditorInv
  BY EditorInitInv
<1>2. EditorInv /\ [EditorNext /\ UNCHANGED scenario]_<<allVars, scenario>> => EditorInv'
  <2> SUFFICES ASSUME EditorInv, [EditorNext /\ UNCHANGED scenario]_<<allVars, scenario>>
               PROVE  EditorInv'
    OBVIOUS
  <2>1. CASE EditorNext /\ UNCHANGED scenario
    BY <2>1, EditorNextKept, EditorKeptInv, EditorFacts
  <2>2. CASE UNCHANGED <<allVars, scenario>>
    <3>1. UNCHANGED <<cacheVars, path, visit, page, sender>>
          /\ UNCHANGED <<selected, shown, editing, editor, dialog, scenario>>
      BY <2>2 DEF allVars, pageVars, lookVars, editorVars
    <3>2. PageKept /\ heap' = heap
      BY <3>1, LookKept, EditorFacts DEF cacheVars
    <3>3. EditorKept
      BY <3>1, <3>2, EditorFacts DEF EditorKept
    <3> QED BY <3>1, <3>3, EditorKeptInv, EditorFacts
  <2> QED BY <2>1, <2>2
<1> QED BY <1>1, <1>2, PTL DEF EditorSpec

\* An answer to a page that has been left never becomes the root of the page that is
\* there (graph-directive.js sets the root of its own scope), and the address of a new
\* node changes when it is saved.
THEOREM PageShowsItsRootCorrect ==
  ASSUME Unlimited
  PROVE  EditorSpec => []PageShowsItsRoot
<1>1. EditorInv => PageShowsItsRoot
  BY InvPageRoot DEF EditorInv
<1> QED BY <1>1, EditorInvariant, PTL

\* The same of pages without an editor.
THEOREM PageWithoutEditorShowsItsRoot ==
  ASSUME Unlimited
  PROVE  PageSpec => []PageShowsItsRoot
<1>1. PageInit => PageInv
  BY PageInitInv
<1>2. PageInv /\ [PageNext /\ UNCHANGED scenario]_<<cacheVars, pageVars, scenario>> => PageInv'
  BY PageNextInv
<1>3. PageInv => PageShowsItsRoot
  BY InvPageRoot
<1> QED BY <1>1, <1>2, <1>3, PTL DEF PageSpec

\* Nothing that pages, editors and the dialog hold refers to a node that is not there.
THEOREM EditorTypeCorrect ==
  ASSUME Unlimited
  PROVE  EditorSpec => []EditorTypeOK
<1>1. EditorInv => EditorTypeOK
  BY InvTypeOK
<1> QED BY <1>1, EditorInvariant, PTL

-----------------------------------------------------------------------------
(***************************************************************************)
(* Texts name what their nodes rest on: in the database, and in what is    *)
(* sent to be saved.                                                       *)
(***************************************************************************)
VersionsOf(ids) == {MajorVersion[i] : i \in ids}

TextsOK(db) ==
    \A i \in DOMAIN db :
        /\ db[i].type # "source" => VersionsOf(db[i].children) \subseteq db[i].text
        /\ db[i].edits # None => MajorVersion[db[i].edits] = MajorVersion[i]

Saves == {"blank", "support", "edit"}

NamedFields(q) == q.op \in Saves => VersionsOf(q.fields.links) \subseteq q.fields.text

SavesOK(sent) == \A r \in Request : sent[r] # None => NamedFields(sent[r])

TextInv == TextsOK(server) /\ SavesOK(request)

\* Nothing is sent to be saved, and the database stays.
Same(y) ==
    /\ request[y] # None
    /\ request'[y].op = request[y].op /\ request'[y].fields = request[y].fields

NothingSaved ==
    \A y \in Request : request'[y] # None => Same(y) \/ request'[y].op \notin Saves

LEMMA NothingSavedKept ==
  ASSUME SavesOK(request), NothingSaved
  PROVE  SavesOK(request')
BY DEF SavesOK, NothingSaved, Same, NamedFields

LEMMA SendQuiet ==
  ASSUME DOMAIN request = Request, NEW r \in Request, NEW op, op \notin Saves, NEW o, NEW id,
         NEW fields, Send(r, op, o, id, fields)
  PROVE  NothingSaved
<1> DEFINE q == [op |-> op, obj |-> o, id |-> id, fields |-> fields, reply |-> NotServed]
<1>1. q.op = op /\ request' = [request EXCEPT ![r] = q]
  BY DEF Send
<1> HIDE DEF q
<1> QED BY <1>1 DEF NothingSaved, Same

LEMMA DoneQuiet ==
  ASSUME DOMAIN request = Request, NEW r \in Request, Done(r)
  PROVE  NothingSaved
BY DEF Done, NothingSaved, Same

LEMMA AnswerQuiet ==
  ASSUME CacheInv, NEW r \in Request, request[r] # None,
         NEW reply, request' = [request EXCEPT ![r] = [request[r] EXCEPT !.reply = reply]]
  PROVE  NothingSaved
<1> DEFINE q == [request[r] EXCEPT !.reply = reply]
<1>1. DOMAIN request = Request /\ request[r] \in Sent
  BY Facts DEF ProperRequest
<1>2. q.op = request[r].op /\ q.fields = request[r].fields
  BY <1>1 DEF Sent
<1> HIDE DEF q
<1>3. \A y \in Request : request'[y] = IF y = r THEN q ELSE request[y]
  BY <1>1 DEF q
<1> QED BY <1>2, <1>3 DEF NothingSaved, Same

\* What the server stores.
LEMMA RowStored ==
  ASSUME NEW db, TextsOK(db), NEW id, NEW row,
         row.type # "source" => VersionsOf(row.children) \subseteq row.text,
         row.edits # None => MajorVersion[row.edits] = MajorVersion[id]
  PROVE  TextsOK(Put(db, id, row))
<1> DEFINE new == Put(db, id, row)
<1>1. DOMAIN new = DOMAIN db \cup {id}
      /\ \A x \in DOMAIN db \cup {id} : new[x] = IF x = id THEN row ELSE db[x]
  BY DEF Put
<1> HIDE DEF new
<1>2. TextsOK(new)
  BY <1>1 DEF TextsOK
<1> QED BY <1>2 DEF new

LEMMA ServeCreateTexts ==
  ASSUME CacheInv, TextInv, NEW r \in Request, ServeCreate(r)
  PROVE  TextsOK(server')
<1> DEFINE f == request[r].fields
           t == f.type
           w == f.text
           c == f.links
           id == lastId + 1
           row == [type |-> t, text |-> w, public |-> FALSE, children |-> c, edits |-> None]
<1>1. request[r] # None /\ request[r].op \in Saves /\ server' = Put(server, id, row)
  BY DEF ServeCreate, Open, Saves
<1>2. VersionsOf(c) \subseteq w
  BY <1>1 DEF TextInv, SavesOK, NamedFields
<1> HIDE DEF t, w, c, id
<1>3. row.children = c /\ row.text = w /\ row.edits = None
  OBVIOUS
<1> HIDE DEF row
<1> QED BY <1>1, <1>2, <1>3, RowStored DEF TextInv

LEMMA ServeEditTexts ==
  ASSUME CacheInv, TextInv, NEW r \in Request, ServeEdit(r)
  PROVE  TextsOK(server')
<1> DEFINE id == request[r].id
           f == request[r].fields
           w == f.text
           c == f.links
           row == [[server[id] EXCEPT !.text = w] EXCEPT !.children = c]
<1>1. /\ request[r] # None /\ request[r].op \in Saves
      /\ id \in DOMAIN server
      /\ server' = [server EXCEPT ![id].text = w, ![id].children = c]
  BY DEF ServeEdit, Open, Saves
<1>2. VersionsOf(c) \subseteq w
  BY <1>1 DEF TextInv, SavesOK, NamedFields
<1>3. server[id] \in Row /\ server = [i \in DOMAIN server |-> server[i]]
  BY <1>1, Facts, DbIs
<1> HIDE DEF id, w, c
<1>4. /\ row.children = c /\ row.text = w /\ row.edits = server[id].edits
  <2> DEFINE half == [server[id] EXCEPT !.text = w]
  <2>1. /\ half.text = w /\ half.edits = server[id].edits
        /\ half = [type |-> half.type, text |-> half.text, public |-> half.public,
                   children |-> half.children, edits |-> half.edits]
    BY <1>3 DEF Row
  <2> HIDE DEF half
  <2>2. [half EXCEPT !.children = c].children = c
        /\ [half EXCEPT !.children = c].text = half.text
        /\ [half EXCEPT !.children = c].edits = half.edits
    BY <2>1
  <2> QED BY <2>1, <2>2 DEF half
<1>5. /\ DOMAIN server' = DOMAIN server
      /\ \A i \in DOMAIN server : server'[i] = IF i = id THEN row ELSE server[i]
  BY <1>1, <1>3
<1> HIDE DEF row
<1> QED BY <1>1, <1>2, <1>4, <1>5 DEF TextInv, TextsOK

LEMMA ServeMakeDraftTexts ==
  ASSUME CacheInv, TextInv, NEW r \in Request, ServeMakeDraft(r)
  PROVE  TextsOK(server')
<1> DEFINE of == request[r].id
           id == lastId + 1
           row == [server[of] EXCEPT !.public = FALSE, !.edits = of]
<1>1. /\ of \in DOMAIN server /\ MajorVersion[id] = MajorVersion[of]
      /\ server' = Put(server, id, row)
  BY DEF ServeMakeDraft
<1>2. server[of] \in Row
  BY <1>1, Facts, DbIs
<1> HIDE DEF of, id
<1>3. /\ row.type = server[of].type /\ row.children = server[of].children
      /\ row.text = server[of].text /\ row.edits = of
  BY <1>2 DEF Row
<1> HIDE DEF row
<1>4. row.type # "source" => VersionsOf(row.children) \subseteq row.text
  BY <1>1, <1>3 DEF TextInv, TextsOK
<1> QED BY <1>1, <1>3, <1>4, RowStored DEF TextInv

LEMMA ServePublishTexts ==
  ASSUME CacheInv, TextInv, NEW r \in Request, ServePublish(r)
  PROVE  TextsOK(server')
<1>1. PICK drafts, merged, into, content :
        /\ drafts \in SUBSET DOMAIN server
        /\ Published(server, drafts, merged, into, content, server')
  BY PublishIs
<1>2. /\ ProperDb(server) /\ None \notin Id
      /\ \A i \in DOMAIN server : server[i] \in Row /\ server[i].children \subseteq DOMAIN server
  BY Facts, DbIs, ScenarioFacts
<1>3. /\ merged = {i \in drafts : server[i].edits \in DOMAIN server}
      /\ into = [i \in DOMAIN server |-> IF i \in merged THEN server[i].edits ELSE i]
      /\ \A i \in DOMAIN server :
            \/ content[i] = server[i]
            \/ \E d \in merged : server[d].edits = i /\ content[i] = server[d]
      /\ server' = [i \in DOMAIN server \ merged |->
                [content[i] EXCEPT !.public = @ \/ \E d \in drafts : into[d] = i,
                                   !.children = {into[c] : c \in @},
                                   !.edits = IF i \in drafts THEN None ELSE server[i].edits]]
  BY <1>1 DEF Published
<1>4. DOMAIN server \subseteq Id
  BY <1>2, DbIs
\* A draft and the node it edits are of one version.
<1>5. \A i \in DOMAIN server : MajorVersion[into[i]] = MajorVersion[i]
  <2>1. \A i \in merged : i \in DOMAIN server /\ server[i].edits # None
    BY <1>1, <1>2, <1>3, <1>4
  <2> QED BY <1>3, <2>1 DEF TextInv, TextsOK
<1>6. \A i \in DOMAIN server :
        /\ content[i] \in Row /\ content[i].children \subseteq DOMAIN server
        /\ content[i].type # "source" => VersionsOf(content[i].children) \subseteq content[i].text
  <2>1. \A i \in DOMAIN server : \E d \in DOMAIN server : content[i] = server[d]
    BY <1>1, <1>3
  <2> QED BY <1>2, <2>1 DEF TextInv, TextsOK
<1>7. ASSUME NEW i \in DOMAIN server'
      PROVE  /\ server'[i].type # "source" => VersionsOf(server'[i].children) \subseteq server'[i].text
             /\ server'[i].edits # None => MajorVersion[server'[i].edits] = MajorVersion[i]
  <2> DEFINE p == content[i].public \/ \E d \in drafts : into[d] = i
             c == {into[x] : x \in content[i].children}
             e == IF i \in drafts THEN None ELSE server[i].edits
  <2>1. i \in DOMAIN server
    BY <1>3
  <2>2. server'[i] = [content[i] EXCEPT !.public = p, !.children = c, !.edits = e]
    BY <1>3
  <2>3. content[i] \in Row
    BY <1>6, <2>1
  <2>4. VersionsOf(c) \subseteq VersionsOf(content[i].children)
    BY <1>5, <1>6, <2>1 DEF VersionsOf
  <2>5. e # None => MajorVersion[e] = MajorVersion[i]
    BY <2>1 DEF TextInv, TextsOK
  <2> HIDE DEF p, c, e
  <2>6. /\ server'[i].type = content[i].type /\ server'[i].text = content[i].text
        /\ server'[i].children = c /\ server'[i].edits = e
    <3> DEFINE k == content[i]
               a == k.type
               b == k.text
               pu == k.public
               ch == k.children
               ed == k.edits
               k0 == [type |-> a, text |-> b, public |-> pu, children |-> ch, edits |-> ed]
               k1 == [type |-> a, text |-> b, public |-> p, children |-> ch, edits |-> ed]
               k2 == [type |-> a, text |-> b, public |-> p, children |-> c, edits |-> ed]
               k3 == [type |-> a, text |-> b, public |-> p, children |-> c, edits |-> e]
    <3>1. k = k0
      <4> HIDE DEF k
      <4> QED BY <2>3 DEF Row, k
    <3> HIDE DEF a, b, pu, ch, ed
    <3>2. [k0 EXCEPT !.public = p] = k1
      BY SMT
    <3>3. [k1 EXCEPT !.children = c] = k2
      BY SMT
    <3>4. [k2 EXCEPT !.edits = e] = k3
      BY SMT
    <3>5. k3.type = a /\ k3.text = b /\ k3.children = c /\ k3.edits = e
      OBVIOUS
    <3> HIDE DEF k, k0, k1, k2, k3
    <3>6. [k EXCEPT !.public = p, !.children = c, !.edits = e] = k3
      BY <3>1, <3>2, <3>3, <3>4
    <3>7. server'[i] = k3
      BY <2>2, <3>6 DEF k
    <3> QED BY <3>5, <3>7 DEF a, b, k
  <2> QED BY <1>6, <2>1, <2>4, <2>5, <2>6
<1> QED BY <1>7 DEF TextsOK

LEMMA ServeDiscardTexts ==
  ASSUME CacheInv, TextInv, NEW r \in Request, ServeDiscard(r)
  PROVE  TextsOK(server')
<1> DEFINE id == request[r].id
<1>1. server' = [i \in DOMAIN server \ {id} |-> [server[i] EXCEPT !.children = @ \ {id}]]
  BY DEF ServeDiscard
<1>2. \A i \in DOMAIN server : server[i] \in Row
  BY Facts, DbIs
<1> HIDE DEF id
<1>3. ASSUME NEW i \in DOMAIN server'
      PROVE  /\ i \in DOMAIN server /\ server'[i].children = server[i].children \ {id}
             /\ server'[i].type = server[i].type /\ server'[i].text = server[i].text
             /\ server'[i].edits = server[i].edits
  <2>1. i \in DOMAIN server /\ server'[i] = [server[i] EXCEPT !.children = @ \ {id}]
    BY <1>1
  <2> QED BY <1>2, <2>1 DEF Row
<1>4. \A i \in DOMAIN server' : VersionsOf(server'[i].children) \subseteq VersionsOf(server[i].children)
  BY <1>3 DEF VersionsOf
<1> QED BY <1>3, <1>4 DEF TextInv, TextsOK

LEMMA ServeTexts ==
  ASSUME CacheInv, TextInv, NEW r \in Request, Serve(r)
  PROVE  TextsOK(server') /\ SavesOK(request')
<1>1. TextsOK(server')
  <2>1. CASE ServeQuery(r)
    BY <2>1 DEF ServeQuery, TextInv
  <2> QED BY <2>1, ServeCreateTexts, ServeEditTexts, ServeMakeDraftTexts, ServePublishTexts,
             ServeDiscardTexts DEF Serve
<1>2. request[r] # None /\ \E root, db : Answer(r, root, db)
  BY DEF Serve, ServeCreate, ServeEdit, ServeMakeDraft, ServePublish, ServeDiscard, ServeQuery, Open
<1>3. PICK root, db : Answer(r, root, db)
  BY <1>2
<1>4. NothingSaved
  BY <1>2, <1>3, AnswerIs, AnswerQuiet
<1> QED BY <1>1, <1>4, NothingSavedKept DEF TextInv

-----------------------------------------------------------------------------
(***************************************************************************)
(* What is sent to be saved.                                               *)
(***************************************************************************)
TextKept == TextsOK(server') /\ SavesOK(request')

LEMMA QuietKept ==
  ASSUME TextInv, NothingSaved, server' = server
  PROVE  TextKept
BY NothingSavedKept DEF TextInv, TextKept

LEMMA SendTexts ==
  ASSUME CacheInv, TextInv, NEW r \in Request, NEW op, op \notin Saves, NEW o, NEW id,
         NEW fields, Send(r, op, o, id, fields), server' = server
  PROVE  TextKept
BY SendQuiet, QuietKept, Facts

LEMMA DoneTexts ==
  ASSUME CacheInv, TextInv, NEW r \in Request, Receive(r) \/ ReceiveError(r)
  PROVE  TextKept
BY DoneQuiet, QuietKept, Facts DEF Receive, ReceiveError

LEMMA CacheStaysTexts ==
  ASSUME TextInv, UNCHANGED <<server, request>>
  PROVE  TextKept
BY QuietKept DEF NothingSaved, Same

LEMMA PageNextTexts ==
  ASSUME CacheInv, TextInv, PageNext
  PROVE  TextKept
<1>1. CASE VisitHome \/ VisitCached \/ \E p \in Id \cup {Home, Create} : Navigate(p)
  BY <1>1, CacheStaysTexts DEF VisitHome, VisitCached, Navigate, cacheVars
<1>2. CASE \E type \in {"assertion", "source"} : VisitCreate(type) \/ RetypeBlank(type)
  BY <1>2, CacheStaysTexts DEF VisitCreate, OpenBlankNode, RetypeBlank, cacheVars
<1>3. CASE \E o : ToggleSelect(o) \/ ToggleChildren(o) \/ EnterEditMode(o) \/ SpotlightNode(o)
  BY <1>3, CacheStaysTexts DEF ToggleSelect, ToggleChildren, EnterEditMode, SpotlightNode, cacheVars
<1>4. ASSUME NEW r \in Request,
             VisitFetched(r) \/ EditPublic(r) \/ (\E o : Publish(r, o)) \/ Discard(r)
                \/ (\E id : AskDetail(r, id))
      PROVE  TextKept
  <2>1. server' = server
    BY <1>4 DEF VisitFetched, EditPublic, Publish, Discard, AskDetail, FetchGraphForId, MakeDraft,
                PublishNode, DiscardDraft, FetchDetail
  <2>2. \E op, o, id, fields : op \notin Saves /\ Send(r, op, o, id, fields)
    BY <1>4 DEF VisitFetched, EditPublic, Publish, Discard, AskDetail, FetchGraphForId, MakeDraft,
                PublishNode, DiscardDraft, FetchDetail, Saves
  <2>3. PICK op, o, id, fields : op \notin Saves /\ Send(r, op, o, id, fields)
    BY <2>2
  <2> QED BY <2>1, <2>3, SendTexts
<1>5. ASSUME NEW r \in Request,
             GraphArrives(r) \/ DraftArrives(r) \/ PublicationArrives(r) \/ DiscardArrives(r)
                \/ DetailArrives(r) \/ ErrorArrives(r)
      PROVE  TextKept
  BY <1>5, DoneTexts DEF GraphArrives, DraftArrives, PublicationArrives, DiscardArrives,
                         DetailArrives, ErrorArrives, Answers
<1>6. ASSUME NEW r \in Request, ServerStep(r) PROVE TextKept
  <2>1. CASE Serve(r)
    BY <2>1, ServeTexts DEF TextKept
  <2>2. CASE Refuse(r) \/ LoseAnswer(r)
    <3> DEFINE no == [NotServed EXCEPT !.served = TRUE]
    <3>1. request[r] # None /\ request' = [request EXCEPT ![r].reply = no] /\ server' = server
      BY <2>2 DEF Refuse, LoseAnswer
    <3> HIDE DEF no
    <3>2. request' = [request EXCEPT ![r] = [request[r] EXCEPT !.reply = no]]
      BY <3>1
    <3> QED BY <3>1, <3>2, AnswerQuiet, QuietKept
  <2> QED BY <1>6, <2>1, <2>2 DEF ServerStep
<1> QED BY <1>1, <1>2, <1>3, <1>4, <1>5, <1>6 DEF PageNext

\* A node is sent to be saved when none of its children is an orphan.
LEMMA SavedFieldsNamed ==
  ASSUME EditorInv, NEW o \in Used(heap.node), NEW before,
         Orphans(heap.node, o, before) = {}
  PROVE  VersionsOf(Fields(o).links) \subseteq Fields(o).text
<1> DEFINE g == heap.node
           s == g[o].children
           t == g[o].text
           l == Links(g, o)
<1>1. \A c \in Children(g, o) : MajorVersion[g[c].id] \in t
  BY DEF Orphans, Version
<1>2. s # <<>> => s[1] \in Children(g, o)
  <2>1. s \in Seq(Obj) /\ Children(g, o) = Range(s)
    BY UsedObject, EditorFacts DEF Children
  <2> HIDE DEF s
  <2>2. s # <<>> => 1 \in DOMAIN s
    BY <2>1
  <2> QED BY <2>1, <2>2 DEF Range
<1>3. \A k \in l : \E c \in Children(g, o) : k = g[c].id
  BY <1>2 DEF Links
<1>4. Fields(o).links = l /\ Fields(o).text = t
  BY DEF Fields
<1> HIDE DEF l, t, s
<1> QED BY <1>1, <1>3, <1>4 DEF VersionsOf

LEMMA SaveNodeTexts ==
  ASSUME EditorInv, TextInv, NEW r \in Request, NEW o \in Obj, SaveNode(r, o)
  PROVE  TextKept
<1>1. /\ Edits(o) /\ Orphans(heap.node, o, editor[o].orphans) = {}
      /\ IF IsBlankSlateNode(o) THEN SaveBlankSlateNode(r) ELSE SaveNodeEdit(r, o)
  BY DEF SaveNode
<1>2. VersionsOf(Fields(o).links) \subseteq Fields(o).text
  BY <1>1, EditsIs, SavedFieldsNamed
<1> DEFINE f == Fields(o)
<1>3. server' = server /\ \E op, x, id : Send(r, op, x, id, f)
  BY <1>1 DEF SaveBlankSlateNode, SaveNodeEdit, IsBlankSlateNode
<1>4. PICK op, x, id : Send(r, op, x, id, f)
  BY <1>3
<1> HIDE DEF f
<1> DEFINE q == [op |-> op, obj |-> x, id |-> id, fields |-> f, reply |-> NotServed]
<1>5. q.fields = f /\ request' = [request EXCEPT ![r] = q]
  BY <1>4 DEF Send
<1> HIDE DEF q
<1>6. NamedFields(q)
  BY <1>2, <1>5 DEF NamedFields, f
<1>7. DOMAIN request = Request
  BY Facts, EditorFacts
<1> QED BY <1>3, <1>5, <1>6, <1>7 DEF TextInv, TextKept, TextsOK, SavesOK

LEMMA EditorNextTexts ==
  ASSUME EditorInv, TextInv, EditorNext
  PROVE  TextKept
<1>1. CASE PageStep
  BY <1>1, PageNextTexts, EditorFacts DEF PageStep
<1>2. ASSUME NEW o \in Obj,
             \/ OpenEditor(o)
             \/ \E text \in Text : TypeText(o, text)
             \/ \E c \in Obj : RestoreOrphan(o, c) \/ DetachOrphan(o, c)
             \/ Cancel(o)
             \/ RefuseSave(o)
             \/ OpenDialog(o)
      PROVE  TextKept
  BY <1>2, CacheStaysTexts DEF OpenEditor, TypeText, Write, RestoreOrphan, DetachOrphan, Cancel,
                               RefuseSave, OpenDialog, cacheVars
<1>3. CASE CloseDialog \/ CreateNewNode \/ ChooseKnown
  BY <1>3, CacheStaysTexts DEF CloseDialog, CreateNewNode, ChooseKnown, Choose, cacheVars
<1>4. ASSUME NEW r \in Request, \E o \in Obj : SaveNode(r, o)
      PROVE  TextKept
  BY <1>4, SaveNodeTexts
<1>5. ASSUME NEW r \in Request,
             (\E version : SelectSearchResult(r, version)) \/ ChooseUnknown(r)
      PROVE  TextKept
  <2>1. server' = server
    BY <1>5 DEF SelectSearchResult, FetchLinkChoices, ChooseUnknown, Choose
  <2>2. \E op, o, id, fields : op \notin Saves /\ Send(r, op, o, id, fields)
    BY <1>5 DEF SelectSearchResult, FetchLinkChoices, ChooseUnknown, Saves
  <2>3. PICK op, o, id, fields : op \notin Saves /\ Send(r, op, o, id, fields)
    BY <2>2
  <2> QED BY <2>1, <2>3, SendTexts, EditorFacts
<1>6. ASSUME NEW r \in Request,
             SavedBlankArrives(r) \/ SavedEditArrives(r) \/ ChoicesArrive(r)
                \/ AttachedGraphArrives(r)
      PROVE  TextKept
  BY <1>6, DoneTexts, EditorFacts DEF SavedBlankArrives, SavedEditArrives, ChoicesArrive,
                                      AttachedGraphArrives, Answers
<1> QED BY <1>1, <1>2, <1>3, <1>4, <1>5, <1>6 DEF EditorNext

LEMMA TextInitInv ==
  ASSUME EditorInit
  PROVE  TextInv
<1>1. /\ scenario \in Scenarios /\ server = scenario.server
      /\ request = [r \in Request |-> None]
  BY DEF EditorInit, PageInit, CacheInit
<1>2. TextsOK(server)
  BY <1>1, NodeEditorAssumption DEF TextsOK, VersionsOf, MajorVersion
<1> QED BY <1>1, <1>2 DEF TextInv, SavesOK

LEMMA TextKeptInv ==
  ASSUME scenario' = scenario, TextKept
  PROVE  TextInv'
<1>1. MajorVersion' = MajorVersion
  BY DEF MajorVersion
<1> QED BY <1>1 DEF TextKept, TextInv, TextsOK, SavesOK, NamedFields, VersionsOf

\* Whatever is typed, attached, detached, cancelled, saved, merged and answered, in
\* whatever order: stopEditingBody saves no node before its text names what it rests on,
\* and publication leaves it so.
THEOREM TextNamesSupportCorrect ==
  ASSUME Unlimited
  PROVE  EditorSpec => []TextNamesSupport
<1>1. EditorInit => TextInv
  BY TextInitInv
<1>2. EditorInv /\ TextInv /\ [EditorNext /\ UNCHANGED scenario]_<<allVars, scenario>> => TextInv'
  <2> SUFFICES ASSUME EditorInv, TextInv, [EditorNext /\ UNCHANGED scenario]_<<allVars, scenario>>
               PROVE  TextInv'
    OBVIOUS
  <2>1. CASE EditorNext /\ UNCHANGED scenario
    BY <2>1, EditorNextTexts, TextKeptInv
  <2>2. CASE UNCHANGED <<allVars, scenario>>
    BY <2>2, CacheStaysTexts, TextKeptInv DEF allVars, cacheVars
  <2> QED BY <2>1, <2>2
<1>3. TextInv => TextNamesSupport
  BY DEF TextInv, TextsOK, TextNamesSupport, VersionsOf
<1> QED BY <1>1, <1>2, <1>3, EditorInvariant, PTL DEF EditorSpec
=============================================================================
