------------------------ MODULE ArgumentGraph_proofs ------------------------
(***************************************************************************)
(* Proofs that the properties of ArgumentGraphProperties hold for any set  *)
(* of identifiers and of authors.                                          *)
(*                                                                         *)
(* The first part is about the shape of the graph: TypeOK and Inv.  The    *)
(* second is about its content and about a publication under way: the      *)
(* strengthened invariant FullInv and the properties that rest on it; then *)
(* what a step may never do, and that the steps implement the record of    *)
(* public pages.                                                           *)
(***************************************************************************)
EXTENDS ArgumentGraphProperties, SequenceTheorems, WellFoundedInduction, TLAPS

-----------------------------------------------------------------------------
(***************************************************************************)
(* Facts about the operators of the model.                                 *)
(***************************************************************************)

\* The innermost call is a node of the graph.
LEMMA TopFacts ==
  ASSUME TypeOK, ~Idle
  PROVE  /\ Len(calls) \in Nat /\ Len(calls) >= 1
         /\ Top \in DOMAIN node
         /\ \A i \in 1..Len(calls) : calls[i] \in DOMAIN node
BY DEF TypeOK, Idle, Top

\* Leaving a call shortens the stack by its last entry.
LEMMA ReturnFacts ==
  ASSUME calls \in Seq(DOMAIN node), calls # <<>>, Return
  PROVE  /\ calls' \in Seq(DOMAIN node)
         /\ Len(calls') = Len(calls) - 1
         /\ \A i \in 1..(Len(calls) - 1) : calls'[i] = calls[i]
         /\ calls' = <<>> <=> Len(calls) = 1
<1>1. ASSUME NEW S, NEW s \in Seq(S), NEW k \in Nat, k = Len(s) - 1
      PROVE  /\ SubSeq(s, 1, k) \in Seq(S)
             /\ Len(SubSeq(s, 1, k)) = k
             /\ \A i \in 1..k : SubSeq(s, 1, k)[i] = s[i]
  <2>1. SubSeq(s, 1, k) \in Seq(S)
    BY <1>1
  <2>2. Len(SubSeq(s, 1, k)) = k
    BY <1>1
  <2>3. \A i \in 1..k : SubSeq(s, 1, k)[i] = s[i]
    BY <1>1
  <2> QED BY <2>1, <2>2, <2>3
<1>2. Len(calls) - 1 \in Nat /\ Len(calls) \in Nat
  BY EmptySeq
<1>3. calls' = SubSeq(calls, 1, Len(calls) - 1)
  BY DEF Return
<1>4. /\ calls' \in Seq(DOMAIN node)
      /\ Len(calls') = Len(calls) - 1
      /\ \A i \in 1..(Len(calls) - 1) : calls'[i] = calls[i]
  BY <1>1, <1>2, <1>3
<1>5. calls' = <<>> <=> Len(calls') = 0
  BY <1>4, EmptySeq
<1> QED BY <1>2, <1>4, <1>5

\* A minor version is a number.
LEMMA MinorVersionTyped ==
  ASSUME TypedGraph(node, body), NEW b \in DOMAIN body
  PROVE  FinalMinorVersion(b) \in Int
<1>1. \A c \in DOMAIN body : body[c].minorVersion \in Int
  BY DEF TypedGraph, Body
<1>2. ASSUME NEW v PROVE NextMinorVersion(v) \in Int
  BY <1>1 DEF NextMinorVersion
<1> QED BY <1>1, <1>2 DEF FinalMinorVersion

\* What has no missing support has support.
LEMMA HasSupport ==
  ASSUME NEW n \in DOMAIN node, ~HasMissingSupport(n), node[n].type \notin LeafType
  PROVE  node[n].support # {}
<1>1. n \in Reach(n)
  BY DEF Reach
<1> QED BY <1>1 DEF HasMissingSupport
-----------------------------------------------------------------------------
(***************************************************************************)
(* The inductive invariant: it holds initially ...                         *)
(***************************************************************************)
LEMMA InitInv == Init => IInv
<1>1. SUFFICES ASSUME Init PROVE IInv
  OBVIOUS
<1>2. Idle
  BY <1>1 DEF Init, Idle
<1>3. TypedGraph(node, body) /\ TypedVersions
  BY <1>1 DEF Init, TypedGraph, TypedVersions
<1>4. TypeOK
  BY <1>1, <1>2, <1>3 DEF TypeOK, Init
<1>5. GraphInv(node, body)
  BY <1>1 DEF Init, GraphInv, PublicSupportIn, PublicIsSupportedIn,
              BodyDefinesOneNodeIn, Lineage, DiscardsUnused
<1>6. CallsSupported
  BY <1>1 DEF Init, CallsSupported
<1> QED BY <1>2, <1>4, <1>5, <1>6 DEF IInv

(***************************************************************************)
(* ... and every action preserves it.                                      *)
(***************************************************************************)
\* Outside a publication only the graph itself has to be looked at.
LEMMA IdleInv ==
  ASSUME Idle', saved' = None, (TypedGraph(node, body))', TypedVersions',
         discarding' \subseteq DOMAIN body', (GraphInv(node, body))'
  PROVE  IInv'
<1>1. calls' = <<>>
  BY DEF Idle
<1>2. calls' \in Seq(DOMAIN node')
  BY <1>1
<1>3. TypeOK'
  BY <1>2 DEF TypeOK
<1>4. CallsSupported'
  BY <1>1 DEF CallsSupported
<1> QED BY <1>3, <1>4 DEF IInv

\* The owners of the edges stay a function from versions to authors.
LEMMA MergeTyped ==
  ASSUME TypeOK, NEW n \in DOMAIN node, NEW support \in SUBSET DOMAIN node
  PROVE  MergeEdgeOwners(VersionOf(n), BodyOf(n).author, support) \in MajorVersion
<1> DEFINE v == VersionOf(n)
           linked == {VersionOf(k) : k \in support}
           old == version[v].edgeOwners
<1>1. v \in DOMAIN version /\ BodyOf(n).author \in Author
  BY DEF TypeOK, TypedGraph, Body, VersionOf, BodyOf
<1>2. linked \in SUBSET Id
  BY DEF TypeOK, TypedGraph, Body, VersionOf, BodyOf
<1>3. version[v] \in MajorVersion
  BY <1>1 DEF TypeOK, TypedVersions
<1>4. PICK S \in SUBSET Id : old \in [S -> Author]
  BY <1>3 DEF MajorVersion
<1>5. [w \in DOMAIN old \cup linked |-> IF w \in DOMAIN old THEN old[w] ELSE BodyOf(n).author]
        \in [S \cup linked -> Author]
  BY <1>1, <1>4
<1>6. S \cup linked \in SUBSET Id
  BY <1>2
<1> HIDE DEF v, linked, old
<1>7. [w \in DOMAIN old \cup linked |-> IF w \in DOMAIN old THEN old[w] ELSE BodyOf(n).author]
        \in UNION {[T -> Author] : T \in SUBSET Id}
  BY <1>5, <1>6
<1> QED BY <1>3, <1>7 DEF MergeEdgeOwners, MajorVersion, v, linked, old

LEMMA CreateInv ==
  ASSUME IInv, NEW type \in NodeType, NEW author \in Author,
         NEW support \in SUBSET DOMAIN node, NEW text \in Texts(support),
         Create(type, author, support, text)
  PROVE  IInv'
<1> DEFINE newNode(i) == [type |-> type, body |-> i, support |-> support,
                          previousVersion |-> None]
           newVersion == [author |-> author,
                          edgeOwners |-> [w \in {VersionOf(k) : k \in support} |-> author]]
<1>1. PICK i \in Fresh :
        /\ node' = Stored(node, i, newNode(i))
        /\ body' = Stored(body, i, NewBody(i, author, text))
        /\ version' = Stored(version, i, newVersion)
  BY DEF Create
<1> HIDE DEF newNode, newVersion
<1>2. i \in Id /\ i \notin DOMAIN node /\ i \notin DOMAIN body /\ i \notin DOMAIN version
  BY <1>1 DEF Fresh
<1>3. Idle /\ calls' = calls /\ saved' = saved /\ discarding' = discarding
  BY DEF Create
<1>4. TypedGraph(node, body) /\ TypedVersions /\ saved = None /\ discarding \subseteq DOMAIN body
      /\ GraphInv(node, body)
  BY <1>3 DEF IInv, TypeOK
<1>5. {VersionOf(k) : k \in support} \in SUBSET Id
  BY <1>4 DEF TypedGraph, Body, VersionOf, BodyOf
<1>6. /\ DOMAIN node' = DOMAIN node \cup {i}
      /\ node'[i] = newNode(i)
      /\ \A n \in DOMAIN node : node'[n] = node[n]
      /\ node' = [n \in DOMAIN node' |-> node'[n]]
  BY <1>1, <1>2 DEF Stored
<1>7. /\ DOMAIN body' = DOMAIN body \cup {i}
      /\ body'[i] = NewBody(i, author, text)
      /\ \A b \in DOMAIN body : body'[b] = body[b]
      /\ body' = [b \in DOMAIN body' |-> body'[b]]
  BY <1>1, <1>2 DEF Stored
<1>8. /\ DOMAIN version' = DOMAIN version \cup {i}
      /\ version'[i] = newVersion
      /\ \A v \in DOMAIN version : version'[v] = version[v]
      /\ version' = [v \in DOMAIN version' |-> version'[v]]
  BY <1>1, <1>2 DEF Stored
<1>9. TypedVersions'
  <2>1. version'[i] \in MajorVersion
    BY <1>5, <1>8 DEF MajorVersion, newVersion
  <2> QED BY <1>2, <1>4, <1>8, <2>1 DEF TypedVersions
<1>10. (TypedGraph(node, body))'
  <2>1. node'[i] \in Node /\ node'[i].body \in DOMAIN body' /\ node'[i].support \subseteq DOMAIN node'
    BY <1>2, <1>4, <1>6, <1>7 DEF Node, newNode, TypedGraph
  <2>2. text \in (SUBSET Id) \cup {NoText}
    BY <1>5 DEF Texts
  <2>3. body'[i] \in Body /\ body'[i].majorVersion \in DOMAIN version'
    BY <1>2, <1>7, <1>8, <2>2 DEF Body, NewBody
  <2> QED BY <1>2, <1>4, <1>6, <1>7, <1>8, <2>1, <2>3 DEF TypedGraph
<1>11. \A n \in DOMAIN node : node[n].body \in DOMAIN body /\ node[n].support \subseteq DOMAIN node
  BY <1>4 DEF TypedGraph
<1>12. /\ body'[i].isPublic = FALSE /\ body'[i].majorVersion = i
       /\ node'[i].body = i /\ node'[i].previousVersion = None
  BY <1>6, <1>7 DEF NewBody, newNode
<1>13. (GraphInv(node, body))'
  <2>1. (PublicSupportIn(node, body))'
    BY <1>4, <1>6, <1>7, <1>11, <1>12 DEF GraphInv, PublicSupportIn
  <2>2. (PublicIsSupportedIn(node, body))'
    BY <1>4, <1>6, <1>7, <1>11, <1>12 DEF GraphInv, PublicIsSupportedIn
  <2>3. (BodyDefinesOneNodeIn(node))'
    BY <1>2, <1>4, <1>6, <1>11, <1>12 DEF GraphInv, BodyDefinesOneNodeIn
  <2>4. (Lineage(node, body))'
    BY <1>2, <1>4, <1>6, <1>7, <1>11, <1>12 DEF GraphInv, Lineage
  <2>5. (DiscardsUnused(node))'
    BY <1>2, <1>3, <1>4, <1>6, <1>12 DEF GraphInv, DiscardsUnused
  <2> QED BY <2>1, <2>2, <2>3, <2>4, <2>5 DEF GraphInv
<1>14. Idle'
  BY <1>3 DEF Idle
<1> QED BY <1>3, <1>4, <1>7, <1>9, <1>10, <1>13, <1>14, IdleInv

LEMMA EditInv ==
  ASSUME IInv, NEW n \in DOMAIN node, NEW support \in SUBSET DOMAIN node,
         NEW text \in Texts(support), Edit(n, support, text)
  PROVE  IInv'
<1> DEFINE b == node[n].body
           v == VersionOf(n)
<1>1. /\ Idle /\ ~IsPublic(n)
      /\ calls' = calls /\ saved' = saved /\ discarding' = discarding
      /\ node' = [node EXCEPT ![n].support = support]
      /\ body' = [body EXCEPT ![b].text = text]
      /\ version' = [version EXCEPT ![v] = MergeEdgeOwners(v, BodyOf(n).author, support)]
  BY DEF Edit, BodyOf
<1>2. TypeOK /\ TypedGraph(node, body) /\ TypedVersions /\ saved = None
      /\ discarding \subseteq DOMAIN body /\ GraphInv(node, body)
  BY <1>1 DEF IInv, TypeOK
<1>3. TypedVersions'
  BY <1>1, <1>2, MergeTyped DEF TypedVersions
<1>4. DOMAIN version' = DOMAIN version
  BY <1>1
<1>5. text \in (SUBSET Id) \cup {NoText}
  BY <1>2 DEF Texts, TypedGraph, Body, VersionOf, BodyOf
<1>6. /\ DOMAIN node' = DOMAIN node
      /\ \A m \in DOMAIN node : /\ node'[m].body = node[m].body
                                /\ node'[m].type = node[m].type
                                /\ node'[m].previousVersion = node[m].previousVersion
                                /\ m # n => node'[m] = node[m]
  BY <1>1, <1>2 DEF TypedGraph, Node
<1>7. /\ DOMAIN body' = DOMAIN body
      /\ \A c \in DOMAIN body : /\ body'[c].isPublic = body[c].isPublic
                                /\ body'[c].majorVersion = body[c].majorVersion
  BY <1>1, <1>2 DEF TypedGraph, Body
<1>8. (TypedGraph(node, body))'
  <2>1. \A m \in DOMAIN node' : node'[m] \in Node /\ node'[m].support \subseteq DOMAIN node'
    BY <1>1, <1>2, <1>6 DEF TypedGraph, Node
  <2>2. \A c \in DOMAIN body' : body'[c] \in Body
    BY <1>1, <1>2, <1>5 DEF TypedGraph, Body
  <2>3. node' = [m \in DOMAIN node' |-> node'[m]] /\ body' = [c \in DOMAIN body' |-> body'[c]]
    BY <1>1
  <2> QED BY <1>2, <1>4, <1>6, <1>7, <2>1, <2>2, <2>3 DEF TypedGraph
<1>9. \A m \in DOMAIN node : node[m].body \in DOMAIN body /\ node[m].support \subseteq DOMAIN node
  BY <1>2 DEF TypedGraph
<1>10. ~body[node[n].body].isPublic
  BY <1>1 DEF IsPublic, BodyOf
<1>11. (GraphInv(node, body))'
  <2>1. (PublicSupportIn(node, body))'
    BY <1>2, <1>6, <1>7, <1>9, <1>10 DEF GraphInv, PublicSupportIn
  <2>2. (PublicIsSupportedIn(node, body))'
    BY <1>2, <1>6, <1>7, <1>9, <1>10 DEF GraphInv, PublicIsSupportedIn
  <2>3. (BodyDefinesOneNodeIn(node))'
    BY <1>2, <1>6 DEF GraphInv, BodyDefinesOneNodeIn
  <2>4. (Lineage(node, body))'
    BY <1>2, <1>6, <1>7, <1>9 DEF GraphInv, Lineage
  <2>5. (DiscardsUnused(node))'
    BY <1>1, <1>2, <1>6 DEF GraphInv, DiscardsUnused
  <2> QED BY <2>1, <2>2, <2>3, <2>4, <2>5 DEF GraphInv
<1>12. Idle'
  BY <1>1 DEF Idle
<1> QED BY <1>1, <1>2, <1>3, <1>7, <1>8, <1>11, <1>12, IdleInv

LEMMA MakeDraftInv ==
  ASSUME IInv, NEW n \in DOMAIN node, NEW author \in Author, MakeDraft(n, author)
  PROVE  IInv'
<1>1. PICK i \in Fresh :
        node' = Stored(node, i, DraftNode(n, i)) /\ body' = Stored(body, i, DraftBody(n, author))
  BY DEF MakeDraft
<1>2. /\ Idle /\ IsPublic(n)
      /\ version' = version /\ calls' = calls /\ saved' = saved /\ discarding' = discarding
  BY DEF MakeDraft
<1>3. TypedGraph(node, body) /\ TypedVersions /\ saved = None /\ discarding \subseteq DOMAIN body
      /\ GraphInv(node, body)
  BY <1>2 DEF IInv, TypeOK
<1>4. i \in Id /\ i \notin DOMAIN node /\ i \notin DOMAIN body
  BY <1>1 DEF Fresh
<1>5. /\ DOMAIN node' = DOMAIN node \cup {i}
      /\ node'[i] = DraftNode(n, i)
      /\ \A m \in DOMAIN node : node'[m] = node[m]
      /\ node' = [m \in DOMAIN node' |-> node'[m]]
  BY <1>1, <1>4 DEF Stored
<1>6. /\ DOMAIN body' = DOMAIN body \cup {i}
      /\ body'[i] = DraftBody(n, author)
      /\ \A b \in DOMAIN body : body'[b] = body[b]
      /\ body' = [b \in DOMAIN body' |-> body'[b]]
  BY <1>1, <1>4 DEF Stored
<1>7. /\ node[n] \in Node /\ node[n].body \in DOMAIN body /\ node[n].support \subseteq DOMAIN node
      /\ BodyOf(n) \in Body /\ BodyOf(n).majorVersion \in DOMAIN version /\ n \in Id
      /\ node[n].body \in Id
  BY <1>3 DEF TypedGraph, BodyOf
<1>8. /\ DraftNode(n, i) \in Node
      /\ DraftNode(n, i).body = i
      /\ DraftNode(n, i).support = node[n].support
      /\ DraftNode(n, i).type = node[n].type
      /\ DraftNode(n, i).previousVersion = n
  BY <1>4, <1>7 DEF DraftNode, Node
<1>9. /\ DraftBody(n, author) \in Body
      /\ DraftBody(n, author).isPublic = FALSE
      /\ DraftBody(n, author).majorVersion = BodyOf(n).majorVersion
  BY <1>7 DEF DraftBody, Body, VersionOf
<1>10. (TypedGraph(node, body))'
  BY <1>2, <1>3, <1>4, <1>5, <1>6, <1>7, <1>8, <1>9 DEF TypedGraph
<1>11. \A m \in DOMAIN node : node[m].body \in DOMAIN body /\ node[m].support \subseteq DOMAIN node
  BY <1>3 DEF TypedGraph
<1>12. /\ body[node[n].body].isPublic /\ node[n].previousVersion = None /\ n # None
       /\ BodyOf(n).majorVersion = n
  BY <1>2, <1>3, <1>7, SentinelAssumption DEF IsPublic, BodyOf, GraphInv, Lineage
<1>13. (GraphInv(node, body))'
  <2>1. (PublicSupportIn(node, body))'
    BY <1>3, <1>5, <1>6, <1>8, <1>9, <1>11 DEF GraphInv, PublicSupportIn
  <2>2. (PublicIsSupportedIn(node, body))'
    BY <1>3, <1>5, <1>6, <1>8, <1>9, <1>11 DEF GraphInv, PublicIsSupportedIn
  <2>3. (BodyDefinesOneNodeIn(node))'
    BY <1>3, <1>4, <1>5, <1>8, <1>11 DEF GraphInv, BodyDefinesOneNodeIn
  <2>4. (Lineage(node, body))'
    BY <1>3, <1>4, <1>5, <1>6, <1>8, <1>9, <1>11, <1>12 DEF GraphInv, Lineage
  <2>5. (DiscardsUnused(node))'
    BY <1>2, <1>3, <1>4, <1>5, <1>8 DEF GraphInv, DiscardsUnused
  <2> QED BY <2>1, <2>2, <2>3, <2>4, <2>5 DEF GraphInv
<1>14. Idle' /\ TypedVersions'
  BY <1>2, <1>3 DEF Idle, TypedVersions
<1> QED BY <1>2, <1>3, <1>6, <1>10, <1>13, <1>14, IdleInv

\* A private node can be taken out of the graph: no public node rests on it and
\* no draft leads back to it.
LEMMA NodesWithoutInv ==
  ASSUME IInv, NEW n \in DOMAIN node, ~IsPublic(n),
         node' = NodesWithout(n), body' = body, version' = version
  PROVE  /\ (TypedGraph(node, body))'
         /\ discarding' \subseteq discarding \cup {node[n].body} => (GraphInv(node, body))'
<1>1. TypedGraph(node, body) /\ GraphInv(node, body)
  BY DEF IInv, TypeOK
<1>2. \A m \in DOMAIN node :
        /\ node[m] \in Node /\ node[m].body \in DOMAIN body
        /\ node[m].support \subseteq DOMAIN node
  BY <1>1 DEF TypedGraph
<1>3. /\ DOMAIN node' = DOMAIN node \ {n}
      /\ node' = [m \in DOMAIN node' |-> node'[m]]
  BY DEF NodesWithout
<1>4. \A m \in DOMAIN node' :
        /\ node'[m] \in Node
        /\ node'[m].body = node[m].body
        /\ node'[m].type = node[m].type
        /\ node'[m].previousVersion = node[m].previousVersion
        /\ node'[m].support = node[m].support \ {n}
  BY <1>2 DEF NodesWithout, Node
<1>5. (TypedGraph(node, body))'
  <2>1. \A m \in DOMAIN node' :
          node'[m].body \in DOMAIN body' /\ node'[m].support \subseteq DOMAIN node'
    BY <1>2, <1>3, <1>4
  <2> QED BY <1>1, <1>3, <1>4, <2>1 DEF TypedGraph
<1>6. ~body[node[n].body].isPublic
  BY DEF IsPublic, BodyOf
<1>7. ASSUME discarding' \subseteq discarding \cup {node[n].body}
      PROVE  (GraphInv(node, body))'
  <2>1. (PublicSupportIn(node, body))'
    BY <1>1, <1>2, <1>3, <1>4 DEF GraphInv, PublicSupportIn
  <2>2. (PublicIsSupportedIn(node, body))'
    BY <1>1, <1>2, <1>3, <1>4, <1>6 DEF GraphInv, PublicSupportIn, PublicIsSupportedIn
  <2>3. (BodyDefinesOneNodeIn(node))'
    BY <1>1, <1>3, <1>4 DEF GraphInv, BodyDefinesOneNodeIn
  <2>4. (Lineage(node, body))'
    BY <1>1, <1>2, <1>3, <1>4, <1>6 DEF GraphInv, Lineage
  <2>5. (DiscardsUnused(node))'
    BY <1>1, <1>3, <1>4, <1>7 DEF GraphInv, DiscardsUnused, BodyDefinesOneNodeIn
  <2> QED BY <2>1, <2>2, <2>3, <2>4, <2>5 DEF GraphInv
<1> QED BY <1>5, <1>7

LEMMA DiscardDraftInv ==
  ASSUME IInv, NEW n \in DOMAIN node, DiscardDraft(n)
  PROVE  IInv'
<1>1. /\ Idle /\ ~IsPublic(n) /\ node' = NodesWithout(n) /\ body' = body
      /\ discarding' = discarding \cup {node[n].body}
      /\ version' = version /\ calls' = calls /\ saved' = saved
  BY DEF DiscardDraft
<1>2. (TypedGraph(node, body))' /\ (GraphInv(node, body))'
  BY <1>1, NodesWithoutInv
<1>3. TypedGraph(node, body) /\ TypedVersions /\ saved = None /\ discarding \subseteq DOMAIN body
  BY <1>1 DEF IInv, TypeOK
<1>4. node[n].body \in DOMAIN body
  BY <1>3 DEF TypedGraph
<1>5. Idle' /\ TypedVersions'
  BY <1>1, <1>3 DEF Idle, TypedVersions
<1> QED BY <1>1, <1>2, <1>3, <1>4, <1>5, IdleInv

LEMMA DiscardBodyInv ==
  ASSUME IInv, NEW b \in discarding, DiscardBody(b)
  PROVE  IInv'
<1>1. /\ Idle /\ body' = Restrict(body, DOMAIN body \ {b}) /\ discarding' = discarding \ {b}
      /\ node' = node /\ version' = version /\ calls' = calls /\ saved' = saved
  BY DEF DiscardBody
<1>2. TypedGraph(node, body) /\ TypedVersions /\ saved = None /\ discarding \subseteq DOMAIN body
      /\ GraphInv(node, body)
  BY <1>1 DEF IInv, TypeOK
<1>3. /\ DOMAIN body' = DOMAIN body \ {b}
      /\ \A c \in DOMAIN body' : body'[c] = body[c]
      /\ body' = [c \in DOMAIN body' |-> body'[c]]
  BY <1>1 DEF Restrict
<1>4. \A n \in DOMAIN node : node[n].body \in DOMAIN body' /\ node[n].support \subseteq DOMAIN node
  BY <1>2, <1>3 DEF TypedGraph, GraphInv, DiscardsUnused
<1>5. \A n \in DOMAIN node : body'[node[n].body] = body[node[n].body]
  BY <1>3, <1>4
<1>6. (TypedGraph(node, body))'
  BY <1>1, <1>2, <1>3, <1>4 DEF TypedGraph
<1>7. (GraphInv(node, body))'
  <2>1. (PublicSupportIn(node, body))'
    BY <1>1, <1>2, <1>4, <1>5 DEF GraphInv, PublicSupportIn
  <2>2. (PublicIsSupportedIn(node, body))'
    BY <1>1, <1>2, <1>4, <1>5 DEF GraphInv, PublicIsSupportedIn
  <2>3. (BodyDefinesOneNodeIn(node))'
    BY <1>1, <1>2 DEF GraphInv, BodyDefinesOneNodeIn
  <2>4. (Lineage(node, body))'
    <3>1. ASSUME NEW n \in DOMAIN node
          PROVE  IF node[n].previousVersion = None
                 THEN body'[node[n].body].majorVersion = n
                 ELSE LET p == node[n].previousVersion
                      IN  /\ p \in DOMAIN node
                          /\ node[p].previousVersion = None
                          /\ node[p].type = node[n].type
                          /\ body'[node[p].body].isPublic
                          /\ ~body'[node[n].body].isPublic
                          /\ body'[node[n].body].majorVersion = p
      <4>1. CASE node[n].previousVersion = None
        BY <1>2, <1>5, <4>1 DEF GraphInv, Lineage
      <4>2. CASE node[n].previousVersion # None
        BY <1>2, <1>5, <4>2 DEF GraphInv, Lineage
      <4> QED BY <4>1, <4>2
    <3> QED BY <1>1, <3>1 DEF Lineage
  <2>5. (DiscardsUnused(node))'
    BY <1>1, <1>2 DEF GraphInv, DiscardsUnused
  <2> QED BY <2>1, <2>2, <2>3, <2>4, <2>5 DEF GraphInv
<1>8. Idle' /\ TypedVersions'
  BY <1>1, <1>2 DEF Idle, TypedVersions
<1> QED BY <1>1, <1>2, <1>3, <1>6, <1>7, <1>8, IdleInv

\* Going back to what was saved, or to the current graph when nothing was.
LEMMA RestoreInv ==
  ASSUME IInv, node' = Committed.node, body' = Committed.body, version' = version,
         calls' = <<>>, saved' = None, discarding' \subseteq discarding
  PROVE  IInv'
<1> DEFINE nd == Committed.node
           bd == Committed.body
<1>1. TypedGraph(nd, bd) /\ GraphInv(nd, bd) /\ DOMAIN bd = DOMAIN body
  <2>1. CASE Idle
    BY <2>1 DEF IInv, TypeOK, Committed
  <2>2. CASE ~Idle
    BY <2>2 DEF IInv, TypeOK, Committed
  <2> QED BY <2>1, <2>2
<1>2. TypedVersions' /\ Idle' /\ discarding' \subseteq DOMAIN body'
  BY <1>1 DEF IInv, TypeOK, TypedVersions, Idle
<1> HIDE DEF nd, bd
<1>3. node' = nd /\ body' = bd
  BY DEF nd, bd
<1>4. (TypedGraph(node, body))'
  BY <1>1, <1>3 DEF TypedGraph
<1>5. (GraphInv(node, body))'
  BY <1>1, <1>3 DEF GraphInv, PublicSupportIn, PublicIsSupportedIn, BodyDefinesOneNodeIn,
                    Lineage, DiscardsUnused
<1> QED BY <1>2, <1>4, <1>5, IdleInv

LEMMA CrashInv == ASSUME IInv, Crash PROVE IInv'
BY RestoreInv DEF Crash

LEMMA RollbackInv == ASSUME IInv, ~Idle, Rollback PROVE IInv'
BY RestoreInv DEF Rollback, Committed

-----------------------------------------------------------------------------
\* A refusal keeps the graph it has reached, as long as that graph is sound.
LEMMA CommitInv ==
  ASSUME IInv, ~Idle, CommitPartial, version' = version, discarding' = discarding,
         (TypedGraph(node, body))', (GraphInv(node, body))', DOMAIN body' = DOMAIN body
  PROVE  IInv'
<1>1. Idle' /\ saved' = None /\ TypedVersions' /\ discarding' \subseteq DOMAIN body'
  BY DEF CommitPartial, Idle, IInv, TypeOK, TypedVersions
<1> QED BY <1>1, IdleInv

\* What a rollback returns to does not change while the publication goes on.
LEMMA SavedInv ==
  ASSUME IInv, ~Idle, saved' = saved, version' = version, discarding' = discarding
  PROVE  (TypedGraph(saved.node, saved.body))' /\ (GraphInv(saved.node, saved.body))'
<1> DEFINE nd == saved.node
           bd == saved.body
<1>1. TypedGraph(nd, bd) /\ GraphInv(nd, bd)
  BY DEF IInv, TypeOK
<1>2. saved'.node = nd /\ saved'.body = bd
  OBVIOUS
<1> HIDE DEF nd, bd
<1>3. (TypedGraph(saved.node, saved.body))'
  BY <1>1, <1>2 DEF TypedGraph
<1>4. (GraphInv(saved.node, saved.body))'
  BY <1>1, <1>2 DEF GraphInv, DiscardsUnused, PublicSupportIn,
                    PublicIsSupportedIn, BodyDefinesOneNodeIn, Lineage
<1> QED BY <1>3, <1>4

\* The end of a call leaves the callers below it in the graph and with support.
LEMMA ReturnInv ==
  ASSUME IInv, ~Idle, Return, version' = version, discarding' = discarding,
         (TypedGraph(node, body))', (GraphInv(node, body))', DOMAIN body' = DOMAIN body,
         \A i \in 1..(Len(calls) - 1) :
            /\ calls[i] \in DOMAIN node'
            /\ node'[calls[i]].type \notin LeafType => node'[calls[i]].support # {}
  PROVE  IInv'
<1> DEFINE k == Len(calls) - 1
<1>1. calls \in Seq(DOMAIN node) /\ calls # <<>> /\ Len(calls) \in Nat /\ Len(calls) >= 1
  BY TopFacts DEF IInv, TypeOK, Idle
<1>2. k \in Nat /\ \A i \in 1..k : calls[i] \in DOMAIN node' /\ i \in 1..Len(calls)
  BY <1>1
<1>3. calls' = SubSeq(calls, 1, Len(calls) - 1) /\ saved' = IF Len(calls) = 1 THEN None ELSE saved
  BY DEF Return
<1>4. /\ calls' \in Seq(DOMAIN node)
      /\ Len(calls') = k
      /\ \A i \in 1..k : calls'[i] = calls[i]
      /\ calls' = <<>> <=> Len(calls) = 1
  BY <1>1, ReturnFacts
<1> HIDE DEF k
<1>5. calls' \in Seq(DOMAIN node')
  BY <1>2, <1>4
<1>6. Idle' <=> Len(calls) = 1
  BY <1>4 DEF Idle
<1>7. CallsSupported'
  <2>1. \A i, j \in 1..k : calls[i] = calls[j] => i = j
    BY <1>2 DEF IInv, CallsSupported
  <2>2. \A i \in 1..k : node'[calls[i]].type \notin LeafType => node'[calls[i]].support # {}
    BY DEF k
  <2> QED BY <1>2, <1>4, <2>1, <2>2 DEF CallsSupported
<1>8. /\ saved = [node |-> saved.node, body |-> saved.body]
      /\ DOMAIN saved.body = DOMAIN body
  BY DEF IInv, TypeOK
<1>9. CASE Len(calls) = 1
  BY <1>3, <1>6, <1>9, IdleInv DEF IInv, TypeOK, TypedVersions
<1>10. CASE Len(calls) # 1
  <2>1. saved' = saved /\ ~Idle'
    BY <1>3, <1>6, <1>10
  <2>2. (TypedGraph(saved.node, saved.body))' /\ (GraphInv(saved.node, saved.body))'
    BY <2>1, SavedInv
  <2>3. TypeOK'
    BY <1>5, <1>8, <2>1, <2>2 DEF IInv, TypeOK, TypedVersions
  <2> QED BY <1>7, <1>8, <2>1, <2>2, <2>3 DEF IInv
<1> QED BY <1>9, <1>10

LEMMA PublishNodeInv ==
  ASSUME IInv, NEW n \in DOMAIN node, PublishNode(n)
  PROVE  IInv'
<1>1. /\ Idle /\ ~HasMissingSupport(n) /\ calls' = <<n>>
      /\ saved' = [node |-> node, body |-> body]
      /\ node' = node /\ body' = body /\ version' = version /\ discarding' = discarding
  BY DEF PublishNode, Committed
<1>2. TypedGraph(node, body) /\ TypedVersions /\ discarding \subseteq DOMAIN body
      /\ GraphInv(node, body)
  BY <1>1 DEF IInv, TypeOK
<1>3. (TypedGraph(node, body))' /\ (GraphInv(node, body))' /\ TypedVersions'
  BY <1>1, <1>2 DEF TypedGraph, TypedVersions, GraphInv, DiscardsUnused, PublicSupportIn,
                    PublicIsSupportedIn, BodyDefinesOneNodeIn, Lineage
<1>4. saved'.node = node' /\ saved'.body = body'
  BY <1>1
<1>5. (TypedGraph(saved.node, saved.body))' /\ (GraphInv(saved.node, saved.body))'
  BY <1>3, <1>4 DEF TypedGraph, GraphInv, DiscardsUnused, PublicSupportIn,
                    PublicIsSupportedIn, BodyDefinesOneNodeIn, Lineage
<1>6. calls' \in Seq(DOMAIN node') /\ ~Idle' /\ Len(calls') = 1 /\ calls'[1] = n
  BY <1>1 DEF Idle
<1>7. CallsSupported'
  BY <1>1, <1>6, HasSupport DEF CallsSupported
<1>8. TypeOK'
  BY <1>1, <1>2, <1>3, <1>4, <1>5, <1>6 DEF TypeOK
<1> QED BY <1>3, <1>4, <1>5, <1>7, <1>8 DEF IInv

LEMMA PublishDescendantInv ==
  ASSUME IInv, NEW k \in DOMAIN node, PublishDescendant(k)
  PROVE  IInv'
<1>1. /\ ~Idle /\ ~OnStack(k)
      /\ node' = node /\ body' = body /\ version' = version /\ discarding' = discarding
  BY DEF PublishDescendant
<1>2. TypedGraph(node, body) /\ GraphInv(node, body) /\ CallsSupported /\ TypeOK
  BY DEF IInv, TypeOK
<1>3. (TypedGraph(node, body))' /\ (GraphInv(node, body))'
  BY <1>1, <1>2 DEF TypedGraph, GraphInv, DiscardsUnused, PublicSupportIn,
                    PublicIsSupportedIn, BodyDefinesOneNodeIn, Lineage
<1>4. CASE HasMissingSupport(k)
  BY <1>1, <1>3, <1>4, CommitInv DEF PublishDescendant
<1>5. CASE ~HasMissingSupport(k)
  <2>1. calls' = Append(calls, k) /\ saved' = saved
    BY <1>5 DEF PublishDescendant
  <2>2. calls \in Seq(DOMAIN node) /\ Len(calls) \in Nat
    BY <1>1, <1>2, TopFacts DEF TypeOK
  <2>3. /\ calls' \in Seq(DOMAIN node')
        /\ Len(calls') = Len(calls) + 1
        /\ \A i \in 1..Len(calls) : calls'[i] = calls[i]
        /\ calls'[Len(calls) + 1] = k
    BY <1>1, <2>1, <2>2
  <2>4. ~Idle'
    BY <2>2, <2>3 DEF Idle
  <2>5. CallsSupported'
    <3>1. \A i \in 1..Len(calls') : i \in 1..Len(calls) \/ i = Len(calls) + 1
      BY <2>2, <2>3
    <3>2. \A i \in 1..Len(calls) : calls[i] # k
      BY <1>1 DEF OnStack
    <3>3. \A i \in 1..Len(calls') :
            node'[calls'[i]].type \notin LeafType => node'[calls'[i]].support # {}
      BY <1>1, <1>2, <1>5, <2>3, <3>1, HasSupport DEF CallsSupported
    <3>4. \A i, j \in 1..Len(calls') : calls'[i] = calls'[j] => i = j
      BY <1>2, <2>3, <3>1, <3>2 DEF CallsSupported
    <3> QED BY <3>3, <3>4 DEF CallsSupported
  <2>6. (TypedGraph(saved.node, saved.body))' /\ (GraphInv(saved.node, saved.body))'
        /\ DOMAIN saved'.body = DOMAIN body'
    BY <1>1, <2>1, SavedInv DEF IInv
  <2>7. TypeOK'
    BY <1>1, <1>2, <1>3, <2>1, <2>3, <2>4, <2>6 DEF TypeOK, TypedVersions
  <2> QED BY <1>3, <2>5, <2>6, <2>7 DEF IInv
<1> QED BY <1>4, <1>5

\* Publishing a body raises its flag and changes nothing that identifies it.
LEMMA PublishedFacts ==
  ASSUME TypedGraph(node, body), NEW b \in DOMAIN body, NEW minor \in Int,
         NEW bd, bd = Published(b, minor)
  PROVE  /\ DOMAIN bd = DOMAIN body
         /\ bd = [c \in DOMAIN bd |-> bd[c]]
         /\ bd[b].minorVersion = minor /\ bd[b].text = body[b].text
         /\ \A c \in DOMAIN body : /\ c # b => bd[c] = body[c]
                                   /\ bd[c] \in Body
                                   /\ bd[c].majorVersion = body[c].majorVersion
                                   /\ bd[c].isPublic <=> (c = b \/ body[c].isPublic)
<1>1. /\ DOMAIN bd = DOMAIN body
      /\ bd = [c \in DOMAIN bd |-> bd[c]]
      /\ \A c \in DOMAIN body : c # b => bd[c] = body[c]
  BY DEF Published
<1>2. bd[b] = [body[b] EXCEPT !.isPublic = TRUE, !.minorVersion = minor]
  BY DEF Published
<1>3. \A c \in DOMAIN body : body[c] \in Body
  BY DEF TypedGraph
<1>4. /\ bd[b] \in Body /\ bd[b].majorVersion = body[b].majorVersion /\ bd[b].isPublic = TRUE
      /\ bd[b].minorVersion = minor /\ bd[b].text = body[b].text
  BY <1>2, <1>3 DEF Body
<1> QED BY <1>1, <1>3, <1>4

\* A node that is public where it is.
LEMMA PublishInPlaceInv ==
  ASSUME IInv, PublishInPlace
  PROVE  IInv'
<1> DEFINE n == Top
           b == node[Top].body
           minor == FinalMinorVersion(b)
<1>1. /\ ~Idle /\ \A k \in node[n].support : IsPublic(k)
      /\ node[n].previousVersion = None
      /\ node' = node /\ version' = version /\ discarding' = discarding
  BY DEF PublishInPlace, ReadyToFinish, IsDraftOfPublic
<1>2. TypedGraph(node, body) /\ GraphInv(node, body) /\ CallsSupported /\ TypeOK
  BY DEF IInv, TypeOK
<1>3. n \in DOMAIN node /\ Len(calls) \in Nat /\ Len(calls) >= 1 /\ n = calls[Len(calls)]
      /\ \A i \in 1..(Len(calls) - 1) : calls[i] \in DOMAIN node /\ i \in 1..Len(calls)
  BY <1>1, <1>2, TopFacts DEF Top
<1>4. b \in DOMAIN body /\ minor \in Int
  BY <1>2, <1>3, MinorVersionTyped DEF TypedGraph
<1>5. CASE OrderFails
  <2>1. CommitPartial /\ body' = body
    BY <1>5 DEF PublishInPlace
  <2>2. (TypedGraph(node, body))' /\ (GraphInv(node, body))'
    BY <1>1, <1>2, <2>1 DEF TypedGraph, GraphInv, DiscardsUnused, PublicSupportIn,
                            PublicIsSupportedIn, BodyDefinesOneNodeIn, Lineage
  <2> QED BY <1>1, <2>1, <2>2, CommitInv
<1>6. CASE ~OrderFails
  <2>1. Return /\ body' = Published(b, minor)
    BY <1>6 DEF PublishInPlace
  <2> HIDE DEF minor
  <2>2. /\ DOMAIN body' = DOMAIN body
        /\ body' = [c \in DOMAIN body' |-> body'[c]]
        /\ \A c \in DOMAIN body : /\ body'[c] \in Body
                                  /\ body'[c].majorVersion = body[c].majorVersion
                                  /\ body'[c].isPublic <=> (c = b \/ body[c].isPublic)
    BY <1>2, <1>4, <2>1, PublishedFacts
  <2>3. (TypedGraph(node, body))'
    BY <1>1, <1>2, <2>2 DEF TypedGraph
  <2>4. \A m \in DOMAIN node : node[m].body \in DOMAIN body /\ node[m].support \subseteq DOMAIN node
    BY <1>2 DEF TypedGraph
  <2>5. \A m \in DOMAIN node : body'[node[m].body].isPublic => m = n \/ body[node[m].body].isPublic
    BY <1>2, <1>3, <2>2, <2>4 DEF GraphInv, BodyDefinesOneNodeIn
  <2>6. node[n].type \notin LeafType => node[n].support # {}
    BY <1>2, <1>3 DEF CallsSupported
  <2>7. (GraphInv(node, body))'
    <3>1. (PublicSupportIn(node, body))'
      BY <1>1, <1>2, <2>2, <2>4, <2>5 DEF GraphInv, PublicSupportIn, IsPublic, BodyOf
    <3>2. (PublicIsSupportedIn(node, body))'
      BY <1>1, <1>2, <2>5, <2>6 DEF GraphInv, PublicIsSupportedIn
    <3>3. (BodyDefinesOneNodeIn(node))'
      BY <1>1, <1>2 DEF GraphInv, BodyDefinesOneNodeIn
    <3>4. (Lineage(node, body))'
      BY <1>1, <1>2, <2>2, <2>4, <2>5 DEF GraphInv, Lineage
    <3>5. (DiscardsUnused(node))'
      BY <1>1, <1>2 DEF GraphInv, DiscardsUnused
    <3> QED BY <3>1, <3>2, <3>3, <3>4, <3>5 DEF GraphInv
  <2>8. \A i \in 1..(Len(calls) - 1) :
          /\ calls[i] \in DOMAIN node'
          /\ node'[calls[i]].type \notin LeafType => node'[calls[i]].support # {}
    BY <1>1, <1>2, <1>3 DEF CallsSupported
  <2> QED BY <1>1, <2>1, <2>2, <2>3, <2>7, <2>8, ReturnInv
<1> QED BY <1>5, <1>6

\* The draft being merged is the topmost node; this is its public version, and this
\* its content.
TopPublic == node[Top].previousVersion
TopBody == node[Top].body

LEMMA MergeStarts ==
  ASSUME IInv, ReadyToFinish, IsDraftOfPublic(Top)
  PROVE  /\ Top \in DOMAIN node /\ TopPublic \in DOMAIN node /\ TopPublic # Top
         /\ TopPublic # None /\ TopPublic \in Id /\ TopBody \in DOMAIN body /\ TopBody = node[Top].body
         /\ node[TopPublic].previousVersion = None
         /\ node[TopPublic].type = node[Top].type
         /\ body[node[TopPublic].body].isPublic
         /\ ~body[TopBody].isPublic /\ body[TopBody].majorVersion = TopPublic
         /\ \A k \in node[Top].support : body[node[k].body].isPublic
         /\ Top \notin node[Top].support /\ Top \notin node[TopPublic].support
         /\ node[Top].type \notin LeafType => node[Top].support # {}
         /\ \A m \in DOMAIN node : m # Top => node[m].body # TopBody
<1> DEFINE n == Top
           p == TopPublic
           b == TopBody
<1>1. ~Idle /\ \A k \in node[n].support : body[node[k].body].isPublic
  BY DEF ReadyToFinish, IsPublic, BodyOf
<1>2. TypedGraph(node, body) /\ GraphInv(node, body) /\ CallsSupported /\ TypeOK
  BY DEF IInv, TypeOK
<1>3. n \in DOMAIN node /\ Len(calls) \in Nat /\ Len(calls) >= 1 /\ n = calls[Len(calls)]
  BY <1>1, <1>2, TopFacts DEF Top
<1>4. p = node[n].previousVersion /\ b = node[n].body /\ p # None
  BY DEF TopPublic, TopBody, IsDraftOfPublic
<1> HIDE DEF n, p, b
<1>5. /\ p \in DOMAIN node /\ node[p].previousVersion = None /\ p # n
      /\ node[p].type = node[n].type /\ body[node[p].body].isPublic
      /\ ~body[b].isPublic /\ body[b].majorVersion = p
  BY <1>2, <1>3, <1>4 DEF GraphInv, Lineage
<1>6. b \in DOMAIN body /\ p \in Id /\ \A m \in DOMAIN node : m # n => node[m].body # b
  BY <1>2, <1>3, <1>4, <1>5 DEF TypedGraph, GraphInv, BodyDefinesOneNodeIn
<1>7. n \notin node[n].support /\ n \notin node[p].support
  BY <1>1, <1>2, <1>4, <1>5 DEF GraphInv, PublicSupportIn
<1>8. node[n].type \notin LeafType => node[n].support # {}
  BY <1>2, <1>3 DEF CallsSupported
<1> QED BY <1>1, <1>3, <1>4, <1>5, <1>6, <1>7, <1>8 DEF n, p, b

\* The merge stores the draft's content under its public version, takes the draft
\* away and leads its parents to the public version.
LEMMA MergedNodes ==
  ASSUME IInv, ReadyToFinish, IsDraftOfPublic(Top), node' = Merged(Top, TopPublic)
  PROVE  /\ DOMAIN node' = DOMAIN node \ {Top}
         /\ node' = [m \in DOMAIN node' |-> node'[m]]
         /\ node'[TopPublic].support = node[Top].support
         /\ \A m \in DOMAIN node' :
              /\ node'[m] \in Node
              /\ node'[m].body = IF m = TopPublic THEN TopBody ELSE node[m].body
              /\ node'[m].type = node[m].type
              /\ node'[m].previousVersion = node[m].previousVersion
         /\ \A m \in DOMAIN node' :
              m # TopPublic /\ Top \notin node[m].support => node'[m].support = node[m].support
         /\ \A m \in DOMAIN node' :
              m # TopPublic /\ Top \in node[m].support
                => node'[m].support = (node[m].support \ {Top}) \cup {TopPublic}
         /\ \A m \in DOMAIN node' :
              node'[m].body \in DOMAIN body /\ node'[m].support \subseteq DOMAIN node'
<1> DEFINE n == Top
           p == TopPublic
           b == TopBody
<1>1. /\ n \in DOMAIN node /\ p \in DOMAIN node /\ p # n /\ p \in Id /\ b \in DOMAIN body
      /\ node[p].previousVersion = None /\ node[p].type = node[n].type /\ n \notin node[n].support
      /\ b = node[n].body
  BY MergeStarts
<1>2. \A m \in DOMAIN node :
        node[m] \in Node /\ node[m].body \in DOMAIN body /\ node[m].support \subseteq DOMAIN node
  BY DEF IInv, TypeOK, TypedGraph
<1>3. node' = Merged(n, p)
  OBVIOUS
<1> HIDE DEF n, p, b
<1>4. /\ DOMAIN node' = DOMAIN node \ {n}
      /\ node' = [m \in DOMAIN node' |-> node'[m]]
  BY <1>3 DEF Merged
<1>5. /\ node'[p] \in Node
      /\ node'[p].body = b
      /\ node'[p].support = node[n].support
      /\ node'[p].type = node[n].type
      /\ node'[p].previousVersion = None
  <2>1. node'[p] = [node[p] EXCEPT !.body = b, !.support = node[n].support]
    BY <1>1, <1>3 DEF Merged, Transplanted
  <2>2. node[n] \in Node /\ node[p] \in Node
    BY <1>1, <1>2
  <2> QED BY <1>1, <2>1, <2>2 DEF Node
<1>6. ASSUME NEW m \in DOMAIN node', m # p
      PROVE  /\ node'[m] \in Node
             /\ node'[m].body = node[m].body
             /\ node'[m].type = node[m].type
             /\ node'[m].previousVersion = node[m].previousVersion
             /\ n \in node[m].support => node'[m].support = (node[m].support \ {n}) \cup {p}
             /\ n \notin node[m].support => node'[m].support = node[m].support
  <2>1. m \in DOMAIN node /\ m # n /\ node[m] \in Node
    BY <1>2, <1>4
  <2>2. CASE n \in node[m].support
    <3>1. node'[m] = [node[m] EXCEPT !.support = (node[m].support \ {n}) \cup {p}]
      BY <1>3, <1>6, <2>1, <2>2 DEF Merged, Parents, Replaced
    <3> QED BY <1>1, <2>1, <2>2, <3>1 DEF Node
  <2>3. CASE n \notin node[m].support
    <3>1. node'[m] = node[m]
      BY <1>3, <1>6, <2>1, <2>3 DEF Merged, Parents
    <3> QED BY <2>1, <2>3, <3>1
  <2> QED BY <2>2, <2>3
<1>7. \A m \in DOMAIN node' :
        /\ node'[m] \in Node
        /\ node'[m].body = IF m = p THEN b ELSE node[m].body
        /\ node'[m].type = node[m].type
        /\ node'[m].previousVersion = node[m].previousVersion
  BY <1>1, <1>5, <1>6
<1>8. \A m \in DOMAIN node' :
        m # p /\ n \notin node[m].support => node'[m].support = node[m].support
  BY <1>6
<1>9. \A m \in DOMAIN node' :
        m # p /\ n \in node[m].support => node'[m].support = (node[m].support \ {n}) \cup {p}
  BY <1>6
<1>10. ASSUME NEW m \in DOMAIN node'
       PROVE  node'[m].body \in DOMAIN body /\ node'[m].support \subseteq DOMAIN node'
  <2>1. /\ node[m].support \subseteq DOMAIN node /\ node[m].body \in DOMAIN body
        /\ node[n].support \subseteq DOMAIN node /\ p \in DOMAIN node'
    BY <1>1, <1>2, <1>4
  <2>2. CASE m = p
    BY <1>1, <1>4, <1>5, <2>1, <2>2
  <2>3. CASE m # p /\ n \notin node[m].support
    BY <1>4, <1>7, <1>8, <2>1, <2>3
  <2>4. CASE m # p /\ n \in node[m].support
    BY <1>4, <1>7, <1>9, <2>1, <2>4
  <2> QED BY <2>2, <2>3, <2>4
<1> QED BY <1>4, <1>5, <1>7, <1>8, <1>9, <1>10 DEF n, p, b

\* Afterwards the public version is what was public before, of the same version.
LEMMA MergedBodies ==
  ASSUME IInv, ReadyToFinish, IsDraftOfPublic(Top), NEW minor \in Int,
         node' = Merged(Top, TopPublic), body' = Published(TopBody, minor)
  PROVE  /\ DOMAIN body' = DOMAIN body
         /\ body' = [c \in DOMAIN body' |-> body'[c]]
         /\ body'[TopBody].minorVersion = minor /\ body'[TopBody].text = body[TopBody].text
         /\ \A c \in DOMAIN body : /\ c # TopBody => body'[c] = body[c]
                                   /\ body'[c] \in Body
                                   /\ body'[c].majorVersion = body[c].majorVersion
                                   /\ body'[c].isPublic <=> (c = TopBody \/ body[c].isPublic)
         /\ \A m \in DOMAIN node' :
              /\ body'[node'[m].body].isPublic <=> (m = TopPublic \/ body[node[m].body].isPublic)
              /\ body'[node'[m].body].majorVersion = body[node[m].body].majorVersion
<1> DEFINE n == Top
           p == TopPublic
           b == TopBody
<1>1. /\ n \in DOMAIN node /\ p \in DOMAIN node /\ b \in DOMAIN body
      /\ body[b].majorVersion = p /\ body[node[p].body].isPublic
      /\ node[p].previousVersion = None
      /\ \A m \in DOMAIN node : m # n => node[m].body # b
  BY MergeStarts
<1>2. TypedGraph(node, body) /\ GraphInv(node, body)
  BY DEF IInv, TypeOK
<1>3. body' = Published(b, minor)
  OBVIOUS
<1>4. DOMAIN node' = DOMAIN node \ {n}
  BY MergedNodes
<1>5. \A m \in DOMAIN node' : node'[m].body = IF m = p THEN b ELSE node[m].body
  BY MergedNodes
<1> HIDE DEF n, p, b
<1>6. /\ DOMAIN body' = DOMAIN body
      /\ body' = [c \in DOMAIN body' |-> body'[c]]
      /\ body'[b].minorVersion = minor /\ body'[b].text = body[b].text
      /\ \A c \in DOMAIN body : /\ c # b => body'[c] = body[c]
                                /\ body'[c] \in Body
                                /\ body'[c].majorVersion = body[c].majorVersion
                                /\ body'[c].isPublic <=> (c = b \/ body[c].isPublic)
  BY <1>1, <1>2, <1>3, PublishedFacts
<1>7. ASSUME NEW m \in DOMAIN node'
      PROVE  /\ body'[node'[m].body].isPublic <=> (m = p \/ body[node[m].body].isPublic)
             /\ body'[node'[m].body].majorVersion = body[node[m].body].majorVersion
  <2>1. CASE m = p
    <3>1. body[node[p].body].majorVersion = p
      BY <1>1, <1>2 DEF GraphInv, Lineage
    <3> QED BY <1>1, <1>5, <1>6, <2>1, <3>1
  <2>2. CASE m # p
    <3>1. node[m].body \in DOMAIN body /\ node[m].body # b
      BY <1>1, <1>2, <1>4 DEF TypedGraph
    <3> QED BY <1>5, <1>6, <2>2, <3>1
  <2> QED BY <2>1, <2>2
<1> QED BY <1>6, <1>7 DEF n, p, b

\* The merge keeps the graph sound and the callers below it in place.
LEMMA MergedInv ==
  ASSUME IInv, ReadyToFinish, IsDraftOfPublic(Top), NEW minor \in Int,
         node' = Merged(Top, TopPublic),
         body' = Published(TopBody, minor),
         version' = version, discarding' = discarding
  PROVE  /\ (TypedGraph(node, body))' /\ (GraphInv(node, body))'
         /\ DOMAIN body' = DOMAIN body
         /\ \A i \in 1..(Len(calls) - 1) :
              /\ calls[i] \in DOMAIN node'
              /\ node'[calls[i]].type \notin LeafType => node'[calls[i]].support # {}
<1> DEFINE n == Top
           p == TopPublic
           b == TopBody
<1>1. ~Idle
  BY DEF ReadyToFinish
<1>2. TypedGraph(node, body) /\ GraphInv(node, body) /\ CallsSupported /\ TypeOK
  BY DEF IInv, TypeOK
<1>3. n \in DOMAIN node /\ Len(calls) \in Nat /\ Len(calls) >= 1 /\ n = calls[Len(calls)]
      /\ \A i \in 1..(Len(calls) - 1) : calls[i] \in DOMAIN node /\ i \in 1..Len(calls)
  BY <1>1, <1>2, TopFacts DEF Top
<1>4. /\ p \in DOMAIN node /\ p # n /\ ~body[b].isPublic /\ p # None
      /\ node[p].previousVersion = None /\ node[p].type = node[n].type
      /\ \A k \in node[n].support : body[node[k].body].isPublic
      /\ node[n].type \notin LeafType => node[n].support # {}
      /\ \A m \in DOMAIN node : m # n => node[m].body # b
      /\ b = node[n].body
  BY MergeStarts
<1>5. /\ DOMAIN body' = DOMAIN body
      /\ body' = [c \in DOMAIN body' |-> body'[c]]
      /\ \A c \in DOMAIN body : body'[c] \in Body /\ body'[c].majorVersion = body[c].majorVersion
  BY MergedBodies
<1>6. /\ DOMAIN node' = DOMAIN node \ {n}
      /\ node' = [m \in DOMAIN node' |-> node'[m]]
      /\ node'[p].support = node[n].support
  BY MergedNodes
<1>7. \A m \in DOMAIN node' :
        /\ node'[m] \in Node
        /\ node'[m].body = IF m = p THEN b ELSE node[m].body
        /\ node'[m].type = node[m].type
        /\ node'[m].previousVersion = node[m].previousVersion
        /\ node'[m].body \in DOMAIN body /\ node'[m].support \subseteq DOMAIN node'
  BY MergedNodes
<1>8. \A m \in DOMAIN node' :
        /\ m # p /\ n \notin node[m].support => node'[m].support = node[m].support
        /\ m # p /\ n \in node[m].support => node'[m].support = (node[m].support \ {n}) \cup {p}
  BY MergedNodes
<1>9. \A m \in DOMAIN node' :
        /\ body'[node'[m].body].isPublic <=> (m = p \/ body[node[m].body].isPublic)
        /\ body'[node'[m].body].majorVersion = body[node[m].body].majorVersion
  BY MergedBodies
<1> HIDE DEF n, p, b
<1>10. (TypedGraph(node, body))'
  BY <1>2, <1>5, <1>6, <1>7 DEF TypedGraph
<1>11. (PublicSupportIn(node, body))'
  <2>1. ASSUME NEW m \in DOMAIN node', body'[node'[m].body].isPublic, NEW k \in node'[m].support
        PROVE  body'[node'[k].body].isPublic
    <3>1. k \in DOMAIN node'
      BY <1>7
    <3>2. CASE m = p
      BY <1>4, <1>6, <1>9, <3>1, <3>2
    <3>3. CASE m # p
      <4>1. body[node[m].body].isPublic /\ m \in DOMAIN node
        BY <1>6, <1>9, <2>1, <3>3
      <4>2. n \notin node[m].support
        BY <1>2, <1>4, <4>1 DEF GraphInv, PublicSupportIn
      <4>3. k \in node[m].support
        BY <1>8, <3>3, <4>2
      <4> QED BY <1>2, <1>9, <3>1, <4>1, <4>3 DEF GraphInv, PublicSupportIn
    <3> QED BY <3>2, <3>3
  <2> QED BY <2>1 DEF PublicSupportIn
<1>12. (PublicIsSupportedIn(node, body))'
  <2>1. ASSUME NEW m \in DOMAIN node', body'[node'[m].body].isPublic, node'[m].type \notin LeafType
        PROVE  node'[m].support # {}
    <3>1. CASE m = p
      <4>1. node'[p].type = node[n].type
        BY <1>4, <1>7, <3>1
      <4> QED BY <1>4, <1>6, <2>1, <3>1, <4>1
    <3>2. CASE m # p /\ n \in node[m].support
      BY <1>8, <3>2
    <3>3. CASE m # p /\ n \notin node[m].support
      <4>1. body[node[m].body].isPublic /\ node[m].type \notin LeafType /\ m \in DOMAIN node
        BY <1>6, <1>7, <1>9, <2>1, <3>3
      <4> QED BY <1>2, <1>8, <3>3, <4>1 DEF GraphInv, PublicIsSupportedIn
    <3> QED BY <3>1, <3>2, <3>3
  <2> QED BY <2>1 DEF PublicIsSupportedIn
<1>13. (BodyDefinesOneNodeIn(node))'
  BY <1>2, <1>4, <1>6, <1>7 DEF GraphInv, BodyDefinesOneNodeIn
<1>14. (Lineage(node, body))'
  <2>1. ASSUME NEW m \in DOMAIN node', node'[m].previousVersion = None
        PROVE  body'[node'[m].body].majorVersion = m
    BY <1>2, <1>6, <1>7, <1>9, <2>1 DEF GraphInv, Lineage
  <2>2. ASSUME NEW m \in DOMAIN node', NEW q, q = node'[m].previousVersion, q # None
        PROVE  /\ q \in DOMAIN node'
               /\ node'[q].previousVersion = None
               /\ node'[q].type = node'[m].type
               /\ body'[node'[q].body].isPublic
               /\ ~body'[node'[m].body].isPublic
               /\ body'[node'[m].body].majorVersion = q
    <3>1. m \in DOMAIN node /\ node[m].previousVersion = q /\ node'[m].type = node[m].type
      BY <1>6, <1>7, <2>2
    <3>2. /\ q \in DOMAIN node /\ node[q].previousVersion = None
          /\ node[q].type = node[m].type /\ body[node[q].body].isPublic
          /\ ~body[node[m].body].isPublic /\ body[node[m].body].majorVersion = q
      BY <1>2, <2>2, <3>1 DEF GraphInv, Lineage
    <3>3. q \in DOMAIN node' /\ m # p
      BY <1>3, <1>4, <1>6, <2>2, <3>1, <3>2
    <3>4. node'[q].previousVersion = None /\ node'[q].type = node[m].type
      BY <1>7, <3>2, <3>3
    <3> QED BY <1>9, <3>1, <3>2, <3>3, <3>4
  <2> QED BY <2>1, <2>2 DEF Lineage
<1>15. (DiscardsUnused(node))'
  BY <1>2, <1>3, <1>4, <1>6, <1>7 DEF GraphInv, DiscardsUnused
<1>16. (GraphInv(node, body))'
  BY <1>11, <1>12, <1>13, <1>14, <1>15 DEF GraphInv
<1>17. ASSUME NEW i \in 1..(Len(calls) - 1)
       PROVE  /\ calls[i] \in DOMAIN node'
              /\ node'[calls[i]].type \notin LeafType => node'[calls[i]].support # {}
  <2>1. calls[i] \in DOMAIN node /\ i \in 1..Len(calls) /\ Len(calls) \in 1..Len(calls) /\ i # Len(calls)
    BY <1>3
  <2>2. calls[i] # n
    BY <1>2, <1>3, <2>1 DEF CallsSupported
  <2>3. calls[i] \in DOMAIN node'
    BY <1>6, <2>1, <2>2
  <2>4. CASE calls[i] = p
    <3>1. node'[p].type = node[n].type
      BY <1>4, <1>7, <2>3, <2>4
    <3> QED BY <1>4, <1>6, <2>4, <3>1
  <2>5. CASE calls[i] # p /\ n \in node[calls[i]].support
    BY <1>8, <2>3, <2>5
  <2>6. CASE calls[i] # p /\ n \notin node[calls[i]].support
    BY <1>2, <1>7, <1>8, <2>1, <2>3, <2>6 DEF CallsSupported
  <2> QED BY <2>3, <2>4, <2>5, <2>6
<1> QED BY <1>5, <1>10, <1>16, <1>17

LEMMA MergeDraftInv ==
  ASSUME IInv, MergeDraft
  PROVE  IInv'
<1> DEFINE minor == FinalMinorVersion(node[Top].body)
<1>1. /\ ReadyToFinish /\ ~Idle /\ IsDraftOfPublic(Top) /\ Return
      /\ node' = Merged(Top, TopPublic) /\ body' = Published(TopBody, minor)
      /\ version' = version /\ discarding' = discarding
  BY DEF MergeDraft, ReadyToFinish, TopPublic, TopBody
<1>2. TypedGraph(node, body) /\ Top \in DOMAIN node
  BY <1>1, TopFacts DEF IInv, TypeOK
<1>3. minor \in Int
  BY <1>2, MinorVersionTyped DEF TypedGraph
<1> HIDE DEF minor
<1>4. /\ (TypedGraph(node, body))' /\ (GraphInv(node, body))'
      /\ DOMAIN body' = DOMAIN body
      /\ \A i \in 1..(Len(calls) - 1) :
            /\ calls[i] \in DOMAIN node'
            /\ node'[calls[i]].type \notin LeafType => node'[calls[i]].support # {}
  BY <1>1, <1>3, MergedInv
<1> QED BY <1>1, <1>4, ReturnInv

LEMMA MergeRollsBackInv == ASSUME IInv, MergeRollsBack PROVE IInv'
BY RollbackInv DEF MergeRollsBack, ReadyToFinish

LEMMA OverflowStackInv == ASSUME IInv, OverflowStack PROVE IInv'
BY RollbackInv DEF OverflowStack

LEMMA MergeLosesDraftInv ==
  ASSUME IInv, MergeLosesDraft
  PROVE  IInv'
<1>1. /\ ~Idle /\ IsDraftOfPublic(Top) /\ CommitPartial /\ node' = NodesWithout(Top)
      /\ body' = body /\ version' = version /\ discarding' = discarding
  BY DEF MergeLosesDraft, ReadyToFinish
<1>2. Top \in DOMAIN node /\ ~IsPublic(Top)
  BY <1>1, TopFacts DEF IInv, GraphInv, Lineage, IsDraftOfPublic, IsPublic, BodyOf
<1>3. (TypedGraph(node, body))' /\ (GraphInv(node, body))'
  BY <1>1, <1>2, NodesWithoutInv
<1> QED BY <1>1, <1>3, CommitInv

LEMMA MergeStopsHalfwayInv ==
  ASSUME IInv, MergeStopsHalfway
  PROVE  IInv'
<1> DEFINE minor == body[node[Top].body].minorVersion
<1>1. /\ ReadyToFinish /\ ~Idle /\ IsDraftOfPublic(Top) /\ CommitPartial
      /\ node' = Merged(Top, TopPublic) /\ body' = Published(TopBody, minor)
      /\ version' = version /\ discarding' = discarding
  BY DEF MergeStopsHalfway, ReadyToFinish, TopPublic, TopBody
<1>2. TypedGraph(node, body) /\ Top \in DOMAIN node
  BY <1>1, TopFacts DEF IInv, TypeOK
<1>3. minor \in Int
  BY <1>2 DEF TypedGraph, Body
<1> HIDE DEF minor
<1>4. /\ (TypedGraph(node, body))' /\ (GraphInv(node, body))'
      /\ DOMAIN body' = DOMAIN body
  BY <1>1, <1>3, MergedInv
<1> QED BY <1>1, <1>4, CommitInv

\* A step that changes nothing changes nothing.
LEMMA StutterInv == ASSUME IInv, UNCHANGED vars PROVE IInv'
<1>1. /\ node' = node /\ body' = body /\ version' = version
      /\ calls' = calls /\ saved' = saved /\ discarding' = discarding
  BY DEF vars
<1>2. (TypedGraph(node, body))' /\ TypedVersions'
  BY <1>1 DEF IInv, TypeOK, TypedGraph, TypedVersions
<1>3. (GraphInv(node, body))' /\ CallsSupported'
  BY <1>1 DEF IInv, GraphInv, DiscardsUnused, PublicSupportIn, PublicIsSupportedIn,
              BodyDefinesOneNodeIn, Lineage, CallsSupported
<1>4. Idle' <=> Idle
  BY <1>1 DEF Idle
<1>5. CASE Idle
  BY <1>1, <1>2, <1>3, <1>4, <1>5, IdleInv DEF IInv, TypeOK
<1>6. CASE ~Idle
  <2>1. (TypedGraph(saved.node, saved.body))' /\ (GraphInv(saved.node, saved.body))'
    BY <1>1, <1>6, SavedInv
  <2>2. TypeOK'
    BY <1>1, <1>2, <1>4, <1>6, <2>1 DEF IInv, TypeOK
  <2> QED BY <1>1, <1>3, <1>4, <1>6, <2>1, <2>2 DEF IInv
<1> QED BY <1>5, <1>6

-----------------------------------------------------------------------------
(***************************************************************************)
(* The theorems.                                                           *)
(***************************************************************************)
LEMMA StepInv == IInv /\ [Next]_vars => IInv'
<1>1. SUFFICES ASSUME IInv, [Next]_vars PROVE IInv'
  OBVIOUS
<1>2. ASSUME NEW type \in NodeType, NEW author \in Author,
             NEW support \in SUBSET DOMAIN node, NEW text \in Texts(support),
             Create(type, author, support, text)
      PROVE  IInv'
  BY <1>1, <1>2, CreateInv
<1>3. ASSUME NEW n \in DOMAIN node, NEW support \in SUBSET DOMAIN node,
             NEW text \in Texts(support), Edit(n, support, text)
      PROVE  IInv'
  BY <1>1, <1>3, EditInv
<1>4. ASSUME NEW n \in DOMAIN node, NEW author \in Author, MakeDraft(n, author)
      PROVE  IInv'
  BY <1>1, <1>4, MakeDraftInv
<1>5. ASSUME NEW n \in DOMAIN node, DiscardDraft(n) PROVE IInv'
  BY <1>1, <1>5, DiscardDraftInv
<1>6. ASSUME NEW b \in discarding, DiscardBody(b) PROVE IInv'
  BY <1>1, <1>6, DiscardBodyInv
<1>7. CASE Editing
  BY <1>2, <1>3, <1>4, <1>5, <1>6, <1>7 DEF Editing
<1>8. ASSUME NEW n \in DOMAIN node, PublishNode(n) PROVE IInv'
  BY <1>1, <1>8, PublishNodeInv
<1>9. ASSUME NEW k \in DOMAIN node, PublishDescendant(k) PROVE IInv'
  BY <1>1, <1>9, PublishDescendantInv
<1>10. CASE OverflowStack
  BY <1>1, <1>10, OverflowStackInv
<1>11. CASE PublishInPlace
  BY <1>1, <1>11, PublishInPlaceInv
<1>12. CASE MergeDraft
  BY <1>1, <1>12, MergeDraftInv
<1>13. CASE MergeRollsBack
  BY <1>1, <1>13, MergeRollsBackInv
<1>14. CASE MergeLosesDraft
  BY <1>1, <1>14, MergeLosesDraftInv
<1>15. CASE MergeStopsHalfway
  BY <1>1, <1>15, MergeStopsHalfwayInv
<1>16. CASE PublishStep
  BY <1>9, <1>10, <1>11, <1>12, <1>13, <1>14, <1>15, <1>16 DEF PublishStep
<1>17. CASE Crash
  BY <1>1, <1>17, CrashInv
<1>18. CASE UNCHANGED vars
  BY <1>1, <1>18, StutterInv
<1> QED BY <1>1, <1>7, <1>8, <1>16, <1>17, <1>18 DEF Next

\* The invariant holds of every run, for any identifiers and authors.
THEOREM Invariance == Spec => []IInv
BY InitInv, StepInv, PTL DEF Spec

\* Every edge of the graph, and of the graph a rollback returns to, leads to
\* something stored, and every variable has its shape.
THEOREM TypeCorrect == Spec => []TypeOK
<1>1. IInv => TypeOK
  BY DEF IInv
<1> QED BY <1>1, Invariance, PTL

\* Public nodes rest on public nodes: no publication, finished, refused, rolled
\* back or cut short by a crash, leaves a public node on private ground.
THEOREM PublicSupportCorrect == Spec => []PublicSupport
<1>1. IInv => PublicSupport
  BY DEF IInv, GraphInv, PublicSupport
<1> QED BY <1>1, Invariance, PTL

\* No public assertion or interpretation ever loses its last child.
THEOREM PublicIsSupportedCorrect == Spec => []PublicIsSupported
<1>1. IInv => PublicIsSupported
  BY DEF IInv, GraphInv, PublicIsSupported
<1> QED BY <1>1, Invariance, PTL

\* However drafts are merged, a body stays the content of one node.
THEOREM BodyDefinesOneNodeCorrect == Spec => []BodyDefinesOneNode
<1>1. IInv => BodyDefinesOneNode
  BY DEF IInv, GraphInv, BodyDefinesOneNode
<1> QED BY <1>1, Invariance, PTL

\* All edits of a major version, whoever wrote them, meet at one public node.
THEOREM OneAddressPerVersionCorrect == Spec => []OneAddressPerVersion
<1>1. ASSUME IInv PROVE OneAddressPerVersion
  <2>1. Lineage(node, body)
    BY <1>1 DEF IInv, GraphInv
  <2>2. ASSUME NEW n \in DOMAIN node, IsPublic(n) PROVE VersionOf(n) = n
    BY <2>1, <2>2 DEF Lineage, IsPublic, VersionOf, BodyOf
  <2>3. ASSUME NEW m \in DOMAIN node, NEW n \in DOMAIN node,
               IsPublic(m), IsPublic(n), VersionOf(m) = VersionOf(n)
        PROVE  m = n
    BY <2>2, <2>3
  <2>4. ASSUME NEW n \in DOMAIN node, IsDraftOfPublic(n), NEW p, p = node[n].previousVersion
        PROVE  /\ p \in DOMAIN node /\ IsPublic(p) /\ VersionOf(p) = VersionOf(n)
               /\ node[p].type = node[n].type
    <3>1. /\ p \in DOMAIN node /\ node[p].type = node[n].type
          /\ body[node[p].body].isPublic /\ body[node[n].body].majorVersion = p
      BY <2>1, <2>4 DEF Lineage, IsDraftOfPublic
    <3>2. IsPublic(p)
      BY <3>1 DEF IsPublic, BodyOf
    <3> QED BY <2>2, <3>1, <3>2 DEF VersionOf, BodyOf
  <2> QED BY <2>3, <2>4 DEF OneAddressPerVersion
<1> QED BY <1>1, Invariance, PTL

-----------------------------------------------------------------------------
(***************************************************************************)
(* Further facts about the operators of the model.                         *)
(***************************************************************************)
LEMMA AllowedFacts ==
  ASSUME NEW type \in NodeType, NEW support \in AllowedSupport(type)
  PROVE  /\ type \in LeafType => support = {}
         /\ type = "interpretation" => \A k \in support : node[k].type \in LeafType
BY DEF AllowedSupport, NodeType, LeafType

\* An edge that had an owner has that owner still, and new edges get one.
LEMMA MergeKeepsOwners ==
  ASSUME TypeOK, NEW v \in DOMAIN version, NEW author, NEW support
  PROVE  LET old == version[v].edgeOwners
             new == MergeEdgeOwners(v, author, support).edgeOwners
         IN  /\ DOMAIN new = DOMAIN old \cup {VersionOf(k) : k \in support}
             /\ \A w \in DOMAIN old : new[w] = old[w]
<1> DEFINE old == version[v].edgeOwners
           new == [w \in DOMAIN old \cup {VersionOf(k) : k \in support} |->
                     IF w \in DOMAIN old THEN old[w] ELSE author]
<1>1. version[v] \in MajorVersion
  BY DEF TypeOK, TypedVersions
<1>2. MergeEdgeOwners(v, author, support).edgeOwners = new
  BY <1>1 DEF MergeEdgeOwners, MajorVersion
<1> QED BY <1>2

\* What is taken out of the graph leaves everything else as it was.
LEMMA NodesWithoutFacts ==
  ASSUME TypeOK, NEW n \in DOMAIN node, node' = NodesWithout(n)
  PROVE  /\ DOMAIN node' = DOMAIN node \ {n}
         /\ \A m \in DOMAIN node' :
              /\ m \in DOMAIN node
              /\ node'[m].body = node[m].body
              /\ node'[m].type = node[m].type
              /\ node'[m].previousVersion = node[m].previousVersion
              /\ node'[m].support = node[m].support \ {n}
<1>1. \A m \in DOMAIN node : node[m] \in Node
  BY DEF TypeOK, TypedGraph
<1> QED BY <1>1 DEF NodesWithout, Node

\* A public node founded its version.
LEMMA PublicVersion ==
  ASSUME NEW nd, NEW bd, Lineage(nd, bd), NEW n \in DOMAIN nd, bd[nd[n].body].isPublic
  PROVE  bd[nd[n].body].majorVersion = n /\ nd[n].previousVersion = None
BY DEF Lineage

-----------------------------------------------------------------------------
(***************************************************************************)
(* The content of the graph, action by action.                             *)
(***************************************************************************)
LEMMA CreateContent ==
  ASSUME FullInv, NEW type \in NodeType, NEW author \in Author,
         NEW support \in SUBSET DOMAIN node, NEW text \in Texts(support),
         Create(type, author, support, text)
  PROVE  (ContentInv(node, body))'
<1> DEFINE newNode(i) == [type |-> type, body |-> i, support |-> support,
                          previousVersion |-> None]
           newVersion == [author |-> author,
                          edgeOwners |-> [w \in {VersionOf(k) : k \in support} |-> author]]
<1>1. PICK i \in Fresh :
        /\ node' = Stored(node, i, newNode(i))
        /\ body' = Stored(body, i, NewBody(i, author, text))
        /\ version' = Stored(version, i, newVersion)
  BY DEF Create
<1>2. support \in AllowedSupport(type)
  BY DEF Create
<1>3. i \notin DOMAIN node /\ i \notin DOMAIN body /\ i \notin DOMAIN version
  BY <1>1 DEF Fresh
<1>4. /\ newNode(i).type = type /\ newNode(i).body = i /\ newNode(i).support = support
      /\ newNode(i).previousVersion = None
      /\ DOMAIN newVersion.edgeOwners = {VersionOf(k) : k \in support}
  OBVIOUS
<1> HIDE DEF newNode, newVersion
<1>5. /\ DOMAIN node' = DOMAIN node \cup {i}
      /\ node'[i].type = type /\ node'[i].body = i /\ node'[i].support = support
      /\ node'[i].previousVersion = None
      /\ \A n \in DOMAIN node : node'[n] = node[n]
  <2>1. /\ DOMAIN node' = DOMAIN node \cup {i} /\ node'[i] = newNode(i)
        /\ \A n \in DOMAIN node : node'[n] = node[n]
    BY <1>1, <1>3 DEF Stored
  <2> QED BY <1>4, <2>1
<1>6. /\ DOMAIN body' = DOMAIN body \cup {i}
      /\ body'[i] = NewBody(i, author, text)
      /\ \A b \in DOMAIN body : body'[b] = body[b]
  BY <1>1, <1>3 DEF Stored
<1>7. /\ DOMAIN version'[i].edgeOwners = {VersionOf(k) : k \in support}
      /\ \A v \in DOMAIN version : version'[v] = version[v]
  <2>1. version'[i] = newVersion /\ \A v \in DOMAIN version : version'[v] = version[v]
    BY <1>1, <1>3 DEF Stored
  <2> QED BY <1>4, <2>1
<1>8. /\ \A n \in DOMAIN node : node[n].body \in DOMAIN body /\ node[n].support \subseteq DOMAIN node
      /\ \A b \in DOMAIN body : body[b].majorVersion \in DOMAIN version
      /\ body'[i].majorVersion = i /\ body'[i].isPublic = FALSE
  BY <1>6 DEF FullInv, IInv, TypeOK, TypedGraph, NewBody
<1>9. ContentInv(node, body)
  BY DEF FullInv
<1>10. (EdgesOwnedIn(node, body))'
  <2>1. ASSUME NEW n \in DOMAIN node, NEW k \in node[n].support
        PROVE  body'[node'[k].body].majorVersion
                 \in DOMAIN version'[body'[node'[n].body].majorVersion].edgeOwners
    BY <1>5, <1>6, <1>7, <1>8, <1>9 DEF ContentInv, EdgesOwnedIn
  <2>2. ASSUME NEW k \in support
        PROVE  body'[node'[k].body].majorVersion \in DOMAIN version'[i].edgeOwners
    BY <1>5, <1>6, <1>7, <1>8 DEF VersionOf, BodyOf
  <2> QED BY <1>5, <1>8, <2>1, <2>2 DEF EdgesOwnedIn
<1>11. (KindsFit(node))'
  BY <1>2, <1>5, <1>8, <1>9, AllowedFacts DEF ContentInv, KindsFit
<1>12. (TextsFit(node, body))'
  BY <1>5, <1>6, <1>8, <1>9 DEF ContentInv, TextsFit
<1>13. (DraftsUnnumbered(node, body))'
  BY <1>5, <1>6, <1>8, <1>9 DEF ContentInv, DraftsUnnumbered
<1> QED BY <1>10, <1>11, <1>12, <1>13 DEF ContentInv

LEMMA EditContent ==
  ASSUME FullInv, NEW n \in DOMAIN node, NEW support \in SUBSET DOMAIN node,
         NEW text \in Texts(support), Edit(n, support, text)
  PROVE  (ContentInv(node, body))'
<1> DEFINE b == node[n].body
           v == VersionOf(n)
<1>1. /\ ~IsPublic(n) /\ support \in AllowedSupport(node[n].type)
      /\ node' = [node EXCEPT ![n].support = support]
      /\ body' = [body EXCEPT ![b].text = text]
      /\ version' = [version EXCEPT ![v] = MergeEdgeOwners(v, body[b].author, support)]
  BY DEF Edit
<1>2. TypeOK /\ TypedGraph(node, body) /\ GraphInv(node, body) /\ ContentInv(node, body)
  BY DEF FullInv, IInv, TypeOK
<1>3. /\ b \in DOMAIN body /\ v \in DOMAIN version /\ v = body[node[n].body].majorVersion
      /\ node[n].type \in NodeType /\ ~body[b].isPublic
      /\ \A m \in DOMAIN node : node[m].body \in DOMAIN body /\ node[m].support \subseteq DOMAIN node
      /\ \A m \in DOMAIN node : m # n => node[m].body # b
  BY <1>1, <1>2 DEF TypedGraph, Node, VersionOf, BodyOf, IsPublic, GraphInv, BodyDefinesOneNodeIn
<1>4. /\ DOMAIN node' = DOMAIN node
      /\ node'[n].support = support
      /\ \A m \in DOMAIN node : /\ node'[m].body = node[m].body
                                /\ node'[m].type = node[m].type
                                /\ node'[m].previousVersion = node[m].previousVersion
                                /\ m # n => node'[m].support = node[m].support
  BY <1>1, <1>2 DEF TypedGraph, Node
<1>5. /\ \A c \in DOMAIN body : /\ body'[c].isPublic = body[c].isPublic
                                /\ body'[c].majorVersion = body[c].majorVersion
                                /\ body'[c].minorVersion = body[c].minorVersion
                                /\ c # b => body'[c].text = body[c].text
  BY <1>1, <1>2, <1>3 DEF TypedGraph, Body
<1>6. /\ \A w \in DOMAIN version : w # v => version'[w] = version[w]
      /\ version'[v] = MergeEdgeOwners(v, body[b].author, support)
  BY <1>1, <1>3
<1>7. DOMAIN version'[v].edgeOwners
        = DOMAIN version[v].edgeOwners \cup {VersionOf(k) : k \in support}
  BY <1>2, <1>3, <1>6, MergeKeepsOwners
<1>8. \A m \in DOMAIN node : body[node[m].body].majorVersion \in DOMAIN version
  BY <1>2 DEF TypedGraph
<1> HIDE DEF b, v
<1>9. (EdgesOwnedIn(node, body))'
  <2>1. ASSUME NEW m \in DOMAIN node, NEW k \in node'[m].support
        PROVE  body[node[k].body].majorVersion
                 \in DOMAIN version'[body[node[m].body].majorVersion].edgeOwners
    <3>1. CASE m = n
      BY <1>3, <1>4, <1>7, <2>1, <3>1 DEF VersionOf, BodyOf
    <3>2. CASE m # n
      BY <1>2, <1>4, <1>6, <1>7, <1>8, <2>1, <3>2 DEF ContentInv, EdgesOwnedIn
    <3> QED BY <3>1, <3>2
  <2>2. ASSUME NEW m \in DOMAIN node, NEW k \in node'[m].support
        PROVE  k \in DOMAIN node
    BY <1>3, <1>4, <2>2
  <2> QED BY <1>3, <1>4, <1>5, <2>1, <2>2 DEF EdgesOwnedIn
<1>10. (KindsFit(node))'
  <2>1. \A m \in DOMAIN node : \A k \in node'[m].support : k \in DOMAIN node
    BY <1>3, <1>4
  <2> QED BY <1>1, <1>2, <1>3, <1>4, <2>1, AllowedFacts DEF ContentInv, KindsFit
<1>11. (TextsFit(node, body))'
  BY <1>2, <1>3, <1>4, <1>5 DEF ContentInv, TextsFit, b
<1>12. (DraftsUnnumbered(node, body))'
  BY <1>2, <1>3, <1>4, <1>5 DEF ContentInv, DraftsUnnumbered
<1> QED BY <1>9, <1>10, <1>11, <1>12 DEF ContentInv

LEMMA MakeDraftContent ==
  ASSUME FullInv, NEW n \in DOMAIN node, NEW author \in Author, MakeDraft(n, author)
  PROVE  (ContentInv(node, body))'
<1>1. PICK i \in Fresh :
        node' = Stored(node, i, DraftNode(n, i)) /\ body' = Stored(body, i, DraftBody(n, author))
  BY DEF MakeDraft
<1>2. version' = version
  BY DEF MakeDraft
<1>3. i \notin DOMAIN node /\ i \notin DOMAIN body
  BY <1>1 DEF Fresh
<1>4. TypedGraph(node, body) /\ ContentInv(node, body)
  BY DEF FullInv, IInv, TypeOK
<1>5. \A m \in DOMAIN node : node[m].body \in DOMAIN body /\ node[m].support \subseteq DOMAIN node
  BY <1>4 DEF TypedGraph
<1>6. /\ DraftNode(n, i).body = i
      /\ DraftNode(n, i).support = node[n].support
      /\ DraftNode(n, i).type = node[n].type
  BY <1>4 DEF DraftNode, TypedGraph, Node
<1>7. /\ DOMAIN node' = DOMAIN node \cup {i}
      /\ node'[i].body = i /\ node'[i].support = node[n].support /\ node'[i].type = node[n].type
      /\ \A m \in DOMAIN node : node'[m] = node[m]
  <2>1. /\ DOMAIN node' = DOMAIN node \cup {i} /\ node'[i] = DraftNode(n, i)
        /\ \A m \in DOMAIN node : node'[m] = node[m]
    BY <1>1, <1>3 DEF Stored
  <2> QED BY <1>6, <2>1
<1>8. /\ body'[i].isPublic = FALSE /\ body'[i].minorVersion = -1
      /\ body'[i].majorVersion = body[node[n].body].majorVersion
      /\ \A b \in DOMAIN body : body'[b] = body[b]
  <2>1. body'[i] = DraftBody(n, author) /\ \A b \in DOMAIN body : body'[b] = body[b]
    BY <1>1, <1>3 DEF Stored
  <2> QED BY <2>1 DEF DraftBody, VersionOf, BodyOf
<1>9. (EdgesOwnedIn(node, body))'
  BY <1>2, <1>4, <1>5, <1>7, <1>8 DEF ContentInv, EdgesOwnedIn
<1>10. (KindsFit(node))'
  BY <1>4, <1>5, <1>7 DEF ContentInv, KindsFit
<1>11. (TextsFit(node, body))'
  BY <1>4, <1>5, <1>7, <1>8 DEF ContentInv, TextsFit
<1>12. (DraftsUnnumbered(node, body))'
  BY <1>4, <1>5, <1>7, <1>8 DEF ContentInv, DraftsUnnumbered
<1> QED BY <1>9, <1>10, <1>11, <1>12 DEF ContentInv

LEMMA WithoutContent ==
  ASSUME FullInv, NEW n \in DOMAIN node, ~IsPublic(n),
         node' = NodesWithout(n), body' = body, version' = version
  PROVE  (ContentInv(node, body))'
<1>1. TypeOK /\ GraphInv(node, body) /\ ContentInv(node, body) /\ ~body[node[n].body].isPublic
  BY DEF FullInv, IInv, IsPublic, BodyOf
<1>2. \A m \in DOMAIN node : node[m].support \subseteq DOMAIN node
  BY <1>1 DEF TypeOK, TypedGraph
<1>3. /\ DOMAIN node' = DOMAIN node \ {n}
      /\ \A m \in DOMAIN node' :
           /\ m \in DOMAIN node
           /\ node'[m].body = node[m].body
           /\ node'[m].type = node[m].type
           /\ node'[m].previousVersion = node[m].previousVersion
           /\ node'[m].support = node[m].support \ {n}
  BY <1>1, NodesWithoutFacts
<1>4. (EdgesOwnedIn(node, body))'
  BY <1>1, <1>2, <1>3 DEF ContentInv, EdgesOwnedIn
<1>5. (KindsFit(node))'
  BY <1>1, <1>2, <1>3 DEF ContentInv, KindsFit
<1>6. (TextsFit(node, body))'
  <2>1. \A m \in DOMAIN node' : body[node[m].body].isPublic => n \notin node[m].support
    BY <1>1, <1>3 DEF GraphInv, PublicSupportIn
  <2>2. ASSUME NEW m \in DOMAIN node', body[node[m].body].isPublic
        PROVE  node'[m].support = node[m].support
    <3>1. n \notin node[m].support /\ node'[m].support = node[m].support \ {n}
      BY <1>3, <2>1, <2>2
    <3> QED BY <3>1
  <2> QED BY <1>1, <1>3, <2>2 DEF ContentInv, TextsFit
<1>7. (DraftsUnnumbered(node, body))'
  BY <1>1, <1>3 DEF ContentInv, DraftsUnnumbered
<1> QED BY <1>4, <1>5, <1>6, <1>7 DEF ContentInv

LEMMA DiscardBodyContent ==
  ASSUME FullInv, NEW b \in discarding, DiscardBody(b)
  PROVE  (ContentInv(node, body))'
<1>1. body' = Restrict(body, DOMAIN body \ {b}) /\ node' = node /\ version' = version
  BY DEF DiscardBody
<1>2. TypedGraph(node, body) /\ GraphInv(node, body) /\ ContentInv(node, body)
  BY DEF FullInv, IInv, TypeOK
<1>3. /\ \A n \in DOMAIN node : body'[node[n].body] = body[node[n].body]
      /\ \A n \in DOMAIN node : node[n].support \subseteq DOMAIN node
  BY <1>1, <1>2 DEF Restrict, TypedGraph, GraphInv, DiscardsUnused
<1>4. (EdgesOwnedIn(node, body))'
  BY <1>1, <1>2, <1>3 DEF ContentInv, EdgesOwnedIn
<1>5. (KindsFit(node))'
  BY <1>1, <1>2 DEF ContentInv, KindsFit
<1>6. (TextsFit(node, body))'
  BY <1>1, <1>2, <1>3 DEF ContentInv, TextsFit
<1>7. (DraftsUnnumbered(node, body))'
  BY <1>1, <1>2, <1>3 DEF ContentInv, DraftsUnnumbered
<1> QED BY <1>4, <1>5, <1>6, <1>7 DEF ContentInv

\* A step that leaves the graph alone, or goes back to an earlier one.
LEMMA SameContent ==
  ASSUME NEW nd, NEW bd, ContentInv(nd, bd), node' = nd, body' = bd, version' = version
  PROVE  (ContentInv(node, body))'
BY DEF ContentInv, EdgesOwnedIn, KindsFit, TextsFit, DraftsUnnumbered

\* The text of the topmost node links exactly what is below it.
LEMMA OrderFits ==
  ASSUME FullInv, ReadyToFinish, ~OrderFails
  PROVE  BodyOf(Top).text \in {NoText, node[Top].support}
<1>1. Top \in DOMAIN node
  BY TopFacts DEF FullInv, IInv, ReadyToFinish
<1>2. node[Top].support \subseteq DOMAIN node /\ Lineage(node, body)
  BY <1>1 DEF FullInv, IInv, GraphInv, TypeOK, TypedGraph
<1>3. \A k \in node[Top].support : VersionOf(k) = k
  BY <1>2, PublicVersion DEF ReadyToFinish, IsPublic, VersionOf, BodyOf
<1>4. {VersionOf(k) : k \in node[Top].support} = node[Top].support
  BY <1>3
<1>5. BodyOf(Top).text = NoText \/ BodyOf(Top).text = {VersionOf(k) : k \in node[Top].support}
  BY DEF OrderFails, LinksMatch
<1> QED BY <1>4, <1>5

LEMMA PublishInPlaceContent ==
  ASSUME FullInv, PublishInPlace, ~OrderFails
  PROVE  (ContentInv(node, body))'
<1> DEFINE n == Top
           b == node[Top].body
           minor == FinalMinorVersion(b)
<1>1. /\ ReadyToFinish /\ ~Idle /\ node[n].previousVersion = None
      /\ body' = Published(b, minor) /\ node' = node /\ version' = version
  BY DEF PublishInPlace, ReadyToFinish, IsDraftOfPublic
<1>2. TypeOK /\ TypedGraph(node, body) /\ GraphInv(node, body) /\ ContentInv(node, body)
  BY DEF FullInv, IInv, TypeOK
<1>3. /\ n \in DOMAIN node /\ b \in DOMAIN body
      /\ \A m \in DOMAIN node : node[m].body \in DOMAIN body /\ node[m].support \subseteq DOMAIN node
      /\ \A m \in DOMAIN node : m # n => node[m].body # b
  BY <1>1, <1>2, TopFacts DEF TypedGraph, GraphInv, BodyDefinesOneNodeIn
<1>4. minor \in Int
  BY <1>2, <1>3, MinorVersionTyped
<1>5. body[b].text \in {NoText, node[n].support}
  BY <1>1, OrderFits DEF BodyOf
<1>6. node[n].body = b
  OBVIOUS
<1> HIDE DEF n, b, minor
<1>7. /\ body'[b].text = body[b].text
      /\ \A c \in DOMAIN body : /\ c # b => body'[c] = body[c]
                                /\ body'[c].majorVersion = body[c].majorVersion
  BY <1>1, <1>2, <1>3, <1>4, PublishedFacts
<1>8. (EdgesOwnedIn(node, body))'
  BY <1>1, <1>2, <1>3, <1>7 DEF ContentInv, EdgesOwnedIn
<1>9. (KindsFit(node))'
  BY <1>1, <1>2 DEF ContentInv, KindsFit
<1>10. (TextsFit(node, body))'
  BY <1>1, <1>2, <1>3, <1>5, <1>6, <1>7 DEF ContentInv, TextsFit
<1>11. (DraftsUnnumbered(node, body))'
  BY <1>1, <1>2, <1>3, <1>7 DEF ContentInv, DraftsUnnumbered
<1> QED BY <1>8, <1>9, <1>10, <1>11 DEF ContentInv

\* A merge that gives the body its number has had its text checked.
LEMMA MergedContent ==
  ASSUME FullInv, ReadyToFinish, IsDraftOfPublic(Top), NEW minor \in Int,
         node' = Merged(Top, TopPublic), body' = Published(TopBody, minor), version' = version,
         OrderFails => minor < 0
  PROVE  (ContentInv(node, body))'
<1> DEFINE n == Top
           p == TopPublic
           b == TopBody
<1>1. /\ n \in DOMAIN node /\ p \in DOMAIN node /\ p # n
      /\ node[p].previousVersion = None /\ node[p].type = node[n].type
      /\ ~body[b].isPublic /\ body[b].majorVersion = p /\ b \in DOMAIN body /\ b = node[n].body
      /\ body[node[p].body].isPublic
      /\ \A m \in DOMAIN node : m # n => node[m].body # b
  BY MergeStarts DEF FullInv
<1>2. IInv /\ TypedGraph(node, body) /\ GraphInv(node, body) /\ ContentInv(node, body)
  BY DEF FullInv, IInv, TypeOK
<1>3. /\ DOMAIN node' = DOMAIN node \ {n}
      /\ node'[p].support = node[n].support
      /\ \A m \in DOMAIN node' :
           /\ node'[m].body = IF m = p THEN b ELSE node[m].body
           /\ node'[m].type = node[m].type
           /\ node'[m].previousVersion = node[m].previousVersion
           /\ node'[m].support \subseteq DOMAIN node'
  BY <1>2, MergedNodes
<1>4. \A m \in DOMAIN node' :
        /\ m # p /\ n \notin node[m].support => node'[m].support = node[m].support
        /\ m # p /\ n \in node[m].support => node'[m].support = (node[m].support \ {n}) \cup {p}
  BY <1>2, MergedNodes
<1>5. /\ body'[b].minorVersion = minor /\ body'[b].text = body[b].text
      /\ \A c \in DOMAIN body : c # b => body'[c] = body[c]
  BY <1>2, MergedBodies
<1>6. \A m \in DOMAIN node' :
        /\ body'[node'[m].body].isPublic <=> (m = p \/ body[node[m].body].isPublic)
        /\ body'[node'[m].body].majorVersion = body[node[m].body].majorVersion
  BY <1>2, MergedBodies
<1>7. ~OrderFails => body[b].text \in {NoText, node[n].support}
  BY OrderFits DEF BodyOf, TopBody
<1> HIDE DEF n, p, b
<1>8. /\ body[node[p].body].majorVersion = p
      /\ \A m \in DOMAIN node : node[m].support \subseteq DOMAIN node /\ node[m].body \in DOMAIN body
  BY <1>1, <1>2 DEF GraphInv, Lineage, TypedGraph
<1>9. (EdgesOwnedIn(node, body))'
  <2>1. ASSUME NEW m \in DOMAIN node', NEW k \in node'[m].support
        PROVE  body[node[k].body].majorVersion
                 \in DOMAIN version[body[node[m].body].majorVersion].edgeOwners
    <3>1. m \in DOMAIN node /\ k \in DOMAIN node
      BY <1>3, <2>1
    <3>2. CASE m = p
      BY <1>1, <1>2, <1>3, <1>8, <2>1, <3>1, <3>2 DEF ContentInv, EdgesOwnedIn
    <3>3. CASE m # p /\ k \in node[m].support
      BY <1>2, <3>1, <3>3 DEF ContentInv, EdgesOwnedIn
    <3>4. CASE m # p /\ k \notin node[m].support
      <4>1. k = p /\ n \in node[m].support
        BY <1>4, <2>1, <3>4
      <4>2. body[node[n].body].majorVersion
              \in DOMAIN version[body[node[m].body].majorVersion].edgeOwners
        BY <1>2, <3>1, <4>1 DEF ContentInv, EdgesOwnedIn
      <4> QED BY <1>1, <1>8, <4>1, <4>2
    <3> QED BY <3>2, <3>3, <3>4
  <2>2. \A m \in DOMAIN node' : \A k \in node'[m].support : k \in DOMAIN node'
    BY <1>3
  <2> QED BY <1>6, <2>1, <2>2 DEF EdgesOwnedIn
<1>10. (KindsFit(node))'
  <2>1. ASSUME NEW m \in DOMAIN node', node'[m].type \in LeafType
        PROVE  node'[m].support = {}
    <3>1. m \in DOMAIN node /\ node[m].support = {}
      BY <1>2, <1>3, <2>1 DEF ContentInv, KindsFit
    <3>2. CASE m = p
      BY <1>1, <1>2, <1>3, <2>1, <3>2 DEF ContentInv, KindsFit
    <3>3. CASE m # p
      BY <1>4, <3>1, <3>3
    <3> QED BY <3>2, <3>3
  <2>2. ASSUME NEW m \in DOMAIN node', node'[m].type = "interpretation", NEW k \in node'[m].support
        PROVE  node'[k].type \in LeafType
    <3>1. /\ m \in DOMAIN node /\ node[m].type = "interpretation"
          /\ k \in DOMAIN node' /\ node'[k].type = node[k].type
      BY <1>3, <2>2
    <3>2. CASE m = p
      BY <1>1, <1>2, <1>3, <2>2, <3>1, <3>2 DEF ContentInv, KindsFit
    <3>3. CASE m # p /\ k \in node[m].support
      BY <1>2, <3>1, <3>3 DEF ContentInv, KindsFit
    <3>4. CASE m # p /\ k \notin node[m].support
      <4>1. k = p /\ n \in node[m].support
        BY <1>4, <2>2, <3>4
      <4>2. node[n].type \in LeafType
        BY <1>2, <3>1, <4>1 DEF ContentInv, KindsFit
      <4> QED BY <1>1, <3>1, <4>1, <4>2
    <3> QED BY <3>2, <3>3, <3>4
  <2> QED BY <2>1, <2>2 DEF KindsFit
<1>11. (TextsFit(node, body))'
  <2>1. ASSUME NEW m \in DOMAIN node', body'[node'[m].body].isPublic,
               body'[node'[m].body].minorVersion >= 0
        PROVE  body'[node'[m].body].text \in {NoText, node'[m].support}
    <3>1. CASE m = p
      <4>1. node'[m].body = b /\ minor >= 0
        BY <1>3, <1>5, <2>1, <3>1
      <4> QED BY <1>3, <1>5, <1>7, <3>1, <4>1
    <3>2. CASE m # p
      <4>1. /\ m \in DOMAIN node /\ m # n /\ body[node[m].body].isPublic
            /\ node'[m].body = node[m].body
        BY <1>3, <1>6, <2>1, <3>2
      <4>2. n \notin node[m].support
        BY <1>1, <1>2, <4>1 DEF GraphInv, PublicSupportIn
      <4>3. body'[node'[m].body] = body[node[m].body]
        BY <1>1, <1>5, <1>8, <4>1
      <4> QED BY <1>2, <1>4, <2>1, <3>2, <4>1, <4>2, <4>3 DEF ContentInv, TextsFit
    <3> QED BY <3>1, <3>2
  <2> QED BY <2>1 DEF TextsFit
<1>12. (DraftsUnnumbered(node, body))'
  <2>1. ASSUME NEW m \in DOMAIN node', node'[m].previousVersion # None
        PROVE  body'[node'[m].body].minorVersion < 0
    <3>1. m \in DOMAIN node /\ m # n /\ m # p /\ node'[m].body = node[m].body
          /\ node[m].previousVersion # None
      BY <1>1, <1>3, <2>1
    <3>2. body'[node[m].body] = body[node[m].body]
      BY <1>1, <1>5, <1>8, <3>1
    <3> QED BY <1>2, <3>1, <3>2 DEF ContentInv, DraftsUnnumbered
  <2> QED BY <2>1 DEF DraftsUnnumbered
<1> QED BY <1>9, <1>10, <1>11, <1>12 DEF ContentInv

-----------------------------------------------------------------------------
(***************************************************************************)
(* The check of the support: a node has none missing exactly when some     *)
(* closed set around it has no gap.                                        *)
(***************************************************************************)
LEMMA NothingMissing ==
  ASSUME TypeOK, NEW n \in DOMAIN node, node[n].type \notin LeafType
  PROVE  ~HasMissingSupport(n) <=> Supported(n)
<1>1. ASSUME ~HasMissingSupport(n) PROVE Supported(n)
  <2>1. \A m \in Reach(n) : node[m].support # {}
    BY <1>1 DEF HasMissingSupport
  <2>2. n \in Reach(n) /\ Reach(n) \in SUBSET DOMAIN node
    BY DEF Reach
  <2>3. ASSUME NEW m \in Reach(n), node[m].type = "assertion", NEW k \in node[m].support
        PROVE  k \in Reach(n)
    <3>1. k \in DOMAIN node
      BY <2>3 DEF Reach, TypeOK, TypedGraph
    <3>2. ASSUME NEW S \in SUBSET DOMAIN node, n \in S,
                 \A j \in S : node[j].type = "assertion" => node[j].support \subseteq S
          PROVE  k \in S
      <4>1. m \in S
        BY <3>2 DEF Reach
      <4> QED BY <2>3, <3>2, <4>1
    <3> QED BY <3>1, <3>2 DEF Reach
  <2> QED BY <2>1, <2>2, <2>3 DEF Supported
<1>2. ASSUME Supported(n) PROVE ~HasMissingSupport(n)
  <2>1. PICK S \in SUBSET DOMAIN node :
          /\ n \in S
          /\ \A k \in S : /\ node[k].support # {}
                          /\ node[k].type = "assertion" => node[k].support \subseteq S
    BY <1>2 DEF Supported
  <2>2. Reach(n) \subseteq S
    BY <2>1 DEF Reach
  <2> QED BY <2>1, <2>2 DEF HasMissingSupport
<1> QED BY <1>1, <1>2

\* What rests below a supported assertion is supported.
LEMMA SupportedBelow ==
  ASSUME NEW n \in DOMAIN node, Supported(n), node[n].type = "assertion",
         NEW k \in node[n].support
  PROVE  Supported(k)
BY DEF Supported

\* A merge below a node keeps that node supported: the public version stands in
\* for the draft, on the children that the draft was found to have.
LEMMA MergedSupported ==
  ASSUME FullInv, ReadyToFinish, IsDraftOfPublic(Top), node' = Merged(Top, TopPublic),
         NEW x \in DOMAIN node, x # Top, Supported(x)
  PROVE  Supported(x)'
<1> DEFINE n == Top
           p == TopPublic
<1>1. /\ n \in DOMAIN node /\ p \in DOMAIN node /\ p # n /\ node[p].type = node[n].type
      /\ n \notin node[n].support
  BY MergeStarts DEF FullInv
<1>2. /\ DOMAIN node' = DOMAIN node \ {n}
      /\ node'[p].support = node[n].support
      /\ \A m \in DOMAIN node' : node'[m].type = node[m].type
  BY MergedNodes DEF FullInv
<1>3. \A m \in DOMAIN node' :
        /\ m # p /\ n \notin node[m].support => node'[m].support = node[m].support
        /\ m # p /\ n \in node[m].support => node'[m].support = (node[m].support \ {n}) \cup {p}
  BY MergedNodes DEF FullInv
<1>4. KindsFit(node)
  BY DEF FullInv, ContentInv
<1>5. node[n].type \in LeafType \/ Supported(n)
  BY TopFacts DEF FullInv, IInv, StackSupported, ReadyToFinish, Top
<1> HIDE DEF n, p
<1>6. PICK S \in SUBSET DOMAIN node :
        /\ x \in S
        /\ \A k \in S : /\ node[k].support # {}
                        /\ node[k].type = "assertion" => node[k].support \subseteq S
  BY DEF Supported
<1>7. CASE node[n].type \in LeafType
  <2>1. n \notin S /\ p \notin S
    BY <1>1, <1>4, <1>6, <1>7 DEF KindsFit
  <2>2. S \in SUBSET DOMAIN node'
    BY <1>2, <2>1
  <2>3. ASSUME NEW k \in S
        PROVE  /\ node'[k].support # {}
               /\ node'[k].type = "assertion" => node'[k].support \subseteq S
    <3>1. k \in DOMAIN node' /\ k # p /\ node[k].support # {} /\ node'[k].type = node[k].type
      BY <1>2, <1>6, <2>1, <2>2
    <3>2. CASE n \in node[k].support
      BY <1>3, <1>6, <2>1, <3>1, <3>2
    <3>3. CASE n \notin node[k].support
      BY <1>3, <1>6, <3>1, <3>3
    <3> QED BY <3>2, <3>3
  <2> QED BY <1>6, <2>2, <2>3 DEF Supported
<1>8. CASE Supported(n)
  <2>1. PICK T \in SUBSET DOMAIN node :
          /\ n \in T
          /\ \A k \in T : /\ node[k].support # {}
                          /\ node[k].type = "assertion" => node[k].support \subseteq T
    BY <1>8 DEF Supported
  <2> DEFINE U == ((S \cup T) \ {n}) \cup {p}
  <2>2. U \in SUBSET DOMAIN node' /\ x \in U
    BY <1>1, <1>2, <1>6, <2>1, x # n DEF n
  <2>3. ASSUME NEW k \in U
        PROVE  /\ node'[k].support # {}
               /\ node'[k].type = "assertion" => node'[k].support \subseteq U
    <3>1. k \in DOMAIN node' /\ node'[k].type = node[k].type
      BY <1>2, <2>2
    <3>2. CASE k = p
      <4>1. node'[k].support = node[n].support /\ node[n].support # {}
        BY <1>2, <2>1, <3>2
      <4>2. node'[k].type = "assertion" => node[n].support \subseteq T \ {n}
        BY <1>1, <2>1, <3>1, <3>2
      <4> QED BY <4>1, <4>2
    <3>3. CASE k # p
      <4>1. /\ k \in S \cup T /\ node[k].support # {}
            /\ node[k].type = "assertion" => node[k].support \subseteq S \cup T
        BY <1>6, <2>1, <3>3
      <4>2. CASE n \in node[k].support
        <5>1. node'[k].support = (node[k].support \ {n}) \cup {p}
          BY <1>3, <3>1, <3>3, <4>2
        <5> QED BY <3>1, <4>1, <5>1
      <4>3. CASE n \notin node[k].support
        <5>1. node'[k].support = node[k].support
          BY <1>3, <3>1, <3>3, <4>3
        <5> QED BY <3>1, <4>1, <4>3, <5>1
      <4> QED BY <4>2, <4>3
    <3> QED BY <3>2, <3>3
  <2> HIDE DEF U
  <2> QED BY <2>2, <2>3 DEF Supported
<1> QED BY <1>5, <1>7, <1>8

-----------------------------------------------------------------------------
(***************************************************************************)
(* The numbering: there is a highest minor version of every major version, *)
(* and the next one is above it.                                           *)
(***************************************************************************)
\* The minor versions in use have a bound.
MinorBound == \E u \in Nat : \A b \in DOMAIN body : body[b].minorVersion <= u

LEMMA HighestExists ==
  ASSUME NEW S \in SUBSET Int, S # {}, NEW u \in Int, \A x \in S : x <= u
  PROVE  \E x \in S : \A y \in S : y <= x
<1> DEFINE T == {u - x : x \in S}
<1>1. \A x \in S : u - x \in Nat
  OBVIOUS
<1>2. T \subseteq Nat
  BY <1>1
<1>3. T # {}
  OBVIOUS
<1> HIDE DEF T
<1>4. PICK a \in T : \A y \in T : ~ (<<y, a>> \in OpToRel(<, Nat))
  BY <1>2, <1>3, WFMin, NatLessThanWellFounded
<1>5. \A y \in T : ~(y < a)
  BY <1>2, <1>4 DEF OpToRel
<1>6. PICK x \in S : a = u - x
  BY DEF T
<1>7. ASSUME NEW y \in S PROVE y <= x
  <2>1. u - y \in T
    BY DEF T
  <2> QED BY <1>5, <1>6, <2>1
<1> QED BY <1>7

LEMMA NextIsHigher ==
  ASSUME TypedGraph(node, body), MinorBound, NEW v,
         NEW b \in DOMAIN body, body[b].majorVersion = v
  PROVE  NextMinorVersion(v) \in Int /\ NextMinorVersion(v) > body[b].minorVersion
<1> DEFINE used == {body[c].minorVersion : c \in {d \in DOMAIN body : body[d].majorVersion = v}}
<1>1. \A c \in DOMAIN body : body[c].minorVersion \in Int
  BY DEF TypedGraph, Body
<1>2. body[b].minorVersion \in used
  OBVIOUS
<1>3. used \in SUBSET Int /\ used # {}
  BY <1>1
<1>4. PICK u \in Nat : \A x \in used : x <= u
  BY DEF MinorBound
<1>5. \E x \in used : \A y \in used : y <= x
  <2> HIDE DEF used
  <2>1. u \in Int
    OBVIOUS
  <2> QED BY <1>3, <1>4, <2>1, HighestExists, Zenon
<1> HIDE DEF used
<1> DEFINE top == CHOOSE x \in used : \A y \in used : y <= x
<1>6. top \in used /\ \A y \in used : y <= top
  BY <1>5
<1> HIDE DEF top
<1>7. NextMinorVersion(v) = 1 + top
  BY <1>5 DEF NextMinorVersion, used, top
<1>8. top \in Int /\ body[b].minorVersion \in Int /\ body[b].minorVersion <= top
  BY <1>1, <1>2, <1>3, <1>6
<1> QED BY <1>7, <1>8

\* The number a body gets is above every number of its version, its own included.
LEMMA FinalMinorFacts ==
  ASSUME TypedGraph(node, body), MinorBound, NEW b \in DOMAIN body
  PROVE  /\ FinalMinorVersion(b) \in Int
         /\ body[b].minorVersion >= 0 => FinalMinorVersion(b) = body[b].minorVersion
         /\ body[b].minorVersion < 0 => \A c \in DOMAIN body :
                body[c].majorVersion = body[b].majorVersion
                    => FinalMinorVersion(b) > body[c].minorVersion
<1>1. body[b].minorVersion \in Int
  BY DEF TypedGraph, Body
<1>2. FinalMinorVersion(b) \in Int
  BY MinorVersionTyped
<1>3. ASSUME body[b].minorVersion < 0, NEW c \in DOMAIN body,
             body[c].majorVersion = body[b].majorVersion
      PROVE  FinalMinorVersion(b) > body[c].minorVersion
  BY <1>3, NextIsHigher DEF FinalMinorVersion
<1>4. ASSUME body[b].minorVersion >= 0 PROVE FinalMinorVersion(b) = body[b].minorVersion
  BY <1>1, <1>4 DEF FinalMinorVersion
<1> QED BY <1>2, <1>3, <1>4

-----------------------------------------------------------------------------
(***************************************************************************)
(* What a publication has done so far, against what it started from.       *)
(***************************************************************************)
\* What is known of the graph that a rollback returns to.
LEMMA SavedFacts ==
  ASSUME FullInv, ~Idle
  PROVE  /\ PagesKept(saved.node, saved.body, node, body)
         /\ BodiesKept(saved.body, body)
         /\ NumbersGrow(saved.node, saved.body, node, body)
         /\ DOMAIN saved.body = DOMAIN body
         /\ \A n \in DOMAIN saved.node : saved.node[n].body \in DOMAIN body
         /\ \A n \in DOMAIN saved.node : saved.body[saved.node[n].body].isPublic
                => saved.body[saved.node[n].body].majorVersion = n
         /\ \A b \in DOMAIN body : /\ body[b].minorVersion \in Int
                                   /\ saved.body[b].minorVersion \in Int
         /\ \A n \in DOMAIN node : node[n].body \in DOMAIN body
<1>1. /\ TypedGraph(saved.node, saved.body) /\ GraphInv(saved.node, saved.body)
      /\ DOMAIN saved.body = DOMAIN body /\ TypedGraph(node, body)
  BY DEF FullInv, IInv, TypeOK
<1>2. \A n \in DOMAIN saved.node : saved.body[saved.node[n].body].isPublic
        => saved.body[saved.node[n].body].majorVersion = n
  BY <1>1, PublicVersion DEF GraphInv
<1>3. \A b \in DOMAIN body : body[b].minorVersion \in Int /\ saved.body[b].minorVersion \in Int
  BY <1>1 DEF TypedGraph, Body
<1>4. /\ \A n \in DOMAIN saved.node : saved.node[n].body \in DOMAIN body
      /\ \A n \in DOMAIN node : node[n].body \in DOMAIN body
  BY <1>1 DEF TypedGraph
<1> QED BY <1>1, <1>2, <1>3, <1>4 DEF FullInv, TransactionInv

LEMMA InPlaceTransaction ==
  ASSUME FullInv, MinorBound, PublishInPlace, ~OrderFails
  PROVE  /\ PagesKept(saved.node, saved.body, node', body')
         /\ BodiesKept(saved.body, body')
         /\ NumbersGrow(saved.node, saved.body, node', body')
<1> DEFINE n == Top
           b == node[Top].body
           minor == FinalMinorVersion(b)
           nd0 == saved.node
           bd0 == saved.body
<1>1. /\ ~Idle /\ node[n].previousVersion = None /\ node' = node /\ body' = Published(b, minor)
  BY DEF PublishInPlace, ReadyToFinish, IsDraftOfPublic
<1>2. TypeOK /\ TypedGraph(node, body) /\ GraphInv(node, body)
  BY DEF FullInv, IInv, TypeOK
<1>3. n \in DOMAIN node /\ b = node[n].body /\ b \in DOMAIN body
      /\ \A m \in DOMAIN node : m # n => node[m].body # b
  BY <1>1, <1>2, TopFacts DEF TypedGraph, GraphInv, BodyDefinesOneNodeIn
<1>4. /\ minor \in Int
      /\ body[b].minorVersion >= 0 => minor = body[b].minorVersion
      /\ body[b].minorVersion < 0 => \A c \in DOMAIN body :
            body[c].majorVersion = body[b].majorVersion => minor > body[c].minorVersion
  BY <1>2, <1>3, MinorVersionTyped, FinalMinorFacts
<1>5. body[b].majorVersion = n
  BY <1>1, <1>2, <1>3 DEF GraphInv, Lineage
<1>6. /\ PagesKept(nd0, bd0, node, body) /\ BodiesKept(bd0, body)
      /\ NumbersGrow(nd0, bd0, node, body)
  BY <1>1, SavedFacts
<1>7. /\ DOMAIN bd0 = DOMAIN body
      /\ \A m \in DOMAIN nd0 : nd0[m].body \in DOMAIN body
      /\ \A m \in DOMAIN nd0 : bd0[nd0[m].body].isPublic => bd0[nd0[m].body].majorVersion = m
      /\ \A c \in DOMAIN body : body[c].minorVersion \in Int /\ bd0[c].minorVersion \in Int
      /\ \A m \in DOMAIN node : node[m].body \in DOMAIN body
  BY <1>1, SavedFacts
<1> HIDE DEF n, b, minor, nd0, bd0
<1>8. /\ body'[b].minorVersion = minor
      /\ \A c \in DOMAIN body : /\ c # b => body'[c] = body[c]
                                /\ body'[c].majorVersion = body[c].majorVersion
                                /\ body'[c].isPublic <=> (c = b \/ body[c].isPublic)
  BY <1>1, <1>2, <1>3, <1>4, PublishedFacts
<1>9. minor >= body[b].minorVersion
  BY <1>3, <1>4, <1>7
<1>10. PagesKept(nd0, bd0, node, body')
  <2>1. ASSUME NEW m \in DOMAIN node, body'[node[m].body].isPublic
        PROVE  \/ /\ bd0[nd0[m].body].isPublic
                  /\ node[m].body = nd0[m].body /\ node[m].support = nd0[m].support
               \/ ~bd0[node[m].body].isPublic
    <3>1. CASE body[node[m].body].isPublic
      BY <1>6, <3>1 DEF PagesKept
    <3>2. CASE ~body[node[m].body].isPublic
      BY <1>6, <1>7, <3>2 DEF BodiesKept
    <3> QED BY <3>1, <3>2
  <2>2. ASSUME NEW m \in DOMAIN nd0, bd0[nd0[m].body].isPublic
        PROVE  m \in DOMAIN node /\ body'[node[m].body].isPublic /\ node[m].type = nd0[m].type
    BY <1>6, <1>7, <1>8, <2>2 DEF PagesKept
  <2>3. DOMAIN node \subseteq DOMAIN nd0
    BY <1>6 DEF PagesKept
  <2> QED BY <2>1, <2>2, <2>3 DEF PagesKept
<1>11. BodiesKept(bd0, body')
  BY <1>3, <1>4, <1>6, <1>7, <1>8, <1>9 DEF BodiesKept
<1>12. NumbersGrow(nd0, bd0, node, body')
  <2>1. ASSUME NEW m \in DOMAIN nd0, bd0[nd0[m].body].isPublic, node[m].body # nd0[m].body,
               body'[node[m].body].minorVersion >= 0
        PROVE  body'[node[m].body].minorVersion > bd0[nd0[m].body].minorVersion
    <3>1. m \in DOMAIN node
      BY <1>6, <2>1 DEF PagesKept
    <3>2. CASE m = n /\ body[b].minorVersion < 0
      <4> DEFINE c == nd0[m].body
      <4>1. /\ c \in DOMAIN body /\ bd0[c].majorVersion = n
            /\ body[c].majorVersion = bd0[c].majorVersion
            /\ body[c].minorVersion >= bd0[c].minorVersion
        BY <1>6, <1>7, <2>1, <3>2 DEF BodiesKept
      <4>2. minor > body[c].minorVersion
        BY <1>4, <1>5, <3>2, <4>1
      <4>3. body'[node[m].body].minorVersion = minor
        BY <1>3, <1>8, <3>2
      <4> QED BY <1>4, <1>7, <4>1, <4>2, <4>3
    <3>3. CASE m # n \/ body[b].minorVersion >= 0
      <4>1. body'[node[m].body].minorVersion = body[node[m].body].minorVersion
        BY <1>3, <1>4, <1>7, <1>8, <3>1, <3>3
      <4> QED BY <1>6, <2>1, <4>1 DEF NumbersGrow
    <3>4. body[b].minorVersion \in Int
      BY <1>3, <1>7
    <3> QED BY <3>2, <3>3, <3>4
  <2> QED BY <2>1 DEF NumbersGrow
<1> QED BY <1>1, <1>10, <1>11, <1>12 DEF nd0, bd0

LEMMA MergedTransaction ==
  ASSUME FullInv, ReadyToFinish, IsDraftOfPublic(Top), NEW minor \in Int,
         node' = Merged(Top, TopPublic), body' = Published(TopBody, minor),
         minor >= body[TopBody].minorVersion,
         \/ minor < 0
         \/ \A c \in DOMAIN body : body[c].majorVersion = TopPublic => minor > body[c].minorVersion
  PROVE  /\ PagesKept(saved.node, saved.body, node', body')
         /\ BodiesKept(saved.body, body')
         /\ NumbersGrow(saved.node, saved.body, node', body')
<1> DEFINE n == Top
           p == TopPublic
           b == TopBody
           nd0 == saved.node
           bd0 == saved.body
<1>1. /\ n \in DOMAIN node /\ p \in DOMAIN node /\ p # n /\ b \in DOMAIN body /\ b = node[n].body
      /\ ~body[b].isPublic /\ body[b].majorVersion = p /\ body[node[p].body].isPublic
      /\ \A m \in DOMAIN node : m # n => node[m].body # b
  BY MergeStarts DEF FullInv
<1>2. IInv /\ GraphInv(node, body) /\ ~Idle
  BY DEF FullInv, IInv, ReadyToFinish
<1>3. /\ DOMAIN node' = DOMAIN node \ {n}
      /\ \A m \in DOMAIN node' :
           /\ node'[m].body = IF m = p THEN b ELSE node[m].body
           /\ node'[m].type = node[m].type
           /\ m # p /\ n \notin node[m].support => node'[m].support = node[m].support
  BY <1>2, MergedNodes
<1>4. /\ body'[b].minorVersion = minor
      /\ \A c \in DOMAIN body : /\ c # b => body'[c] = body[c]
                                /\ body'[c].majorVersion = body[c].majorVersion
                                /\ body'[c].isPublic <=> (c = b \/ body[c].isPublic)
      /\ \A m \in DOMAIN node' :
           body'[node'[m].body].isPublic <=> (m = p \/ body[node[m].body].isPublic)
  BY <1>2, MergedBodies
<1>5. /\ PagesKept(nd0, bd0, node, body) /\ BodiesKept(bd0, body)
      /\ NumbersGrow(nd0, bd0, node, body)
  BY <1>2, SavedFacts
<1>6. /\ DOMAIN bd0 = DOMAIN body
      /\ \A m \in DOMAIN nd0 : nd0[m].body \in DOMAIN body
      /\ \A m \in DOMAIN nd0 : bd0[nd0[m].body].isPublic => bd0[nd0[m].body].majorVersion = m
      /\ \A c \in DOMAIN body : body[c].minorVersion \in Int /\ bd0[c].minorVersion \in Int
      /\ \A m \in DOMAIN node : node[m].body \in DOMAIN body
  BY <1>2, SavedFacts
<1>7. /\ minor >= body[b].minorVersion
      /\ \/ minor < 0
         \/ \A c \in DOMAIN body : body[c].majorVersion = p => minor > body[c].minorVersion
  OBVIOUS
<1> HIDE DEF n, p, b, nd0, bd0
<1>8. ~bd0[b].isPublic
  BY <1>1, <1>5, <1>6 DEF BodiesKept
<1>9. PagesKept(nd0, bd0, node', body')
  <2>1. ASSUME NEW m \in DOMAIN node', body'[node'[m].body].isPublic
        PROVE  \/ /\ bd0[nd0[m].body].isPublic
                  /\ node'[m].body = nd0[m].body /\ node'[m].support = nd0[m].support
               \/ ~bd0[node'[m].body].isPublic
    <3>1. CASE m = p
      BY <1>3, <1>8, <3>1
    <3>2. CASE m # p
      <4>1. m \in DOMAIN node /\ body[node[m].body].isPublic
        BY <1>3, <1>4, <2>1, <3>2
      <4>2. n \notin node[m].support
        BY <1>1, <1>2, <4>1 DEF GraphInv, PublicSupportIn
      <4>3. node'[m].body = node[m].body /\ node'[m].support = node[m].support
        BY <1>3, <3>2, <4>2
      <4> QED BY <1>5, <4>1, <4>3 DEF PagesKept
    <3> QED BY <3>1, <3>2
  <2>2. ASSUME NEW m \in DOMAIN nd0, bd0[nd0[m].body].isPublic
        PROVE  m \in DOMAIN node' /\ body'[node'[m].body].isPublic /\ node'[m].type = nd0[m].type
    <3>1. m \in DOMAIN node /\ body[node[m].body].isPublic /\ node[m].type = nd0[m].type
      BY <1>5, <2>2 DEF PagesKept
    <3>2. m \in DOMAIN node'
      BY <1>1, <1>3, <3>1
    <3> QED BY <1>3, <1>4, <3>1, <3>2
  <2>3. DOMAIN node' \subseteq DOMAIN nd0
    BY <1>3, <1>5 DEF PagesKept
  <2> QED BY <2>1, <2>2, <2>3 DEF PagesKept
<1>10. BodiesKept(bd0, body')
  <2>1. \A c \in DOMAIN body : body'[c].minorVersion >= body[c].minorVersion
                               /\ body'[c].minorVersion \in Int
    BY <1>1, <1>4, <1>6, <1>7
  <2>2. ASSUME NEW c \in DOMAIN body
        PROVE  body'[c].minorVersion >= bd0[c].minorVersion
    BY <1>5, <1>6, <2>1 DEF BodiesKept
  <2> QED BY <1>4, <1>5, <1>6, <2>2 DEF BodiesKept
<1>11. NumbersGrow(nd0, bd0, node', body')
  <2>1. ASSUME NEW m \in DOMAIN nd0, bd0[nd0[m].body].isPublic, node'[m].body # nd0[m].body,
               body'[node'[m].body].minorVersion >= 0
        PROVE  body'[node'[m].body].minorVersion > bd0[nd0[m].body].minorVersion
    <3>1. m \in DOMAIN node'
      BY <1>9, <2>1 DEF PagesKept
    <3>2. CASE m = p
      <4> DEFINE c == nd0[m].body
      <4>1. /\ c \in DOMAIN body /\ bd0[c].majorVersion = p
            /\ body[c].majorVersion = bd0[c].majorVersion
            /\ body[c].minorVersion >= bd0[c].minorVersion
        BY <1>5, <1>6, <2>1, <3>2 DEF BodiesKept
      <4>2. body'[node'[m].body].minorVersion = minor
        BY <1>3, <1>4, <3>1, <3>2
      <4>3. minor > body[c].minorVersion
        BY <1>7, <2>1, <4>1, <4>2
      <4> QED BY <1>6, <4>1, <4>2, <4>3
    <3>3. CASE m # p
      <4>1. m \in DOMAIN node /\ m # n /\ node'[m].body = node[m].body
        BY <1>3, <3>1, <3>3
      <4>2. body'[node[m].body] = body[node[m].body]
        BY <1>1, <1>4, <1>6, <4>1
      <4> QED BY <1>5, <2>1, <4>1, <4>2 DEF NumbersGrow
    <3> QED BY <3>2, <3>3
  <2> QED BY <2>1 DEF NumbersGrow
<1> QED BY <1>9, <1>10, <1>11 DEF nd0, bd0

LEMMA WithoutTransaction ==
  ASSUME FullInv, ~Idle, NEW n \in DOMAIN node, ~IsPublic(n),
         node' = NodesWithout(n), body' = body
  PROVE  /\ PagesKept(saved.node, saved.body, node', body')
         /\ BodiesKept(saved.body, body')
         /\ NumbersGrow(saved.node, saved.body, node', body')
<1> DEFINE nd0 == saved.node
           bd0 == saved.body
<1>1. TypeOK /\ GraphInv(node, body) /\ ~body[node[n].body].isPublic
  BY DEF FullInv, IInv, IsPublic, BodyOf
<1>2. /\ PagesKept(nd0, bd0, node, body) /\ BodiesKept(bd0, body)
      /\ NumbersGrow(nd0, bd0, node, body)
  BY SavedFacts
<1> HIDE DEF nd0, bd0
<1>3. /\ DOMAIN node' = DOMAIN node \ {n}
      /\ \A m \in DOMAIN node' :
           /\ m \in DOMAIN node
           /\ node'[m].body = node[m].body
           /\ node'[m].type = node[m].type
           /\ node'[m].support = node[m].support \ {n}
  BY <1>1, NodesWithoutFacts
<1>4. \A m \in DOMAIN node' : body[node[m].body].isPublic => n \notin node[m].support
  BY <1>1, <1>3 DEF GraphInv, PublicSupportIn
<1>5. ASSUME NEW m \in DOMAIN node', body[node[m].body].isPublic
      PROVE  node'[m].support = node[m].support
  <2>1. n \notin node[m].support /\ node'[m].support = node[m].support \ {n}
    BY <1>3, <1>4, <1>5
  <2> QED BY <2>1
<1>6. PagesKept(nd0, bd0, node', body)
  BY <1>1, <1>2, <1>3, <1>5 DEF PagesKept
<1>7. NumbersGrow(nd0, bd0, node', body)
  <2>1. ASSUME NEW m \in DOMAIN nd0, bd0[nd0[m].body].isPublic
        PROVE  node'[m].body = node[m].body
    BY <1>3, <1>6, <2>1 DEF PagesKept
  <2> QED BY <1>2, <2>1 DEF NumbersGrow
<1> QED BY <1>2, <1>6, <1>7 DEF nd0, bd0

-----------------------------------------------------------------------------
(***************************************************************************)
(* The strengthened invariant: it holds initially and every action         *)
(* preserves it, as long as the minor versions have a bound.               *)
(***************************************************************************)
LEMMA InitFull == Init => FullInv /\ MinorBound
<1>1. SUFFICES ASSUME Init PROVE FullInv /\ MinorBound
  OBVIOUS
<1>2. IInv
  BY <1>1, InitInv
<1>3. ContentInv(node, body)
  BY <1>1 DEF Init, ContentInv, EdgesOwnedIn, KindsFit, TextsFit, DraftsUnnumbered
<1>4. StackSupported /\ DiscardsPrivate /\ TransactionInv
  BY <1>1 DEF Init, StackSupported, DiscardsPrivate, TransactionInv, Idle
<1>5. MinorBound
  <2>1. \A b \in DOMAIN body : body[b].minorVersion <= 0
    BY <1>1 DEF Init
  <2> QED BY <2>1 DEF MinorBound
<1> QED BY <1>2, <1>3, <1>4, <1>5 DEF FullInv

\* Outside a publication only the graph itself has to be looked at.
LEMMA IdleFull ==
  ASSUME IInv', Idle', (ContentInv(node, body))', DiscardsPrivate'
  PROVE  FullInv'
<1>1. calls' = <<>>
  BY DEF Idle
<1>2. StackSupported'
  BY <1>1 DEF StackSupported
<1> QED BY <1>2 DEF FullInv, TransactionInv

\* What a publication started from does not change while it goes on.
LEMMA SavedContent ==
  ASSUME FullInv, ~Idle, saved' = saved, version' = version
  PROVE  (ContentInv(saved.node, saved.body))'
<1> DEFINE nd == saved.node
           bd == saved.body
<1>1. ContentInv(nd, bd)
  BY DEF FullInv, TransactionInv
<1>2. saved'.node = nd /\ saved'.body = bd
  OBVIOUS
<1> HIDE DEF nd, bd
<1> QED BY <1>1, <1>2 DEF ContentInv, EdgesOwnedIn, KindsFit, TextsFit, DraftsUnnumbered

\* The graph is left alone: nodes are as well supported as they were.
LEMMA SameSupported ==
  ASSUME node' = node, NEW x
  PROVE  Supported(x)' <=> Supported(x)
BY DEF Supported

\* The end of a call.
LEMMA ReturnFull ==
  ASSUME FullInv, ~Idle, Return, IInv', version' = version,
         (ContentInv(node, body))', DiscardsPrivate',
         PagesKept(saved.node, saved.body, node', body'),
         BodiesKept(saved.body, body'),
         NumbersGrow(saved.node, saved.body, node', body'),
         \A i \in 1..(Len(calls) - 1) : \A x : x = calls[i] =>
            node'[x].type \in LeafType \/ Supported(x)'
  PROVE  FullInv'
<1>1. calls \in Seq(DOMAIN node) /\ calls # <<>> /\ Len(calls) \in Nat
  BY TopFacts DEF FullInv, IInv, TypeOK, Idle
<1>2. /\ Len(calls') = Len(calls) - 1
      /\ \A i \in 1..(Len(calls) - 1) : calls'[i] = calls[i]
      /\ calls' = <<>> <=> Len(calls) = 1
  BY <1>1, ReturnFacts
<1>3. saved' = IF Len(calls) = 1 THEN None ELSE saved
  BY DEF Return
<1>4. CASE Len(calls) = 1
  <2>1. Idle'
    BY <1>2, <1>4 DEF Idle
  <2> QED BY <2>1, IdleFull
<1>5. CASE Len(calls) # 1
  <2>1. saved' = saved
    BY <1>3, <1>5
  <2>2. StackSupported'
    <3>1. ASSUME NEW i \in 1..(Len(calls) - 1), NEW x, x = calls[i]
          PROVE  node'[x].type \in LeafType \/ Supported(x)'
      BY <3>1
    <3> QED BY <1>2, <3>1 DEF StackSupported
  <2>3. (ContentInv(saved.node, saved.body))'
    BY <2>1, SavedContent
  <2>4. TransactionInv'
    BY <2>1, <2>3 DEF TransactionInv
  <2> QED BY <2>2, <2>4 DEF FullInv
<1> QED BY <1>4, <1>5

LEMMA CreateFull ==
  ASSUME FullInv, NEW type \in NodeType, NEW author \in Author,
         NEW support \in SUBSET DOMAIN node, NEW text \in Texts(support),
         Create(type, author, support, text)
  PROVE  FullInv'
<1>1. IInv' /\ (ContentInv(node, body))'
  BY CreateInv, CreateContent DEF FullInv
<1>2. Idle /\ calls' = calls /\ discarding' = discarding
  BY DEF Create
<1>3. PICK i \in Fresh : body' = Stored(body, i, NewBody(i, author, text))
  BY DEF Create
<1>4. DiscardsPrivate'
  BY <1>2, <1>3 DEF FullInv, IInv, TypeOK, DiscardsPrivate, Stored, Fresh
<1> QED BY <1>1, <1>2, <1>4, IdleFull DEF Idle

LEMMA EditFull ==
  ASSUME FullInv, NEW n \in DOMAIN node, NEW support \in SUBSET DOMAIN node,
         NEW text \in Texts(support), Edit(n, support, text)
  PROVE  FullInv'
<1>1. IInv' /\ (ContentInv(node, body))'
  BY EditInv, EditContent DEF FullInv
<1>2. /\ Idle /\ calls' = calls /\ discarding' = discarding
      /\ body' = [body EXCEPT ![node[n].body].text = text]
  BY DEF Edit
<1>3. \A b \in DOMAIN body : body'[b].isPublic = body[b].isPublic
  BY <1>2 DEF FullInv, IInv, TypeOK, TypedGraph, Body
<1>4. DiscardsPrivate'
  BY <1>2, <1>3 DEF FullInv, IInv, TypeOK, DiscardsPrivate
<1> QED BY <1>1, <1>2, <1>4, IdleFull DEF Idle

LEMMA MakeDraftFull ==
  ASSUME FullInv, NEW n \in DOMAIN node, NEW author \in Author, MakeDraft(n, author)
  PROVE  FullInv'
<1>1. IInv' /\ (ContentInv(node, body))'
  BY MakeDraftInv, MakeDraftContent DEF FullInv
<1>2. Idle /\ calls' = calls /\ discarding' = discarding
  BY DEF MakeDraft
<1>3. PICK i \in Fresh : body' = Stored(body, i, DraftBody(n, author))
  BY DEF MakeDraft
<1>4. DiscardsPrivate'
  BY <1>2, <1>3 DEF FullInv, IInv, TypeOK, DiscardsPrivate, Stored, Fresh
<1> QED BY <1>1, <1>2, <1>4, IdleFull DEF Idle

LEMMA DiscardDraftFull ==
  ASSUME FullInv, NEW n \in DOMAIN node, DiscardDraft(n)
  PROVE  FullInv'
<1>1. /\ Idle /\ ~IsPublic(n) /\ node' = NodesWithout(n) /\ body' = body
      /\ discarding' = discarding \cup {node[n].body} /\ version' = version /\ calls' = calls
  BY DEF DiscardDraft
<1>2. IInv' /\ (ContentInv(node, body))'
  BY <1>1, DiscardDraftInv, WithoutContent DEF FullInv
<1>3. DiscardsPrivate'
  BY <1>1 DEF FullInv, DiscardsPrivate, IsPublic, BodyOf
<1> QED BY <1>1, <1>2, <1>3, IdleFull DEF Idle

LEMMA DiscardBodyFull ==
  ASSUME FullInv, NEW b \in discarding, DiscardBody(b)
  PROVE  FullInv'
<1>1. /\ Idle /\ body' = Restrict(body, DOMAIN body \ {b}) /\ discarding' = discarding \ {b}
      /\ calls' = calls
  BY DEF DiscardBody
<1>2. IInv' /\ (ContentInv(node, body))'
  BY DiscardBodyInv, DiscardBodyContent DEF FullInv
<1>3. DiscardsPrivate'
  BY <1>1 DEF FullInv, IInv, TypeOK, DiscardsPrivate, Restrict
<1> QED BY <1>1, <1>2, <1>3, IdleFull DEF Idle

\* Going back to what was saved, or to the current graph when nothing was.
LEMMA RestoreFull ==
  ASSUME FullInv, node' = Committed.node, body' = Committed.body, version' = version,
         calls' = <<>>, saved' = None, discarding' \subseteq discarding
  PROVE  FullInv'
<1> DEFINE nd == Committed.node
           bd == Committed.body
<1>1. IInv' /\ Idle'
  BY RestoreInv DEF FullInv, Idle
<1>2. /\ ContentInv(nd, bd)
      /\ \A b \in DOMAIN body : bd[b].isPublic => body[b].isPublic
  <2>1. CASE Idle
    BY <2>1 DEF FullInv, Committed
  <2>2. CASE ~Idle
    <3>1. Committed = saved
      BY <2>2 DEF Committed
    <3>2. BodiesKept(saved.body, body) /\ ContentInv(saved.node, saved.body)
          /\ DOMAIN saved.body = DOMAIN body
      BY <2>2, SavedFacts DEF FullInv, TransactionInv
    <3> QED BY <3>1, <3>2 DEF BodiesKept
  <2> QED BY <2>1, <2>2
<1> HIDE DEF nd, bd
<1>3. node' = nd /\ body' = bd
  BY DEF nd, bd
<1>4. (ContentInv(node, body))'
  BY <1>2, <1>3, SameContent
<1>5. DiscardsPrivate'
  BY <1>2, <1>3 DEF FullInv, IInv, TypeOK, DiscardsPrivate
<1> QED BY <1>1, <1>4, <1>5, IdleFull

LEMMA CrashFull == ASSUME FullInv, Crash PROVE FullInv'
BY RestoreFull DEF Crash

LEMMA RollbackFull == ASSUME FullInv, ~Idle, Rollback PROVE FullInv'
BY RestoreFull DEF Rollback, Committed

LEMMA MergeRollsBackFull == ASSUME FullInv, MergeRollsBack PROVE FullInv'
BY RollbackFull DEF MergeRollsBack, ReadyToFinish

LEMMA OverflowStackFull == ASSUME FullInv, OverflowStack PROVE FullInv'
BY RollbackFull DEF OverflowStack

LEMMA PublishNodeFull ==
  ASSUME FullInv, NEW n \in DOMAIN node, PublishNode(n)
  PROVE  FullInv'
<1>1. /\ Idle /\ ~HasMissingSupport(n) /\ calls' = <<n>>
      /\ saved' = [node |-> node, body |-> body]
      /\ node' = node /\ body' = body /\ version' = version /\ discarding' = discarding
  BY DEF PublishNode, Committed
<1>2. IInv' /\ TypeOK
  BY PublishNodeInv DEF FullInv, IInv
<1>3. (ContentInv(node, body))'
  BY <1>1, SameContent DEF FullInv
<1>4. DiscardsPrivate'
  BY <1>1 DEF FullInv, DiscardsPrivate
<1>5. StackSupported'
  <2>1. node[n].type \in LeafType \/ Supported(n)
    BY <1>1, <1>2, NothingMissing
  <2>2. node'[n].type \in LeafType \/ Supported(n)'
    BY <1>1, <2>1, SameSupported
  <2>3. Len(calls') = 1 /\ calls'[1] = n
    BY <1>1
  <2> QED BY <2>2, <2>3 DEF StackSupported
<1>6. TransactionInv'
  <2>1. saved'.node = node' /\ saved'.body = body'
    BY <1>1
  <2>2. (ContentInv(saved.node, saved.body))'
    BY <1>3, <2>1 DEF ContentInv, EdgesOwnedIn, KindsFit, TextsFit, DraftsUnnumbered
  <2>3. \A b \in DOMAIN body' : body'[b].minorVersion \in Int
    BY <1>2 DEF IInv, TypeOK, TypedGraph, Body
  <2>4. /\ PagesKept(node', body', node', body')
        /\ NumbersGrow(node', body', node', body')
    BY DEF PagesKept, NumbersGrow
  <2>5. BodiesKept(body', body')
    BY <2>3 DEF BodiesKept
  <2> QED BY <2>1, <2>2, <2>4, <2>5 DEF TransactionInv
<1> QED BY <1>2, <1>3, <1>4, <1>5, <1>6 DEF FullInv

LEMMA PublishDescendantFull ==
  ASSUME FullInv, NEW k \in DOMAIN node, PublishDescendant(k)
  PROVE  FullInv'
<1>1. /\ ~Idle /\ node' = node /\ body' = body /\ version' = version
      /\ discarding' = discarding
  BY DEF PublishDescendant
<1>2. IInv' /\ TypeOK
  BY PublishDescendantInv DEF FullInv, IInv
<1>3. (ContentInv(node, body))'
  BY <1>1, SameContent DEF FullInv
<1>4. DiscardsPrivate'
  BY <1>1 DEF FullInv, DiscardsPrivate
<1>5. CASE HasMissingSupport(k)
  <2>1. Idle'
    BY <1>5 DEF PublishDescendant, CommitPartial, Idle
  <2> QED BY <1>2, <1>3, <1>4, <2>1, IdleFull
<1>6. CASE ~HasMissingSupport(k)
  <2>1. calls' = Append(calls, k) /\ saved' = saved
    BY <1>6 DEF PublishDescendant
  <2>2. calls \in Seq(DOMAIN node) /\ Len(calls) \in Nat
    BY <1>1, <1>2, TopFacts DEF TypeOK
  <2>3. /\ Len(calls') = Len(calls) + 1
        /\ \A i \in 1..Len(calls) : calls'[i] = calls[i]
        /\ calls'[Len(calls) + 1] = k
    BY <2>1, <2>2
  <2>4. StackSupported'
    <3>1. node[k].type \in LeafType \/ Supported(k)
      BY <1>2, <1>6, NothingMissing
    <3>2. \A i \in 1..Len(calls) : node[calls[i]].type \in LeafType \/ Supported(calls[i])
      BY DEF FullInv, StackSupported
    <3>3. ASSUME NEW i \in 1..Len(calls'), NEW x, x = calls'[i]
          PROVE  node[x].type \in LeafType \/ Supported(x)
      <4>1. CASE i = Len(calls) + 1
        BY <2>3, <3>1, <3>3, <4>1
      <4>2. CASE i # Len(calls) + 1
        <5>1. i \in 1..Len(calls)
          BY <2>2, <2>3, <4>2
        <5>2. x = calls[i]
          BY <2>3, <3>3, <5>1
        <5> QED BY <3>2, <5>1, <5>2
      <4> QED BY <4>1, <4>2
    <3>4. ASSUME NEW i \in 1..Len(calls'), NEW x, x = calls'[i]
          PROVE  node'[x].type \in LeafType \/ Supported(x)'
      BY <1>1, <3>3, <3>4, SameSupported
    <3> QED BY <3>4 DEF StackSupported
  <2>5. (ContentInv(saved.node, saved.body))'
    BY <1>1, <2>1, SavedContent
  <2>6. TransactionInv'
    BY <1>1, <2>1, <2>5, SavedFacts DEF TransactionInv
  <2> QED BY <1>2, <1>3, <1>4, <2>4, <2>6 DEF FullInv
<1> QED BY <1>5, <1>6

LEMMA PublishInPlaceFull ==
  ASSUME FullInv, MinorBound, PublishInPlace
  PROVE  FullInv'
<1>1. ~Idle /\ node' = node /\ version' = version /\ discarding' = discarding
  BY DEF PublishInPlace, ReadyToFinish
<1>2. IInv'
  BY PublishInPlaceInv DEF FullInv
<1>3. CASE OrderFails
  <2>1. CommitPartial /\ body' = body
    BY <1>3 DEF PublishInPlace
  <2>2. (ContentInv(node, body))'
    BY <1>1, <2>1, SameContent DEF FullInv
  <2>3. DiscardsPrivate' /\ Idle'
    BY <1>1, <2>1 DEF FullInv, DiscardsPrivate, CommitPartial, Idle
  <2> QED BY <1>2, <2>2, <2>3, IdleFull
<1>4. CASE ~OrderFails
  <2> DEFINE b == node[Top].body
             minor == FinalMinorVersion(b)
  <2>1. Return /\ body' = Published(b, minor)
    BY <1>4 DEF PublishInPlace
  <2>2. (ContentInv(node, body))'
    BY <1>4, PublishInPlaceContent
  <2>3. TypedGraph(node, body) /\ DiscardsUnused(node) /\ Top \in DOMAIN node
    BY <1>1, TopFacts DEF FullInv, IInv, GraphInv, TypeOK
  <2>4. b \in DOMAIN body /\ b \notin discarding /\ minor \in Int
    BY <2>3, MinorVersionTyped DEF TypedGraph, DiscardsUnused
  <2> HIDE DEF b, minor
  <2>5. \A c \in DOMAIN body : body'[c].isPublic <=> (c = b \/ body[c].isPublic)
    BY <2>1, <2>3, <2>4, PublishedFacts
  <2>6. DiscardsPrivate'
    BY <1>1, <2>4, <2>5 DEF FullInv, IInv, TypeOK, DiscardsPrivate
  <2>7. ASSUME NEW i \in 1..(Len(calls) - 1), NEW x, x = calls[i]
        PROVE  node'[x].type \in LeafType \/ Supported(x)'
    <3>1. i \in 1..Len(calls)
      BY <1>1, TopFacts DEF FullInv, IInv
    <3>2. node[x].type \in LeafType \/ Supported(x)
      BY <2>7, <3>1 DEF FullInv, StackSupported
    <3> QED BY <1>1, <3>2, SameSupported
  <2>8. /\ PagesKept(saved.node, saved.body, node', body')
        /\ BodiesKept(saved.body, body')
        /\ NumbersGrow(saved.node, saved.body, node', body')
    BY <1>4, InPlaceTransaction
  <2> QED BY <1>1, <1>2, <2>1, <2>2, <2>6, <2>7, <2>8, ReturnFull
<1> QED BY <1>3, <1>4

\* The number of a merged body is above every number of its version.
LEMMA MergedMinor ==
  ASSUME FullInv, MinorBound, ReadyToFinish, IsDraftOfPublic(Top)
  PROVE  /\ FinalMinorVersion(TopBody) \in Int
         /\ FinalMinorVersion(TopBody) >= body[TopBody].minorVersion
         /\ \A c \in DOMAIN body : body[c].majorVersion = TopPublic
                => FinalMinorVersion(TopBody) > body[c].minorVersion
         /\ body[TopBody].minorVersion \in Int
         /\ body[TopBody].minorVersion < 0
<1>1. /\ Top \in DOMAIN node /\ TopBody \in DOMAIN body /\ TopBody = node[Top].body
      /\ body[TopBody].majorVersion = TopPublic
  BY MergeStarts DEF FullInv
<1>2. TypedGraph(node, body) /\ DraftsUnnumbered(node, body)
  BY DEF FullInv, IInv, TypeOK, ContentInv
<1>3. body[TopBody].minorVersion < 0 /\ body[TopBody].minorVersion \in Int
  BY <1>1, <1>2 DEF DraftsUnnumbered, IsDraftOfPublic, TypedGraph, Body
<1>4. FinalMinorVersion(TopBody) \in Int
  BY <1>1, <1>2, MinorVersionTyped
<1>5. \A c \in DOMAIN body : body[c].majorVersion = TopPublic
                => FinalMinorVersion(TopBody) > body[c].minorVersion
  BY <1>1, <1>2, <1>3, FinalMinorFacts
<1>6. FinalMinorVersion(TopBody) >= body[TopBody].minorVersion
  BY <1>1, <1>3, <1>4, <1>5
<1> QED BY <1>3, <1>4, <1>5, <1>6

\* A body that is published was not discarded.
LEMMA MergedDiscards ==
  ASSUME FullInv, ReadyToFinish, IsDraftOfPublic(Top), NEW minor \in Int,
         node' = Merged(Top, TopPublic), body' = Published(TopBody, minor),
         discarding' = discarding
  PROVE  DiscardsPrivate'
<1>1. TopBody \notin discarding
  BY MergeStarts DEF FullInv, IInv, GraphInv, DiscardsUnused
<1>2. \A c \in DOMAIN body : body'[c].isPublic <=> (c = TopBody \/ body[c].isPublic)
  BY MergedBodies DEF FullInv
<1> QED BY <1>1, <1>2 DEF FullInv, IInv, TypeOK, DiscardsPrivate

LEMMA MergeDraftFull ==
  ASSUME FullInv, MinorBound, MergeDraft
  PROVE  FullInv'
<1> DEFINE minor == FinalMinorVersion(TopBody)
<1>1. /\ ReadyToFinish /\ ~Idle /\ IsDraftOfPublic(Top) /\ Return /\ ~OrderFails
      /\ node' = Merged(Top, TopPublic) /\ body' = Published(TopBody, minor)
      /\ version' = version /\ discarding' = discarding
  BY DEF MergeDraft, ReadyToFinish, TopPublic, TopBody
<1>2. IInv'
  BY MergeDraftInv DEF FullInv
<1>3. /\ minor \in Int /\ minor >= body[TopBody].minorVersion
      /\ \A c \in DOMAIN body : body[c].majorVersion = TopPublic => minor > body[c].minorVersion
  BY <1>1, MergedMinor
<1> HIDE DEF minor
<1>4. (ContentInv(node, body))'
  BY <1>1, <1>3, MergedContent
<1>5. DiscardsPrivate'
  BY <1>1, <1>3, MergedDiscards
<1>6. /\ PagesKept(saved.node, saved.body, node', body')
      /\ BodiesKept(saved.body, body')
      /\ NumbersGrow(saved.node, saved.body, node', body')
  BY <1>1, <1>3, MergedTransaction
<1>7. ASSUME NEW i \in 1..(Len(calls) - 1), NEW x, x = calls[i]
      PROVE  node'[x].type \in LeafType \/ Supported(x)'
  <2>1. /\ i \in 1..Len(calls) /\ i # Len(calls) /\ Len(calls) \in 1..Len(calls)
        /\ x \in DOMAIN node
    BY <1>1, <1>7, TopFacts DEF FullInv, IInv
  <2>2. x # Top
    BY <1>7, <2>1 DEF FullInv, IInv, CallsSupported, Top
  <2>3. node[x].type \in LeafType \/ Supported(x)
    BY <1>7, <2>1 DEF FullInv, StackSupported
  <2>4. node'[x].type = node[x].type
    BY <1>1, <2>1, <2>2, MergedNodes DEF FullInv
  <2> QED BY <1>1, <2>1, <2>2, <2>3, <2>4, MergedSupported
<1> QED BY <1>1, <1>2, <1>4, <1>5, <1>6, <1>7, ReturnFull

LEMMA MergeLosesDraftFull ==
  ASSUME FullInv, MergeLosesDraft
  PROVE  FullInv'
<1>1. /\ ReadyToFinish /\ ~Idle /\ IsDraftOfPublic(Top) /\ CommitPartial
      /\ node' = NodesWithout(Top) /\ body' = body /\ version' = version
      /\ discarding' = discarding
  BY DEF MergeLosesDraft, ReadyToFinish
<1>2. Top \in DOMAIN node /\ ~IsPublic(Top)
  BY <1>1, MergeStarts DEF FullInv, IsPublic, BodyOf
<1>3. IInv' /\ (ContentInv(node, body))'
  BY <1>1, <1>2, MergeLosesDraftInv, WithoutContent DEF FullInv
<1>4. DiscardsPrivate' /\ Idle'
  BY <1>1 DEF FullInv, DiscardsPrivate, CommitPartial, Idle
<1> QED BY <1>3, <1>4, IdleFull

LEMMA MergeStopsHalfwayFull ==
  ASSUME FullInv, MinorBound, MergeStopsHalfway
  PROVE  FullInv'
<1> DEFINE minor == body[TopBody].minorVersion
<1>1. /\ ReadyToFinish /\ IsDraftOfPublic(Top) /\ CommitPartial
      /\ node' = Merged(Top, TopPublic) /\ body' = Published(TopBody, minor)
      /\ version' = version /\ discarding' = discarding
  BY DEF MergeStopsHalfway, TopPublic, TopBody
<1>2. IInv' /\ Idle'
  BY <1>1, MergeStopsHalfwayInv DEF FullInv, CommitPartial, Idle
<1>3. minor \in Int /\ minor < 0
  BY <1>1, MergedMinor
<1> HIDE DEF minor
<1>4. (ContentInv(node, body))' /\ DiscardsPrivate'
  BY <1>1, <1>3, MergedContent, MergedDiscards
<1> QED BY <1>2, <1>4, IdleFull

LEMMA StutterFull == ASSUME FullInv, UNCHANGED vars PROVE FullInv'
<1>1. /\ node' = node /\ body' = body /\ version' = version
      /\ calls' = calls /\ saved' = saved /\ discarding' = discarding
  BY DEF vars
<1>2. IInv' /\ (ContentInv(node, body))'
  BY <1>1, StutterInv, SameContent DEF FullInv
<1>3. StackSupported' /\ DiscardsPrivate'
  BY <1>1 DEF FullInv, StackSupported, Supported, DiscardsPrivate
<1>4. TransactionInv'
  <2>1. CASE Idle
    BY <1>1, <2>1 DEF TransactionInv, Idle
  <2>2. CASE ~Idle
    BY <1>1, <2>2, SavedContent, SavedFacts DEF TransactionInv
  <2> QED BY <2>1, <2>2
<1> QED BY <1>2, <1>3, <1>4 DEF FullInv

-----------------------------------------------------------------------------
(***************************************************************************)
(* The bound on the minor versions.                                        *)
(***************************************************************************)
LEMMA PublishedBound ==
  ASSUME MinorBound, TypedGraph(node, body), NEW b \in DOMAIN body, NEW minor \in Int,
         body' = Published(b, minor)
  PROVE  MinorBound'
<1>1. PICK u \in Nat : \A c \in DOMAIN body : body[c].minorVersion <= u
  BY DEF MinorBound
<1>2. /\ DOMAIN body' = DOMAIN body /\ body'[b].minorVersion = minor
      /\ \A c \in DOMAIN body : c # b => body'[c] = body[c]
  BY PublishedFacts
<1>3. \A c \in DOMAIN body : body[c].minorVersion \in Int
  BY DEF TypedGraph, Body
<1> DEFINE w == IF minor > u THEN minor ELSE u
<1>4. w \in Nat /\ \A c \in DOMAIN body' : body'[c].minorVersion <= w
  BY <1>1, <1>2, <1>3
<1> QED BY <1>4 DEF MinorBound

LEMMA RestoredBound ==
  ASSUME FullInv, MinorBound, body' = Committed.body
  PROVE  MinorBound'
<1>1. PICK u \in Nat : \A c \in DOMAIN body : body[c].minorVersion <= u
  BY DEF MinorBound
<1>2. CASE Idle
  BY <1>1, <1>2 DEF Committed, MinorBound
<1>3. CASE ~Idle
  <2>1. body' = saved.body
    BY <1>3 DEF Committed
  <2>2. /\ DOMAIN body' = DOMAIN body
        /\ \A c \in DOMAIN body : /\ body[c].minorVersion >= body'[c].minorVersion
                                  /\ body[c].minorVersion \in Int /\ body'[c].minorVersion \in Int
    BY <1>3, <2>1, SavedFacts DEF BodiesKept
  <2>3. \A c \in DOMAIN body' : body'[c].minorVersion <= u
    BY <1>1, <2>2
  <2> QED BY <2>3 DEF MinorBound
<1> QED BY <1>2, <1>3

LEMMA BoundStep ==
  ASSUME FullInv, MinorBound, [Next]_vars
  PROVE  MinorBound'
<1>1. PICK u \in Nat : \A c \in DOMAIN body : body[c].minorVersion <= u
  BY DEF MinorBound
<1>2. TypedGraph(node, body)
  BY DEF FullInv, IInv, TypeOK
<1>3. ASSUME NEW type, NEW author, NEW support, NEW text, Create(type, author, support, text)
      PROVE  MinorBound'
  <2>1. PICK i \in Fresh : body' = Stored(body, i, NewBody(i, author, text))
    BY <1>3 DEF Create
  <2>2. \A c \in DOMAIN body' : body'[c].minorVersion <= u
    BY <1>1, <2>1 DEF Stored, NewBody
  <2> QED BY <2>2 DEF MinorBound
<1>4. ASSUME NEW n \in DOMAIN node, NEW support, NEW text, Edit(n, support, text)
      PROVE  MinorBound'
  <2>1. body' = [body EXCEPT ![node[n].body].text = text]
    BY <1>4 DEF Edit
  <2>2. DOMAIN body' = DOMAIN body
        /\ \A c \in DOMAIN body : body'[c].minorVersion = body[c].minorVersion
    BY <1>2, <2>1 DEF TypedGraph, Body
  <2>3. \A c \in DOMAIN body' : body'[c].minorVersion <= u
    BY <1>1, <2>2
  <2> QED BY <2>3 DEF MinorBound
<1>5. ASSUME NEW n, NEW author, MakeDraft(n, author) PROVE MinorBound'
  <2>1. PICK i \in Fresh : body' = Stored(body, i, DraftBody(n, author))
    BY <1>5 DEF MakeDraft
  <2>2. \A c \in DOMAIN body' : body'[c].minorVersion <= u
    BY <1>1, <2>1 DEF Stored, DraftBody
  <2> QED BY <2>2 DEF MinorBound
<1>6. ASSUME NEW b, DiscardBody(b) PROVE MinorBound'
  <2>1. body' = Restrict(body, DOMAIN body \ {b})
    BY <1>6 DEF DiscardBody
  <2>2. \A c \in DOMAIN body' : body'[c].minorVersion <= u
    BY <1>1, <2>1 DEF Restrict
  <2> QED BY <2>2 DEF MinorBound
<1>7. ASSUME body' = body PROVE MinorBound'
  BY <1>1, <1>7 DEF MinorBound
<1>8. CASE Editing
  BY <1>3, <1>4, <1>5, <1>6, <1>7, <1>8 DEF Editing, DiscardDraft
<1>9. CASE \E n \in DOMAIN node : PublishNode(n)
  BY <1>7, <1>9 DEF PublishNode
<1>10. CASE PublishInPlace
  <2> DEFINE b == node[Top].body
             minor == FinalMinorVersion(b)
  <2>1. b \in DOMAIN body
    BY <1>10, TopFacts DEF FullInv, IInv, TypeOK, TypedGraph, PublishInPlace, ReadyToFinish
  <2>2. minor \in Int
    BY <1>2, <2>1, MinorVersionTyped
  <2>3. body' = Published(b, minor) \/ body' = body
    BY <1>10 DEF PublishInPlace
  <2> HIDE DEF b, minor
  <2> QED BY <1>2, <1>7, <2>1, <2>2, <2>3, PublishedBound
<1>11. CASE MergeDraft \/ MergeStopsHalfway
  <2>1. ReadyToFinish /\ IsDraftOfPublic(Top)
    BY <1>11 DEF MergeDraft, MergeStopsHalfway
  <2>2. PICK minor \in Int : body' = Published(TopBody, minor)
    BY <1>11, <2>1, MergedMinor DEF MergeDraft, MergeStopsHalfway, TopBody
  <2>3. TopBody \in DOMAIN body
    BY <2>1, MergeStarts DEF FullInv
  <2> QED BY <1>2, <2>2, <2>3, PublishedBound
<1>12. ASSUME body' = Committed.body PROVE MinorBound'
  BY <1>12, RestoredBound
<1>13. CASE PublishStep
  <2>1. CASE \E k \in DOMAIN node : PublishDescendant(k)
    BY <1>7, <2>1 DEF PublishDescendant
  <2>2. CASE OverflowStack \/ MergeRollsBack
    BY <1>12, <2>2 DEF OverflowStack, MergeRollsBack, ReadyToFinish, Rollback, Committed
  <2>3. CASE MergeLosesDraft
    BY <1>7, <2>3 DEF MergeLosesDraft
  <2> QED BY <1>10, <1>11, <1>13, <2>1, <2>2, <2>3 DEF PublishStep
<1>14. CASE Crash
  BY <1>12, <1>14 DEF Crash
<1>15. CASE UNCHANGED vars
  BY <1>7, <1>15 DEF vars
<1> QED BY <1>8, <1>9, <1>13, <1>14, <1>15 DEF Next

-----------------------------------------------------------------------------
(***************************************************************************)
(* The theorems.                                                           *)
(***************************************************************************)
LEMMA FullStep ==
  ASSUME FullInv, MinorBound, [Next]_vars
  PROVE  FullInv' /\ MinorBound'
<1>1. SUFFICES FullInv'
  BY BoundStep
<1>2. ASSUME NEW type \in NodeType, NEW author \in Author,
             NEW support \in SUBSET DOMAIN node, NEW text \in Texts(support),
             Create(type, author, support, text)
      PROVE  FullInv'
  BY <1>2, CreateFull
<1>3. ASSUME NEW n \in DOMAIN node, NEW support \in SUBSET DOMAIN node,
             NEW text \in Texts(support), Edit(n, support, text)
      PROVE  FullInv'
  BY <1>3, EditFull
<1>4. ASSUME NEW n \in DOMAIN node, NEW author \in Author, MakeDraft(n, author)
      PROVE  FullInv'
  BY <1>4, MakeDraftFull
<1>5. ASSUME NEW n \in DOMAIN node, DiscardDraft(n) PROVE FullInv'
  BY <1>5, DiscardDraftFull
<1>6. ASSUME NEW b \in discarding, DiscardBody(b) PROVE FullInv'
  BY <1>6, DiscardBodyFull
<1>7. CASE Editing
  BY <1>2, <1>3, <1>4, <1>5, <1>6, <1>7 DEF Editing
<1>8. ASSUME NEW n \in DOMAIN node, PublishNode(n) PROVE FullInv'
  BY <1>8, PublishNodeFull
<1>9. ASSUME NEW k \in DOMAIN node, PublishDescendant(k) PROVE FullInv'
  BY <1>9, PublishDescendantFull
<1>10. CASE PublishStep
  BY <1>9, <1>10, OverflowStackFull, PublishInPlaceFull, MergeDraftFull, MergeRollsBackFull,
     MergeLosesDraftFull, MergeStopsHalfwayFull DEF PublishStep
<1>11. CASE Crash
  BY <1>11, CrashFull
<1>12. CASE UNCHANGED vars
  BY <1>12, StutterFull
<1> QED BY <1>7, <1>8, <1>10, <1>11, <1>12 DEF Next

LEMMA FullAlways == Spec => [](FullInv /\ MinorBound)
<1>1. FullInv /\ MinorBound /\ [Next]_vars => (FullInv /\ MinorBound)'
  BY FullStep
<1> QED BY <1>1, InitFull, PTL DEF Spec

\* The strengthened invariant holds of every run, for any identifiers and authors.
THEOREM FullInvariance == Spec => []FullInv
BY FullAlways, PTL

\* Every edge of the graph has an owner, on drafts, on public nodes and on what a
\* merge or a rollback leaves.
THEOREM EdgesOwnedCorrect == Spec => []EdgesOwned
<1>1. FullInv => EdgesOwned
  BY DEF FullInv, ContentInv, EdgesOwned
<1> QED BY <1>1, FullInvariance, PTL

\* A public assertion that got its number links exactly its children, also after
\* those have been merged.
THEOREM PublicTextMatchesCorrect == Spec => []PublicTextMatches
<1>1. ASSUME FullInv PROVE PublicTextMatches
  <2>1. TypedGraph(node, body) /\ GraphInv(node, body) /\ TextsFit(node, body)
    BY <1>1 DEF FullInv, IInv, TypeOK, ContentInv
  <2>2. ASSUME NEW n \in DOMAIN node, IsPublic(n), BodyOf(n).minorVersion >= 0
        PROVE  LinksMatch(node[n].support, BodyOf(n).text)
    <3>1. BodyOf(n).text \in {NoText, node[n].support}
      BY <2>1, <2>2 DEF TextsFit, IsPublic, BodyOf
    <3>2. \A k \in node[n].support : k \in DOMAIN node /\ body[node[k].body].isPublic
      BY <2>1, <2>2 DEF TypedGraph, GraphInv, PublicSupportIn, IsPublic, BodyOf
    <3>3. \A k \in node[n].support : VersionOf(k) = k
      BY <2>1, <3>2, PublicVersion DEF GraphInv, VersionOf, BodyOf
    <3>4. {VersionOf(k) : k \in node[n].support} = node[n].support
      BY <3>3
    <3> QED BY <3>1, <3>3, <3>4 DEF LinksMatch
  <2> QED BY <2>2 DEF PublicTextMatches
<1> QED BY <1>1, FullInvariance, PTL

\* Once the check at the root of a publication has passed, no call below it finds
\* missing support, whatever was merged in between.
THEOREM DescendantsSupportedCorrect == Spec => []DescendantsSupported
<1>1. ASSUME FullInv PROVE DescendantsSupported
  <2>1. TypeOK /\ KindsFit(node) /\ StackSupported
    BY <1>1 DEF FullInv, IInv, ContentInv
  <2>2. ASSUME ~Idle, NEW k \in node[Top].support
        PROVE  ~HasMissingSupport(k)
    <3>1. /\ Top \in DOMAIN node /\ k \in DOMAIN node
          /\ node[Top].type \in LeafType \/ Supported(Top)
      BY <2>1, <2>2, TopFacts DEF StackSupported, Top, TypeOK, TypedGraph
    <3>2. node[Top].type \in NodeType
      BY <2>1, <3>1 DEF TypeOK, TypedGraph, Node
    <3>3. CASE node[Top].type \in LeafType
      BY <2>1, <2>2, <3>1, <3>3 DEF KindsFit
    <3>4. CASE node[Top].type = "interpretation"
      BY <2>1, <2>2, <3>1, <3>4 DEF KindsFit, HasMissingSupport
    <3>5. CASE node[Top].type = "assertion"
      <4>1. Supported(k)
        BY <2>2, <3>1, <3>5, SupportedBelow DEF LeafType
      <4> QED BY <2>1, <3>1, <4>1, NothingMissing DEF HasMissingSupport
    <3> QED BY <3>2, <3>3, <3>4, <3>5 DEF NodeType
  <2> QED BY <2>2 DEF DescendantsSupported
<1> QED BY <1>1, FullInvariance, PTL

-----------------------------------------------------------------------------
(***************************************************************************)
(* The owners of edges.                                                    *)
(***************************************************************************)
LEMMA OwnersStep ==
  ASSUME FullInv, [Next]_vars
  PROVE  OwnersKept
<1>1. TypeOK
  BY DEF FullInv, IInv
<1>2. ASSUME version' = version PROVE OwnersKept
  BY <1>2 DEF OwnersKept
<1>3. ASSUME NEW type, NEW author, NEW support, NEW text, Create(type, author, support, text)
      PROVE  OwnersKept
  <2> DEFINE new == [author |-> author,
                     edgeOwners |-> [w \in {VersionOf(k) : k \in support} |-> author]]
  <2>1. PICK i \in Fresh : version' = Stored(version, i, new)
    BY <1>3 DEF Create
  <2> HIDE DEF new
  <2>2. \A v \in DOMAIN version : v \in DOMAIN version' /\ version'[v] = version[v]
    BY <2>1 DEF Stored, Fresh
  <2> QED BY <2>2 DEF OwnersKept
<1>4. ASSUME NEW n \in DOMAIN node, NEW support, NEW text, Edit(n, support, text)
      PROVE  OwnersKept
  <2> DEFINE u == VersionOf(n)
             author == body[node[n].body].author
  <2>1. version' = [version EXCEPT ![u] = MergeEdgeOwners(u, author, support)]
    BY <1>4 DEF Edit
  <2>2. u \in DOMAIN version
    BY <1>1 DEF TypeOK, TypedGraph, VersionOf, BodyOf
  <2> HIDE DEF u, author
  <2>3. LET old == version[u].edgeOwners
            new == MergeEdgeOwners(u, author, support).edgeOwners
        IN  /\ DOMAIN new = DOMAIN old \cup {VersionOf(k) : k \in support}
            /\ \A w \in DOMAIN old : new[w] = old[w]
    BY <1>1, <2>2, MergeKeepsOwners
  <2>4. /\ DOMAIN version' = DOMAIN version
        /\ version'[u].edgeOwners = MergeEdgeOwners(u, author, support).edgeOwners
        /\ \A v \in DOMAIN version : v # u => version'[v] = version[v]
    BY <2>1, <2>2
  <2>5. ASSUME NEW w \in DOMAIN version[u].edgeOwners
        PROVE  w \in DOMAIN version'[u].edgeOwners
               /\ version'[u].edgeOwners[w] = version[u].edgeOwners[w]
    BY <2>3, <2>4
  <2> QED BY <2>4, <2>5 DEF OwnersKept
<1>5. CASE Editing
  BY <1>2, <1>3, <1>4, <1>5 DEF Editing, MakeDraft, DiscardDraft, DiscardBody
<1>6. CASE ~Editing
  <2>1. version' = version
    BY <1>6 DEF Next, vars, PublishNode, PublishStep, PublishDescendant, OverflowStack, Rollback,
                PublishInPlace, MergeDraft, MergeRollsBack, MergeLosesDraft, MergeStopsHalfway,
                Crash
  <2> QED BY <1>2, <2>1
<1> QED BY <1>5, <1>6

\* No edit, by whichever author, takes an edge away from its first owner.
THEOREM EdgeOwnersFixedCorrect == Spec => EdgeOwnersFixed
<1>1. FullInv /\ [Next]_vars => OwnersKept
  BY OwnersStep
<1> QED BY <1>1, FullInvariance, PTL DEF Spec, EdgeOwnersFixed

-----------------------------------------------------------------------------
(***************************************************************************)
(* The links of the parents of a draft.                                    *)
(***************************************************************************)
LEMMA MergedLinks ==
  ASSUME FullInv, ReadyToFinish, IsDraftOfPublic(Top), NEW minor \in Int,
         node' = Merged(Top, TopPublic), body' = Published(TopBody, minor)
  PROVE  LinksKept
<1> DEFINE n == Top
           p == TopPublic
<1>1. /\ n \in DOMAIN node /\ p \in DOMAIN node /\ p # n
      /\ body[node[n].body].majorVersion = p
      /\ body[node[p].body].isPublic
      /\ n \notin node[n].support /\ n \notin node[p].support
  BY MergeStarts DEF FullInv
<1>2. IInv /\ body[node[p].body].majorVersion = p
      /\ \A m \in DOMAIN node : node[m].support \subseteq DOMAIN node
  BY <1>1, PublicVersion DEF FullInv, IInv, GraphInv, TypeOK, TypedGraph
<1>3. DOMAIN node' = DOMAIN node \ {n}
  BY <1>2, MergedNodes
<1>4. \A m \in DOMAIN node' :
        m # p /\ n \in node[m].support => node'[m].support = (node[m].support \ {n}) \cup {p}
  BY <1>2, MergedNodes
<1>5. \A m \in DOMAIN node' :
        body'[node'[m].body].majorVersion = body[node[m].body].majorVersion
  BY <1>2, MergedBodies
<1> HIDE DEF n, p
<1>6. ASSUME NEW m \in DOMAIN node, n \in node[m].support
      PROVE  /\ m \in DOMAIN node'
             /\ {VersionOf(k) : k \in node[m].support}
                 = {body'[node'[k].body].majorVersion : k \in node'[m].support}
  <2>1. /\ m \in DOMAIN node' /\ m # p
        /\ node'[m].support = (node[m].support \ {n}) \cup {p}
        /\ p \in DOMAIN node'
    BY <1>1, <1>3, <1>4, <1>6
  <2>2. ASSUME NEW k \in node[m].support
        PROVE  \E j \in node'[m].support : body'[node'[j].body].majorVersion = VersionOf(k)
    <3>1. CASE k = n
      BY <1>1, <1>2, <1>5, <2>1, <3>1 DEF VersionOf, BodyOf
    <3>2. CASE k # n
      <4>1. k \in DOMAIN node' /\ k \in node'[m].support
        BY <1>2, <1>3, <2>1, <3>2
      <4> QED BY <1>5, <4>1 DEF VersionOf, BodyOf
    <3> QED BY <3>1, <3>2
  <2>3. ASSUME NEW j \in node'[m].support
        PROVE  \E k \in node[m].support : body'[node'[j].body].majorVersion = VersionOf(k)
    <3>1. CASE j = p
      BY <1>1, <1>2, <1>5, <1>6, <2>1, <3>1 DEF VersionOf, BodyOf
    <3>2. CASE j # p
      <4>1. j \in DOMAIN node' /\ j \in node[m].support
        BY <1>2, <1>3, <2>1, <3>2
      <4> QED BY <1>5, <4>1 DEF VersionOf, BodyOf
    <3> QED BY <3>1, <3>2
  <2> QED BY <2>1, <2>2, <2>3
<1> QED BY <1>3, <1>6 DEF LinksKept, Parents

LEMMA LinksStep ==
  ASSUME FullInv, MinorBound, [Next]_vars
  PROVE  LinksKept
<1>1. TypeOK
  BY DEF FullInv, IInv
<1>2. ASSUME DOMAIN node \subseteq DOMAIN node' PROVE LinksKept
  BY <1>2 DEF LinksKept
<1>3. ASSUME NEW n \in DOMAIN node, ~IsPublic(n), node' = NodesWithout(n), body' = body
      PROVE  LinksKept
  BY <1>1, <1>3, NodesWithoutFacts DEF LinksKept, IsPublic, BodyOf
<1>4. ASSUME node' = Committed.node PROVE LinksKept
  <2>1. CASE Idle
    BY <1>2, <1>4, <2>1 DEF Committed
  <2>2. CASE ~Idle
    BY <1>2, <1>4, <2>2, SavedFacts DEF Committed, PagesKept
  <2> QED BY <2>1, <2>2
<1>5. CASE Editing
  <2>1. ASSUME NEW type, NEW author, NEW support, NEW text, Create(type, author, support, text)
        PROVE  LinksKept
    BY <1>2, <2>1 DEF Create, Stored
  <2>2. ASSUME NEW n \in DOMAIN node, NEW support, NEW text, Edit(n, support, text)
        PROVE  LinksKept
    BY <1>2, <2>2 DEF Edit
  <2>3. ASSUME NEW n, NEW author, MakeDraft(n, author) PROVE LinksKept
    BY <1>2, <2>3 DEF MakeDraft, Stored
  <2>4. ASSUME NEW n \in DOMAIN node, DiscardDraft(n) PROVE LinksKept
    BY <1>3, <2>4 DEF DiscardDraft
  <2>5. ASSUME NEW b, DiscardBody(b) PROVE LinksKept
    BY <1>2, <2>5 DEF DiscardBody
  <2> QED BY <1>5, <2>1, <2>2, <2>3, <2>4, <2>5 DEF Editing
<1>6. CASE \E n \in DOMAIN node : PublishNode(n)
  BY <1>2, <1>6 DEF PublishNode
<1>7. CASE MergeDraft \/ MergeStopsHalfway
  <2>1. /\ ReadyToFinish /\ IsDraftOfPublic(Top) /\ node' = Merged(Top, TopPublic)
        /\ \E minor \in Int : body' = Published(TopBody, minor)
    BY <1>7, MergedMinor DEF MergeDraft, MergeStopsHalfway, TopPublic, TopBody
  <2> QED BY <2>1, MergedLinks
<1>8. CASE MergeLosesDraft
  <2>1. /\ ReadyToFinish /\ IsDraftOfPublic(Top) /\ node' = NodesWithout(Top) /\ body' = body
    BY <1>8 DEF MergeLosesDraft
  <2>2. Top \in DOMAIN node /\ ~IsPublic(Top)
    BY <2>1, MergeStarts DEF FullInv, IsPublic, BodyOf
  <2> QED BY <1>3, <2>1, <2>2
<1>9. CASE PublishStep
  <2>1. CASE \E k \in DOMAIN node : PublishDescendant(k)
    BY <1>2, <2>1 DEF PublishDescendant
  <2>2. CASE OverflowStack \/ MergeRollsBack
    BY <1>4, <2>2 DEF OverflowStack, MergeRollsBack, ReadyToFinish, Rollback, Committed
  <2>3. CASE PublishInPlace
    BY <1>2, <2>3 DEF PublishInPlace
  <2> QED BY <1>7, <1>8, <1>9, <2>1, <2>2, <2>3 DEF PublishStep
<1>10. CASE Crash
  BY <1>4, <1>10 DEF Crash
<1>11. CASE UNCHANGED vars
  BY <1>2, <1>11 DEF vars
<1> QED BY <1>5, <1>6, <1>9, <1>10, <1>11 DEF Next

\* However deep a publication goes, the parents of every draft it merges keep the
\* major versions they had linked.
THEOREM LinksSurviveMergeCorrect == Spec => LinksSurviveMerge
<1>1. FullInv /\ MinorBound /\ [Next]_vars => LinksKept
  BY LinksStep
<1> QED BY <1>1, FullAlways, PTL DEF Spec, LinksSurviveMerge

-----------------------------------------------------------------------------
(***************************************************************************)
(* The public pages.                                                       *)
(***************************************************************************)
\* What readers of the graph (nd0, bd0) see when it has become (nd, bd): a page is
\* as it was, or carries a body that was private.
PagesAdvance(nd0, bd0, nd, bd) ==
    /\ \A n \in DOMAIN nd0 : bd0[nd0[n].body].isPublic =>
        n \in DOMAIN nd /\ bd[nd[n].body].isPublic /\ nd[n].type = nd0[n].type
    /\ \A n \in DOMAIN nd : bd[nd[n].body].isPublic =>
        \/ /\ n \in DOMAIN nd0 /\ bd0[nd0[n].body].isPublic
           /\ nd[n].body = nd0[n].body /\ nd[n].support = nd0[n].support
        \/ nd[n].body \in DOMAIN bd0 /\ ~bd0[nd[n].body].isPublic
    /\ \A b \in DOMAIN bd0 : bd0[b].isPublic => b \in DOMAIN bd /\ bd[b].isPublic
    /\ NumbersGrow(nd0, bd0, nd, bd)

\* An edit leaves the public nodes and the public bodies alone.
LEMMA EditedPages ==
  ASSUME NEW nd, NEW bd,
         \A n \in DOMAIN node : body[node[n].body].isPublic =>
            /\ n \in DOMAIN nd /\ bd[nd[n].body].isPublic
            /\ nd[n].body = node[n].body /\ nd[n].type = node[n].type
            /\ nd[n].support = node[n].support,
         \A n \in DOMAIN nd : bd[nd[n].body].isPublic =>
            n \in DOMAIN node /\ body[node[n].body].isPublic,
         \A b \in DOMAIN body : body[b].isPublic => b \in DOMAIN bd /\ bd[b].isPublic
  PROVE  PagesAdvance(node, body, nd, bd)
BY DEF PagesAdvance, NumbersGrow

\* Nothing happened.
LEMMA SamePages ==
  ASSUME NEW nd, NEW bd
  PROVE  PagesAdvance(nd, bd, nd, bd)
BY DEF PagesAdvance, NumbersGrow

LEMMA EditingPages ==
  ASSUME FullInv, Editing
  PROVE  PagesAdvance(node, body, node', body')
<1>1. TypeOK /\ GraphInv(node, body) /\ DiscardsPrivate
  BY DEF FullInv, IInv
<1>2. \A n \in DOMAIN node : node[n] \in Node /\ node[n].body \in DOMAIN body
  BY <1>1 DEF TypeOK, TypedGraph
<1>3. ASSUME NEW i \in Fresh, NEW nd, NEW bd, ~bd.isPublic, nd.body = i,
             node' = Stored(node, i, nd), body' = Stored(body, i, bd)
      PROVE  PagesAdvance(node, body, node', body')
  <2>1. /\ DOMAIN node' = DOMAIN node \cup {i} /\ node'[i].body = i /\ ~body'[i].isPublic
        /\ \A n \in DOMAIN node : node'[n] = node[n]
        /\ DOMAIN body \subseteq DOMAIN body'
        /\ \A b \in DOMAIN body : body'[b] = body[b]
    BY <1>3 DEF Stored, Fresh
  <2> QED BY <1>2, <2>1, EditedPages
<1>4. ASSUME NEW type, NEW author, NEW support, NEW text, Create(type, author, support, text)
      PROVE  PagesAdvance(node, body, node', body')
  <2> DEFINE new(i) == [type |-> type, body |-> i, support |-> support,
                        previousVersion |-> None]
  <2>1. PICK i \in Fresh : node' = Stored(node, i, new(i))
                           /\ body' = Stored(body, i, NewBody(i, author, text))
    BY <1>4 DEF Create
  <2>2. new(i).body = i /\ ~NewBody(i, author, text).isPublic
    BY DEF NewBody
  <2> HIDE DEF new
  <2> QED BY <1>3, <2>1, <2>2
<1>5. ASSUME NEW n \in DOMAIN node, NEW author, MakeDraft(n, author)
      PROVE  PagesAdvance(node, body, node', body')
  <2>1. PICK i \in Fresh : node' = Stored(node, i, DraftNode(n, i))
                           /\ body' = Stored(body, i, DraftBody(n, author))
    BY <1>5 DEF MakeDraft
  <2>2. DraftNode(n, i).body = i /\ ~DraftBody(n, author).isPublic
    BY <1>2 DEF DraftNode, DraftBody, Node
  <2> QED BY <1>3, <2>1, <2>2
<1>6. ASSUME NEW n \in DOMAIN node, NEW support, NEW text, Edit(n, support, text)
      PROVE  PagesAdvance(node, body, node', body')
  <2>1. /\ ~IsPublic(n) /\ node' = [node EXCEPT ![n].support = support]
        /\ body' = [body EXCEPT ![node[n].body].text = text]
    BY <1>6 DEF Edit
  <2>2. /\ DOMAIN node' = DOMAIN node /\ ~body[node[n].body].isPublic
        /\ \A m \in DOMAIN node : node'[m].body = node[m].body
        /\ \A m \in DOMAIN node : m # n => node'[m] = node[m]
    BY <1>2, <2>1 DEF Node, IsPublic, BodyOf
  <2>3. DOMAIN body' = DOMAIN body
        /\ \A b \in DOMAIN body : body'[b].isPublic = body[b].isPublic
    BY <1>1, <2>1 DEF TypeOK, TypedGraph, Body
  <2> QED BY <1>2, <2>2, <2>3, EditedPages
<1>7. ASSUME NEW n \in DOMAIN node, DiscardDraft(n)
      PROVE  PagesAdvance(node, body, node', body')
  <2>1. ~body[node[n].body].isPublic /\ node' = NodesWithout(n) /\ body' = body
    BY <1>7 DEF DiscardDraft, IsPublic, BodyOf
  <2>2. /\ DOMAIN node' = DOMAIN node \ {n}
        /\ \A m \in DOMAIN node' : /\ m \in DOMAIN node
                                   /\ node'[m].body = node[m].body
                                   /\ node'[m].type = node[m].type
                                   /\ node'[m].support = node[m].support \ {n}
    BY <1>1, <2>1, NodesWithoutFacts
  <2>3. ASSUME NEW m \in DOMAIN node, body[node[m].body].isPublic
        PROVE  m \in DOMAIN node' /\ node'[m].support = node[m].support
    <3>1. n \notin node[m].support /\ m # n
      BY <1>1, <2>1, <2>3 DEF GraphInv, PublicSupportIn
    <3>2. m \in DOMAIN node' /\ node'[m].support = node[m].support \ {n}
      BY <2>2, <3>1
    <3> QED BY <3>1, <3>2
  <2> QED BY <2>1, <2>2, <2>3, EditedPages
<1>8. ASSUME NEW b \in discarding, DiscardBody(b)
      PROVE  PagesAdvance(node, body, node', body')
  <2>1. node' = node /\ body' = Restrict(body, DOMAIN body \ {b})
    BY <1>8 DEF DiscardBody
  <2>2. \A n \in DOMAIN node : node[n].body # b
    BY <1>1 DEF GraphInv, DiscardsUnused
  <2>3. DOMAIN body' = DOMAIN body \ {b} /\ \A c \in DOMAIN body' : body'[c] = body[c]
    BY <2>1 DEF Restrict
  <2>4. ~body[b].isPublic
    BY <1>1 DEF DiscardsPrivate
  <2> QED BY <1>2, <2>1, <2>2, <2>3, <2>4, EditedPages
<1> QED BY <1>4, <1>5, <1>6, <1>7, <1>8 DEF Editing

\* What a publication may have done to the pages advances them.
LEMMA KeptPages ==
  ASSUME NEW nd0, NEW bd0, NEW nd, NEW bd,
         PagesKept(nd0, bd0, nd, bd), BodiesKept(bd0, bd), NumbersGrow(nd0, bd0, nd, bd),
         DOMAIN bd0 = DOMAIN bd, \A n \in DOMAIN nd : nd[n].body \in DOMAIN bd
  PROVE  PagesAdvance(nd0, bd0, nd, bd)
BY DEF PagesKept, BodiesKept, PagesAdvance

\* What a publication has done when a step of it has been taken, be it a refusal
\* half way or a rollback.
LEMMA PublishedPages ==
  ASSUME FullInv, MinorBound, PublishStep
  PROVE  /\ ~Idle
         /\ ~Idle' => saved' = saved
         /\ PagesAdvance(saved.node, saved.body, node', body')
<1>1. TypeOK /\ TypedGraph(node, body)
  BY DEF FullInv, IInv, TypeOK
<1>2. ~Idle
  BY DEF PublishStep, PublishDescendant, OverflowStack, PublishInPlace, MergeDraft,
         MergeRollsBack, MergeLosesDraft, MergeStopsHalfway, ReadyToFinish
<1>3. ASSUME Return PROVE ~Idle' => saved' = saved
  <2>1. calls \in Seq(DOMAIN node) /\ calls # <<>>
    BY <1>1, <1>2 DEF TypeOK, Idle
  <2> QED BY <1>3, <2>1, ReturnFacts DEF Return, Idle
<1>4. ASSUME CommitPartial \/ Rollback PROVE Idle'
  BY <1>4 DEF CommitPartial, Rollback, Idle
<1>5. DOMAIN saved.body = DOMAIN body /\ \A n \in DOMAIN node : node[n].body \in DOMAIN body
  BY <1>2, SavedFacts
<1>6. ASSUME node' = node, body' = body
      PROVE  PagesAdvance(saved.node, saved.body, node', body')
  BY <1>2, <1>5, <1>6, SavedFacts, KeptPages
<1>7. ASSUME Rollback PROVE PagesAdvance(saved.node, saved.body, node', body')
  BY <1>7, SamePages DEF Rollback
<1>8. CASE \E k \in DOMAIN node : PublishDescendant(k)
  BY <1>2, <1>4, <1>6, <1>8 DEF PublishDescendant
<1>9. CASE OverflowStack \/ MergeRollsBack
  BY <1>2, <1>4, <1>7, <1>9 DEF OverflowStack, MergeRollsBack
<1>10. CASE PublishInPlace
  <2>1. CASE OrderFails
    BY <1>2, <1>4, <1>6, <1>10, <2>1 DEF PublishInPlace
  <2>2. CASE ~OrderFails
    <3>1. Return /\ node' = node
          /\ body' = Published(node[Top].body, FinalMinorVersion(node[Top].body))
      BY <1>10, <2>2 DEF PublishInPlace
    <3>2. DOMAIN body' = DOMAIN body
      BY <3>1 DEF Published
    <3>3. PagesAdvance(saved.node, saved.body, node', body')
      BY <1>5, <1>10, <2>2, <3>1, <3>2, InPlaceTransaction, KeptPages
    <3> QED BY <1>2, <1>3, <3>1, <3>3
  <2> QED BY <2>1, <2>2
<1>11. CASE MergeDraft \/ MergeStopsHalfway
  <2>1. ReadyToFinish /\ IsDraftOfPublic(Top) /\ node' = Merged(Top, TopPublic)
    BY <1>11 DEF MergeDraft, MergeStopsHalfway, TopPublic
  <2>2. PICK minor \in Int :
          /\ body' = Published(TopBody, minor)
          /\ minor >= body[TopBody].minorVersion
          /\ \/ minor < 0
             \/ \A c \in DOMAIN body : body[c].majorVersion = TopPublic
                                         => minor > body[c].minorVersion
    <3> DEFINE final == FinalMinorVersion(TopBody)
               old == body[TopBody].minorVersion
    <3>1. /\ final \in Int /\ final >= old
          /\ \A c \in DOMAIN body : body[c].majorVersion = TopPublic => final > body[c].minorVersion
          /\ old \in Int /\ old < 0
      BY <2>1, MergedMinor
    <3>2. body' = Published(TopBody, final) \/ body' = Published(TopBody, old)
      BY <1>11 DEF MergeDraft, MergeStopsHalfway, TopBody
    <3>3. old >= old
      BY <3>1
    <3> HIDE DEF final
    <3> QED BY <3>1, <3>2, <3>3
  <2>3. /\ DOMAIN body' = DOMAIN body
        /\ \A n \in DOMAIN node' : node'[n].body \in DOMAIN body'
    <3>1. DOMAIN body' = DOMAIN body
      BY <2>2 DEF Published
    <3>2. \A n \in DOMAIN node' : node'[n].body \in DOMAIN body
      BY <1>5, <2>1, MergedNodes, MergeStarts DEF FullInv
    <3> QED BY <3>1, <3>2
  <2>4. PagesAdvance(saved.node, saved.body, node', body')
    BY <1>5, <2>1, <2>2, <2>3, MergedTransaction, KeptPages
  <2>5. Return \/ CommitPartial
    BY <1>11 DEF MergeDraft, MergeStopsHalfway
  <2> QED BY <1>2, <1>3, <1>4, <2>4, <2>5
<1>12. CASE MergeLosesDraft
  <2>1. /\ ReadyToFinish /\ IsDraftOfPublic(Top) /\ CommitPartial
        /\ node' = NodesWithout(Top) /\ body' = body
    BY <1>12 DEF MergeLosesDraft
  <2>2. Top \in DOMAIN node /\ ~IsPublic(Top)
    BY <2>1, MergeStarts DEF FullInv, IsPublic, BodyOf
  <2>3. \A n \in DOMAIN node' : node'[n].body \in DOMAIN body'
    BY <1>1, <1>5, <2>1, <2>2, NodesWithoutFacts
  <2>4. PagesAdvance(saved.node, saved.body, node', body')
    BY <1>2, <1>5, <2>1, <2>2, <2>3, WithoutTransaction, KeptPages
  <2> QED BY <1>2, <1>4, <2>1, <2>4
<1> QED BY <1>8, <1>9, <1>10, <1>11, <1>12 DEF PublishStep

\* What other requests see, whatever the step.
LEMMA CommittedStep ==
  ASSUME FullInv, MinorBound, [Next]_vars
  PROVE  PagesAdvance(Committed.node, Committed.body, Committed'.node, Committed'.body)
<1>1. ASSUME Committed' = Committed
      PROVE  PagesAdvance(Committed.node, Committed.body, Committed'.node, Committed'.body)
  BY <1>1, SamePages
<1>2. CASE Editing
  <2>1. Idle /\ calls' = calls
    BY <1>2 DEF Editing, Create, Edit, MakeDraft, DiscardDraft, DiscardBody
  <2>2. /\ Committed.node = node /\ Committed.body = body
        /\ Committed'.node = node' /\ Committed'.body = body'
    BY <2>1 DEF Committed, Idle
  <2> QED BY <1>2, <2>2, EditingPages
<1>3. CASE \E n \in DOMAIN node : PublishNode(n)
  <2>1. Idle /\ ~Idle' /\ saved' = Committed
    BY <1>3 DEF PublishNode, Idle
  <2> QED BY <1>1, <2>1 DEF Committed
<1>4. CASE PublishStep
  <2>1. /\ ~Idle
        /\ ~Idle' => saved' = saved
        /\ PagesAdvance(saved.node, saved.body, node', body')
    BY <1>4, PublishedPages
  <2>2. CASE Idle'
    <3>1. /\ Committed.node = saved.node /\ Committed.body = saved.body
          /\ Committed'.node = node' /\ Committed'.body = body'
      BY <2>1, <2>2 DEF Committed, Idle
    <3> QED BY <2>1, <3>1
  <2>3. CASE ~Idle'
    <3>1. Committed = saved /\ Committed' = saved'
      BY <2>1, <2>3 DEF Committed, Idle
    <3> QED BY <1>1, <2>1, <2>3, <3>1
  <2> QED BY <2>2, <2>3
<1>5. CASE Crash
  <2>1. /\ node' = Committed.node /\ body' = Committed.body /\ Idle'
    BY <1>5 DEF Crash, Idle
  <2>2. Committed'.node = Committed.node /\ Committed'.body = Committed.body
    BY <2>1 DEF Committed
  <2> QED BY <2>2, SamePages
<1>6. CASE UNCHANGED vars
  BY <1>1, <1>6 DEF vars, Committed, Idle
<1> QED BY <1>2, <1>3, <1>4, <1>5, <1>6 DEF Next

\* A number that was published is never reached again, through rollbacks, refusals
\* half way and any number of drafts merged into each other's pages.
THEOREM MinorVersionsGrowCorrect == Spec => MinorVersionsGrow
<1>1. ASSUME FullInv, MinorBound, [Next]_vars PROVE NumbersRaised
  <2> DEFINE nd0 == Committed.node
             bd0 == Committed.body
  <2>1. NumbersGrow(nd0, bd0, Committed'.node, Committed'.body)
    BY <1>1, CommittedStep DEF PagesAdvance
  <2> QED BY <2>1 DEF NumbersGrow, NumbersRaised, PublicNodes
<1> QED BY <1>1, FullAlways, PTL DEF Spec, MinorVersionsGrow

-----------------------------------------------------------------------------
(***************************************************************************)
(* The service implements PublicPages, under the mapping that takes the    *)
(* public nodes of the committed graph for the pages.                      *)
(***************************************************************************)
\* The committed graph is a sound graph, before, during and after a publication.
LEMMA CommittedSound ==
  ASSUME FullInv
  PROVE  TypedGraph(Committed.node, Committed.body) /\ GraphInv(Committed.node, Committed.body)
<1>1. CASE Idle
  <2>1. Committed.node = node /\ Committed.body = body
    BY <1>1 DEF Committed
  <2> QED BY <2>1 DEF FullInv, IInv, TypeOK
<1>2. CASE ~Idle
  <2>1. Committed = saved
    BY <1>2 DEF Committed
  <2> QED BY <1>2, <2>1 DEF FullInv, IInv, TypeOK
<1> QED BY <1>1, <1>2

\* The pages read off the committed graph.
LEMMA PageFacts ==
  /\ DOMAIN PublicPage = PublicNodes(Committed)
  /\ \A n \in PublicNodes(Committed) :
        /\ PublicPage[n] = [content |-> Committed.node[n].body,
                            type |-> Committed.node[n].type,
                            support |-> Committed.node[n].support]
        /\ PublicPage[n].content = Committed.node[n].body
        /\ PublicPage[n].type = Committed.node[n].type
        /\ PublicPage[n].support = Committed.node[n].support
BY DEF PublicPage

\* A page rests on pages, and no two pages carry one content.
LEMMA PagesSound == FullInv => Pages!Init
<1> SUFFICES ASSUME FullInv PROVE Pages!Init
  OBVIOUS
<1> DEFINE nd == Committed.node
           bd == Committed.body
<1>1. TypedGraph(nd, bd) /\ GraphInv(nd, bd)
  BY CommittedSound
<1>2. /\ DOMAIN PublicPage = {n \in DOMAIN nd : bd[nd[n].body].isPublic}
      /\ \A n \in DOMAIN PublicPage : /\ PublicPage[n].content = nd[n].body
                                      /\ PublicPage[n].support = nd[n].support
  BY PageFacts DEF PublicNodes
<1>3. PublishedContent = {b \in DOMAIN bd : bd[b].isPublic}
  BY DEF PublishedContent
<1> HIDE DEF nd, bd
<1>4. Pages!Closed
  BY <1>1, <1>2 DEF Pages!Closed, TypedGraph, GraphInv, PublicSupportIn
<1>5. Pages!ContentUnique
  BY <1>1, <1>2 DEF Pages!ContentUnique, GraphInv, BodyDefinesOneNodeIn
<1>6. {PublicPage[n].content : n \in DOMAIN PublicPage} \subseteq PublishedContent
  BY <1>1, <1>2, <1>3 DEF TypedGraph
<1> QED BY <1>4, <1>5, <1>6 DEF Pages!Init

LEMMA PagesStep ==
  ASSUME FullInv, MinorBound, [Next]_vars
  PROVE  Pages!Publish
<1> DEFINE nd0 == Committed.node
           bd0 == Committed.body
           nd == Committed'.node
           bd == Committed'.body
<1>1. PagesAdvance(nd0, bd0, nd, bd)
  BY CommittedStep
<1>2. FullInv'
  BY FullStep
<1>3. /\ Pages!Closed' /\ Pages!ContentUnique'
      /\ {PublicPage'[n].content : n \in DOMAIN PublicPage'} \subseteq PublishedContent'
  <2>1. Pages!Init'
    BY <1>2, PagesSound, PTL
  <2> QED BY <2>1 DEF Pages!Init
<1>4. /\ DOMAIN PublicPage = {n \in DOMAIN nd0 : bd0[nd0[n].body].isPublic}
      /\ \A n \in DOMAIN PublicPage :
            /\ PublicPage[n] = [content |-> nd0[n].body, type |-> nd0[n].type,
                                support |-> nd0[n].support]
            /\ PublicPage[n].type = nd0[n].type
  BY PageFacts DEF PublicNodes
<1>5. /\ DOMAIN PublicPage' = {n \in DOMAIN nd : bd[nd[n].body].isPublic}
      /\ \A n \in DOMAIN PublicPage' :
            /\ PublicPage'[n] = [content |-> nd[n].body, type |-> nd[n].type,
                                 support |-> nd[n].support]
            /\ PublicPage'[n].content = nd[n].body
            /\ PublicPage'[n].type = nd[n].type
  BY DEF PublicPage, PublicNodes
<1>6. /\ PublishedContent = {b \in DOMAIN bd0 : bd0[b].isPublic}
      /\ PublishedContent' = {b \in DOMAIN bd : bd[b].isPublic}
  BY DEF PublishedContent
<1> HIDE DEF nd0, bd0, nd, bd
<1>7. DOMAIN PublicPage \subseteq DOMAIN PublicPage'
  BY <1>1, <1>4, <1>5 DEF PagesAdvance
<1>8. ASSUME NEW n \in DOMAIN PublicPage'
      PROVE  \/ n \in DOMAIN PublicPage /\ PublicPage'[n] = PublicPage[n]
             \/ /\ PublicPage'[n].content \notin PublishedContent
                /\ n \in DOMAIN PublicPage => PublicPage'[n].type = PublicPage[n].type
  <2>1. n \in DOMAIN PublicPage => nd[n].type = nd0[n].type
    BY <1>1, <1>4 DEF PagesAdvance
  <2>2. \/ /\ n \in DOMAIN nd0 /\ bd0[nd0[n].body].isPublic
           /\ nd[n].body = nd0[n].body /\ nd[n].support = nd0[n].support
        \/ nd[n].body \in DOMAIN bd0 /\ ~bd0[nd[n].body].isPublic
    BY <1>1, <1>5, <1>8 DEF PagesAdvance
  <2>3. n \in DOMAIN PublicPage => PublicPage'[n].type = PublicPage[n].type
    BY <1>4, <1>5, <2>1
  <2>4. CASE /\ n \in DOMAIN nd0 /\ bd0[nd0[n].body].isPublic
             /\ nd[n].body = nd0[n].body /\ nd[n].support = nd0[n].support
    <3>1. n \in DOMAIN PublicPage /\ nd[n].type = nd0[n].type
      BY <1>4, <2>1, <2>4
    <3>2. PublicPage[n] = [content |-> nd0[n].body, type |-> nd0[n].type,
                           support |-> nd0[n].support]
      BY <1>4, <3>1
    <3>3. PublicPage'[n] = [content |-> nd[n].body, type |-> nd[n].type,
                            support |-> nd[n].support]
      BY <1>5, <1>8
    <3>4. PublicPage'[n] = PublicPage[n]
      BY <2>4, <3>1, <3>2, <3>3
    <3> QED BY <3>1, <3>4
  <2>5. CASE nd[n].body \in DOMAIN bd0 /\ ~bd0[nd[n].body].isPublic
    BY <1>5, <1>6, <2>3, <2>5
  <2> QED BY <2>2, <2>4, <2>5
<1>9. PublishedContent \subseteq PublishedContent'
  BY <1>1, <1>6 DEF PagesAdvance
<1> QED BY <1>3, <1>7, <1>8, <1>9 DEF Pages!Publish

\* Half-done and rolled-back publications included, readers see nothing but the
\* lawful changes of the public pages.
THEOREM ReadersSeePagesCorrect == Spec => ReadersSeePages
<1>1. Init => Pages!Init
  <2>1. SUFFICES ASSUME Init PROVE Pages!Init
    OBVIOUS
  <2>2. FullInv
    BY <2>1, InitFull
  <2> QED BY <2>2, PagesSound
<1>2. FullInv /\ MinorBound /\ [Next]_vars => [Pages!Publish]_<<PublicPage, PublishedContent>>
  BY PagesStep
<1> QED BY <1>1, <1>2, FullAlways, PTL DEF Spec, ReadersSeePages, Pages!Spec
=============================================================================
