------------------------------ MODULE NodeCache ------------------------------
(***************************************************************************)
(* The browser's cache of nodes: node-cache.js on the nodes of             *)
(* node-factory.js.                                                        *)
(*                                                                         *)
(* Every page works on the same objects.  A request is sent with what its  *)
(* node holds at that moment, is served by the server later, and is        *)
(* answered later still: answers may come in any order, and an answer may  *)
(* be lost after the server has done its work.  The server is what         *)
(* ArgumentGraph models, without its versions, rules and users: it may     *)
(* refuse any request.                                                     *)
(*                                                                         *)
(* A stableId stands for an id and the other way round.  Of a body there   *)
(* is a text and whether it is public; the children of a node from the     *)
(* server are in the order of their ids.                                   *)
(***************************************************************************)
EXTENDS NodeGraph

CONSTANTS Obj,        \* Node objects, numbered in the order they are made
          Request,    \* as many as there are requests at the same time
          Draft,      \* DRAFT_ID
          None,
          FirstText,  \* the text of a new node
          Depth,      \* how deep a graph is fetched: 5 in the repository
          Scenarios   \* bounds: what may happen in a behaviour

\* What the server stores of a node.
Stored(s) ==
    [type : NodeType, text : {s.server[i].text : i \in DOMAIN s.server}, public : BOOLEAN,
     children : SUBSET DOMAIN s.server, edits : DOMAIN s.server \cup {None}]

ASSUME NodeCacheAssumption ==
    /\ Obj \subseteq Nat /\ Depth \in Nat \ {0} /\ None \notin Obj
    /\ \A s \in Scenarios :
        /\ s.ids \subseteq Nat /\ IsFiniteSet(s.ids)
        /\ {Draft, None} \cap s.ids = {} /\ Draft # None
        /\ DOMAIN s.server \subseteq s.ids
        /\ s.server \in [DOMAIN s.server -> Stored(s)]
        /\ \A i \in DOMAIN s.server :
            /\ i <= Cardinality(DOMAIN s.server)
            /\ s.server[i].edits # None => s.server[s.server[i].edits].public
        /\ s.version \in [s.ids -> s.ids]

VARIABLES heap,     \* node: the Node objects; nodes: cache.nodes
          server,   \* the nodes in the database
          lastId,   \* the last id the server gave to a node
          request,  \* what was sent, and its reply once it is served
          scenario  \* which of the scenarios this is

Ops == scenario.ops         \* the operations that are used
Id == scenario.ids          \* the identifiers of the server, numbered as well
Text == scenario.texts      \* what is written in bodies

\* The major version of each node, with the id of one of them: a new node gets a
\* version of its own, a draft that of the node it edits.
MajorVersion == scenario.version

cacheVars == <<heap, server, lastId, request>>

Unused == [id |-> None]

NewNode(id, type, public) ==
    [id |-> id, type |-> type, of |-> None, text |-> FirstText, public |-> public,
     children |-> <<>>, parents |-> [i \in {} |-> None], hasFullGraph |-> FALSE]

CacheInit ==
    /\ heap = [node |-> [o \in Obj |-> Unused], nodes |-> [i \in {} |-> None]]
    /\ scenario \in Scenarios
    /\ server = scenario.server
    /\ lastId = Cardinality(DOMAIN server)
    /\ request = [r \in Request |-> None]

Cached(id) == id \in DOMAIN heap.nodes

\* isPersisted: the body came from the server.
IsPersisted(g, o) == g[o].of # None

IsBlankSlateNode(o) == Cached(Draft) /\ heap.nodes[Draft] = o

FreshObject(h) == Min({o \in Obj : h.node[o] = Unused})

Insert(h, o) == [h EXCEPT !.nodes = Put(@, h.node[o].id, o)]

-----------------------------------------------------------------------------
(* What the server sends.                                                   *)

\* The nodes of a graph, and the edges out of all but the deepest.
Within(db, root, depth) ==
    Reached({root}, [i \in DOMAIN db |-> db[i].children], depth)

Consumers(db, id) == {i \in DOMAIN db : id \in db[i].children}

InVersion(db, version) == {i \in DOMAIN db : MajorVersion[i] = version}

Data(db, id) == [id |-> id, type |-> db[id].type, text |-> db[id].text,
                 public |-> db[id].public]

Edges(db, root, id) ==
    IF id \in Within(db, root, Depth - 1)
    THEN InOrder(db[id].children)
    ELSE <<>>

-----------------------------------------------------------------------------
(* What the cache does with it.                                             *)

\* assimilateData: every body of the server comes with its major version, so it
\* replaces the old one.
Assimilate(g, o, data) ==
    [g EXCEPT ![o].id = IF IsPersisted(g, o) THEN @ ELSE data.id,
              ![o].of = data.id, ![o].type = data.type,
              ![o].text = data.text, ![o].public = data.public]

\* Fault for the checks: what is cached is replaced.
AddOrReplaceNode(h, data) ==
    LET o == FreshObject(h)
        made == [h EXCEPT !.node[o] = NewNode(data.id, data.type, data.public)]
    IN  Insert([made EXCEPT !.node = Assimilate(@, o, data)], o)

AddOrUpdateNode(h, data) ==
    IF data.id \in DOMAIN h.nodes
    THEN [h EXCEPT !.node = Assimilate(@, h.nodes[data.id], data)]
    ELSE LET o == FreshObject(h)
             made == [h EXCEPT !.node[o] = NewNode(data.id, data.type, data.public)]
         IN  Insert([made EXCEPT !.node = Assimilate(@, o, data)], o)

AddNodesUnlinked(h, db, ids) ==
    FoldLeft(LAMBDA before, id : AddOrUpdateNode(before, Data(db, id)),
             h, InOrder(ids))

\* The children with these ids, as far as they are cached.
LinkChildren(nodes, g, o, childIds) ==
    FoldLeft(LAMBDA before, c : IF c \in DOMAIN nodes THEN AddChild(before, o, nodes[c]) ELSE before,
             g, childIds)

\* Fault for the checks: nobody looks for circles.
WithChildrenUnchecked(h, id, childIds) ==
    LET o == h.nodes[id]
    IN  [h EXCEPT !.node = LinkChildren(h.nodes, [@ EXCEPT ![o].children = <<>>], o, childIds)]

\* One round of populateChildren.  The old children keep their parent.
WithChildren(h, id, childIds) ==
    LET o == h.nodes[id]
        linked == LinkChildren(h.nodes, [h.node EXCEPT ![o].children = <<>>], o, childIds)
    IN  [h EXCEPT !.node =
            IF IsInfinite(linked, o) THEN [linked EXCEPT ![o].children = <<>>] ELSE linked]

PopulateChildren(h, db, root, ids) ==
    FoldLeft(LAMBDA before, id : WithChildren(before, id, Edges(db, root, id)), h, InOrder(ids))

\* inductQuickGraph
InductQuickGraph(h, db, root) ==
    LET ids == Within(db, root, Depth)
        consumers == Consumers(db, root)
        added == AddNodesUnlinked(AddNodesUnlinked(h, db, ids), db, consumers)
        rooted == [added EXCEPT !.node[added.nodes[root]].parents =
                        [i \in consumers |-> added.nodes[i]]]
    IN  PopulateChildren(rooted, db, root, ids)

LeaveChildren(g, o) ==
    FoldLeft(LAMBDA before, c : [before EXCEPT ![c].parents = Delete(@, before[o].id)],
             g, g[o].children)

LeaveParents(g, o) ==
    FoldSet(LAMBDA key, before : IF key \in DOMAIN before[o].parents
                                 THEN RemoveChild(before, before[o].parents[key], o) ELSE before,
            g, DOMAIN g[o].parents)

\* Fault for the checks: the parents keep the forgotten child.
ForgetNodeBelow(h, id) ==
    IF id \notin DOMAIN h.nodes THEN h ELSE [h EXCEPT !.node = LeaveChildren(@, h.nodes[id])]

\* forgetNode: the node leaves its children and its parents, but not the cache.
ForgetNode(h, id) ==
    IF id \notin DOMAIN h.nodes THEN h ELSE
    [h EXCEPT !.node = LeaveParents(LeaveChildren(@, h.nodes[id]), h.nodes[id])]

AddToParents(g, o, child) ==
    FoldSet(LAMBDA key, before : AddChild(before, g[o].parents[key], child),
            g, DOMAIN g[o].parents)

\* The answer of publishNode: when the draft o was merged into another node, that
\* node is added to the parents that forgetNode has left to o.
InductPublished(h, db, root, o) ==
    LET inducted == InductQuickGraph(h, db, root)
        forgotten == ForgetNode(inducted, h.node[o].id)
    IN  IF root = h.node[o].id
        THEN inducted
        ELSE [forgotten EXCEPT !.node = AddToParents(@, o, inducted.nodes[root])]

-----------------------------------------------------------------------------
(* Requests.                                                                *)

NotServed == [served |-> FALSE, ok |-> FALSE, root |-> None, db |-> <<>>]

Send(r, op, o, id, fields) ==
    /\ op \in Ops
    /\ request[r] = None
    /\ request' = [request EXCEPT ![r] =
            [op |-> op, obj |-> o, id |-> id, fields |-> fields, reply |-> NotServed]]

\* What a request says of the node it saves.
Fields(o) ==
    [type |-> heap.node[o].type, text |-> heap.node[o].text, links |-> Links(heap.node, o)]

\* getOrCreateDraftNode, where there is none.
OpenBlankNode(type) ==
    /\ "blank" \in Ops
    /\ ~Cached(Draft)
    /\ LET o == FreshObject(heap)
       IN  heap' = Insert([heap EXCEPT !.node[o] = NewNode(Draft, type, FALSE)], o)
    /\ UNCHANGED <<server, lastId, request>>

\* The user writes in the body of a node.
Write(o, text) ==
    /\ "write" \in Ops
    /\ heap' = [heap EXCEPT !.node[o].text = text]
    /\ UNCHANGED <<server, lastId, request>>

\* saveBlankSlateNode
SaveBlankSlateNode(r) ==
    /\ Cached(Draft)
    /\ Send(r, "blank", heap.nodes[Draft], Draft, Fields(heap.nodes[Draft]))
    /\ UNCHANGED <<heap, server, lastId>>

\* createNodeWithSupport: the new node does not enter the cache before it is saved.
CreateNodeWithSupport(r, child) ==
    LET o == FreshObject(heap)
        type == IF heap.node[child].type \in LeafType THEN "interpretation" ELSE "assertion"
        made == [heap.node EXCEPT ![o] = NewNode(Draft, type, FALSE)]
    IN  /\ heap' = [heap EXCEPT !.node = AddChild(made, o, child)]
        /\ Send(r, "support", o, Draft, [type |-> type, text |-> FirstText,
                                         links |-> {heap.node[child].id}])
        /\ UNCHANGED <<server, lastId>>

\* saveAssertionEdit, saveInterpretationEdit, saveSourceEdit, saveSubjectEdit
SaveNodeEdit(r, o) ==
    /\ Send(r, "edit", o, heap.node[o].id, Fields(o))
    /\ UNCHANGED <<heap, server, lastId>>

MakeDraft(r, o) ==
    /\ Send(r, "makeDraft", o, heap.node[o].id, None)
    /\ UNCHANGED <<heap, server, lastId>>

\* "Dirty the parents so they get re-fetched when displayed."
PublishNode(r, o) ==
    LET parents == Range(heap.node[o].parents)
    IN  /\ heap' = [heap EXCEPT !.node = [p \in Obj |->
                        IF p \in parents THEN [@[p] EXCEPT !.hasFullGraph = FALSE] ELSE @[p]]]
        /\ Send(r, "publish", o, heap.node[o].id, None)
        /\ UNCHANGED <<server, lastId>>

DiscardDraft(r, o) ==
    /\ Send(r, "discard", o, heap.node[o].id, None)
    /\ UNCHANGED <<heap, server, lastId>>

\* fetchGraphForId asks the server only for what is not there.
FetchGraphForId(r, id) ==
    /\ ~(Cached(id) /\ heap.node[heap.nodes[id]].hasFullGraph)
    /\ Send(r, "graph", None, id, None)
    /\ UNCHANGED <<heap, server, lastId>>

\* getFullDetail
FetchDetail(r, id) ==
    /\ Send(r, "detail", None, id, None)
    /\ UNCHANGED <<heap, server, lastId>>

\* getLinkChoices: the nodes of a major version.
FetchLinkChoices(r, version) ==
    /\ Send(r, "choices", None, version, None)
    /\ UNCHANGED <<heap, server, lastId>>

-----------------------------------------------------------------------------
(* The server.                                                              *)

Answer(r, root, db) ==
    request' = [request EXCEPT ![r].reply =
                    [served |-> TRUE, ok |-> TRUE, root |-> root, db |-> db]]

Open(r, ops) == request[r] # None /\ ~request[r].reply.served /\ request[r].op \in ops

ServeCreate(r) ==
    LET f == request[r].fields
        id == lastId + 1
    IN  /\ Open(r, {"blank", "support"})
        /\ f.links \subseteq DOMAIN server
        /\ id \in Id                                          \* bound
        /\ MajorVersion[id] \notin {MajorVersion[i] : i \in DOMAIN server}
        /\ server' = Put(server, id, [type |-> f.type, text |-> f.text, public |-> FALSE,
                                      children |-> f.links, edits |-> None])
        /\ lastId' = id
        /\ Answer(r, id, server')
        /\ UNCHANGED heap

ServeEdit(r) ==
    LET q == request[r]
    IN  /\ Open(r, {"edit"})
        /\ q.id \in DOMAIN server /\ q.fields.links \subseteq DOMAIN server
        /\ ~server[q.id].public
        /\ server' = [server EXCEPT ![q.id].text = q.fields.text,
                                    ![q.id].children = q.fields.links]
        /\ Answer(r, q.id, server')
        /\ UNCHANGED <<heap, lastId>>

ServeMakeDraft(r) ==
    LET q == request[r]
        id == lastId + 1
    IN  /\ Open(r, {"makeDraft"})
        /\ q.id \in DOMAIN server /\ server[q.id].public
        /\ id \in Id                                          \* bound
        /\ MajorVersion[id] = MajorVersion[q.id]
        /\ server' = Put(server, id, [server[q.id] EXCEPT !.public = FALSE, !.edits = q.id])
        /\ lastId' = id
        /\ Answer(r, id, server')
        /\ UNCHANGED heap

\* The drafts below id become public, or their contents those of the nodes they
\* edit.  (Two drafts of the same node are refused.)
Publishable(id) ==
    {i \in Within(server, id, Cardinality(DOMAIN server)) : ~server[i].public}

ServePublish(r) ==
    LET q == request[r]
        drafts == Publishable(q.id)
        merged == {i \in drafts : server[i].edits \in DOMAIN server}
        Into(i) == IF i \in merged THEN server[i].edits ELSE i
        Content(i) == IF \E d \in merged : server[d].edits = i
                      THEN server[CHOOSE d \in merged : server[d].edits = i]
                      ELSE server[i]
    IN  /\ Open(r, {"publish"})
        /\ q.id \in DOMAIN server /\ drafts # {}
        /\ \A i, j \in merged : server[i].edits = server[j].edits => i = j
        /\ server' = [i \in DOMAIN server \ merged |->
                [Content(i) EXCEPT !.public = @ \/ \E d \in drafts : Into(d) = i,
                                   !.children = {Into(c) : c \in @},
                                   !.edits = IF i \in drafts THEN None ELSE server[i].edits]]
        /\ Answer(r, Into(q.id), server')
        /\ UNCHANGED <<heap, lastId>>

ServeDiscard(r) ==
    LET q == request[r]
    IN  /\ Open(r, {"discard"})
        /\ q.id \in DOMAIN server /\ ~server[q.id].public
        /\ server' = [i \in DOMAIN server \ {q.id} |->
                        [server[i] EXCEPT !.children = @ \ {q.id}]]
        /\ Answer(r, q.id, server')
        /\ UNCHANGED <<heap, lastId>>

ServeQuery(r) ==
    /\ \/ Open(r, {"graph", "detail"}) /\ request[r].id \in DOMAIN server
       \/ Open(r, {"choices"})
    /\ Answer(r, request[r].id, server)
    /\ UNCHANGED <<heap, server, lastId>>

\* A request is refused, or never arrives.
Refuse(r) ==
    /\ request[r] # None /\ ~request[r].reply.served
    /\ request' = [request EXCEPT ![r].reply = [NotServed EXCEPT !.served = TRUE]]
    /\ UNCHANGED <<heap, server, lastId>>

\* The answer is lost on its way.
LoseAnswer(r) ==
    /\ request[r] # None /\ request[r].reply.ok
    /\ request' = [request EXCEPT ![r].reply = [NotServed EXCEPT !.served = TRUE]]
    /\ UNCHANGED <<heap, server, lastId>>

-----------------------------------------------------------------------------
(* The answers.                                                             *)

Done(r) == request' = [request EXCEPT ![r] = None]

\* "Next time the draft node is requested, a fresh blank one should be built."
AnsweredSave(h, q) ==
    LET saved == Insert([h EXCEPT !.node =
                            Assimilate(@, q.obj, Data(q.reply.db, q.reply.root))], q.obj)
    IN  [saved EXCEPT !.nodes = Delete(@, Draft)]

Answered(h, q) ==
    LET db == q.reply.db
        root == q.reply.root
    IN  CASE q.op \in {"blank", "support"} -> AnsweredSave(h, q)
          [] q.op = "edit" -> AddOrUpdateNode(h, Data(db, root))
          [] q.op = "makeDraft" ->
                InductQuickGraph(AddOrUpdateNode(h, Data(db, root)), db, root)
          [] q.op = "publish" -> InductPublished(h, db, root, q.obj)
          [] q.op = "discard" -> ForgetNode(h, q.id)
          [] q.op = "graph" ->
                LET inducted == InductQuickGraph(h, db, root)
                IN  [inducted EXCEPT !.node[inducted.nodes[root]].hasFullGraph = TRUE]
          [] q.op = "detail" -> AddOrUpdateNode(h, Data(db, root))
          [] q.op = "choices" -> AddNodesUnlinked(h, db, InVersion(db, root))

Receive(r) ==
    /\ request[r] # None /\ request[r].reply.ok
    /\ heap' = Answered(heap, request[r])
    /\ Done(r)
    /\ UNCHANGED <<server, lastId>>

\* The error callbacks show a message and change nothing.
ReceiveError(r) ==
    /\ request[r] # None /\ request[r].reply.served /\ ~request[r].reply.ok
    /\ Done(r)
    /\ UNCHANGED <<heap, server, lastId>>

Serve(r) ==
    \/ ServeCreate(r)
    \/ ServeEdit(r)
    \/ ServeMakeDraft(r)
    \/ ServePublish(r)
    \/ ServeDiscard(r)
    \/ ServeQuery(r)

\* The nodes a page can show.
Shown == {o \in Range(heap.nodes) : IsPersisted(heap.node, o)}

\* What pages do with the nodes they show.
UsePage(r) ==
    \/ SaveBlankSlateNode(r)
    \/ \E id \in Id : FetchGraphForId(r, id) \/ FetchDetail(r, id)
    \/ \E version \in Range(MajorVersion) : FetchLinkChoices(r, version)
    \/ \E o \in Shown :
        \/ CreateNodeWithSupport(r, o)
        \/ ~heap.node[o].public /\ (SaveNodeEdit(r, o) \/ PublishNode(r, o) \/ DiscardDraft(r, o))
        \/ heap.node[o].public /\ MakeDraft(r, o)

CacheNext ==
    \/ \E type \in {"assertion", "source"} : OpenBlankNode(type)
    \/ \E o \in Range(heap.nodes), text \in Text : ~heap.node[o].public /\ Write(o, text)
    \/ \E r \in Request :
        \/ UsePage(r)
        \/ Serve(r)
        \/ Refuse(r)
        \/ LoseAnswer(r)
        \/ Receive(r)
        \/ ReceiveError(r)

CacheSpec == CacheInit /\ [][CacheNext /\ UNCHANGED scenario]_<<cacheVars, scenario>>

-----------------------------------------------------------------------------
InUse == {o \in Obj : heap.node[o] # Unused}

\* A cached node has the id it is cached under, also when it is saved twice at once
\* and the second answer speaks of a second node (assimilateData).  As long as
\* nobody saves a new node, a node is one object, however many answers bring it:
\* all that pages keep in it (inEditMode, showChildren, isSelected) is found
\* again (addOrUpdateNode).  A blank node that a page asks for has not been saved,
\* however often the last one was ("a fresh blank one should be built").
OneObjectPerNode ==
    /\ \A id \in DOMAIN heap.nodes : heap.node[heap.nodes[id]].id = id
    /\ Ops \cap {"blank", "support"} = {} =>
        \A o, p \in InUse : heap.node[o].id = heap.node[p].id => o = p
    /\ Cached(Draft) => ~IsPersisted(heap.node, heap.nodes[Draft])
=============================================================================
