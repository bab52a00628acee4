------------------------------- MODULE VivaGraph -------------------------------
(***************************************************************************)
(* The picture of a graph: lib/vivagraph.js as vivagraph-directive.js      *)
(* uses it.                                                                *)
(*                                                                         *)
(* A graph container tells its listeners what has changed, in one go at    *)
(* the end of an operation: the layout, which keeps a body for a node and  *)
(* a spring for a link, and, once it runs, the renderer, which keeps an    *)
(* element in the page for each.  A listener may fail; the operation and   *)
(* the handler that called it then end where they are, and the changes     *)
(* are kept and told again the next time.                                  *)
(*                                                                         *)
(* All of this is the record viva, and an operation takes it and returns   *)
(* it changed.  What an operation reads of the page's own nodes, in args,  *)
(* and whether the layout will be found at rest, in rest, are put in       *)
(* before and taken out after.  Positions, forces and the scale are left   *)
(* out: an element is placed or not.                                       *)
(***************************************************************************)
EXTENDS Naturals, Sequences, FiniteSets, Functions, SequencesExt

VARIABLE viva

Set(f, k, v) == [x \in DOMAIN f \cup {k} |-> IF x = k THEN v ELSE f[x]]
Without(f, k) == Restrict(f, DOMAIN f \ {k})
Listed(S) == FoldSet(LAMBDA x, sequence : Append(sequence, x), <<>>, S)
NoEntries == [x \in {} |-> x]

\* The node of the page in the data of a graph node: none if it was given no data.
PageNode(p, id) == {data.obj : data \in p.node[id]}

IsLeaf(p, obj) == p.args[obj].type \in {"source", "subject"}

VivaPicture(effect) ==
           [effect |-> effect,        \* bound: what the browser and the mouse do
            node |-> NoEntries,       \* the graph: the data of each node
            link |-> NoEntries,       \* the numbers of the links between two nodes, oldest first
            multi |-> NoEntries,      \* multiEdges
            changes |-> <<>>,
            body |-> NoEntries,       \* the layout: whether a body is pinned
            spring |-> {},
            ui |-> NoEntries,         \* the elements of the nodes
            arrow |-> {},             \* the elements of the links
            stray |-> FALSE,          \* an element or a spring nothing refers to any more
            begun |-> FALSE,          \* run was called
            listening |-> FALSE,      \* rendererInitialized
            stable |-> FALSE, scheduled |-> FALSE, interacting |-> FALSE,
            drag |-> NoEntries,       \* nodes being dragged: whether they were pinned
            pins |-> NoEntries,       \* decorateNode: timeouts that will pin a node
            highlighted |-> {}, class |-> "",
            args |-> <<>>, rest |-> FALSE, failed |-> FALSE]

VivaInit(effect) == viva = VivaPicture(effect)

-----------------------------------------------------------------------------
(* Elements of the renderer.                                                *)

\* Fault for the checks: a node that is no leaf stays pinned.
DecorateNeverUnpins(p, id, obj) ==
    LET lit == obj \in p.highlighted
        class == IF ~lit THEN "" ELSE IF p.class = "" THEN "highlight" ELSE p.class
    IN  [p EXCEPT !.ui[id].class = class,
                  !.class = IF lit THEN class ELSE @,
                  !.pins = IF IsLeaf(p, obj) /\ "pin" \in p.effect THEN Set(@, id, TRUE) ELSE @]

\* decorateNode of the element of id.
Decorate(p, id, obj) ==
    LET lit == obj \in p.highlighted
        class == IF ~lit THEN "" ELSE IF p.class = "" THEN "highlight" ELSE p.class
    IN  [p EXCEPT !.ui[id].class = class,
                  !.class = IF lit THEN class ELSE @,
                  !.pins = IF IsLeaf(p, obj) /\ "pin" \in p.effect THEN Set(@, id, TRUE) ELSE @,
                  !.body[id] = IsLeaf(p, obj) /\ @]

\* createNodeUi: a node without data cannot be decorated.
CreateUI(p, id) ==
    IF id \notin DOMAIN p.node \/ PageNode(p, id) = {}
    THEN [p EXCEPT !.failed = TRUE]
    ELSE LET obj == CHOOSE o \in PageNode(p, id) : TRUE
             q == [p EXCEPT !.ui = Set(@, id, [obj |-> obj, placed |-> FALSE, class |-> ""]),
                            !.stray = @ \/ id \in DOMAIN p.ui]
         IN  Decorate(q, id, obj)

\* releaseNodeEvents and removeNodeUi: a drag ends unnoticed.
ReleaseUI(p, id) == [p EXCEPT !.ui = Without(@, id), !.drag = Without(@, id)]

CreateArrow(p, link) ==
    [p EXCEPT !.arrow = @ \cup {link}, !.stray = @ \/ link \in p.arrow]

\* renderGraph
Placed(p) == [p EXCEPT !.ui = [id \in DOMAIN @ |-> [@[id] EXCEPT !.placed = TRUE]]]

\* onRenderFrame, and the timer around it.
Rendered(p) ==
    LET stable == p.rest /\ ~p.interacting
    IN  [Placed(p) EXCEPT !.stable = stable, !.scheduled = ~stable]

\* Fault for the checks: a timer that has stopped is not started again.
NotRestarted(p) == [p EXCEPT !.stable = FALSE]

\* resetStable
ResetStable(p) == IF p.scheduled THEN [p EXCEPT !.stable = FALSE] ELSE Rendered(p)

-----------------------------------------------------------------------------
(* What the listeners do with a change.                                     *)

NodeChange(how, id) == [what |-> "node", how |-> how, item |-> id]
LinkChange(how, link) == [what |-> "link", how |-> how, item |-> link]

\* updateBodyMass asks the graph for the node and the layout for its body.
HasMass(p, id) == id \in DOMAIN p.node /\ id \in DOMAIN p.body

LayoutNode(p, how, id) ==
    CASE how = "add" /\ id \notin DOMAIN p.body ->
            IF id \in DOMAIN p.node THEN [p EXCEPT !.body = Set(@, id, FALSE)]
            ELSE [p EXCEPT !.failed = TRUE]
      [] how = "remove" -> [p EXCEPT !.body = Without(@, id)]
      [] OTHER -> p

LayoutLink(p, how, link) ==
    CASE how = "add" ->
            IF HasMass(p, link.from) /\ HasMass(p, link.to)
            THEN [p EXCEPT !.spring = @ \cup {link}, !.stray = @ \/ link \in p.spring]
            ELSE [p EXCEPT !.failed = TRUE]
      [] how = "remove" /\ link \in p.spring ->
            IF \E id \in {link.from, link.to} : id \in DOMAIN p.node /\ id \notin DOMAIN p.body
            THEN [p EXCEPT !.failed = TRUE]
            ELSE [p EXCEPT !.spring = @ \ {link}]
      [] OTHER -> p

\* Fault for the checks: a node that is told again gets a second element.
RenderNodeAgain(p, how, id) ==
    IF how = "remove" THEN ReleaseUI(p, id) ELSE CreateUI(p, id)

RenderNode(p, how, id) ==
    CASE how = "add" -> CreateUI(p, id)
      [] how = "remove" -> ReleaseUI(p, id)
      [] how = "update" -> CreateUI(ReleaseUI(p, id), id)

RenderLink(p, how, link) ==
    IF how = "add" THEN CreateArrow(p, link) ELSE [p EXCEPT !.arrow = @ \ {link}]

\* The onGraphChanged of a listener.
Told(p, OfNode(_, _, _), OfLink(_, _, _)) ==
    FoldLeft(LAMBDA q, change :
                CASE q.failed -> q
                  [] ~q.failed /\ change.what = "node" -> OfNode(q, change.how, change.item)
                  [] OTHER -> OfLink(q, change.how, change.item),
             p, p.changes)

\* fire('changed'): the layout, then the renderer.
Fire(p) ==
    LET laidOut == Told(p, LayoutNode, LayoutLink)
        drawn == IF laidOut.failed \/ ~laidOut.listening THEN laidOut
                 ELSE Told(laidOut, RenderNode, RenderLink)
        shown == IF drawn.failed \/ ~drawn.listening THEN drawn ELSE ResetStable(drawn)
    IN  IF shown.failed THEN shown ELSE [shown EXCEPT !.changes = <<>>]

-----------------------------------------------------------------------------
(* The graph container.                                                     *)

Recorded(p, change) == [p EXCEPT !.changes = Append(@, change)]

\* addNode, within an operation.
WithNode(p, id, data) ==
    Recorded([p EXCEPT !.node = Set(@, id, data)],
             NodeChange(IF id \in DOMAIN p.node THEN "update" ELSE "add", id))

AddVivaNode(p, id, data) == IF p.failed THEN p ELSE Fire(WithNode(p, id, data))

LinksBetween(p, from, to) ==
    IF <<from, to>> \in DOMAIN p.link THEN p.link[<<from, to>>] ELSE <<>>

Link(from, to, number) == [from |-> from, to |-> to, number |-> number]
LinksOf(p) ==
    UNION {{Link(pair[1], pair[2], number) : number \in Range(p.link[pair])} :
           pair \in DOMAIN p.link}

\* createUniqueLink: 0 for the first link between two nodes, then 1, 2, ...
LinkNumber(p, from, to) ==
    CASE <<from, to>> \in DOMAIN p.multi -> p.multi[<<from, to>>] + 1
      [] OTHER -> IF LinksBetween(p, from, to) = <<>> THEN 0 ELSE 1

\* addLink: an end that is missing is made, without data.
AddLink(p, from, to) ==
    LET End(q, id) == IF id \in DOMAIN q.node THEN q ELSE WithNode(q, id, {})
        q == End(End(p, from), to)
        number == LinkNumber(q, from, to)
    IN  IF p.failed THEN p
        ELSE Fire(Recorded(
                [q EXCEPT !.link = Set(@, <<from, to>>, Append(LinksBetween(q, from, to), number)),
                          !.multi = IF number = 0 THEN @ ELSE Set(@, <<from, to>>, number)],
                LinkChange("add", Link(from, to, number))))

\* getLink and removeLink: the oldest link between the two.
RemoveLink(p, from, to) ==
    LET numbers == LinksBetween(p, from, to)
        left == IF Len(numbers) = 1 THEN Without(p.link, <<from, to>>)
                ELSE Set(p.link, <<from, to>>, Tail(numbers))
    IN  IF p.failed \/ numbers = <<>> THEN p
        ELSE Fire(Recorded([p EXCEPT !.link = left],
                           LinkChange("remove", Link(from, to, Head(numbers)))))

\* removeNode of every node: the links of a node go before it (in which order the nodes go
\* makes no difference to the listeners, who are told when all is gone).
Removals(p) ==
    LET links == Listed(LinksOf(p))
        nodes == Listed(DOMAIN p.node)
    IN  [i \in 1..Len(links) |-> LinkChange("remove", links[i])] \o
        [i \in 1..Len(nodes) |-> NodeChange("remove", nodes[i])]

Clear(p) ==
    IF p.failed THEN p
    ELSE LET q == [p EXCEPT !.node = NoEntries, !.link = NoEntries, !.changes = @ \o Removals(p)]
         IN  IF q.changes = <<>> THEN q ELSE Fire(q)

-----------------------------------------------------------------------------
(* The handlers of the directive.  args: for each node of the page, its id, *)
(* its type and its children.                                               *)

\* addVivaNodesRecursive.  parents holds the parent, if there is one.
RECURSIVE Walk(_, _, _, _)
Walk(p, added, obj, parents) ==
    LET id == p.args[obj].id
        here == [p |-> AddVivaNode(p, id, {[obj |-> obj, root |-> parents = {}]}),
                 added |-> added \cup {id}]
        below == IF id \in added THEN [p |-> p, added |-> added]
                 ELSE FoldLeft(LAMBDA before, child :
                                  Walk(before.p, before.added, child, {obj}),
                               here, p.args[obj].children)
    IN  IF parents = {} THEN below
        ELSE [below EXCEPT !.p =
                AddLink(below.p, p.args[CHOOSE o \in parents : TRUE].id, id)]

RootData(p, root) == Walk(Clear(p), {}, root, {}).p

NodeAdded(p, parents, child) == Walk(p, {}, child, parents).p

EdgeAdded(p, parent, child) ==
    LET from == p.args[parent].id
        to == p.args[child].id
    IN  IF LinksBetween(p, from, to) = <<>> THEN AddLink(p, from, to) ELSE p

EdgeRemoved(p, parent, child) == RemoveLink(p, p.args[parent].id, p.args[child].id)

\* clearHighlighting: the element is looked for under the id the node has now.
HighlightRemoved(p) ==
    LET ids == {p.args[obj].id : obj \in p.highlighted} \cap DOMAIN p.ui
    IN  [p EXCEPT !.highlighted = {}, !.class = "",
                  !.ui = [id \in DOMAIN @ |->
                    IF id \in ids /\ @[id].class = p.class THEN [@[id] EXCEPT !.class = ""]
                    ELSE @[id]]]

\* nodeHighlighted, with a class or, "", without.
NodeHighlighted(p, obj, class) ==
    LET id == p.args[obj].id
        shown == IF class = "" THEN "highlight" ELSE class
        q == [HighlightRemoved(p) EXCEPT !.highlighted = {obj}]
    IN  CASE obj \in p.highlighted /\ class # "" /\ class = p.class -> p
          [] OTHER -> IF id \in DOMAIN q.ui
                      THEN [q EXCEPT !.ui[id].class = shown, !.class = shown] ELSE q

\* nodeChanged: fails where there is no element or no data.
NodeChanged(p, obj) ==
    LET id == p.args[obj].id
    IN  IF id \in DOMAIN p.ui /\ id \in DOMAIN p.node /\ PageNode(p, id) # {}
        THEN Decorate(p, id, CHOOSE o \in PageNode(p, id) : TRUE) ELSE p

-----------------------------------------------------------------------------
(* Steps.                                                                   *)

\* Handlers that do Do, with the page's nodes as they are in args.
Play(args, Do(_)) ==
    \E rest \in IF "frame" \in viva.effect THEN BOOLEAN ELSE {TRUE} :
        viva' = [Do([viva EXCEPT !.args = args, !.rest = rest])
                    EXCEPT !.args = <<>>, !.rest = FALSE, !.failed = FALSE]

\* A handler that fails does not keep the next from being called.
Then(p, Do(_)) == Do([p EXCEPT !.failed = FALSE])

\* initDom: elements for what is in the graph.
InitDom(p) ==
    LET nodes == FoldLeft(LAMBDA q, id : IF q.failed THEN q ELSE CreateUI(q, id),
                          p, Listed(DOMAIN p.node))
    IN  IF nodes.failed THEN nodes ELSE FoldLeft(CreateArrow, nodes, Listed(LinksOf(p)))

\* run: then the listeners and the first frame.
Run(args) ==
    LET Initialized(p) ==
            LET drawn == InitDom([p EXCEPT !.begun = TRUE])
            IN  IF drawn.failed THEN drawn ELSE Rendered([drawn EXCEPT !.listening = TRUE])
    IN  /\ ~viva.begun
        /\ Play(args, Initialized)

\* The next frame of the animation.
Frame ==
    /\ "frame" \in viva.effect
    /\ viva.scheduled
    /\ Play(<<>>, Rendered)

\* onWindowResized: a frame besides the timer's.
Resize ==
    /\ "resize" \in viva.effect
    /\ viva.listening
    /\ LET Resized(p) == [Placed(p) EXCEPT !.stable = p.rest /\ ~p.interacting]
       IN  Play(<<>>, Resized)

\* The timeout of decorateNode: an element of that time, the body of today.
PinNode(id) ==
    /\ "pin" \in viva.effect
    /\ id \in DOMAIN viva.pins
    /\ LET Pinned(p) == [p EXCEPT !.pins = Without(@, id),
                                  !.body = IF id \in DOMAIN @ THEN Set(@, id, TRUE) ELSE @]
       IN  Play(<<>>, Pinned)

\* The mouse button on an element; there is one mouse.
DragStart(id) ==
    /\ "drag" \in viva.effect
    /\ viva.drag = NoEntries
    /\ viva.listening /\ id \in DOMAIN viva.ui
    /\ LET Started(p) == ResetStable([p EXCEPT !.drag = Set(@, id, p.body[id]),
                                               !.body[id] = TRUE, !.interacting = TRUE])
       IN  Play(<<>>, Started)

DragMove(id) ==
    /\ id \in DOMAIN viva.drag
    /\ LET Moved(p) == Placed([p EXCEPT !.interacting = TRUE])
       IN  Play(<<>>, Moved)

DragStop(id) ==
    /\ id \in DOMAIN viva.drag
    /\ LET Stopped(p) == [p EXCEPT !.drag = Without(@, id), !.body[id] = p.drag[id],
                                   !.interacting = FALSE]
       IN  Play(<<>>, Stopped)

\* What happens by itself or by the mouse.
Browser(args) ==
    \/ Run(args)
    \/ Frame
    \/ Resize
    \/ \E id \in DOMAIN viva.pins : PinNode(id)
    \/ \E id \in DOMAIN viva.ui : DragStart(id)
    \/ \E id \in DOMAIN viva.drag : DragMove(id) \/ DragStop(id)
=============================================================================
