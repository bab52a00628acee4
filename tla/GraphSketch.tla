----------------------------- MODULE GraphSketch -----------------------------
(***************************************************************************)
(* The sketch page: graph-sketch-directive.js on the nodes of              *)
(* node-factory.js.                                                        *)
(*                                                                         *)
(* The user draws nodes and arrows; the page changes types and removes     *)
(* arrows to keep the drawing legal.  "Save as Cards" then saves one node  *)
(* after the other, children first.  Every click on it starts another such *)
(* loop, and the user may go on drawing meanwhile.                         *)
(*                                                                         *)
(* A node has the id it was drawn with, its own number, until it is saved, *)
(* and then the number the server counts for it, above all of those.       *)
(* Titles are left out, and a text is there or not.                        *)
(***************************************************************************)
EXTENDS NodeGraph

CONSTANTS Loop,            \* as many as there are clicks on "Save as Cards"
          None,
          Scenarios        \* bounds: how many nodes there is room for, what is done

ASSUME SketchAssumption ==
    \A s \in Scenarios : s.nodes \in Nat /\ None \notin (1..s.nodes) \cup Loop

Tool == {"selectionTool", "edgeTool", "detachTool"}

VARIABLES node,        \* the nodes drawn so far
          activeTool,
          edgeParent,  \* the start of the arrow being drawn, or None: SEEKING_PARENT
          highlighted,
          loop,        \* saveBottomUpHelper: what each loop waits for
          scenario,
          stored       \* the nodes on the server: with the node drawn, type and links

Node == 1..scenario.nodes
Ops == scenario.ops

vars == <<scenario, node, activeTool, edgeParent, highlighted, loop, stored>>

Init ==
    /\ scenario \in Scenarios
    /\ node = <<>>
    /\ activeTool = "selectionTool"
    /\ edgeParent = None
    /\ highlighted = None
    /\ loop = [l \in Loop |-> None]
    /\ stored = <<>>

Drawn == DOMAIN node

IsPersisted(g, o) == g[o].saved

\* The parents of o, one after the other (here in the order of their numbers).
ForEachParent(g, o, Do(_, _)) ==
    FoldLeft(LAMBDA before, key :
                IF key \in DOMAIN before[o].parents
                THEN Do(before, before[o].parents[key])
                ELSE before,
             g, InOrder(DOMAIN g[o].parents))

ForEachChild(g, o, Do(_, _)) ==
    FoldLeft(LAMBDA before, i : Do(before, before[o].children[i]),
             g, [i \in DOMAIN g[o].children |-> i])

\* "Detach some nodes, rather than tolerate an illegal graph."
DetachAllBut(g, o, kept) ==
    FoldLeft(LAMBDA before, child : IF child = kept THEN before ELSE RemoveChild(before, o, child),
             g, g[o].children)

-----------------------------------------------------------------------------
(* Types.                                                                   *)

\* propagateTypeChange.  previous is the node the change comes from, or None.
RECURSIVE PropagateTypeChange(_, _, _, _, _)
PropagateTypeChange(g, o, type, previous, force) ==
    LET changed == [g EXCEPT ![o].type = type]
        kept == IF previous \in Children(g, o) THEN previous ELSE g[o].children[1]
        single == IF Len(g[o].children) > 1 THEN DetachAllBut(changed, o, kept) ELSE changed
        \* An interpretation passes on that its child is a source.
        below == ForEachChild(single, o, LAMBDA h, child :
                    IF h[child].saved \/ h[child].type \in LeafType THEN h
                    ELSE PropagateTypeChange(h, child, "source", o, FALSE))
        \* An assertion passes on that its children are no leaves.
        lifted == ForEachChild(changed, o, LAMBDA h, child :
                    IF ~h[child].saved /\ h[child].type \in LeafType
                    THEN PropagateTypeChange(h, child, "interpretation", o, FALSE) ELSE h)
        \* The parents become what this type needs.
        Above(h, parentType, forced) ==
            ForEachParent(h, o, LAMBDA before, parent :
                IF before[parent].saved THEN before
                ELSE PropagateTypeChange(before, parent, parentType, o, forced))
    IN  CASE g[o].type = type /\ ~force -> g
          [] OTHER ->
                CASE type \in LeafType -> Above(changed, "interpretation", TRUE)
                  [] type = "interpretation" -> Above(below, "assertion", FALSE)
                  [] type = "assertion" -> Above(lifted, "assertion", FALSE)

FindLegalType(g, o) ==
    CASE IsLegalType(g, o, g[o].type) -> g[o].type
      [] OTHER -> IF IsLegalType(g, o, "source") THEN "source"
                  ELSE IF IsLegalType(g, o, "interpretation") THEN "interpretation"
                  ELSE "assertion"

\* Fault for the checks: the new arrow changes no types.
LinkedAsIs(g, parent, child) == AddChild(RemoveChild(g, child, parent), parent, child)

\* The end of runEdgeTool: an arrow the other way is removed, and the types follow
\* the parent, if it is legal and the child can change, or else the child.
Linked(g, parent, child) ==
    LET linked == AddChild(RemoveChild(g, child, parent), parent, child)
    IN  IF /\ IsLegalType(linked, parent, linked[parent].type)
           /\ ~linked[child].saved
           /\ ~(linked[child].written /\ ~linked[parent].written)
        THEN PropagateTypeChange(linked, parent, linked[parent].type, None, TRUE)
        ELSE PropagateTypeChange(linked, child, FindLegalType(linked, child), None, TRUE)

-----------------------------------------------------------------------------
(* Drawing.                                                                 *)

AddNode ==
    LET o == Len(node) + 1
    IN  /\ o \in Node                                          \* bound
        /\ node' = Append(node, [id |-> o, type |-> "assertion", saved |-> FALSE,
                                 written |-> FALSE, children |-> <<>>,
                                 parents |-> [i \in {} |-> None]])
        /\ highlighted' = IF node = <<>> THEN o ELSE highlighted
        /\ UNCHANGED <<activeTool, edgeParent, loop, stored>>

\* activeToolChanged
ChooseTool(tool) ==
    /\ activeTool' = tool
    /\ edgeParent' = None
    /\ UNCHANGED <<node, highlighted, loop, stored>>

\* runEdgeTool while it seeks the parent.
TapParent(o) ==
    /\ activeTool = "edgeTool" /\ edgeParent = None
    /\ edgeParent' = o
    /\ highlighted' = None
    /\ UNCHANGED <<node, activeTool, loop, stored>>

\* Fault for the checks: an arrow may start at a saved node.
TapChildOfSaved(o) ==
    /\ activeTool = "edgeTool" /\ edgeParent # None
    /\ node[o].id # node[edgeParent].id
    /\ node' = Linked(node, edgeParent, o)
    /\ edgeParent' = None
    /\ UNCHANGED <<activeTool, highlighted, loop, stored>>

\* runEdgeTool while it seeks the child.
TapChild(o) ==
    /\ activeTool = "edgeTool" /\ edgeParent # None
    /\ node[o].id # node[edgeParent].id
    /\ ~node[edgeParent].saved
    /\ node' = Linked(node, edgeParent, o)
    /\ edgeParent' = None
    /\ UNCHANGED <<activeTool, highlighted, loop, stored>>

TapToDetach(o) ==
    /\ activeTool = "detachTool"
    /\ node' = ForEachParent(node, o, LAMBDA g, parent :
                    IF g[parent].saved THEN g ELSE RemoveChild(g, parent, o))
    /\ UNCHANGED <<activeTool, edgeParent, highlighted, loop, stored>>

TapToHighlight(o) ==
    /\ activeTool = "selectionTool"
    /\ highlighted' = o
    /\ UNCHANGED <<node, activeTool, edgeParent, loop, stored>>

\* typeChanged: the form offers the legal types of the highlighted node.
ChangeType(type) ==
    /\ "type" \in Ops
    /\ highlighted # None
    /\ type # node[highlighted].type
    /\ IsLegalType(node, highlighted, type)
    /\ node' = PropagateTypeChange([node EXCEPT ![highlighted].type = type],
                                   highlighted, type, None, TRUE)
    /\ UNCHANGED <<activeTool, edgeParent, highlighted, loop, stored>>

\* setBody
WriteBody ==
    /\ "write" \in Ops
    /\ highlighted # None
    /\ \A o \in Drawn : ~node[o].written                     \* bound: one text
    /\ node' = [node EXCEPT ![highlighted].written = TRUE]
    /\ UNCHANGED <<activeTool, edgeParent, highlighted, loop, stored>>

-----------------------------------------------------------------------------
(* Saving.                                                                  *)

Saveable(g) ==
    {o \in DOMAIN g : ~g[o].saved /\ \A child \in Children(g, o) : g[child].saved}

\* Fault for the checks: the loop stops after every node.
SavedNextOnce(g, before) == [before EXCEPT !.waiting = None]

\* saveBottomUpHelper: the first node that can be saved is sent; where there is none
\* the loop waits for nothing.
SaveNext(g, before) ==
    IF Saveable(g) = {}
    THEN [before EXCEPT !.waiting = None]
    ELSE LET o == Min(Saveable(g))
         IN  [before EXCEPT !.waiting = o, !.type = g[o].type,
                            !.links = Links(g, o)]

\* convertToReal: a circle only brings up a message.
ConvertToReal(l) ==
    /\ "save" \in Ops
    /\ node # <<>>
    /\ loop[l] = None
    /\ loop' = [loop EXCEPT ![l] = SaveNext(node,
            [numNodes |-> Len(node), numSaved |-> 0, waiting |-> None,
             type |-> None, links |-> {}, circle |-> HasCycle(node, Drawn), failed |-> FALSE,
             left |-> FALSE])]
    /\ UNCHANGED <<node, activeTool, edgeParent, highlighted, stored>>

Waiting(l) == loop[l] # None /\ loop[l].waiting # None

\* What the server accepts.
Acceptable(type, links) ==
    /\ links \subseteq {stored[i].id : i \in DOMAIN stored}
    /\ \A i \in DOMAIN stored : stored[i].id \in links =>
        CASE type = "assertion" -> stored[i].type \notin LeafType
          [] type = "interpretation" -> stored[i].type \in LeafType
          [] OTHER -> TRUE

\* The node is created and the answer arrives: a saved node keeps its id.
SaveSketchNode(l) ==
    LET r == loop[l]
        id == Cardinality(Node) + Len(stored) + 1
        saved == [node EXCEPT ![r.waiting].saved = TRUE, ![r.waiting].type = r.type,
                              ![r.waiting].id = IF node[r.waiting].saved THEN @ ELSE id]
        counted == [r EXCEPT !.numSaved = @ + 1]
    IN  /\ Waiting(l)
        /\ Acceptable(r.type, r.links)
        /\ stored' = Append(stored, [id |-> id, drawn |-> r.waiting, type |-> r.type,
                                     links |-> r.links])
        /\ node' = saved
        /\ loop' = [loop EXCEPT ![l] =
                IF r.numSaved + 1 < r.numNodes
                THEN SaveNext(saved, counted)
                ELSE [counted EXCEPT !.waiting = None, !.left = TRUE]]
        /\ UNCHANGED <<activeTool, edgeParent, highlighted>>

\* The server refuses, or the request is lost.
SaveFails(l) ==
    /\ Waiting(l)
    /\ "fail" \in Ops \/ ~Acceptable(loop[l].type, loop[l].links)
    /\ loop' = [loop EXCEPT ![l].waiting = None, ![l].failed = TRUE]
    /\ UNCHANGED <<node, activeTool, edgeParent, highlighted, stored>>

Left == \E l \in Loop : loop[l] # None /\ loop[l].left

\* Bound: whether the user draws while something is being saved.
MayDraw == "drawWhileSaving" \in Ops \/ \A l \in Loop : ~Waiting(l)

Draw ==
    /\ MayDraw
    /\ \/ AddNode
       \/ \E tool \in Tool : ChooseTool(tool)
       \/ \E o \in Drawn :
            \/ TapParent(o)
            \/ TapChild(o)
            \/ TapToDetach(o)
            \/ TapToHighlight(o)
       \/ \E type \in NodeType : ChangeType(type)
       \/ WriteBody

Next ==
    /\ ~Left
    /\ \/ Draw
       \/ \E l \in Loop : ConvertToReal(l) \/ SaveSketchNode(l) \/ SaveFails(l)
    /\ UNCHANGED scenario
=============================================================================
