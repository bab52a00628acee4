----------------------------- MODULE SketchPicture -----------------------------
(***************************************************************************)
(* The sketch page with its picture: what the steps of GraphSketch tell    *)
(* the picture of VivaGraph.                                               *)
(*                                                                         *)
(* The page tells of a change as it goes through the nodes.  Of the        *)
(* positions of a step in which the picture is told, only the order        *)
(* matters: what was removed or changed first, the new arrow last.  The    *)
(* picture knows a node by the id it has when it is told, which is not the *)
(* one it was drawn with once it is saved.                                 *)
(***************************************************************************)
EXTENDS GraphSketch, VivaGraph

sketchVars == <<vars, viva>>

\* The renderer runs when the user starts to draw.
SketchInit ==
    /\ Init
    /\ viva = [VivaPicture({}) EXCEPT !.begun = TRUE, !.listening = TRUE, !.stable = TRUE]

Arrows(g) == UNION {{<<o, child>> : child \in Children(g, o)} : o \in DOMAIN g}

Retyped == {o \in Drawn : node'[o].type # node[o].type}

\* Fault for the checks: an arrow that has to go is not mentioned.
TellNothingGone(p, gone, changed) ==
    FoldSet(LAMBDA o, q : Then(q, LAMBDA r : NodeChanged(r, o)), p, changed)

\* edgeRemoved and nodeChanged, for the arrows that go and the types that change.
TellChanges(p, gone, changed) ==
    LET cut == FoldSet(LAMBDA arrow, q : Then(q, LAMBDA r : EdgeRemoved(r, arrow[1], arrow[2])),
                       p, gone)
    IN  FoldSet(LAMBDA o, q : Then(q, LAMBDA r : NodeChanged(r, o)), cut, changed)

TellAdded(p) ==
    LET o == Len(node')
        added == NodeAdded(p, {}, o)
    IN  IF node = <<>> THEN Then(added, LAMBDA q : NodeHighlighted(q, o, "")) ELSE added

TellArrow(p, parent, child) ==
    LET before == Arrows(node) \cup {<<parent, child>>}
        changed == TellChanges(p, before \ Arrows(node'), Retyped)
        linked == Then(changed, LAMBDA q : EdgeAdded(q, parent, child))
    IN  Then(linked, HighlightRemoved)

\* typeChanged, the detach tool.
TellSpread(p) == TellChanges(p, Arrows(node) \ Arrows(node'), Retyped)

Silent == UNCHANGED viva

\* Bound: the picture is followed in some scenarios only.
Tell(Do(_)) == IF "picture" \in Ops THEN Play(node', Do) ELSE Silent

SketchNext ==
    /\ ~Left /\ UNCHANGED scenario
    /\ \/ /\ MayDraw
          /\ \/ AddNode /\ Tell(TellAdded)
             \/ \E o \in Drawn : TapParent(o) /\ Tell(LAMBDA p : NodeHighlighted(p, o, "edge-parent"))
             \/ \E o \in Drawn : TapChild(o) /\ Tell(LAMBDA p : TellArrow(p, edgeParent, o))
             \/ \E o \in Drawn : TapToDetach(o) /\ Tell(TellSpread)
             \/ \E o \in Drawn : TapToHighlight(o) /\ Tell(LAMBDA p : NodeHighlighted(p, o, ""))
             \/ \E type \in NodeType : ChangeType(type) /\ Tell(TellSpread)
             \/ WriteBody /\ Silent
             \/ \E tool \in Tool : ChooseTool(tool) /\ Silent
       \/ \E l \in Loop : (ConvertToReal(l) \/ SaveSketchNode(l) \/ SaveFails(l)) /\ Silent

SketchSpec == SketchInit /\ [][SketchNext]_sketchVars

\* The server answers what it is sent.
Answers(l) == ~Left /\ (SaveSketchNode(l) \/ SaveFails(l)) /\ Silent /\ UNCHANGED scenario
FairSketchSpec == SketchSpec /\ \A l \in Loop : WF_sketchVars(Answers(l))
=============================================================================
