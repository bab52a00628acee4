---------------------------- MODULE MCGraphSketch ----------------------------
(***************************************************************************)
(* The sketch page on small drawings, and what is expected of it.          *)
(***************************************************************************)
EXTENDS SketchPicture

Scenario(nodes, ops) == [nodes |-> nodes, ops |-> ops]
MCScenarios ==
    {Scenario(4, {"type"}), Scenario(3, {"type", "write", "picture"}),
     Scenario(3, {"save", "fail"})}

Drawing == Ops \cap {"save"} = {}

\* "Detach some nodes, rather than tolerate an illegal graph.": whatever is drawn and
\* retyped in whatever order, a leaf rests on nothing, an interpretation on one leaf
\* at most, and an assertion on no leaf (propagateTypeChange).
EverythingProper ==
    Drawing => \A o \in Drawn :
        /\ node[o].type \in LeafType => node[o].children = <<>>
        /\ node[o].type = "interpretation" =>
            /\ Len(node[o].children) <= 1
            /\ \A child \in Children(node, o) : node[child].type \in LeafType
        /\ node[o].type = "assertion" =>
            \A child \in Children(node, o) : node[child].type \notin LeafType

\* An arrow is known at both of its ends, also after the types have removed some: the
\* detach tool and the spreading of types go by the parents, saving by the children.
ArrowsBothWays ==
    \A o, p \in Drawn : o \in Children(node, p) <=> p \in Range(node[o].parents)

\* The search for circles finds one exactly if some node is below itself.
Below(S) == Reached(S, [o \in DOMAIN node |-> Children(node, o)], Len(node))
CirclesFound == Drawing =>
    HasCycle(node, Drawn) <=> \E o \in Drawn : o \in Below(Children(node, o))

\* As long as the user does not draw while nodes are saved, what the server has of a
\* node links what is drawn below it, however many loops save it and whatever
\* fails between (saveBottomUpHelper).
SavedAsDrawn ==
    \A i \in DOMAIN stored :
        stored[i].links = {node[child].id : child \in Children(node, stored[i].drawn)}

Started(l) == loop[l] # None
Ended(l) == Started(l) /\ (loop[l].failed \/ \A o \in 1..loop[l].numNodes : node[o].saved)

\* Once started on a drawing without circles, saving goes on until all that was
\* drawn then is saved, or the server refuses (saveNodesBottomUp).
SaveCompletes ==
    \A l \in Loop : (Started(l) /\ ~loop[l].circle) ~> Ended(l)

\* After any number of arrows, detached arrows and changed types the picture has the
\* nodes and the arrows of the sketch and no others, and it marks the node the form
\* is about or the one where the next arrow starts (what GraphSketch tells, in the
\* order it tells it, and the handlers of vivagraph-directive.js).
Marked(o, class) == viva.ui[node[o].id].class = class
PictureShowsSketch ==
    "picture" \in Ops =>
        /\ DOMAIN viva.ui = {node[o].id : o \in Drawn}
        /\ viva.arrow = {Link(node[a[1]].id, node[a[2]].id, 0) : a \in Arrows(node)}
        /\ highlighted # None => Marked(highlighted, "highlight")
        /\ edgeParent # None => Marked(edgeParent, "edge-parent")
=============================================================================
