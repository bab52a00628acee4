----------------------------- MODULE MCPagePicture -----------------------------
(***************************************************************************)
(* A page with a draft on top, a draft below it, and a card on a source.   *)
(***************************************************************************)
EXTENDS PagePicture

Card(id, type, children) == [id |-> id, type |-> type, children |-> children]

MCGraph == <<Card(11, "assertion", <<2, 3>>), Card(12, "assertion", <<>>),
             Card(13, "interpretation", <<4>>), Card(14, "source", <<>>)>>

MCScenario ==
    {[edits |-> 4, effect |-> {}],
     [edits |-> 2, effect |-> {"frame", "tap", "resize"}],
     [edits |-> 2, effect |-> {"frame", "pin", "drag"}]}

Nodes == DOMAIN viva.node
Links == LinksOf(viva)

\* Two links between the same nodes are told apart, also when others between them
\* have come and gone: the layout and the renderer keep things under a link's id
\* (createUniqueLink, removeLink).  Whenever every listener has been told everything,
\* both have an entry for each node and link of the graph, no other, and nothing is
\* left over (the onGraphChanged of forcelayout and of the renderer).
Depicted ==
    /\ \A pair \in DOMAIN viva.link : IsInjective(viva.link[pair])
    /\ AllTold =>
        /\ DOMAIN viva.body = Nodes /\ viva.spring = Links
        /\ viva.listening => DOMAIN viva.ui = Nodes /\ viva.arrow = Links
        /\ ~viva.stray

\* A node that is not being dragged and stands fixed is a source or a subject
\* (decorateNode, the onStart and onStop of a drag).
PinnedIsLeaf ==
    \A id \in DOMAIN viva.body :
        AllTold /\ viva.body[id] /\ id \notin DOMAIN viva.drag =>
            \E o \in PageNode(viva, id) : page[o].type \in {"source", "subject"}

\* Every arrow below the root is drawn, as long as the picture can follow, but where
\* the graph of an attached child is still on its way (addVivaNodesRecursive).
PageArrowsDrawn ==
    AllTold =>
        \A o \in Below(page, Root) : \A child \in Range(page[o].children) :
            \/ LinksBetween(viva, page[o].id, page[child].id) # <<>>
            \/ \E pair \in BagToSet(attached) : child = pair[2] \/ o \in Below(page, pair[2])

\* An element that appears finds its place, however the frames, the mouse and the
\* changes of the graph fall (resetStable, the timer).
Visible(o) == AllTold /\ page[o].id \in DOMAIN viva.ui
ElementsPlaced ==
    \A o \in DOMAIN Graph : Visible(o) ~> (~Visible(o) \/ viva.ui[page[o].id].placed)
=============================================================================
