----------------------------- MODULE MCNodeEditor -----------------------------
(***************************************************************************)
(* The page of an argument and its editor on small instances, and what is  *)
(* expected of them.                                                       *)
(***************************************************************************)
EXTENDS NodeEditor, TLC

Served(type, public, children, edits, text) ==
    [type |-> type, text |-> text, public |-> public, children |-> children, edits |-> edits]

\* Argument 5 rests on interpretation 1 of source 2; draft 3 edits 5 and draft 4, on
\* which it rests, edits 1.
Drafts ==
    1 :> Served("interpretation", TRUE, {2}, None, {2})
        @@ 2 :> Served("source", TRUE, {}, None, {})
        @@ 3 :> Served("assertion", FALSE, {4}, 5, {1})
        @@ 4 :> Served("interpretation", FALSE, {2}, 1, {2})
        @@ 5 :> Served("assertion", TRUE, {1}, None, {1})

\* A draft that rests on two more, and both of them on one interpretation, of a source
\* without an address.
Deep ==
    1 :> Served("assertion", FALSE, {2, 3}, None, {2, 3})
        @@ 2 :> Served("assertion", FALSE, {4}, None, {4})
        @@ 3 :> Served("assertion", FALSE, {4}, None, {4})
        @@ 4 :> Served("interpretation", FALSE, {5}, None, {5})
        @@ 5 :> Served("source", FALSE, {}, None, {})

\* Draft 1 rests on 2.
Small ==
    1 :> Served("assertion", FALSE, {2}, None, {2}) @@ 2 :> Served("assertion", TRUE, {}, None, {2})

\* The next draft is one of this node.
DraftsOf(next) == [id \in 1..6 |-> CASE id = 3 -> 5 [] id = 4 -> 1 [] id = 6 -> next [] OTHER -> id]
Themselves(ids) == [id \in ids |-> id]

MCScenarios ==
    \* Pages that are left while drafts are made, published and discarded.
    {[ops |-> {"graph", "publish", "discard", "makeDraft"}, server |-> Drafts,
      ids |-> 1..6, version |-> DraftsOf(next), texts |-> {{}}, path |-> 3,
      visits |-> 2, details |-> 0, searched |-> {}, requests |-> 2, nodes |-> 6] : next \in {1, 5}}
    \cup
    {\* What can be seen of a deep graph.
     [ops |-> {"graph", "look"}, server |-> Deep,
      ids |-> 1..5, version |-> Themselves(1..5), texts |-> {{}}, path |-> 1,
      visits |-> 1, details |-> 0, searched |-> {}, requests |-> 1, nodes |-> 5],
     \* Everything the editor can do with a draft.
     [ops |-> {"graph", "edit", "write", "choices", "detail"}, server |-> Small,
      ids |-> 1..2, version |-> Themselves(1..2), texts |-> {{}, {2}}, path |-> 1,
      visits |-> 1, details |-> 1, searched |-> {2}, requests |-> 1, nodes |-> 2],
     \* A new node.
     [ops |-> {"graph", "edit", "write", "blank"}, server |-> Small,
      ids |-> 1..3, version |-> Themselves(1..3), texts |-> {{}, {2}}, path |-> Create,
      visits |-> 2, details |-> 0, searched |-> {}, requests |-> 1, nodes |-> 4]}

\* The requests at the same time, and the Node objects.
Bounds ==
    /\ Cardinality({r \in Request : request[r] # None}) <= scenario.requests
    /\ Cardinality({o \in Obj : heap.node[o] # Unused}) <= scenario.nodes

Symmetry == Permutations(Request)

-----------------------------------------------------------------------------
\* The report finds every problem below a node although it looks at each node only
\* once (buildReport).
Looked(g, o) ==
    {c \in Children(g, o) : g[o].type = "interpretation" => c = g[o].children[1]}
ReportFindsAll ==
    \A o \in Shown : Blocked(heap.node, o) <=>
        \E x \in Reached({o}, [y \in Obj |-> Looked(heap.node, y)], Size(heap.node)) :
            HasProblem(heap.node, x)

\* A node that is tapped in the picture gets its card shown, however deep it is and
\* however many paths lead to it, and no card is hidden for it (revealChild).
SpotlightShows ==
    [][OnPage /\ selected \subseteq selected' => \A o \in selected' :
        shown \subseteq shown' /\ SpotlightNode(o) =>
        {o} \cup Displayed \subseteq Displayed']_<<cacheVars, pageVars>>
=============================================================================
