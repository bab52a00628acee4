----------------------------- MODULE MCNodeCache -----------------------------
(***************************************************************************)
(* The cache on small instances, and what is expected of it.  The server   *)
(* starts with an argument, 1, another one, 2, that rests on it, a draft   *)
(* of the first, 3, that rests on the second (its publication closes a     *)
(* circle), and a new draft, 4, that rests on draft 3.                     *)
(***************************************************************************)
EXTENDS NodeCache, TLC

CONSTANTS Played       \* which of the scenarios are played

Served(public, children, edits) ==
    [type |-> "assertion", text |-> FirstText, public |-> public,
     children |-> children, edits |-> edits]

One == 1 :> Served(TRUE, {}, None)

Four == One @@ 2 :> Served(TRUE, {1}, None)
            @@ 3 :> Served(FALSE, {2}, 1) @@ 4 :> Served(FALSE, {3}, None)

DraftOfOne(ids) == [id \in ids |-> IF id = 3 THEN 1 ELSE id]

\* nodes: how many Node objects there may be.
MCScenario(s) ==
    CASE s = "drafts" ->
            [ops |-> {"graph", "publish", "discard"}, server |-> Four, texts |-> {FirstText},
             ids |-> 1..4, version |-> DraftOfOne(1..4), nodes |-> 6]
      [] s = "edits" ->
            [ops |-> {"graph", "makeDraft", "edit", "write", "detail", "choices"},
             server |-> One, texts |-> {FirstText, "new"},
             ids |-> 1..2, version |-> [id \in 1..2 |-> 1], nodes |-> 6]
      [] s = "saves" ->
            [ops |-> {"blank", "support", "graph"}, server |-> One, texts |-> {FirstText},
             ids |-> 1..3, version |-> [id \in 1..3 |-> id], nodes |-> 3]

MCScenarios == {MCScenario(s) : s \in Played}

Symmetry == Permutations(Request)

Bounds == Cardinality({o \in Obj : heap.node[o] # Unused}) <= scenario.nodes

-----------------------------------------------------------------------------
\* What is below the objects in S, n levels down at most.
Below(S, n) == Reached(S, [o \in Obj |-> Children(heap.node, o)], n)

\* "That's illegal! Remove those children."  Pages walk down the children without
\* looking back, so whatever the server answers, in whatever order, no node of
\* the cache is its own descendant (populateChildren).
NoCircle ==
    \A o \in InUse : o \notin Below(Children(heap.node, o), Cardinality(InUse))

\* The answer of a request of this kind arrives.
Arrives(r, op) ==
    request[r] # None /\ request[r].op = op /\ request[r].reply.ok /\ request'[r] = None

\* The drafts that an answer tells the cache to forget: with the draft, and with
\* what replaces it (None when nothing does).
Replaces(r, o, new) ==
    /\ request[r] # None /\ Cached(request[r].id) /\ o = heap.nodes[request[r].id]
    /\ \/ Arrives(r, "discard") /\ new = None
       \/ Arrives(r, "publish") /\ new = request[r].reply.root /\ new # request[r].id

\* When a draft is gone, no node that was linked to it on both sides keeps it as a
\* child or as a parent (forgetNode).
ForgottenByFamily ==
    [][\A r \in Request, o \in InUse, new \in Id \cup {None} : Replaces(r, o, new) =>
        \A p \in InUse :
            /\ p \in Range(heap.node[o].parents) => o \notin Children(heap'.node, p)
            /\ p \in Children(heap.node, o) => o \notin Range(heap'.node[p].parents)]_cacheVars
=============================================================================
