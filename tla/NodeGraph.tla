------------------------------ MODULE NodeGraph ------------------------------
(***************************************************************************)
(* The nodes a page works with: Node of node-factory.js, and the search    *)
(* for circles of node-cache.js.                                           *)
(*                                                                         *)
(* The nodes are JavaScript objects that refer to each other.  Here an     *)
(* operator takes all of them, g, a function from objects to records with  *)
(* at least the fields id, type, children (a sequence of objects) and      *)
(* parents (objects by the id under which they were entered), and returns  *)
(* them changed.                                                           *)
(***************************************************************************)
EXTENDS Naturals, Sequences, FiniteSets, Functions, SequencesExt

LeafType == {"source", "subject"}
NodeType == {"assertion", "interpretation"} \cup LeafType

\* A map with one entry more, or one less.
Put(f, k, v) == [x \in DOMAIN f \cup {k} |-> IF x = k THEN v ELSE f[x]]

Delete(f, k) == Restrict(f, DOMAIN f \ {k})

Children(g, o) == Range(g[o].children)

\* The elements of a finite set of numbers, the least first.
InOrder(S) == [k \in 1..Cardinality(S) |-> CHOOSE x \in S : Cardinality({y \in S : y <= x}) = k]

\* S and all that can be reached from it in n steps (what is below is evaluated once a
\* step because it is asked of the elements of a set of sets).
Reached(S, below, n) ==
    FoldLeft(LAMBDA found, step :
                UNION {before \cup UNION {below[x] : x \in before} : before \in {found}},
             S, [step \in 1..n |-> step])

\* The children of o with this id: at most one, unless ids have changed.
ChildrenWithId(g, o, id) == {i \in DOMAIN g[o].children : g[g[o].children[i]].id = id}

AddChild(g, o, child) ==
    IF ChildrenWithId(g, o, g[child].id) # {}
    THEN g
    ELSE [[g EXCEPT ![o].children = Append(@, child)]
            EXCEPT ![child].parents = Put(@, g[o].id, o)]

\* Fault for the checks: the child still points to the parent.
RemoveChildOneSided(g, o, child) ==
    LET found == ChildrenWithId(g, o, g[child].id)
    IN  IF found = {} THEN g
        ELSE [g EXCEPT ![o].children = RemoveAt(@, Min(found))]

RemoveChild(g, o, child) ==
    LET found == ChildrenWithId(g, o, g[child].id)
    IN  IF found = {}
        THEN g
        ELSE [[g EXCEPT ![o].children = RemoveAt(@, Min(found))]
                EXCEPT ![child].parents = Delete(@, g[o].id)]

IsLegalType(g, o, type) ==
    /\ type \in NodeType
    /\ type \in LeafType => g[o].children = <<>>
    /\ type = "interpretation" =>
        /\ Len(g[o].children) <= 1
        /\ \A child \in Children(g, o) : g[child].children = <<>>

\* The children that a request to save o names: as many as its type has.
Links(g, o) ==
    CASE g[o].type = "assertion" -> {g[c].id : c \in Children(g, o)}
      [] g[o].type = "interpretation" /\ g[o].children # <<>> -> {g[g[o].children[1]].id}
      [] OTHER -> {}

-----------------------------------------------------------------------------
\* isInfiniteHelper: depth first, with the ids on the stack and the ids whose
\* descendants are known to be without a circle.
SearchIn(g) ==
    LET Ids == SUBSET {g[o].id : o \in DOMAIN g}
        Search[o \in DOMAIN g, stack \in Ids, safe \in Ids] ==
            CASE g[o].id \in safe -> [circle |-> FALSE, safe |-> safe]
              [] g[o].id \notin safe /\ g[o].id \in stack -> [circle |-> TRUE, safe |-> safe]
              [] OTHER ->
                    LET below == FoldLeft(LAMBDA found, child :
                                    IF found.circle
                                    THEN found
                                    ELSE Search[child, stack \cup {g[o].id}, found.safe],
                                    [circle |-> FALSE, safe |-> safe], g[o].children)
                    IN  [below EXCEPT !.safe = IF below.circle THEN @ ELSE @ \cup {g[o].id}]
    IN  Search

IsInfinite(g, o) == SearchIn(g)[o, {}, {}].circle

\* Fault for the checks: the search ends at the children.
HasCycleOfOne(g, nodes) == \E o \in nodes : o \in Children(g, o)

\* hasCycle: one search for every node, all with the same safe nodes.
HasCycle(g, nodes) ==
    FoldSet(LAMBDA o, found :
        IF found.circle THEN found ELSE SearchIn(g)[o, {}, found.safe],
        [circle |-> FALSE, safe |-> {}], nodes).circle
=============================================================================
