------------------------------ MODULE GraphPage ------------------------------
(***************************************************************************)
(* The page of an argument: graph-directive.js on the cache of NodeCache.  *)
(*                                                                         *)
(* The address names the root.  A page that is left is gone, but what it   *)
(* asked for may still be answered, and the answer is then handled with    *)
(* the root of that page.  What the user has opened, selected and begun to *)
(* edit is kept in the nodes, so that the next page finds it there.        *)
(*                                                                         *)
(* The text of a node is what it links to: major versions.  A body may     *)
(* come without its author, which makes the page ask for the detail of the *)
(* node again; whether it does is left open.                               *)
(***************************************************************************)
EXTENDS NodeCache

CONSTANTS Home, Create   \* the addresses that are not those of nodes

ASSUME GraphPageAssumption ==
    /\ Home # Create /\ None \notin {Home, Create}
    /\ \A s \in Scenarios :
        /\ {Home, Create} \cap s.ids = {} /\ s.path \in s.ids \cup {Home, Create}
        /\ s.visits \in Nat /\ s.details \in Nat

VARIABLES path,       \* $location.path
          visit,      \* the current page; 0 before the first
          page,       \* each page: its path, its root, and whether problems were found
          sender,     \* the page that sent a request, and the editor that waits for it
          selected,   \* isSelected
          shown,      \* showChildren
          editing,    \* inEditMode
          wanted      \* the nodes whose detail was asked for

lookVars == <<selected, shown, wanted>>
pageVars == <<path, visit, page, sender, editing, lookVars>>

PageInit ==
    /\ CacheInit
    /\ path = scenario.path
    /\ visit = 0
    /\ page = <<>>
    /\ sender = [r \in Request |-> None]
    /\ selected = {} /\ shown = {} /\ editing = {} /\ wanted = {}

Moving == visit = 0 \/ (visit > 0 /\ page[visit].path # path)
Current == page[visit]
OnPage == ~Moving /\ Current.root # None

Sends(r, editor) == sender' = [sender EXCEPT ![r] = [visit |-> visit', editor |-> editor]]

\* ensureDetail
EnsureDetail(g, objs) ==
    \E asked \in SUBSET {g[o].id : o \in objs} :
        /\ wanted' = wanted \cup (asked \cap Id)
        /\ Cardinality(wanted') <= scenario.details               \* bound

Leaves(g, o) == {c \in Children(g, o) : g[c].type \in LeafType}

\* revealChildren of all these nodes.
RevealChildren(g, nodes, alsoWanted) ==
    LET leaves == UNION {Leaves(g, o) : o \in nodes}
    IN  /\ shown' = shown \cup nodes
        /\ selected' = selected \cup leaves \cup alsoWanted
        /\ EnsureDetail(g, leaves \cup alsoWanted)

\* How many nodes there are: further than that no walk down has to go.
Size(g) == Cardinality({o \in Obj : g[o] # Unused})

DescendantsOf(g, o) ==
    Reached(Children(g, o), [x \in Obj |-> Children(g, x)], Size(g))

\* Fault for the checks: only the parents are opened.
ParentsBelow(g, root, o) ==
    {x \in {root} \cup DescendantsOf(g, root) : o \in Children(g, x)}

\* revealChild: the nodes from the root down that o is below.
AncestorsBelow(g, root, o) ==
    {x \in {root} \cup DescendantsOf(g, root) : o \in DescendantsOf(g, x)}

-----------------------------------------------------------------------------
(* The problem report.                                                      *)

\* What stands in the way of publishing this node alone.
HasProblem(g, o) ==
    \/ g[o].text = {}
    \/ g[o].type \notin LeafType /\ g[o].children = <<>>

\* buildReport.  A node that has been visited counts as free of problems.
ReportOn(g) ==
    LET Looked(o) ==
            CASE g[o].type = "assertion" -> g[o].children
              [] g[o].type = "interpretation" -> SelectSeq(g[o].children,
                    LAMBDA child : child = g[o].children[1])
              [] OTHER -> <<>>
        BuildReport[o \in DOMAIN g, visited \in SUBSET {g[x].id : x \in DOMAIN g}] ==
            IF g[o].id \in visited
            THEN [blocked |-> FALSE, visited |-> visited]
            ELSE FoldLeft(LAMBDA before, child :
                    LET below == BuildReport[child, before.visited]
                    IN  [below EXCEPT !.blocked = @ \/ before.blocked],
                    [blocked |-> HasProblem(g, o), visited |-> visited \cup {g[o].id}],
                    Looked(o))
    IN  BuildReport

\* Fault for the checks: only the root is looked at.
BlockedAlone(g, root) == HasProblem(g, root)

\* Every node with a problem is entered under the same key, "[object Object]", so
\* that one problem blocks them all.
Blocked(g, root) == ReportOn(g)[root, {}].blocked

-----------------------------------------------------------------------------
(* Pages.                                                                   *)

\* The nodes that are opened with the root: as long as there is one child only.
Chain(g, root) ==
    Reached({root}, [o \in Obj |-> IF Len(g[o].children) = 1 THEN Children(g, o) ELSE {}], Size(g))

\* The callback of fetchGraphForId in the page v.
ShowRoot(h, pages, v, root) ==
    /\ page' = [pages EXCEPT ![v].root = root, ![v].blocked = Blocked(h.node, root)]
    /\ RevealChildren(h.node, {o \in Chain(h.node, root) : Len(h.node[o].children) = 1}, {})

NextPage == Append(page, [path |-> path, root |-> None, blocked |-> TRUE])

Visit ==
    /\ Moving
    /\ visit < scenario.visits                                 \* bound
    /\ visit' = visit + 1

VisitHome ==
    /\ Visit /\ path = Home
    /\ page' = NextPage
    /\ UNCHANGED <<cacheVars, path, sender, editing, lookVars>>

\* The watch of draftType, the first time: a blank node, in edit mode.
VisitCreate(type) ==
    /\ Visit /\ path = Create
    /\ OpenBlankNode(type) \/ (Cached(Draft) /\ UNCHANGED cacheVars)
    /\ LET o == heap'.nodes[Draft]
       IN  /\ page' = [NextPage EXCEPT ![visit'].root = o]
           /\ editing' = editing \cup {o}
           /\ selected' = selected \cup {o}
    /\ UNCHANGED <<path, sender, shown, wanted>>

\* The watch of draftType again: another type was chosen for the blank node.
RetypeBlank(type) ==
    /\ OnPage /\ path = Create
    /\ heap.node[Current.root].type # type
    /\ heap' = [heap EXCEPT !.node[Current.root].type = type]
    /\ UNCHANGED <<server, lastId, request, pageVars>>

VisitCached ==
    /\ Visit /\ path \in Id
    /\ Cached(path) /\ heap.node[heap.nodes[path]].hasFullGraph
    /\ ShowRoot(heap, NextPage, visit', heap.nodes[path])
    /\ UNCHANGED <<cacheVars, path, sender, editing>>

VisitFetched(r) ==
    /\ Visit /\ path \in Id
    /\ FetchGraphForId(r, path)
    /\ page' = NextPage
    /\ Sends(r, None)
    /\ UNCHANGED <<path, editing, lookVars>>

\* navigateToNode, a link, or the address bar.
Navigate(p) ==
    /\ ~Moving
    /\ visit < scenario.visits                                 \* bound
    /\ path' = p
    /\ UNCHANGED <<cacheVars, visit, page, sender, editing, lookVars>>

-----------------------------------------------------------------------------
(* What the user does on a page.                                            *)

\* The root, its children, and what has been opened below them.
Displayed ==
    LET g == heap.node
        root == Current.root
    IN  Reached({root} \cup Children(g, root),
                [o \in Obj |-> IF o \in shown THEN Children(g, o) ELSE {}], Size(g))

ToggleSelect(o) ==
    /\ OnPage /\ "look" \in Ops
    /\ IF o \in selected
       THEN selected' = selected \ {o} /\ wanted' = wanted
       ELSE selected' = selected \cup {o} /\ EnsureDetail(heap.node, {o})
    /\ UNCHANGED <<cacheVars, path, visit, page, sender, editing, shown>>

ToggleChildren(o) ==
    /\ OnPage /\ "look" \in Ops
    /\ IF o \in shown
       THEN shown' = shown \ {o} /\ UNCHANGED <<selected, wanted>>
       ELSE RevealChildren(heap.node, {o}, {})
    /\ UNCHANGED <<cacheVars, path, visit, page, sender, editing>>

\* spotlightNode: a tap in the picture, a link in a text, a click on a card.
SpotlightNode(o) ==
    /\ OnPage /\ "look" \in Ops
    /\ RevealChildren(heap.node, AncestorsBelow(heap.node, Current.root, o), {o})
    /\ UNCHANGED <<cacheVars, path, visit, page, sender, editing>>

\* enterEditMode of a draft.
EnterEditMode(o) ==
    /\ OnPage /\ "edit" \in Ops
    /\ o \notin editing /\ ~heap.node[o].public
    /\ editing' = editing \cup {o}
    /\ EnsureDetail(heap.node, Children(heap.node, o))
    /\ UNCHANGED <<cacheVars, path, visit, page, sender, selected, shown>>

\* enterEditMode of a public node: of the root only, for the others there is no button.
EditPublic(r) ==
    /\ OnPage
    /\ Current.root \notin editing /\ heap.node[Current.root].public
    /\ MakeDraft(r, Current.root)
    /\ UNCHANGED <<path, visit, page>> /\ Sends(r, None)
    /\ UNCHANGED <<editing, lookVars>>

ReadyToPublish(o) == ~heap.node[o].public /\ ~Current.blocked

Publish(r, o) ==
    /\ OnPage
    /\ o \notin editing /\ ReadyToPublish(o)
    /\ PublishNode(r, o)
    /\ UNCHANGED <<path, visit, page>> /\ Sends(r, None)
    /\ UNCHANGED <<editing, lookVars>>

Discard(r) ==
    /\ OnPage
    /\ Current.root \notin editing /\ ~heap.node[Current.root].public
    /\ DiscardDraft(r, Current.root)
    /\ UNCHANGED <<path, visit, page>> /\ Sends(r, None)
    /\ UNCHANGED <<editing, lookVars>>

AskDetail(r, id) ==
    /\ id \in wanted
    /\ FetchDetail(r, id)
    /\ wanted' = wanted \ {id}
    /\ UNCHANGED <<path, visit, page>> /\ Sends(r, None)
    /\ UNCHANGED <<editing, selected, shown>>

-----------------------------------------------------------------------------
(* Answers.                                                                 *)

Answers(r, op) == Receive(r) /\ request[r].op = op

Forget(r) == sender' = [sender EXCEPT ![r] = None]

\* Fault for the checks: the root is set in the page that is there now.
GraphArrivesAnywhere(r) ==
    /\ Answers(r, "graph") /\ sender[r].editor = None
    /\ ShowRoot(heap', page, visit, heap'.nodes[request[r].id])
    /\ Forget(r)
    /\ UNCHANGED <<path, visit, editing>>

GraphArrives(r) ==
    /\ Answers(r, "graph") /\ sender[r].editor = None
    /\ ShowRoot(heap', page, sender[r].visit, heap'.nodes[request[r].id])
    /\ Forget(r)
    /\ UNCHANGED <<path, visit, editing>>

\* The page of the draft, in edit mode.
DraftArrives(r) ==
    /\ Answers(r, "makeDraft")
    /\ LET draft == heap'.nodes[request[r].reply.root]
       IN  /\ path' = request[r].reply.root
           /\ editing' = editing \cup {draft}
           /\ selected' = selected \cup {draft}
           /\ EnsureDetail(heap'.node, Children(heap'.node, draft))
    /\ Forget(r)
    /\ UNCHANGED <<visit, page, shown>>

\* "Change url back to public version", if the draft was the root of the page.
PublicationArrives(r) ==
    /\ Answers(r, "publish")
    /\ path' = IF request[r].obj = page[sender[r].visit].root
               THEN request[r].reply.root ELSE path
    /\ Forget(r)
    /\ UNCHANGED <<visit, page, editing, lookVars>>

DiscardArrives(r) ==
    /\ Answers(r, "discard")
    /\ path' = Home
    /\ Forget(r)
    /\ UNCHANGED <<visit, page, editing, lookVars>>

DetailArrives(r) ==
    /\ Answers(r, "detail")
    /\ Forget(r)
    /\ UNCHANGED <<path, visit, page, editing, lookVars>>

\* A message at most.
ErrorArrives(r) ==
    /\ ReceiveError(r)
    /\ Forget(r)
    /\ UNCHANGED <<path, visit, page, editing, lookVars>>

ServerStep(r) ==
    /\ Serve(r) \/ Refuse(r) \/ LoseAnswer(r)
    /\ UNCHANGED pageVars

PageNext ==
    \/ VisitHome
    \/ \E type \in {"assertion", "source"} : VisitCreate(type) \/ RetypeBlank(type)   \* bound
    \/ VisitCached
    \/ \E p \in Id \cup {Home, Create} : Navigate(p)
    \/ OnPage /\ \E o \in Displayed :
        ToggleSelect(o) \/ ToggleChildren(o) \/ EnterEditMode(o)
    \/ OnPage /\ \E o \in {Current.root} \cup DescendantsOf(heap.node, Current.root) :
        SpotlightNode(o)
    \/ \E r \in Request :
        \/ VisitFetched(r)
        \/ EditPublic(r)
        \/ OnPage /\ \E o \in Displayed : Publish(r, o)
        \/ Discard(r)
        \/ \E id \in Id : AskDetail(r, id)
        \/ ServerStep(r)
        \/ GraphArrives(r)
        \/ DraftArrives(r)
        \/ PublicationArrives(r)
        \/ DiscardArrives(r)
        \/ DetailArrives(r)
        \/ ErrorArrives(r)

PageSpec == PageInit /\ [][PageNext /\ UNCHANGED scenario]_<<cacheVars, pageVars, scenario>>

\* However late the answers of pages that have been left arrive, a page shows the
\* node that its address names.
PageShowsItsRoot ==
    OnPage => heap.node[Current.root].id = IF path = Create THEN Draft ELSE path
=============================================================================
