------------------------------ MODULE PagePicture ------------------------------
(***************************************************************************)
(* The picture of a graph page (graph.html): what graph-directive.js and   *)
(* node-editor-directive.js tell vivagraph-directive.js of the nodes they  *)
(* show and change.                                                        *)
(*                                                                         *)
(* The page tells of an attached child when the child's own graph has      *)
(* arrived, and of a detached one at once; the nodes may have changed in   *)
(* between.  A cancelled edit gives the node its children of before back.  *)
(* How nodes come to be on the page is the business of GraphPage and       *)
(* NodeEditor; here it is one page, from when its root is known, with its  *)
(* cards unfolded and a draft shown in one place.                          *)
(***************************************************************************)
EXTENDS VivaGraph, Bags, BagsExt

CONSTANTS Graph,       \* the nodes as the page finds them: id, type and children
          Root,        \* the node of the page
          Editable,    \* the drafts of the user
          Attachable,  \* bound: what is attached, none of it above a draft
          Scenario     \* bound: how often the user edits, and what else is done

ASSUME PictureAssumption ==
    /\ {Root} \cup Editable \cup Attachable \subseteq DOMAIN Graph
    /\ \A o \in DOMAIN Graph : Range(Graph[o].children) \subseteq DOMAIN Graph
    /\ \A s \in Scenario : s.edits \in Nat

VARIABLES page,        \* the nodes of the page now
          attached,    \* attached children whose graphs are on their way, a bag
          inEditMode,  \* the nodes so marked
          backup,      \* the editors on the page: the children kept in backupCopy
          edits        \* bound: edits to come

editors == <<inEditMode, backup>>
pictureVars == <<viva, page, attached, editors, edits>>

Cards == DOMAIN page

\* What the page shows of nodes.
RECURSIVE Below(_, _)
Below(nodes, o) == {o} \cup UNION {Below(nodes, child) : child \in Range(nodes[o].children)}

\* The directive is linked when the root is there, and draws it.
PictureInit ==
    \E s \in Scenario :
        /\ page = Graph
        /\ viva = [Walk([VivaPicture(s.effect) EXCEPT !.args = Graph], {}, Root, {}).p
                        EXCEPT !.args = <<>>]
        /\ attached = EmptyBag
        /\ inEditMode = {}
        /\ backup = NoEntries
        /\ edits = s.edits

\* A marked node has an editor as long as its card is shown; one that is shown (again)
\* starts with a copy of the node.
EditorsOn(nodes, marked) ==
    [o \in marked \cap Below(nodes, Root) |->
        IF o \in DOMAIN backup THEN backup[o] ELSE nodes[o].children]

\* Mark and nodes after a step.
Leave(nodes, marked) ==
    /\ page' = nodes
    /\ inEditMode' = marked
    /\ backup' = EditorsOn(nodes, marked)

EnterEditMode(o) ==
    /\ o \in (Editable \cap Below(page, Root)) \ inEditMode
    /\ edits > 0
    /\ Leave(page, inEditMode \cup {o})
    /\ UNCHANGED <<viva, attached, edits>>

\* Fault for the checks: the page is drawn anew before the node is restored.
CancelDrawnFirst(o) ==
    /\ o \in DOMAIN backup
    /\ edits > 0
    /\ edits' = edits - 1
    /\ LET Show(p) == RootData(p, Root) IN Play(page, Show)
    /\ Leave([page EXCEPT ![o].children = backup[o]], inEditMode \ {o})
    /\ UNCHANGED attached

\* cancel: the node is restored, the page drawn anew, the editor closed.
CancelEdit(o) ==
    /\ o \in DOMAIN backup
    /\ edits > 0
    /\ edits' = edits - 1
    /\ Leave([page EXCEPT ![o].children = backup[o]], inEditMode \ {o})
    /\ LET Show(p) == RootData(p, Root) IN Play(page', Show)
    /\ UNCHANGED attached

\* stopEditingBody and the server's answer: the picture is told nothing.
DraftSaved(o) ==
    /\ o \in inEditMode
    /\ Leave(page, inEditMode \ {o})
    /\ UNCHANGED <<viva, attached, edits>>

\* setHighlighted
SetHighlighted(o) ==
    /\ "tap" \in viva.effect
    /\ viva.highlighted # {o}
    /\ LET Highlight(p) == NodeHighlighted(p, o, "") IN Play(page, Highlight)
    /\ UNCHANGED <<page, attached, editors, edits>>

Kept(o, child) == SelectSeq(page[o].children, LAMBDA c : c # child)

Fetching(o, child) == attached' = BagAdd(attached, <<o, child>>)

\* attachChild of a card that was there: a child is not added twice, but told of again.
AttachChild(o, child) ==
    /\ o \in DOMAIN backup
    /\ child \in Attachable
    /\ edits > 0
    /\ edits' = edits - 1
    /\ Fetching(o, child)
    /\ Leave(IF child \in Range(page[o].children) THEN page
             ELSE [page EXCEPT ![o].children = Append(@, child)], inEditMode)
    /\ UNCHANGED viva

\* attachChild of a new card that has been saved, perhaps in place of another child.  The
\* editor that asked for it may be closed by then.
AttachNew(o, child) ==
    /\ o \in Editable
    /\ child \in Attachable \ Range(page[o].children)
    /\ edits > 0
    /\ edits' = edits - 1
    /\ Fetching(o, child)
    /\ \/ /\ Leave([page EXCEPT ![o].children = Append(@, child)], inEditMode)
          /\ UNCHANGED viva
       \/ \E old \in Range(page[o].children) :
            /\ Leave([page EXCEPT ![o].children = Append(Kept(o, old), child)], inEditMode)
            /\ LET Unlink(p) == EdgeRemoved(p, o, old) IN Play(page', Unlink)

\* The callback of attachChild's fetchGraphForId.
AttachedGraphArrives(o, child) ==
    /\ BagIn(<<o, child>>, attached)
    /\ attached' = BagRemove(attached, <<o, child>>)
    /\ LET Add(p) == NodeAdded(p, {o}, child) IN Play(page, Add)
    /\ UNCHANGED <<page, editors, edits>>

DetachOrphan(o, child) ==
    /\ o \in DOMAIN backup
    /\ child \in Range(page[o].children)
    /\ edits > 0
    /\ edits' = edits - 1
    /\ Leave([page EXCEPT ![o].children = Kept(o, child)], inEditMode)
    /\ LET Unlink(p) == EdgeRemoved(p, o, child) IN Play(page', Unlink)
    /\ UNCHANGED attached

BrowserStep == Browser(page) /\ UNCHANGED <<page, attached, editors, edits>>

\* Bound: a picture is followed until a listener fails.
AllTold == viva.changes = <<>> /\ (viva.begun => viva.listening)

PictureNext ==
    /\ AllTold
    /\ \/ BrowserStep
       \/ \E o \in Cards :
            \/ EnterEditMode(o) \/ CancelEdit(o) \/ DraftSaved(o)
            \/ SetHighlighted(o)
            \/ \E child \in Cards :
                \/ AttachChild(o, child) \/ AttachNew(o, child)
                \/ AttachedGraphArrives(o, child) \/ DetachOrphan(o, child)

PictureSpec == PictureInit /\ [][PictureNext]_pictureVars

\* The browser goes on showing frames.
FairPictureSpec == PictureSpec /\ WF_pictureVars(Frame /\ UNCHANGED <<page, attached, editors, edits>>)
=============================================================================
