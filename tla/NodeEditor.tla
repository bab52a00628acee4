------------------------------ MODULE NodeEditor ------------------------------
(***************************************************************************)
(* The editor on a page: node-editor-directive.js on GraphPage.            *)
(*                                                                         *)
(* It works on the node itself and keeps a copy of what it found, to which *)
(* Cancel goes back.  A child that the text does not mention is an orphan, *)
(* and a node with orphans cannot be saved.  The dialog for attaching a    *)
(* child outlives the editor.  The editor of markdown is taken to change   *)
(* the text of the node at once.                                           *)
(***************************************************************************)
EXTENDS GraphPage

\* What can be searched for are major versions.  Of the nodes that the server has from
\* earlier, each text names what the node rests on, and a draft has the major version of
\* the node it edits.
ASSUME NodeEditorAssumption ==
    \A s \in Scenarios :
        /\ s.searched \subseteq s.ids
        /\ \A i \in DOMAIN s.server :
            /\ s.server[i].type # "source" =>
                {s.version[c] : c \in s.server[i].children} \subseteq s.server[i].text
            /\ s.server[i].edits # None => s.version[i] = s.version[s.server[i].edits]

VARIABLES editor,   \* the editor of each node: backupCopy and orphanChildren, or None
          dialog,   \* the open dialog: its node, and the node chosen in it
          pending   \* the nodes for which a new child was ordered

editorVars == <<editor, dialog, pending>>
allVars == <<cacheVars, pageVars, editorVars>>

EditorInit ==
    /\ PageInit
    /\ editor = [o \in Obj |-> None]
    /\ dialog = None
    /\ pending = {}

Version(g, o) == MajorVersion[g[o].id]

Visible == IF visit > 0 /\ Current.root # None THEN Displayed ELSE {}

\* Fault for the checks: an editor stays when its node has left the edit mode.
EditorsStay == UNCHANGED editor

\* An editor lives as long as its node is displayed in edit mode on the same page.
EditorsFollow ==
    editor' = [o \in Obj |-> IF visit' = visit /\ o \in editing' \cap Visible'
                             THEN editor[o] ELSE None]

PageStep ==
    /\ PageNext
    /\ EditorsFollow
    /\ UNCHANGED <<dialog, pending>>

Edits(o) == o \in editing /\ editor[o] # None

\* Fault for the checks: what was found when the editor was opened.
OrphansAsFound(g, o, before) == before

\* updateOrphanChildren
Orphans(g, o, before) ==
    {c \in before \cup Children(g, o) : Version(g, c) \notin g[o].text}

-----------------------------------------------------------------------------
OpenEditor(o) ==
    /\ "edit" \in Ops
    /\ o \in editing \cap Visible
    /\ editor[o] = None
    /\ editor' = [editor EXCEPT ![o] =
            [text |-> heap.node[o].text, children |-> heap.node[o].children,
             orphans |-> {c \in Children(heap.node, o) :
                            Version(heap.node, c) \notin heap.node[o].text}]]
    /\ UNCHANGED <<cacheVars, pageVars, dialog, pending>>

TypeText(o, text) ==
    /\ Edits(o)
    /\ Write(o, text)
    /\ UNCHANGED <<pageVars, editorVars>>

RestoreOrphan(o, c) ==
    LET written == [heap.node EXCEPT ![o].text = @ \cup {Version(heap.node, c)}]
    IN  /\ Edits(o) /\ c \in editor[o].orphans
        /\ heap' = [heap EXCEPT !.node = written]
        /\ editor' = [editor EXCEPT ![o].orphans = Orphans(written, o, @)]
        /\ UNCHANGED <<server, lastId, request, pageVars, dialog, pending>>

DetachOrphan(o, c) ==
    /\ Edits(o) /\ c \in editor[o].orphans
    /\ heap' = [heap EXCEPT !.node = RemoveChild(@, o, c)]
    /\ editor' = [editor EXCEPT ![o].orphans = @ \ {c}]
    /\ UNCHANGED <<server, lastId, request, pageVars, dialog, pending>>

\* The children are put back, their parents are not.
Cancel(o) ==
    /\ Edits(o) /\ heap.node[o].id # Draft
    /\ heap' = [heap EXCEPT !.node[o].text = editor[o].text,
                            !.node[o].children = editor[o].children]
    /\ editing' = editing \ {o}
    /\ editor' = [editor EXCEPT ![o] = None]
    /\ UNCHANGED <<server, lastId, request, path, visit, page, sender, lookVars,
                   dialog, pending>>

\* stopEditingBody
RefuseSave(o) ==
    /\ Edits(o)
    /\ Orphans(heap.node, o, editor[o].orphans) # {}
    /\ editor' = [editor EXCEPT ![o].orphans = Orphans(heap.node, o, @)]
    /\ UNCHANGED <<cacheVars, pageVars, dialog, pending>>

SaveNode(r, o) ==
    /\ Edits(o)
    /\ Orphans(heap.node, o, editor[o].orphans) = {}
    /\ IF IsBlankSlateNode(o) THEN SaveBlankSlateNode(r) ELSE SaveNodeEdit(r, o)
    /\ UNCHANGED <<path, visit, page>> /\ Sends(r, o)
    /\ editor' = [editor EXCEPT ![o].orphans = {}]
    /\ UNCHANGED <<editing, lookVars, dialog, pending>>

\* Fault for the checks: the address stays that of a new node.
SavedBlankStays(r) ==
    /\ Answers(r, "blank")
    /\ editing' = editing \ {sender[r].editor}
    /\ Forget(r)
    /\ UNCHANGED <<path, visit, page, lookVars, dialog, pending>>
    /\ EditorsFollow

\* "Change the page url and reload the graph."
SavedBlankArrives(r) ==
    /\ Answers(r, "blank")
    /\ editing' = editing \ {sender[r].editor}
    /\ path' = heap'.node[request[r].obj].id
    /\ Forget(r)
    /\ UNCHANGED <<visit, page, lookVars, dialog, pending>>
    /\ EditorsFollow

\* The page builds its report anew, if it still has the editor.
SavedEditArrives(r) ==
    LET o == sender[r].editor
    IN  /\ Answers(r, "edit")
        /\ editing' = editing \ {o}
        /\ page' = IF sender[r].visit = visit /\ editor[o] # None
                   THEN [page EXCEPT ![visit].blocked = Blocked(heap'.node, Current.root)]
                   ELSE page
        /\ Forget(r)
        /\ UNCHANGED <<path, visit, lookVars, dialog, pending>>
        /\ EditorsFollow

-----------------------------------------------------------------------------
(* The dialog of linkChild.                                                 *)

OpenDialog(o) ==
    /\ "choices" \in Ops
    /\ Edits(o) /\ dialog = None
    /\ heap.node[o].type \notin LeafType
    /\ dialog' = [node |-> o, chosen |-> None]
    /\ UNCHANGED <<cacheVars, pageVars, editor, pending>>

CloseDialog ==
    /\ dialog # None
    /\ dialog' = None
    /\ UNCHANGED <<cacheVars, pageVars, editor, pending>>

\* searchResultSelected
SelectSearchResult(r, version) ==
    /\ dialog # None
    /\ FetchLinkChoices(r, version)
    /\ UNCHANGED <<path, visit, page>> /\ Sends(r, dialog.node)
    /\ UNCHANGED <<editing, lookVars, editorVars>>

\* sortNodesByVersion: getVersionString fails, so that of two nodes none is chosen.
ChoicesArrive(r) ==
    LET found == InVersion(request[r].reply.db, request[r].id)
    IN  /\ Answers(r, "choices")
        /\ dialog' = IF dialog # None /\ dialog.node = sender[r].editor /\ Cardinality(found) = 1
                     THEN [dialog EXCEPT !.chosen = heap'.nodes[CHOOSE id \in found : TRUE]]
                     ELSE dialog
        /\ Forget(r)
        /\ UNCHANGED <<path, visit, page, editing, lookVars, pending>>
        /\ EditorsFollow

\* performReplace: the text links the child, if the editor is still there.
TextLinking(o, child) ==
    heap.node[o].text \cup (IF Edits(o) THEN {Version(heap.node, child)} ELSE {})

\* attachChild, first part.
Attach(o, child) == [AddChild(heap.node, o, child) EXCEPT ![o].text = TextLinking(o, child)]

HasChosen == dialog # None /\ dialog.chosen # None

Choose(child) ==
    /\ dialog' = None
    /\ EnsureDetail(heap.node, {child})
    /\ UNCHANGED <<server, lastId, path, visit, page, editing, selected, pending>>

\* select, when the graph below the child is known,
ChooseKnown ==
    /\ HasChosen
    /\ Choose(dialog.chosen)
    /\ heap.node[dialog.chosen].hasFullGraph
    /\ heap' = [heap EXCEPT !.node = Attach(dialog.node, dialog.chosen)]
    /\ shown' = shown \cup {dialog.node}
    /\ UNCHANGED <<request, sender>>
    /\ EditorsFollow

\* and when it has to be fetched.
ChooseUnknown(r) ==
    /\ HasChosen
    /\ Choose(dialog.chosen)
    /\ ~heap.node[dialog.chosen].hasFullGraph
    /\ heap' = [heap EXCEPT !.node = Attach(dialog.node, dialog.chosen)]
    /\ Send(r, "graph", None, heap.node[dialog.chosen].id, None)
    /\ Sends(r, dialog.node)
    /\ UNCHANGED shown
    /\ EditorsFollow

AttachedGraphArrives(r) ==
    /\ Answers(r, "graph") /\ sender[r].editor # None
    /\ shown' = shown \cup {sender[r].editor}
    /\ Forget(r)
    /\ UNCHANGED <<path, visit, page, editing, selected, wanted, dialog, pending>>
    /\ EditorsFollow

\* createAndSaveNode: assimilateData takes no type from a body without a major version,
\* and for a node without a type saveNewNode does nothing.
CreateAndSaveNode(o) == pending' = pending \cup {o}

CreateNewNode ==
    /\ dialog # None
    /\ CreateAndSaveNode(dialog.node)
    /\ dialog' = None
    /\ UNCHANGED <<cacheVars, pageVars, editor>>

EditorNext ==
    \/ PageStep
    \/ \E o \in Obj :
        \/ OpenEditor(o)
        \/ \E text \in Text : TypeText(o, text)
        \/ \E c \in Obj : RestoreOrphan(o, c) \/ DetachOrphan(o, c)
        \/ Cancel(o)
        \/ RefuseSave(o)
        \/ OpenDialog(o)
    \/ CloseDialog
    \/ ChooseKnown
    \/ CreateNewNode
    \/ \E r \in Request :
        \/ \E o \in Obj : SaveNode(r, o)
        \/ SavedBlankArrives(r)
        \/ SavedEditArrives(r)
        \/ \E version \in scenario.searched : SelectSearchResult(r, version)
        \/ ChoicesArrive(r)
        \/ ChooseUnknown(r)
        \/ AttachedGraphArrives(r)

EditorSpec == EditorInit /\ [][EditorNext /\ UNCHANGED scenario]_<<allVars, scenario>>

-----------------------------------------------------------------------------
\* Whatever is typed, attached, detached, cancelled and answered in between, a node that
\* the server has rests on nothing that its text does not mention (stopEditingBody).
TextNamesSupport ==
    \A i \in DOMAIN server :
        server[i].type # "source" => {MajorVersion[c] : c \in server[i].children} \subseteq server[i].text

\* Every variable has the shape of those in node-cache.js, graph-directive.js and
\* node-editor-directive.js: what refers to a node refers to one that is there.
EditorTypeOK ==
    /\ \A o \in Obj : heap.node[o] = Unused
        \/ /\ heap.node[o].id \in Id \cup {Draft}
           /\ \A c \in Children(heap.node, o) \cup Range(heap.node[o].parents) :
                c \in Obj /\ heap.node[c] # Unused
    /\ Range(heap.nodes) \subseteq Obj
    /\ path \in Id \cup {Home, Create}
    /\ visit \in 0..scenario.visits /\ Len(page) = visit
    /\ \A v \in 1..visit : page[v].root # None => heap.node[page[v].root] # Unused
    /\ \A o \in selected \cup shown \cup editing : heap.node[o] # Unused
    /\ \A r \in Request : request[r] # None =>
        sender[r] \in [visit : 0..visit, editor : Obj \cup {None}]
    /\ \A o \in Obj : editor[o] # None =>
        /\ o \in editing
        /\ \A c \in editor[o].orphans \cup Range(editor[o].children) : heap.node[c] # Unused
    /\ dialog # None => dialog.node \in Obj /\ dialog.chosen \in Obj \cup {None}
=============================================================================
