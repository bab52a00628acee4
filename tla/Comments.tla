------------------------------- MODULE Comments -------------------------------
(***************************************************************************)
(* The comments of a card: comments-directive.js, with the server of       *)
(* CommentServiceNeo4j.                                                    *)
(*                                                                         *)
(* The comments are fetched by the address of the card, which may be known *)
(* to the page before the card is, and are arranged into a tree when both  *)
(* are there.  The tree is kept in the card, which stays in the cache when *)
(* the page is left.                                                       *)
(***************************************************************************)
EXTENDS Services

CONSTANTS Writer,        \* the author the page is signed in as
          Text,
          CardId         \* the major version, to which top-level comments respond

ASSUME CommentsAssumption == Text # {} /\ CardId \notin Nat \ {0}

VARIABLES thread,   \* the server's comments, by id: parent, author and body
          node,     \* the card in the cache: whether it is there, has comments, and which
          comment,  \* the comment objects of the page, in the order they were made
          view      \* the pages that were opened: node, data, the form at the top

commentVars == <<call, thread, node, comment, view>>

\* An object for a comment, and the objects or the card its list of comments hangs on.
Object(id, body, author, parent) ==
    [id |-> id, body |-> body, author |-> author, parent |-> parent,
     editing |-> FALSE, writingReply |-> FALSE]

\* A comment of the server, one of the page, what a page knows, and the calls.
Id == Nat \cup {CardId}
Stored == [parent : Id, author : {Writer, None}, body : Text]
Shown == [id : Nat, body : Text, author : {Writer, None}, parent : Id,
          editing : BOOLEAN, writingReply : BOOLEAN]
View == [open : BOOLEAN, node : BOOLEAN, data : {None} \cup Seq(Stored), editingTopLevel : BOOLEAN]
FetchCall == [task : {"comments"}, view : Nat,
              reply : {None, Refusal} \cup [ok : {TRUE}, data : Seq(Stored)]]
CreateCall == [task : {"create"}, id : Id, object : Nat \cup {None}, view : Nat, body : Text,
               reply : {None, Refusal} \cup [ok : {TRUE}, id : Nat]]
EditCall == [task : {"edit"}, id : Id, object : Nat, view : Nat, body : Text,
             reply : {None, Refusal, [ok |-> TRUE]}]

ASSUME NoneIsNothing ==
    None \notin Nat \cup Text \cup Seq(Stored) \cup FetchCall \cup CreateCall \cup EditCall
                \cup [ok : BOOLEAN] \cup [ok : {TRUE}, data : Seq(Stored)] \cup [ok : {TRUE}, id : Nat]

\* Two comments by two authors, the second a reply, or none yet.
FirstThreads ==
    {<<>>, <<[parent |-> CardId, author |-> Writer, body |-> CHOOSE t \in Text : TRUE],
             [parent |-> 1, author |-> None, body |-> CHOOSE t \in Text : TRUE]>>}

CommentsInit ==
    /\ thread \in FirstThreads
    /\ node \in [there : BOOLEAN, arranged : {FALSE}]
    /\ comment = <<>> /\ view = <<>>

Latest == Len(view)
Viewing == view # <<>> /\ view[Latest].open

-----------------------------------------------------------------------------
(* Pages.                                                                   *)

\* The constructor, and fetchComments: a card that has comments is not asked about.
OpenComments(c) ==
    /\ ~Viewing
    /\ view' = Append(view, [open |-> TRUE, node |-> node.there, data |-> None,
                             editingTopLevel |-> FALSE])
    /\ IF node.there /\ node.arranged THEN UNCHANGED call
       ELSE Send(c, [task |-> "comments", view |-> Latest + 1, reply |-> None])
    /\ UNCHANGED <<thread, node, comment>>

LeaveComments ==
    /\ Viewing
    /\ view' = [view EXCEPT ![Latest] = [@ EXCEPT !.open = FALSE]]
    /\ UNCHANGED <<call, thread, node, comment>>

\* tryArrangeData: the objects of the data, each below its parent, in the order of their
\* ids.  Without comments the server sends nothing, not even the major version.
Arranged(data) ==
    [i \in DOMAIN data |-> Object(i, data[i].body, data[i].author, data[i].parent)]

\* Fault for the checks: data that comes first is not looked at again.
TryArrangeOnce(v) ==
    IF view'[v].node /\ view[v].node /\ view'[v].data # None /\ ~node.arranged
    THEN /\ node' = [there |-> TRUE, arranged |-> TRUE]
         /\ comment' = Arranged(view'[v].data)
    ELSE UNCHANGED comment /\ node' = [node EXCEPT !.there = view'[v].node \/ @]

TryArrangeData(v) ==
    IF view'[v].node /\ view'[v].data # None /\ ~node.arranged /\ view'[v].data # <<>>
    THEN /\ node' = [there |-> TRUE, arranged |-> TRUE]
         /\ comment' = Arranged(view'[v].data)
    ELSE UNCHANGED comment /\ node' = [node EXCEPT !.there = view'[v].node \/ @]

\* The card arrives, and the watch of the page fires.
NodeArrives ==
    /\ Viewing /\ ~view[Latest].node
    /\ view' = [view EXCEPT ![Latest] = [@ EXCEPT !.node = TRUE]]
    /\ TryArrangeData(Latest)
    /\ UNCHANGED <<call, thread>>

CommentsArrive(c) ==
    /\ Succeeded(c, "comments")
    /\ Done(c)
    /\ view' = [view EXCEPT ![call[c].view] = [@ EXCEPT !.data = call[c].reply.data]]
    /\ TryArrangeData(call[c].view)
    /\ UNCHANGED thread

-----------------------------------------------------------------------------
(* Writing.                                                                 *)

\* The section is shown with the card (comments.html).
Reading == Viewing /\ view[Latest].node

SetTopLevel(v, editing) == view' = [view EXCEPT ![v] = [@ EXCEPT !.editingTopLevel = editing]]
EditTopLevel == \* beginEditingTopLevel, cancelTopLevelComment
    /\ Reading
    /\ SetTopLevel(Latest, ~view[Latest].editingTopLevel)
    /\ UNCHANGED <<call, thread, node, comment>>

CommentShown(o) == Reading /\ o \in DOMAIN comment

SetObject(o, value) == comment' = [comment EXCEPT ![o] = value]

WriteReply(o) == \* beginWritingReply, cancelReply
    /\ CommentShown(o)
    /\ SetObject(o, [comment[o] EXCEPT !.writingReply = ~@])
    /\ UNCHANGED <<call, thread, node, view>>

\* allowedToEdit; cancelEdit
EditComment(o) ==
    /\ CommentShown(o) /\ comment[o].author = Writer
    /\ SetObject(o, [comment[o] EXCEPT !.editing = ~@])
    /\ UNCHANGED <<call, thread, node, view>>

Writing(task, id, o, body) ==
    [task |-> task, id |-> id, object |-> o, view |-> Latest, body |-> body, reply |-> None]

SaveComment(c, body) ==
    /\ Reading /\ view[Latest].editingTopLevel
    /\ Send(c, Writing("create", CardId, None, body))
    /\ UNCHANGED <<thread, node, comment, view>>

SaveReply(c, o, body) ==
    /\ CommentShown(o) /\ comment[o].writingReply
    /\ Send(c, Writing("create", comment[o].id, o, body))
    /\ UNCHANGED <<thread, node, comment, view>>

SaveEdit(c, o, body) ==
    /\ CommentShown(o) /\ comment[o].editing
    /\ Send(c, Writing("edit", comment[o].id, o, body))
    /\ UNCHANGED <<thread, node, comment, view>>

\* The new comment is pushed to the list of the card or of the comment it replies to, and
\* the form is closed, whatever is in it by now.
CommentArrives(c) ==
    /\ Succeeded(c, "create")
    /\ Done(c)
    /\ LET o == call[c].object
           new == Object(call[c].reply.id, call[c].body, Writer, call[c].id)
       IN  IF o = None
           THEN /\ node' = [node EXCEPT !.arranged = TRUE]
                /\ comment' = Append(comment, new)
                /\ SetTopLevel(call[c].view, FALSE)
           ELSE /\ comment' = Append([comment EXCEPT ![o] = [@ EXCEPT !.writingReply = FALSE]], new)
                /\ UNCHANGED <<node, view>>
    /\ UNCHANGED thread

EditArrives(c) ==
    /\ Succeeded(c, "edit")
    /\ Done(c)
    /\ SetObject(call[c].object,
                 [comment[call[c].object] EXCEPT !.body = call[c].body, !.editing = FALSE])
    /\ UNCHANGED <<thread, node, view>>

\* A toast, or nothing for a fetch.
CommentFails(c, task) ==
    /\ Failed(c, task)
    /\ Done(c)
    /\ UNCHANGED <<thread, node, comment, view>>

-----------------------------------------------------------------------------
(* The server.                                                              *)

ServeComments(c) ==
    /\ Asked(c, "comments")
    /\ Reply(c, [ok |-> TRUE, data |-> thread])
    /\ UNCHANGED <<thread, node, comment, view>>

ServeCreate(c) ==
    /\ Asked(c, "create")
    /\ thread' = Append(thread, [parent |-> call[c].id, author |-> Writer, body |-> call[c].body])
    /\ Reply(c, [ok |-> TRUE, id |-> Len(thread) + 1])
    /\ UNCHANGED <<node, comment, view>>

ServeEdit(c) ==
    /\ Asked(c, "edit")
    /\ IF thread[call[c].id].author = Writer
       THEN /\ thread' = [thread EXCEPT ![call[c].id] = [@ EXCEPT !.body = call[c].body]]
            /\ Reply(c, [ok |-> TRUE])
       ELSE Reply(c, Refusal) /\ UNCHANGED thread
    /\ UNCHANGED <<node, comment, view>>

LoseWriting(c) == Lose(c) /\ UNCHANGED <<thread, node, comment, view>>

CommentsNext ==
    \/ LeaveComments \/ NodeArrives \/ EditTopLevel
    \/ \E o \in DOMAIN comment : WriteReply(o) \/ EditComment(o)
    \/ \E c \in Call :
        \/ OpenComments(c) \/ CommentsArrive(c) \/ CommentArrives(c) \/ EditArrives(c)
        \/ ServeComments(c) \/ ServeCreate(c) \/ ServeEdit(c) \/ LoseWriting(c)
        \/ \E task \in {"comments", "create", "edit"} : CommentFails(c, task)
        \/ \E body \in Text :
            \/ SaveComment(c, body)
            \/ \E o \in DOMAIN comment : SaveReply(c, o, body) \/ SaveEdit(c, o, body)

\* Comments are written when they are there, and not while some are being fetched; a
\* comment is not edited twice at once.
Writes(c) == call'[c] # None /\ call'[c].task # "comments"
CommentsPatiently ==
    /\ LostUnserved
    /\ \A c \in Call : call[c] = None /\ Writes(c) => view[Latest].data # None \/ node.arranged
    /\ \A c, d \in Call : Together(c, d) =>
        /\ Writes(c) <=> Writes(d)
        /\ call'[c].task = "edit" /\ call'[d].task = "edit" => call'[c].id # call'[d].id

CommentsSteps == CommentsNext /\ (patient => CommentsPatiently) /\ UNCHANGED patient
CommentsSpec ==
    CommentsInit /\ call = [c \in Call |-> None] /\ patient \in BOOLEAN
        /\ [][CommentsSteps]_<<commentVars, patient>>

\* Whichever comes first, the card or its comments, on this page or one opened before,
\* and whatever is written meanwhile by a patient user: the page shows the comments
\* there are, each once, in its place and as it was last edited (tryArrangeData).
CommentsShown ==
    patient /\ Quiet =>
        \A v \in DOMAIN view : view[v].node /\ (view[v].data # None \/ node.arranged) =>
            {<<o.id, o.parent, o.body>> : o \in Range(comment)}
                = {<<i, thread[i].parent, thread[i].body>> : i \in DOMAIN thread}
            /\ Len(comment) = Len(thread)
=============================================================================
