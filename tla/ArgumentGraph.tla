--------------------------- MODULE ArgumentGraph ---------------------------
(***************************************************************************)
(* The argument graph that the editing service keeps in Neo4j:             *)
(* ArgumentServiceNeo4j with VersionHelper, TwoWayUtil, BodyParser and the *)
(* four node classes.                                                      *)
(*                                                                         *)
(* A node is an address in the graph; its content is a body, and every     *)
(* body belongs to a major version.  An edit of a public node starts a     *)
(* private draft (a second node with a body of its own) whose publication  *)
(* moves the draft's body to the public node and destroys the draft.       *)
(* Publication walks down the private descendants of the draft first; the  *)
(* Java recursion is the stack `calls', and each step below publishes one  *)
(* node.  The whole walk runs in one database transaction: other requests  *)
(* see what `Committed' says.  Spring rolls that transaction back on a     *)
(* RuntimeException or an Error, but COMMITS it on the checked             *)
(* NodeRulesException, so a refusal half way keeps the saves before it.    *)
(*                                                                         *)
(* Requests are served one at a time here.  A request that is refused      *)
(* before it has saved anything changes nothing and is left out.  Titles,  *)
(* qualifiers, URLs and dates are left out too, and with them editSource   *)
(* and editSubject, which change nothing else.  `childOrder' is computed   *)
(* from the text and the children, and only whether that succeeds is kept. *)
(***************************************************************************)
EXTENDS Integers, Sequences, Functions

CONSTANTS Id,      \* identifiers, one for everything a creating request adds:
                   \* its node, its body and (for new content) its major version
          Author,  \* the aliases that users write under
          None,    \* no node, no body
          NoText   \* an empty body text

ASSUME SentinelAssumption == None \notin Id /\ \A s \in SUBSET Id : NoText # s

VARIABLES node,       \* nodes in the database
          body,       \* bodies in the database
          version,    \* major versions in the database
          calls,      \* nodes whose publication is under way, innermost last
          saved,      \* what a rollback of that publication returns to
          discarding  \* bodies whose discard has deleted the node only

vars == <<node, body, version, calls, saved, discarding>>

LeafType == {"source", "subject"}
NodeType == {"assertion", "interpretation"} \cup LeafType

\* `support' stands for supportingNodes of an assertion and for the one
\* leafNode of an interpretation.
Node == [type : NodeType, body : Id, support : SUBSET Id,
         previousVersion : Id \cup {None}]

\* `text' is the set of major versions linked in the text of an assertion.
Body == [author : Author, majorVersion : Id, minorVersion : Int,
         isPublic : BOOLEAN, previousVersion : Id \cup {None},
         text : (SUBSET Id) \cup {NoText}]

\* edgeOwners tells who first linked this version to which child version.
MajorVersion == [author : Author, edgeOwners : UNION {[S -> Author] : S \in SUBSET Id}]

-----------------------------------------------------------------------------
Idle == calls = <<>>
Top == calls[Len(calls)]

\* Fault for the checks: only the innermost call is remembered.
OnStackTopOnly(n) == ~Idle /\ Top = n
OnStack(n) == \E i \in 1..Len(calls) : calls[i] = n

\* f with the value e stored under the new key x.
Stored(f, x, e) == [y \in DOMAIN f \cup {x} |-> IF y = x THEN e ELSE f[y]]

\* The graph as every other request sees it.
Committed == IF Idle THEN [node |-> node, body |-> body] ELSE saved

BodyOf(n) == body[node[n].body]
IsPublic(n) == BodyOf(n).isPublic
VersionOf(n) == BodyOf(n).majorVersion
IsDraftOfPublic(n) == node[n].previousVersion # None
Parents(n) == {m \in DOMAIN node : n \in node[m].support}

\* A discarded identifier is free again once nothing is stored under it.
Fresh == Id \ (DOMAIN node \cup DOMAIN body \cup DOMAIN version)

\* What getAndValidateChildNodes and the cast to LeafNode let through.
AllowedSupport(type) ==
    CASE type = "assertion" ->
            SUBSET {k \in DOMAIN node : node[k].type \notin LeafType}
      [] type = "interpretation" ->
            {{}} \cup {{k} : k \in {m \in DOMAIN node : node[m].type \in LeafType}}
      [] OTHER -> {{}}

\* An empty text is not checked.  Otherwise the linked versions and the
\* children must correspond one to one.
LinksMatch(support, text) ==
    \/ text = NoText
    \/ /\ text = {VersionOf(k) : k \in support}
       /\ \A j, k \in support : VersionOf(j) = VersionOf(k) => j = k

\* The nodes that n reaches over SUPPORTED_BY, itself included.
Reach(n) ==
    {m \in DOMAIN node :
        \A S \in SUBSET DOMAIN node :
            (/\ n \in S
             /\ \A k \in S : node[k].type = "assertion" => node[k].support \subseteq S)
            => m \in S}

\* Fault for the checks: looks at the node and not below it.
HasMissingSupportShallow(n) == node[n].type \notin LeafType /\ node[n].support = {}

HasMissingSupport(n) ==
    /\ node[n].type \notin LeafType
    /\ \E m \in Reach(n) : node[m].support = {}

\* One more than the highest minor version stored for v, 0 when there is none.
NextMinorVersion(v) ==
    LET used == {body[b].minorVersion : b \in {c \in DOMAIN body : body[c].majorVersion = v}}
    IN  IF \E x \in used : \A y \in used : y <= x
        THEN 1 + CHOOSE x \in used : \A y \in used : y <= x
        ELSE 0

\* Faults for the checks: nobody is recorded, the last owner wins.
MergeEdgeOwnersNever(v, author, support) == version[v]
MergeEdgeOwnersLast(v, author, support) ==
    LET linked == {VersionOf(k) : k \in support}
    IN  [version[v] EXCEPT !.edgeOwners =
            [w \in DOMAIN @ \cup linked |-> IF w \in linked THEN author ELSE @[w]]]

\* The first owner of an edge stays its owner.
MergeEdgeOwners(v, author, support) ==
    [version[v] EXCEPT !.edgeOwners =
        [w \in DOMAIN @ \cup {VersionOf(k) : k \in support} |->
            IF w \in DOMAIN @ THEN @[w] ELSE author]]

-----------------------------------------------------------------------------
Init ==
    /\ node = [n \in {} |-> None]
    /\ body = [b \in {} |-> None]
    /\ version = [v \in {} |-> None]
    /\ calls = <<>>
    /\ saved = None
    /\ discarding = {}

\* The body of new content is version 1.0 from the start, and founds it.
NewBody(i, author, text) ==
    [author |-> author, majorVersion |-> i, minorVersion |-> 0, isPublic |-> FALSE,
     previousVersion |-> None, text |-> text]

\* createAssertion, createInterpretation, createSource and createSubject.
Create(type, author, support, text) ==
    /\ Idle
    /\ support \in AllowedSupport(type)
    /\ type # "assertion" => text = NoText
    /\ LinksMatch(support, text)
    /\ \E i \in Fresh :
        /\ node' = Stored(node, i, [type |-> type, body |-> i, support |-> support,
                                    previousVersion |-> None])
        /\ body' = Stored(body, i, NewBody(i, author, text))
        /\ version' = Stored(version, i,
                [author |-> author,
                 edgeOwners |-> [w \in {VersionOf(k) : k \in support} |-> author]])
    /\ UNCHANGED <<calls, saved, discarding>>

\* editAssertion and editInterpretation, in place and only on a draft; the
\* caller is the author of its body.
Edit(n, support, text) ==
    LET b == node[n].body
        v == VersionOf(n)
    IN  /\ Idle
        /\ node[n].type \notin LeafType
        /\ ~IsPublic(n)
        /\ support \in AllowedSupport(node[n].type)
        /\ node[n].type # "assertion" => text = NoText
        /\ LinksMatch(support, text)
        /\ node' = [node EXCEPT ![n].support = support]
        /\ body' = [body EXCEPT ![b].text = text]
        /\ version' = [version EXCEPT ![v] = MergeEdgeOwners(v, body[b].author, support)]
        /\ UNCHANGED <<calls, saved, discarding>>

\* The body of a draft has no number yet and remembers the body it was made from.
DraftBody(n, author) ==
    [author |-> author, majorVersion |-> VersionOf(n), minorVersion |-> -1,
     isPublic |-> FALSE, previousVersion |-> node[n].body, text |-> BodyOf(n).text]

DraftNode(n, i) == [node[n] EXCEPT !.body = i, !.previousVersion = n]

\* Fault for the checks: a draft of a draft.
MakeDraftOfAny(n, author) ==
    /\ Idle
    /\ \E i \in Fresh :
        /\ node' = Stored(node, i, DraftNode(n, i))
        /\ body' = Stored(body, i, DraftBody(n, author))
    /\ UNCHANGED <<version, calls, saved, discarding>>

\* Any user may start a draft of a public node, under an alias of their own.
MakeDraft(n, author) ==
    /\ Idle
    /\ IsPublic(n)
    /\ \E i \in Fresh :
        /\ node' = Stored(node, i, DraftNode(n, i))
        /\ body' = Stored(body, i, DraftBody(n, author))
    /\ UNCHANGED <<version, calls, saved, discarding>>

\* Deleting a node takes every edge to it away.
NodesWithout(n) ==
    [m \in DOMAIN node \ {n} |-> [node[m] EXCEPT !.support = @ \ {n}]]

\* discardDraft is not @Transactional: the node and then the body are deleted,
\* each on its own.
DiscardDraft(n) ==
    /\ Idle
    /\ ~IsPublic(n)
    /\ node' = NodesWithout(n)
    /\ discarding' = discarding \cup {node[n].body}
    /\ UNCHANGED <<body, version, calls, saved>>

DiscardBody(b) ==
    /\ Idle
    /\ body' = Restrict(body, DOMAIN body \ {b})
    /\ discarding' = discarding \ {b}
    /\ UNCHANGED <<node, version, calls, saved>>

-----------------------------------------------------------------------------
\* Leaving the publish call of the topmost node.
Return ==
    /\ calls' = SubSeq(calls, 1, Len(calls) - 1)
    /\ saved' = IF Len(calls) = 1 THEN None ELSE saved

\* A NodeRulesException ends the request, and what was saved is committed.
CommitPartial == calls' = <<>> /\ saved' = None

\* A RuntimeException or an Error ends the request and undoes its saves.
Rollback ==
    /\ node' = saved.node
    /\ body' = saved.body
    /\ calls' = <<>>
    /\ saved' = None
    /\ UNCHANGED <<version, discarding>>

\* The author of n asks for its publication.  Nothing stops a second
\* publication of a node that is public already.
PublishNode(n) ==
    /\ Idle
    /\ ~HasMissingSupport(n)
    /\ calls' = <<n>>
    /\ saved' = Committed
    /\ UNCHANGED <<node, body, version, discarding>>

\* publishDescendants goes down to a private child, whoever its author is.
PublishDescendant(k) ==
    /\ ~Idle
    /\ k \in node[Top].support
    /\ ~IsPublic(k)
    /\ ~OnStack(k)
    /\ IF HasMissingSupport(k)
       THEN CommitPartial
       ELSE calls' = Append(calls, k) /\ UNCHANGED saved
    /\ UNCHANGED <<node, body, version, discarding>>

\* Nothing marks a node as visited: a private node that supports itself is
\* entered again and again until the stack overflows.
OverflowStack ==
    /\ ~Idle
    /\ \E k \in node[Top].support : ~IsPublic(k) /\ OnStack(k)
    /\ Rollback

\* Fault for the checks: the leaf of an interpretation is not published.
ReadyToFinishNoLeaf ==
    ~Idle /\ \A k \in node[Top].support : node[k].type \in LeafType \/ IsPublic(k)

\* The children of the topmost node are all public now.
ReadyToFinish == ~Idle /\ \A k \in node[Top].support : IsPublic(k)

\* Fault for the checks: the text is not checked again.
OrderFailsNever == Idle

\* The text of the topmost body against its children, checked again by
\* updateChildOrder before the last save.
OrderFails == ~LinksMatch(node[Top].support, BodyOf(Top).text)

\* performChildReplacement: one child in the place of another.
Replaced(support, existing, replacement) == (support \ {existing}) \cup {replacement}

\* The check of the text for the parents of a draft, once they point to its
\* public version; the order in which they are visited is arbitrary.
FailingParents ==
    {m \in Parents(Top) :
        ~LinksMatch(Replaced(node[m].support, Top, node[Top].previousVersion), BodyOf(m).text)}

\* Fault for the checks: the flag is not set.
PublishedNoFlag(b, minor) == [body EXCEPT ![b].minorVersion = minor]

Published(b, minor) == [body EXCEPT ![b].isPublic = TRUE, ![b].minorVersion = minor]

\* Fault for the checks: numbering starts over.
FinalMinorVersionReset(b) == 0

FinalMinorVersion(b) ==
    IF body[b].minorVersion < 0 THEN NextMinorVersion(body[b].majorVersion)
                                ELSE body[b].minorVersion

\* copyContentTo and bodyTransplant.
Transplanted(n, public) ==
    [node[public] EXCEPT !.body = node[n].body, !.support = node[n].support]

\* Faults for the checks: the public version gets the children but not the body; the
\* parents of the draft are forgotten.
MergedNoTransplant(n, public) ==
    [m \in DOMAIN node \ {n} |->
        [node[m] EXCEPT !.support = IF m = public THEN node[n].support ELSE @ \ {n}]]
MergedNoRedirect(n, public) ==
    [m \in DOMAIN node \ {n} |->
        IF m = public THEN Transplanted(n, public)
                      ELSE [node[m] EXCEPT !.support = @ \ {n}]]

\* The public version takes over the draft's body and children, the parents of
\* the draft point to the public version, and the draft is gone.
Merged(n, public) ==
    [m \in DOMAIN node \ {n} |->
        CASE m = public -> Transplanted(n, public)
          [] m # public /\ m \in Parents(n) ->
                [node[m] EXCEPT !.support = Replaced(@, n, public)]
          [] OTHER -> node[m]]

\* A subject cannot be put in the place of another below an interpretation:
\* alterToPointToChild casts the new child to SourceNode.
CastFails == node[Top].type = "subject" /\ Parents(Top) # {}

\* Content that had no public version: the node becomes public where it is.
PublishInPlace ==
    /\ ReadyToFinish
    /\ ~IsDraftOfPublic(Top)
    /\ IF OrderFails
       THEN CommitPartial /\ UNCHANGED body
       ELSE Return /\ body' = Published(node[Top].body, FinalMinorVersion(node[Top].body))
    /\ UNCHANGED <<node, version, discarding>>

MergeDraft ==
    /\ ReadyToFinish
    /\ IsDraftOfPublic(Top)
    /\ ~CastFails /\ FailingParents = {} /\ ~OrderFails
    /\ node' = Merged(Top, node[Top].previousVersion)
    /\ body' = Published(node[Top].body, FinalMinorVersion(node[Top].body))
    /\ Return
    /\ UNCHANGED <<version, discarding>>

MergeRollsBack ==
    /\ ReadyToFinish
    /\ IsDraftOfPublic(Top)
    /\ CastFails
    /\ Rollback

\* updateChildOrder throws after the draft has been deleted and before anything
\* else is saved: the draft is gone and the public version is as it was.
MergeLosesDraft ==
    /\ ReadyToFinish
    /\ IsDraftOfPublic(Top)
    /\ ~CastFails
    /\ FailingParents # {} \/ (Parents(Top) = {} /\ OrderFails)
    /\ node' = NodesWithout(Top)
    /\ CommitPartial
    /\ UNCHANGED <<body, version, discarding>>

\* updateChildOrder throws after some parent has been saved.  That save reaches
\* the public version and the other parents, so the merge is stored, but the
\* body has not yet got its minor version.
MergeStopsHalfway ==
    /\ ReadyToFinish
    /\ IsDraftOfPublic(Top)
    /\ ~CastFails
    /\ Parents(Top) \ FailingParents # {}
    /\ FailingParents # {} \/ OrderFails
    /\ node' = Merged(Top, node[Top].previousVersion)
    /\ body' = Published(node[Top].body, body[node[Top].body].minorVersion)
    /\ CommitPartial
    /\ UNCHANGED <<version, discarding>>

\* The server stops.  A publication under way was never committed; the second
\* half of a discard is never done.
Crash ==
    /\ ~Idle \/ discarding # {}
    /\ node' = Committed.node
    /\ body' = Committed.body
    /\ calls' = <<>>
    /\ saved' = None
    /\ discarding' = {}
    /\ UNCHANGED version

-----------------------------------------------------------------------------
\* With any other text LinksMatch refuses the request.
Texts(support) == {NoText, {VersionOf(k) : k \in support}}

Editing ==
    \/ \E type \in NodeType, author \in Author, support \in SUBSET DOMAIN node :
        \E text \in Texts(support) : Create(type, author, support, text)
    \/ \E n \in DOMAIN node :
        \/ \E support \in SUBSET DOMAIN node :
            \E text \in Texts(support) : Edit(n, support, text)
        \/ \E author \in Author : MakeDraft(n, author)
        \/ DiscardDraft(n)
    \/ \E b \in discarding : DiscardBody(b)

PublishStep ==
    \/ \E k \in DOMAIN node : PublishDescendant(k)
    \/ OverflowStack
    \/ PublishInPlace
    \/ MergeDraft
    \/ MergeRollsBack
    \/ MergeLosesDraft
    \/ MergeStopsHalfway

Next ==
    \/ Editing
    \/ \E n \in DOMAIN node : PublishNode(n)
    \/ PublishStep
    \/ Crash

Spec == Init /\ [][Next]_vars

\* The thread that serves a publication keeps running.
FairSpec == Spec /\ WF_vars(PublishStep)
=============================================================================
