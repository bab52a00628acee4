----------------------- MODULE ArgumentGraphProperties ---------------------
(***************************************************************************)
(* What the argument graph is expected to keep true.                       *)
(***************************************************************************)
EXTENDS ArgumentGraph

\* A graph (nd, bd): the one the current transaction works on, or the one a
\* rollback returns to.
TypedGraph(nd, bd) ==
    /\ nd = [n \in DOMAIN nd |-> nd[n]] /\ DOMAIN nd \subseteq Id
    /\ bd = [b \in DOMAIN bd |-> bd[b]] /\ DOMAIN bd \subseteq Id
    /\ \A n \in DOMAIN nd :
        nd[n] \in Node /\ nd[n].body \in DOMAIN bd /\ nd[n].support \subseteq DOMAIN nd
    /\ \A b \in DOMAIN bd : bd[b] \in Body /\ bd[b].majorVersion \in DOMAIN version

TypedVersions ==
    /\ version = [v \in DOMAIN version |-> version[v]] /\ DOMAIN version \subseteq Id
    /\ \A v \in DOMAIN version : version[v] \in MajorVersion

\* Every variable has the shape the Java classes give it, the edges of the graph
\* lead to nodes, bodies and versions that are stored, and a publication under
\* way can be rolled back.
TypeOK ==
    /\ TypedGraph(node, body)
    /\ TypedVersions
    /\ calls \in Seq(DOMAIN node)
    /\ discarding \subseteq DOMAIN body
    /\ IF Idle THEN saved = None
               ELSE /\ saved = [node |-> saved.node, body |-> saved.body]
                    /\ TypedGraph(saved.node, saved.body)

\* A public node rests on public nodes only, whatever was published, merged or
\* left half done (VersionHelper.publishDescendants).
PublicSupportIn(nd, bd) ==
    \A n \in DOMAIN nd : bd[nd[n].body].isPublic =>
        \A k \in nd[n].support : bd[nd[k].body].isPublic

PublicSupport == PublicSupportIn(node, body)

\* A public assertion or interpretation has something below it; a discard or a
\* merge elsewhere never takes its last child away (hasMissingSupport).
PublicIsSupportedIn(nd, bd) ==
    \A n \in DOMAIN nd :
        bd[nd[n].body].isPublic /\ nd[n].type \notin LeafType => nd[n].support # {}

PublicIsSupported == PublicIsSupportedIn(node, body)

\* The recursive calls never meet missing support: the check at the root of a
\* publication covers every descendant, also after some have been merged.
DescendantsSupported ==
    ~Idle => \A k \in node[Top].support : ~IsPublic(k) => ~HasMissingSupport(k)

\* A major version has one public node, and every draft of it goes back to that
\* node: edits of any number of authors meet at one address.
OneAddressPerVersion ==
    /\ \A m, n \in DOMAIN node :
        IsPublic(m) /\ IsPublic(n) /\ VersionOf(m) = VersionOf(n) => m = n
    /\ \A n \in DOMAIN node : IsDraftOfPublic(n) =>
        LET p == node[n].previousVersion
        IN  p \in DOMAIN node /\ IsPublic(p) /\ VersionOf(p) = VersionOf(n)
            /\ node[p].type = node[n].type

\* A body defines at most one node (bodyTransplant).
BodyDefinesOneNodeIn(nd) ==
    \A m, n \in DOMAIN nd : nd[m].body = nd[n].body => m = n

BodyDefinesOneNode == BodyDefinesOneNodeIn(node)

\* Every edge has an owner to share its points with, on drafts and public nodes
\* alike (mergeEdgeOwners, read by VoteServiceNeo4j.updateScore).
EdgesOwnedIn(nd, bd) ==
    \A n \in DOMAIN nd : \A k \in nd[n].support :
        bd[nd[k].body].majorVersion \in DOMAIN version[bd[nd[n].body].majorVersion].edgeOwners

EdgesOwned == EdgesOwnedIn(node, body)

\* The text of a public assertion that got its version number links exactly
\* what is below it.
PublicTextMatches ==
    \A n \in DOMAIN node :
        IsPublic(n) /\ BodyOf(n).minorVersion >= 0
            => LinksMatch(node[n].support, BodyOf(n).text)

-----------------------------------------------------------------------------
\* What readers see: the pages of the committed graph, and all content
\* published so far.
PublicNodes(view) == {n \in DOMAIN view.node : view.body[view.node[n].body].isPublic}

PublicPage ==
    [n \in PublicNodes(Committed) |->
        [content |-> Committed.node[n].body, type |-> Committed.node[n].type,
         support |-> Committed.node[n].support]]

PublishedContent == {b \in DOMAIN Committed.body : Committed.body[b].isPublic}

Pages == INSTANCE PublicPages WITH page <- PublicPage, published <- PublishedContent

\* Everything the service does, half-done and rolled-back publications included,
\* is for the reader either nothing or a lawful change of the public pages.
ReadersSeePages == Pages!Spec

\* When the content of a draft goes public, whoever linked the draft keeps
\* exactly the major versions below it that it had (alterToPointToChild).
LinksKept ==
    \A d \in DOMAIN node \ DOMAIN node' :
        node[d].body \in DOMAIN body' /\ body'[node[d].body].isPublic =>
            \A m \in Parents(d) :
                /\ m \in DOMAIN node'
                /\ {VersionOf(k) : k \in node[m].support}
                    = {body'[node'[k].body].majorVersion : k \in node'[m].support}

LinksSurviveMerge == [][LinksKept]_vars

\* The first owner of an edge is its owner for good.
OwnersKept ==
    \A v \in DOMAIN version :
        /\ v \in DOMAIN version'
        /\ \A w \in DOMAIN version[v].edgeOwners :
            /\ w \in DOMAIN version'[v].edgeOwners
            /\ version'[v].edgeOwners[w] = version[v].edgeOwners[w]

EdgeOwnersFixed == [][OwnersKept]_vars

\* A published minor version is never reached again: the number a public node
\* shows only goes up.
NumbersRaised ==
    \A n \in PublicNodes(Committed) \cap PublicNodes(Committed') :
        LET b == Committed.node[n].body
            c == Committed'.node[n].body
        IN  c # b /\ Committed'.body[c].minorVersion >= 0 =>
                Committed'.body[c].minorVersion > Committed.body[b].minorVersion

MinorVersionsGrow == [][NumbersRaised]_vars

\* Every publication comes to an end.
PublishEnds == ~Idle ~> Idle

-----------------------------------------------------------------------------
\* "Any parents that had pointed to the draft should be modified so that they
\* point to the published version. The draft is going away."
ParentsFollowPublication ==
    [][\A d \in DOMAIN node \ DOMAIN node' : PublishStep /\ d = Top =>
        \A m \in Parents(d) : node[d].previousVersion \in node'[m].support]_vars

-----------------------------------------------------------------------------
(***************************************************************************)
(* The inductive invariant behind these properties.                        *)
(***************************************************************************)
\* The node that founded a version bears its identifier; a draft leads back to
\* a public node of that kind.
Lineage(nd, bd) ==
    \A n \in DOMAIN nd :
        IF nd[n].previousVersion = None
        THEN bd[nd[n].body].majorVersion = n
        ELSE LET p == nd[n].previousVersion
             IN  /\ p \in DOMAIN nd
                 /\ nd[p].previousVersion = None
                 /\ nd[p].type = nd[n].type
                 /\ bd[nd[p].body].isPublic
                 /\ ~bd[nd[n].body].isPublic
                 /\ bd[nd[n].body].majorVersion = p

\* A body whose node has been discarded is private and nobody's content.
DiscardsUnused(nd) == \A n \in DOMAIN nd : nd[n].body \notin discarding

GraphInv(nd, bd) ==
    /\ PublicSupportIn(nd, bd)
    /\ PublicIsSupportedIn(nd, bd)
    /\ BodyDefinesOneNodeIn(nd)
    /\ Lineage(nd, bd)
    /\ DiscardsUnused(nd)

\* A node under publication has been found to have support, and is entered once.
CallsSupported ==
    /\ \A i \in 1..Len(calls) : node[calls[i]].type \notin LeafType => node[calls[i]].support # {}
    /\ \A i, j \in 1..Len(calls) : calls[i] = calls[j] => i = j

\* What the publication has stored so far and what it started from.
IInv ==
    /\ TypeOK
    /\ GraphInv(node, body)
    /\ CallsSupported
    /\ ~Idle => GraphInv(saved.node, saved.body) /\ DOMAIN saved.body = DOMAIN body

\* A leaf rests on nothing and an interpretation on leaves.
KindsFit(nd) ==
    \A n \in DOMAIN nd :
        /\ nd[n].type \in LeafType => nd[n].support = {}
        /\ nd[n].type = "interpretation" => \A k \in nd[n].support : nd[k].type \in LeafType

\* A public node founded its version, so the text that got its number links the
\* children by their own identifiers.
TextsFit(nd, bd) ==
    \A n \in DOMAIN nd :
        bd[nd[n].body].isPublic /\ bd[nd[n].body].minorVersion >= 0
            => bd[nd[n].body].text \in {NoText, nd[n].support}

DraftsUnnumbered(nd, bd) ==
    \A n \in DOMAIN nd : nd[n].previousVersion # None => bd[nd[n].body].minorVersion < 0

ContentInv(nd, bd) ==
    /\ EdgesOwnedIn(nd, bd)
    /\ KindsFit(nd)
    /\ TextsFit(nd, bd)
    /\ DraftsUnnumbered(nd, bd)

\* n and everything below it rest on something: S is closed and has no gap.
Supported(n) ==
    \E S \in SUBSET DOMAIN node :
        /\ n \in S
        /\ \A k \in S :
            /\ node[k].support # {}
            /\ node[k].type = "assertion" => node[k].support \subseteq S

\* Merges below a node under publication leave it as well supported as it was.
StackSupported ==
    \A i \in 1..Len(calls) : node[calls[i]].type \in LeafType \/ Supported(calls[i])

DiscardsPrivate == \A b \in discarding : ~body[b].isPublic

\* What a publication may have done to the pages (nd0, bd0) it started from.
PagesKept(nd0, bd0, nd, bd) ==
    /\ DOMAIN nd \subseteq DOMAIN nd0
    /\ \A n \in DOMAIN nd0 : bd0[nd0[n].body].isPublic =>
        n \in DOMAIN nd /\ bd[nd[n].body].isPublic /\ nd[n].type = nd0[n].type
    /\ \A n \in DOMAIN nd : bd[nd[n].body].isPublic =>
        \/ /\ bd0[nd0[n].body].isPublic
           /\ nd[n].body = nd0[n].body /\ nd[n].support = nd0[n].support
        \/ ~bd0[nd[n].body].isPublic

BodiesKept(bd0, bd) ==
    \A b \in DOMAIN bd0 :
        /\ bd0[b].isPublic => bd[b].isPublic
        /\ bd[b].majorVersion = bd0[b].majorVersion
        /\ bd[b].minorVersion >= bd0[b].minorVersion

NumbersGrow(nd0, bd0, nd, bd) ==
    \A n \in DOMAIN nd0 :
        /\ bd0[nd0[n].body].isPublic
        /\ nd[n].body # nd0[n].body
        /\ bd[nd[n].body].minorVersion >= 0
        => bd[nd[n].body].minorVersion > bd0[nd0[n].body].minorVersion

TransactionInv ==
    ~Idle =>
        /\ ContentInv(saved.node, saved.body)
        /\ PagesKept(saved.node, saved.body, node, body)
        /\ BodiesKept(saved.body, body)
        /\ NumbersGrow(saved.node, saved.body, node, body)

FullInv ==
    /\ IInv
    /\ ContentInv(node, body)
    /\ StackSupported
    /\ DiscardsPrivate
    /\ TransactionInv
=============================================================================
