# Verification of Finer Points

Finer Points (package `com.nodestand`) is a site on which users build public
arguments out of nodes: assertions rest on assertions and interpretations,
interpretations rest on sources and subjects. A Java service keeps the argument
graph in Neo4j (through Spring Data / Neo4j-OGM); an AngularJS client edits and
draws it. This directory holds TLA+ models of the parts that are hard to get
right, the TLC runs that check them and TLAPS proofs of their main properties.

    tlc -workers 2 -config argument_scratch.cfg MCArgumentGraph.tla
    tlapm ArgumentGraph_proofs.tla         # and the other modules named *_proofs

Java paths below are relative to `src/src/main/java/com/nodestand/`, client paths to
`src/src/main/resources/static/js/`.

1. The system. 2. The modules. 3. The runs. 4. The proofs. 5. What the code does
not hold. 6. What comes next. 7. Not modelled.

## 1. The system

| Component | State | Operations | What is hard about it |
|---|---|---|---|
| **Argument service** `service/argument/ArgumentServiceNeo4j` | the graph: nodes, bodies, major versions | create*, edit*, makeDraft, discardDraft, publishNode | rules between nodes of different authors; a discard that is two transactions; what a refused request has already saved |
| **Publication** `service/VersionHelper` | the same, inside one transaction; the Java stack | publish, publishDescendants, bodyTransplant, decorateDraftBody, hasMissingSupport | recursion over a graph that it changes while it goes; the order of delete, redirect, check, save; checked exceptions commit |
| **Nodes, bodies, versions** `nodes/**` | `ArgumentNode`, `ArgumentBody`, `MajorVersion` | alterToPointToChild, createNewDraft, copyContentTo, mergeEdgeOwners | history and edge ownership over many drafts |
| **Two-way links** `util/TwoWayUtil` | both ends of each relationship | forgetNode, updateSupportingNodes | the two ends in memory must agree |
| **Body text** `util/BodyParser` | – | validateAndSortLinks | one link per child, one child per link |
| **Graph queries** `nodes/repository/*` | – | getUnsupportedNodes, getMaxMinorVersion | what a query over a cyclic graph means |
| **Votes and points** `service/vote/VoteServiceNeo4j`, `nodes/User`, `nodes/Author` | a user's votes, counters per major version, points per alias | voteNode, unvoteNode, updateScore | read-modify-write in transactions that isolate nothing they read; points of earlier votes against the graph of now |
| **Comments** `service/comment`, `directives/comments-directive.js` | comments on the server and their tree in the card | createComment, editComment; fetch, arrange, reply, edit | the card and its comments arrive in either order, for several pages |
| **Accounts and aliases** `auth/AuthController`, `controllers/UserController` | users, authors | first login, rename | check-then-act on unique names |
| **Node cache** `services/node-cache.js`, `node-factory.js` | one `Node` object per node, their children and parents, the links to choose from | saves, makeDraft, publish, discard, fetch, populateChildren, hasCycle | answers in any order; the identity of unsaved nodes; stale entries; circles |
| **Graph page** `directives/graph-directive.js` | the root, what is opened, selected and edited, the report of problems | visits, spotlight, edit, publish, discard | answers to pages that were left; walks over shared nodes |
| **Node editor** `directives/node-editor-directive.js` | a backup of the node, its orphans, a dialog | type, attach, detach, cancel, save | it edits the cache's own object while answers change it |
| **Sketch** `directives/graph-sketch-directive.js` | nodes not yet saved, the tool, the save loops | draw, connect, detach, retype, saveNodesBottomUp | types spread over a graph that is being changed; every child must be saved first |
| **Picture** `directives/vivagraph-directive.js` | pins, highlights, full screen | the handlers of nodeAdded, edgeRemoved, ... | the page and the picture must have the same graph |
| **Drawing library** `lib/vivagraph.js` | graph, layout (bodies, springs, quadtree), renderer, drags | change events, frames, drag and touch | nested change groups; cells reused between frames; animation that stops when at rest; listeners shared by mouse and fingers |
| **User service and vote buttons** `services/user-service.js`, `directives/*vote*` | token, current user, counters, meters, a user's votes | authenticate, logout, vote, unvote | who is shown and whose token is sent; counters changed by answers |
| **Error log** `error-logger.js`, `services/errorlog-service.js` | a buffer of console lines | onerror, log | two spies, one after the other; traces made asynchronously |
| **Pages of an author** `controllers/profile-controller.js`; `alias-editor-directive.js` on the settings and welcome pages | drafts, points; the name | discard, the chart; saveAlias | positions in a list that other answers fill; a log of one week for points of all time |
| **Sessions, controllers, configuration** | none | filter, pass on | none of their own |

**Interaction.** The client calls the service over REST, one request per
operation, and merges the answer into its cache. Controllers call the services.
`publishNode` runs in one Spring transaction; everything the OGM session saves
goes through that transaction, and `session.save(x)` also stores whatever is
reachable from `x`. The vote service reads the edge owners that editing records.
In the client the cache, the page, the editor and the picture share the `Node`
objects; pages and editors send events (`nodeAdded`, `edgeRemoved`, ...) which
the picture applies to the graph of the library, whose listeners are the layout
and the renderer.

**What makes each component correct.**

- *Publication and editing.* What is public rests on public, complete support;
  a major version has one public address; a body is the content of one node; a
  merge keeps what every parent links; version numbers grow; readers see whole
  publications or lawful parts of them; every publication ends.
- *Versions.* Every edge has an owner to share points with, and the first one
  stays.
- *Votes.* Counters equal the votes there are; points are what the votes earn;
  the buttons, meters, arcs and points on a page agree with the server's.
- *Cache.* A node is one object; no node is its own descendant; what is gone is
  gone from its family.
- *Page and editor.* A page shows the node its address names, its report finds
  every problem, and what is saved rests on nothing its text does not mention.
- *Sketch.* A drawing is legal whatever is retyped, and a drawing that can be
  saved is saved, as it is drawn.
- *Picture.* What is drawn is the page's graph; everything finds a place; a drag
  leaves nothing behind; every body feels every other one once.
- *Services.* Comments appear once and in place, console lines are reported once,
  and the author's page adds up.

`PROJECT.json` lists the places in the code where these can go wrong
("hazards") and the properties that would notice.

## 2. The modules

| Module | What it is |
|---|---|
| `ArgumentGraph` | the service and the publication: state, one action per operation or step |
| `ArgumentGraphProperties` | what is expected of it, and the inductive invariants `IInv` and `FullInv` |
| `PublicPages` | the abstract specification: what readers are promised |
| `MCArgumentGraph` | instances for TLC: starting graphs, bounds, symmetry |
| `ArgumentGraph_proofs` | theorems about it: support and addresses (`IInv`); edge owners, texts and the support below a publication (`FullInv`); what a step may never do, and the refinement of `PublicPages` |
| `Votes`, `MCVotes` | votes, counters and points, with the edits that change what a vote pays |
| `Votes_proofs` | theorems about counters, votes and points; extends `Sums` |
| `Sums` | lemmas about sums and other folds over finite sets, for the proofs |
| `NodeGraph` | the operations on `Node` objects, and the search for circles, as operators |
| `NodeCache`, `MCNodeCache` | the cache with a server behind it |
| `NodeCache_proofs` | theorems about the cache: one object for a node; extends `Sums` |
| `GraphPage` | the page of an argument; extends `NodeCache` |
| `NodeEditor`, `MCNodeEditor` | the editor on that page; extends `GraphPage` |
| `NodeEditor_proofs` | theorems about the page and the editor; extends `NodeCache_proofs` |
| `GraphSketch` | the sketch; extends `NodeGraph` |
| `VivaGraph` | the picture and the library below it, as operators on one record |
| `SketchPicture`, `MCGraphSketch` | the sketch composed with its picture: `GraphSketch` and `VivaGraph` |
| `PagePicture`, `MCPagePicture` | an argument's page composed with its picture |
| `Services` | calls that are sent, served, answered or lost |
| `Session` | the current user and the vote buttons; extends `Services` |
| `Session_proofs` | theorems about it: signing in, and votes |
| `Comments`, `ErrorLog`, `Profile` | the other services; each extends `Services` |
| `Services_proofs` | theorems about the three; extends `Sums` |
| `MCServices` | instances of the four |
| `Layout` | a frame of the force-directed layout with its quadtree |
| `Input` | mouse, fingers and full screen on the picture |
| `Library_proofs` | theorems about both |
| `MCLayout` | instances of the two |

In every module an operator marked "Fault for the checks" is a plausible bug of the
code. No action uses it; it stands in for the real operator, one at a time, to
make sure that a property notices. `PROJECT.json` ("mutants") pairs each property
with one.

### ArgumentGraph and the code

*State.* `node`, `body` and `version` are what Neo4j stores of
`ArgumentNode`, `ArgumentBody` and `MajorVersion`. `support` is
`supportingNodes` of an assertion and the single `leafNode` of an interpretation.
`text` is the set of versions an assertion's text links, or `NoText`.
`calls` is the Java stack of `VersionHelper.publish`; `saved` is the graph that
a rollback of the current transaction restores; `discarding` holds the bodies
whose `discardDraft` is between its two deletions.

*Requests.* `Create`, `Edit`, `MakeDraft`, `DiscardDraft` + `DiscardBody`, and
`PublishNode` are the operations of `ArgumentServiceNeo4j`, with every call they
make. A request that is refused before it has saved anything changes nothing and
has no action.

*A publication* is a sequence of steps, each at one level of the recursion:

| Action | Code |
|---|---|
| `PublishNode(n)` | `publishNode`: checks support below `n`, enters `publish(n)` |
| `PublishDescendant(k)` | `publishDescendants`: a private child; if it has missing support the checked exception commits what there is |
| `OverflowStack` | the same, when the child is being published further up: nothing marks it as visited, so the recursion goes round until `StackOverflowError`, which rolls back |
| `PublishInPlace` | end of `publish` for content without a public version; or the last text check throws and nothing of this level is saved |
| `MergeDraft` | end of `publish` for a draft: transplant, redirect the parents, delete the draft, check the texts, number the body |
| `MergeRollsBack` | `alterToPointToChild` casts a subject to `SourceNode`: `ClassCastException`, rollback |
| `MergeLosesDraft` | the text check of a parent throws after the draft was deleted and before anything else was saved |
| `MergeStopsHalfway` | the text check throws after some parent was saved, which stored the merge but not the number |
| `Crash` | the process stops anywhere; Neo4j keeps what was committed |

A `NodeRulesException` is checked, and Spring's default is to commit then; a
`RuntimeException` or an `Error` rolls back. Which of the two ends a request
decides what is left of it, and is modelled as it is (`CommitPartial`,
`Rollback`).

*Assumptions and abstractions.*

- Requests are served one at a time (a publication and a crash interleave, two
  requests do not): what two transactions see of each other is up to Neo4j.
- The OGM session holds the whole neighbourhood of what it loads.
- Titles, qualifiers, URLs, dates and the order of children are not modelled;
  `editSource` and `editSubject` change nothing else and have no action. Of
  `childOrder` only whether `updateChildOrder` throws is kept (`LinksMatch`).
- The checks that the caller may act come down to "the author of the body acts".
  `publishDescendants` does not look at authors and neither does the model.
- `isEditable` is never false in this version and `buildVersion` never changes.
- A new node, its body and its version bear the same identifier from one pool,
  and an identifier is free again once nothing is stored under it.

*PublicPages.* A page is a public node; `data-model-notes.md` promises that
"Publish always modifies an existing id". A page never disappears or changes its
type; new content is content that was never public before; support changes only
together with content and is public; two pages never share content.
`ArgumentGraph` implements it under the mapping in `ArgumentGraphProperties`:
`page` is built from the *committed* graph, so all steps of a running publication
and its rollback are stutters, and the final commit, or the commit of a refusal,
is one `Publish` step.

### Votes and the code

`Votes` is about one public node per major version (`Version`), the `ARGUMENT_VOTE`
relationships (`votes`), the counters of the version (`count`), the points of the
aliases (`points`) and the owners of the links (`edgeOwners`). The scoring is that of
`updateScore`, `updatePointsAndSave` and `getPoints`. `LoadVote`, `LoadUnvote` and
`LoadEdit` are the reads of `voteNode`, `unvoteNode` and of the edits; `StoreVote` and
`StoreEdit` are what they save: whole entities, as they were read except for
what the request changed. A request of one `Thread` may read and store between
the read and the store of another: the controllers are transactional, but
Neo4j does not lock what a transaction has only read. `Publish` is all of a
publication that votes notice: the draft's text becomes the public one.

The relationship of a new vote is merged with an equal one; a changed vote is
written to the relationship that was read, if it still exists. A user with two
votes on a version cannot be loaded (`setArgumentVotes` throws), so none of their
requests goes on (`Loadable`). A version stands for its public node because the page
offers votes only there. The score log is in `Profile`.

### The cache, the page and the editor

`NodeCache` has the objects of `node-factory.js` (`heap.node`: id, type, children,
parents, ...), the map from ids to objects (`heap.nodes`), what is known of links
to choose from, the server's nodes, and `request`: what a call was sent with and,
once it is served, what it will be answered with. The page's call (`SaveNodeEdit`,
`PublishNode`, `FetchGraphForId`, ...), the server's work (`ServeEdit`, ...,
`Refuse`, `LoseAnswer`) and the callback (`Receive`, `ReceiveError`) are three
steps, and two requests may be at any stage. `WithChildren` is
`populateChildren`, with its search for circles; `Assimilate` is
`assimilateData`. The server is a small one, without versions, rules and users:
it may refuse anything, which covers every rule it might have. A body there is
whether it is public and a text. JavaScript goes through the numeric keys of an object
from the least, and so do the folds here (`InOrder`).

`GraphPage` adds the router (`path`), the pages so far (`page`, `visit`), which page sent
a request (`sender`), and `selected`, `shown` and `editing`, which the
code keeps in the nodes and which thus outlive a page. An answer is handled by
the page that asked: `GraphArrives`, `DraftArrives`, `PublicationArrives`,
`DiscardArrives`. `RevealChildren`, `ReportOn` and `SpotlightNode` are the walks
over the nodes of the page, which `Reached` takes as many steps as there are nodes (`Size`).
`RetypeBlank` is the choice of another type for the node that is being created, on its page.

`NodeEditor` adds one editor per node in edit mode (backup and orphans), the dialog, and
the children that have been ordered and not yet come. `EditorsFollow` is the
`ng-if` that makes and destroys an editor with the edit mode of its node.

### The sketch and the picture

`GraphSketch` has the drawn nodes, the tool and the start of an arrow, and one loop
per click on "Save as Cards". `PropagateTypeChange` is the recursion of
`propagateTypeChange`, with the detaching on its way; `SaveNext`,
`SaveSketchNode` (served and answered) and `SaveFails` are `saveBottomUpHelper`.

`VivaGraph` is the library as operators on the record `viva`: the graph with its pending
changes (`changes`, told by `Fire`), the layout's bodies and springs, the
elements of the renderer, pins and drags, and whether frames still come
(`stable`, `scheduled`). A listener that throws ends the operation (`failed`) and
leaves the changes to be told again; the page's model goes no further then
(`AllTold`), for from there on the drawing is wrong for good.
The handlers of `vivagraph-directive.js` (`NodeAdded`, `EdgeRemoved`,
`NodeHighlighted`, `NodeChanged`, ...) are operators too, and `SketchPicture` and
`PagePicture` compose them with what the pages do: one step of a page is its
change and everything it tells the picture, in order. The page's editors are there for
what they do to the picture: `inEditMode` marks nodes, `backup` holds the children that
each editor on the page has kept, `CancelEdit` gives them back and then has the page drawn
anew, and a marked card that leaves the page and returns gets a new editor
(`EditorsOn`). `attached` is a bag: a child may be attached twice before its graph
comes, and is then told of twice. Frames, the pin timer, resizing and
drags are steps of their own (`Browser`).

`Layout` is one level below: bodies, springs and the cells of the quadtree,
inserted body by body (`Insert`, `Descend`, `Split`, `SplitAfterBump`, `GiveUp`), the
forces as the lists of what pulls each body, and `EndFrame`, which moves the bodies
anywhere. `began` is a history variable: where the bodies were when the frame began. The two operators for distance (`Far`) and the bump leave the outcome open
where it depends on numbers that are not modelled.

`Input` has a drag manager per node and one for the container, with the
listeners that each state has, the buttons and fingers that are down, and the
full screen as the document and as the page believe it to be.

### The services

`Services` is `$http`: a call is sent, served, and answered or refused or lost.
`Session` has the token, every user object there has been (`users`; an answer
makes a new one, and a button keeps the one it has), the buttons with what they
show, the counters and meters of the card, the points of the comment, the arcs in the picture,
and the server's votes. `Comments` has the comments of one card on the server, the
card in the cache, the objects of the comments and the pages that were opened.
`ErrorLog` has both buffers, traces that are being made and the reports sent. `Profile` is
one of two pages of an author (`place`). The profile has the drafts and the chart of
points; the settings (`user-settings.html`, and the dialog of `user-welcome.html`) have the editor
of a name, a new one for every user object the page gets (`Editor`), which may be opened only
if the server has said so (`canEditAlias` is `mayEdit`). On the server there are the drafts, the name
and the whole log of points, of which the first `old` entries are older than a week (`WeekPasses`):
the points of `getProfile` are the sum of all, the log of `getScoreLog` has those of the last week only.
A changed vote is two entries, so two steps (`Voted`); that a vote's entry can be read
from the log as soon as its points are stored is assumed. `discardDraft` is two steps
(`LoadDiscard`, `DeleteDraft`), for no transaction holds them together.

## 3. The runs

| Run | Instance | Shows |
|---|---|---|
| `argument_scratch` | empty database, 3 ids, all types, blank texts | `PublicSupport`, `DescendantsSupported`, and that `FullInv`, the invariant of the proofs, holds |
| `argument_drafts` | a published source, interpretation and claim; 2 more ids for drafts and assertions | `OneAddressPerVersion`, `PublicTextMatches`, `LinksSurviveMerge`, `MinorVersionsGrow`; `ReadersSeePages`, the refinement of `PublicPages` |
| `argument_owners` | the same seeds, 1 more id, 2 authors, all types, blank texts; `FairSeededSpec` | `EdgesOwned`, `EdgeOwnersFixed`, `PublishEnds` |
| `parents_follow` | source and interpretation, drafts | **violated**: a refused publication deletes the draft and leaves its parents without it |
| `votes` | one thread, an assertion with four links, an interpretation, a source, three users; or an assertion with two links to which another author adds | `CountersAreVotes`, `FounderNetsZero`, `VoteIsWorthItsEdges` |
| `votes_race` | two threads, one version, one voter | **violated**: two votes of one user at once leave two votes |
| `node_cache` | an argument of up to four nodes, six objects, two requests; drafts, edits or saves of new nodes | `NoCircle`, `OneObjectPerNode`, `ForgottenByFamily`, no deadlock |
| `editor` | four scenarios: leaving pages, walking a deep graph, editing a draft, a new node | `PageShowsItsRoot`, `ReportFindsAll`, `EditorTypeOK`, `TextNamesSupport`, `SpotlightShows` |
| `sketch` | four nodes retyped; three nodes with texts and the picture; three nodes saved by two loops, with failures | `EverythingProper`, `ArrowsBothWays`, `CirclesFound`, `SavedAsDrawn`, `PictureShowsSketch`, `SaveCompletes` |
| `picture` | a page of four nodes with two drafts, up to four edits; frames, drags, pins, resizing | `Depicted`, `PinnedIsLeaf`, `PageArrowsDrawn`, `ElementsPlaced` |
| `services` | two calls; sessions of two accounts, comments, errors, an author's page | `VotesAgree`, `SignedInCanVote`, `CommentsShown`, `LinesReportedOnce`, `ProfileShown` |
| `layout` | two frames of three bodies, one pinned; two nodes, two fingers, two buttons, full screen | `ForcesComplete`, `PinnedStays`, `InputReleased` |

Every property is stated in words above its definition, in the modules named
`MC...`, in `ArgumentGraphProperties`, and at the end of `Votes`, `GraphPage`, `Session`,
`ErrorLog`, `Layout` and `Input`. The modules with proofs of their own also state the
inductive invariants there; TLC was asked about each of them before it was proved.

### Bounds

*Deadlock* is checked in `node_cache`. Elsewhere `CHECK_DEADLOCK FALSE` is set
because a bound stops the system: identifiers, calls or edits that run out, a
counter at its limit. The code itself does not stop there.

*Scenarios.* Everything a client can do at once on one instance is out of reach, and
most of it is independent. A scenario (`Scenarios`, `Parts`) is a starting graph and
the operations used on it; all of its interleavings are explored. What is
together in one scenario is what the code makes depend on each other.

*Arguments.* Three free identifiers give a chain of three private nodes, a node
with two children and a circle of two or three. Seeds and two more give a draft
that rests on another draft, two drafts of one node, a draft that rests on its
own public version, and a draft whose parent is private; every exception path of
the merge needs no more. Two authors are enough for ownership because the code
only compares them. `Bounds` limits the types of what is created beyond the
seeds, blank texts, and the number of children a version has ever had.

*Votes.* Four links are one more than the three that an assertion pays for; two
votes at a time are one of each voter or two of one; the limit on points
(half as far below zero as above it) stops the drift that edits between a vote
and its revocation cause. The passing run has one thread: it shows that the bookkeeping is right when requests do not
overlap, and `votes_race` what it is worth when they do.

*Cache.* Two requests are enough for every order of two answers, since the
code handles each answer without regard to others; the server's graph of four
closes a circle through a draft of a draft, which needs four. Six objects leave
room for drafts and for objects that an answer brings and the cache drops.

*Editor.* Two visits: the page that was left and the one that is there. The deep
graph has a node reached on two paths and a problem three levels down.

*Sketch.* Four nodes are a type change that goes down, up again and down
elsewhere; three are the smallest graph with a shared node or a circle of more
than two. Two loops are two clicks.

*Picture.* Four edits attach a shared child with its own arrows, attach it once more,
detach it, and cancel, with the editors of both drafts opened and saved in between as often
as one likes. In the shorter scenarios frames, drags and pin timers fall
between the edits.

*Services.* Two calls at a time. Where `patient` is true the user waits for
answers to some extent and the network loses no call that was served, as the `*Patiently`
actions of `Session`, `Comments` and `Profile` say: without that
the pages and the server part for good (section 5), and the property would
only repeat it. `patient` never changes, so one specification has both kinds of user. `SignedInCanVote` is also checked with an impatient user.

*Layout.* Three bodies are two that share a cell and one apart, so that a cell is
split, reused, and taken as one body. The second frame uses the cells of the
first. A behaviour in which a release was lost, a press interrupted a drag, or a
node was drawn anew below the hand (`disturbed`) is not followed. Of
`recentre`, the timers that measure the picture again, one may be open. How often a cell
is split is not bounded, so that the run ends shows that insertions do.

### Fairness

- `FairSeededSpec` has weak fairness of `PublishStep`: a request thread that can go
  on goes on. A crash ends a publication as well.
- `FairSketchSpec` has weak fairness of the answer to each loop: the server serves
  and answers, or fails, what was sent.
- `FairPictureSpec` has weak fairness of a frame: the browser goes on calling
  `requestAnimationFrame` back.

Nothing is assumed about users: no request, edit or click has to be made.

### The violated properties

Each quotes the repository; `PROJECT.json` ("findings") has the quotes.
`publish` deletes the draft before the checks that may still refuse, and the
refusal commits (`ParentsFollowPublication`). Each of two simultaneous votes of one
user finds no vote and adds one, and the user's next load throws
(`OneVotePerVersion`).

## 4. The proofs

### ArgumentGraph_proofs

For any set of identifiers and of authors (the only assumption is that `None`
and `NoText` are not identifiers or texts), of `Spec`:

| Theorem | States |
|---|---|
| `TypeCorrect` | `[]TypeOK`: no edge, call or saved graph refers to something not stored |
| `PublicSupportCorrect` | `[]PublicSupport` |
| `PublicIsSupportedCorrect` | `[]PublicIsSupported` |
| `BodyDefinesOneNodeCorrect` | `[]BodyDefinesOneNode` |
| `OneAddressPerVersionCorrect` | `[]OneAddressPerVersion` |
| `Invariance` | `[]IInv`, from which the others follow |

*The argument.* None of these properties is inductive alone. A merge moves the
draft's children to the public node: for `PublicSupport` the draft must not
support itself or its public version, which follows since both would then rest on a
private node; for `PublicIsSupported` the draft must have children when its
publication ends, though the check was made when it began and its descendants have been
merged since, so `CallsSupported` says that every node on the stack has
children, and that no node is on it twice (or a merge would delete a caller).
`Lineage` says that a version's identifier is that of its founding node and that
every draft is private and leads back to a public node; with it no draft is ever
the public version of another, so deleting one leaves no dangling
`previousVersion`, and `OneAddressPerVersion` is immediate. A rollback or a
crash restores `saved`, so the same must hold of `saved`, and it must have the
same bodies as now, for a body that is still to be deleted must still be there.
`DiscardsUnused` says that such a body is nobody's content.

The lemmas treat one action each (`CreateInv` ... `CrashInv`); `MergedInv` is
shared by the merge that succeeds and the one that stops halfway, `ReturnInv`,
`CommitInv` and `RestoreInv` by the ways in which a publication ends. `StepInv`
collects them.

In the second part of the module, of `Spec` and from the same assumption:

| Theorem | States |
|---|---|
| `FullInvariance` | `[]FullInv`, from which the next three follow |
| `EdgesOwnedCorrect` | `[]EdgesOwned`: every edge has a recorded owner |
| `PublicTextMatchesCorrect` | `[]PublicTextMatches`: a public text names what its node links to |
| `DescendantsSupportedCorrect` | `[]DescendantsSupported`: once the root of a publication has been checked, no call below it finds missing support |

*The argument.* `FullInv` adds to `IInv` what edges, texts and unfinished publications
are like. Edges move when a draft is merged, and an owner is recorded per version, so
`EdgesOwned` needs that the draft and its public node have the same version
(`Lineage`), and the same of `saved`, which a rollback restores (`TransactionInv`).
A text is checked against the children when its body is numbered; `DraftsUnnumbered`
says that nothing else has a number, and a merge afterwards changes children but not
their versions. `StackSupported` gives each call on the stack a set of nodes that
is closed under support and in which every node rests on something: the query at
`PublishNode` has found one, and a merge replaces the draft in it by the public node,
which has the draft's children then.

Of the steps of `Spec`:

| Theorem | States |
|---|---|
| `EdgeOwnersFixedCorrect` | `EdgeOwnersFixed` |
| `LinksSurviveMergeCorrect` | `LinksSurviveMerge` |
| `MinorVersionsGrowCorrect` | `MinorVersionsGrow`: the number that a public page shows only goes up |
| `ReadersSeePagesCorrect` | `ReadersSeePages`: `ArgumentGraph` implements `PublicPages` |

*The argument.* These are about steps. The first two follow for each action from
`FullInv`. The others are about a committed transaction, which is many steps of a
publication; `TransactionInv` compares the graph of `saved` with that of now at each of them:
pages are kept (`PagesKept`), contents are old or new (`BodiesKept`), numbers are above
the old ones (`NumbersGrow`). The commit is then a `Publish` step of `PublicPages`, and
whatever ends in a rollback a stutter. That a next number is above the others needs a
highest number; there is one because the numbers have a bound (`MinorBound`, inductive),
which `HighestExists` shows by the least distance from it.

### Votes_proofs

For any users, finite set of versions, kinds of votes and threads, of `Spec`:

| Theorem | If always | States |
|---|---|---|
| `CountersAreVotesCorrect` | `RequestsApart` | `[]CountersAreVotes`: the counters are the votes there are |
| `SecondVoteIsStaleCorrect` | (no condition) | `SecondVoteIsStale`: a user stays loadable unless a vote is stored by a request that had found none, where there is one of the user by now |
| `VoteIsWorthItsEdgesCorrect` | `OneThread` | `VoteIsWorthItsEdges`: a step moves the points of an author whose edges it leaves by what it changes in the worth of all stored votes |
| `NetsZeroCorrect` | `OneThread` and `EdgesStay(a)` | `[]NetsZero(a)`: with all votes revoked author `a` has no points |

`RequestsApart` is that no two requests under way are about one version, `OneThread` that
requests come one after the other, and `EdgesStay(a)` that no step changes how many edges of each text `a`
owns.

*The argument.* A request stores the counters as it read them, plus its own change.
`UpToDate` says that what it read of its version is still what is stored, which holds
as long as nothing else stores that version. `RequestsApart` is not
something the code ensures. Without it the counters lose votes, and a user may get two on
one version, as `votes_race` shows. `SecondVoteIsStaleCorrect` says that the race of that
run is the only way: its invariant `EverRead`, which holds however requests overlap, is that a request
with nothing to negate has found no vote and casts one. A request that has found one only
changes or removes votes, so all that remain were there (`VotesRemain`). In the run `votes` there is one thread,
and the condition always holds. Points need the stronger `OneThread`: a vote adds to the
points as it read them (`PaysAsItIs`), and votes on two versions may pay one author.

*The argument for the points.* A vote is paid by its edges of now, with a cap per author, and
when it is changed or revoked it is negated by its edges of now. `Award` of a vote and of its
negation is shown to be the change of `Worth`, by cases on the kind of the version; all other
votes are worth what they were, so the sum `Earned` moves by the same; an edit or a publication that
leaves the edges of an author leaves the worth of every vote to this author. `PaidUp(a)`
(the points are `Earned(a)`) is then an invariant while the edges of `a` stay, and `NetsZero`
is that the empty sum is 0. `FounderNetsZero`, which the run `votes` checks, is the case of the
scenario in which others extend the founder's argument but leave the founder's edges alone.

The sums are `SumFunctionOnSet`, a fold, which the library defines by a choice of a
function. `Sums` shows that there is such a function over every finite set of integers: if
there were a set without one, there would be one of least size, and taking an element away
gives a smaller one (`WFMin` in place of an induction, which the provers cannot instantiate).
From there `SumWithout` takes any summand out, and `SumSame` says that equal summands have
equal sums.

### Session_proofs

For any accounts, kinds of votes, buttons and number of calls, of `SessionSpec`
(assumptions: `None` is no call's content, no account and no vote, and a button is
for the card or the comment):

| Theorem | States |
|---|---|
| `SessionInvCorrect` | `[]SessionInv` |
| `SignedInCanVoteCorrect` | `[]SignedInCanVote`: who has a token is known, or the server is being asked, unless an answer was lost; and when somebody is known, every open button has a user to vote as |
| `PatientInvCorrect` | `[](patient => PatientInv)` |
| `VotesAgreeCorrect` | `[]VotesAgree`: when nothing is under way, counters, score and arcs are those of the server's votes, and every button of a known user shows that user's vote |

*The argument.* A button that finds no user when it is made subscribes to the event
of the next login, which comes once. That it cannot have missed it is
`ButtonsWait` (no user, then subscribed) with `ButtonsKnow` (a current user, then
no open button without one). `UserKnown` says that a stored token has its user or
a call that asks for it; to keep it when the call is answered, `TokenAnswered`
says that an answer to a call with a token names a user. A lost answer sets `failed`
and is excepted, since nothing asks again. `AnswerInv` is shared by all steps that
change a call without running its callback: the server's answers and losses.

`VotesAgree` is stated for a patient user, who has one call under way at a time and one
open button per target, signs in only when nobody is known, and does not change user while
a button that has one is open or a vote is under way. `PatientInv` says that
the map, the counters, the score and the arcs are those of
`KnownVotes`: the server's votes without the one that is served and not heard of. An answer
moves the counters by what the button showed at the click, so `VotesSent` says of a call
under way that this is what is known of the vote then. The sums are numbers of
accounts (`Tally`), and `TallyWithVote` says how one vote moves them, by the library's
theorems on cardinalities. While this was proved, two cases in `Rescored` turned out to
overlap, which TLC had not noticed because it takes the first; they are now exclusive, as
the code's `if ... else` is.

### Services_proofs

For any texts and number of calls, of `CommentsSpec` (assumptions: there is a text, no
comment has the card's identifier, and `None` is none of the data), for any number of
lines, of `ErrorLogSpec`, and for any names, worths of votes, finite set of drafts and number
of calls, of `ProfileSpec` (assumptions: points are integers, and `None` is no call or answer):

| Theorem | States |
|---|---|
| `CommentsInvCorrect` | `[](patient => CommentsInv)` |
| `CommentsShownCorrect` | `[]CommentsShown`: when nothing is under way, a page with the card and its comments shows the server's comments, each once, in its place and as last edited |
| `LinesReportedOnceCorrect` | `[]LinesReportedOnce`: every line is in one report or one buffer, in order, and every error is reported, being traced, or counted as untraceable |
| `ProfileInvCorrect` | `[](patient => ProfileInv)` |
| `ProfileShownCorrect` | `[]ProfileShown`: when nothing is under way, the profile lists each draft once, its chart has at each vote of the last week the sum of all votes until then, and the settings show the stored name |

*The argument for the comments*, of a patient writer, who does not write while comments are being fetched
and edits a comment once at a time. `CallsApart` says that fetches and writes do not mix,
so an answer to a fetch has what the server has (`Fetched`). Until the comments are arranged
there are no objects, and what any page fetched is what there is (`NotArranged`); but the answer to
the first comment of a card arranges it, so the state between that comment and its answer (`Creating`) is
stated too. From then on objects and answers on their way are together the
server's thread, each once (`Objects`, `CreatedOnce`, `Complete`): nothing missing and
nothing twice. An object's body is that of the server unless the answer to its edit is on its
way. That the lengths agree then follows from the bijection between them.

*The argument for the error log.* A report takes what is buffered when its trace arrives. That lines stay in order
between reports needs that whatever will be taken next (`Pending`) was written after
everything that was sent; before the service is loaded that is the first spy's buffer,
and the service's is empty and no trace is under way.

*The argument for an author's page*, of a patient author, who signs in once, changes the name once at a time
and not while the user is fetched again, and gets no votes once the points are read. The list is taken apart by position
(`splice(indexOf(node), 1)`, where an index of -1 is the last place), so it must have
each draft at most once and the discarded one still in it when the answer comes. Drafts
are fetched at most once and before any is listed (`DraftsOnce`); a node that is clicked twice is
discarded once and refused the second time if the server takes the requests one after the other,
which is all that patience asks of them, so no two answers say the same node (`DiscardsListed`). Served at once,
both succeed, and the second answer removes another draft, the last of the list; and what is listed and no draft any more has its answer on the way
(`DraftsListed`). The chart is counted backwards from the points, which come from another call
than the log: `PointsTogether` says that the points are the sum of the whole log, and that the log
that was sent is what is left of it after some votes (`before`) that are all older than a week. Those votes are
not in the chart, but in the sums that it shows: its first value is not the first vote. That counting backwards is the
sum from the beginning (`ForwardsIsBackwards`) is `SumSplit` of `Sums`, after a shift of
the summands' places (`SumShift`). While this was proved, two cases of `Spliced` were made
exclusive, which TLC takes in order.

### Library_proofs

For any nodes, fingers and buttons, of `InputSpec` (assumption: the container is not a node,
and `Nothing` neither):

| Theorem | States |
|---|---|
| `InputInvCorrect` | `[]InputInv` |
| `InputReleasedCorrect` | `[]InputReleased`: with nothing pressed and no finger down nothing is dragged, blocked or pinned that should not be, and the page follows the full screen |

*The argument.* A drag changes what its end changes back, through variables that the
hands share: the previous selection handler, the pin before the drag, the object that is
dragged. `HandsApart` says that mouse and finger are not on one element and that each
listener has its own object, so that the end of a drag finds what its beginning left;
`DragsUndone` says what is still to be undone. Both are stated unless a drag was
interrupted or lost (`disturbed`), which section 5 describes; `ScreenFollowed` unless full
screen was entered before the picture ran (`early`).

For any bodies, springs and places, of `LayoutSpec` (assumption: springs have two ends,
and places are not negative):

| Theorem | States |
|---|---|
| `LayoutInvCorrect` | `[]LayoutInv` |
| `PinnedStaysCorrect` | `PinnedStays`: a frame leaves a pinned body where it was, and all bodies in the box |

*The argument.* A body returns to `prevPos` if it is pinned. `ReturnsToStart` says that this is
its position between frames, whatever the user does to it then, and the position at the
beginning of a frame during it, since the bumps of the tree change `pos` only. The
box is made of least and greatest coordinates, which exist because a frame has
finitely many bodies (`GreatestInSequence`: consider the shortest beginning of the
list without a greatest element).

### NodeCache_proofs

For any scenario, and so for any operations, graph on the server, texts and number of requests
answered in any order, of `CacheSpec`. `NodeCacheAssumption` says what a scenario is: finitely
many ids, numbers at the beginning no greater than how many there are, drafts that edit public
nodes, links between nodes that are there. The theorems assume `Unlimited`, that objects do not
run out, which is how a JavaScript program sees its memory; a TLC run has as many as its bounds let it need.

| Theorem | States |
|---|---|
| `CacheInvariant` | `[]CacheInv` |
| `OneObjectPerNodeCorrect` | `[]OneObjectPerNode`: two objects are never one node, when no blank node is saved twice, and the cached blank node is one that was not saved |

*The argument.* `OneObjectPerNode` needs that every object is cached under its id
(`AllCached`): `addOrUpdateNode` makes an object when it finds none in the cache. To keep that, whatever
follows an object must find an object (`Linked`), what is cached under an id must have it
(`Keyed`), and each answer must name nodes that the server had when it answered
(`ProperRequest`), of which it has all children (`ProperDb`). An answer goes through folds over the
ids, the children and the parents, so the lemmas say what one round leaves alone:
`Relinked`, that links and only links have changed; `Later`, that no object is lost or renamed
and no entry is lost or changed, which is what all operations but the answers to the save of a
new node have in common. A fold over a set is the library's `FoldSet`, a choice of a function; `FoldExists`
shows that there is one, by the least set without, and `FoldStays` that what every round keeps is kept
by the fold. `isInfinite` is not needed: whether it finds a circle or not, links have changed at most.

### NodeEditor_proofs

For any scenario, of `EditorSpec` (and of `PageSpec`, the page without editors), again
`Unlimited`. Besides `NodeCacheAssumption`, `GraphPageAssumption` and `NodeEditorAssumption` say
what a scenario is: addresses and searches are among the ids, and the server's graph at the
beginning is one that could have been saved: texts name what their nodes rest on, and a draft has
the version of the node it edits.

| Theorem | States |
|---|---|
| `EditorInvariant` | `[]EditorInv`: `CacheInv`, and the pages, editors and the dialog on it |
| `PageShowsItsRootCorrect` | `[]PageShowsItsRoot`: the open page shows the node of its address or nothing yet |
| `PageWithoutEditorShowsItsRoot` | the same of `PageSpec` |
| `EditorTypeCorrect` | `[]EditorTypeOK`: what editors, their backups and the dialog refer to is there |
| `TextNamesSupportCorrect` | `[]TextNamesSupport`: a stored node rests on no version that its text does not name |

*The argument for the page.* An answer is shown on the page that asked for it (`sender`), which may have
been left. `SendersOK` says that the graph which a page waits for is that of its own
address, so the root that a late answer brings is right for the page it is shown on, or not
shown at all; it needs that the call and the page keep their ids, and the cache that an
object keeps its own (`Later`). The exception is the answer to the save of a new node: the
blank object is renamed below a page whose address is that of new nodes, and the same
answer changes the address. `Rooted` therefore lets a root be another node's only where the
address has changed since. The page changes the cache only by the operations that
`NodeCache_proofs` is about, so `CacheInv` is kept for the same reasons.

*The argument for the editor.* Everything that editors hold was found in the cache, and no
object is lost (`Later`); `EditorsOK` and `DialogOK` say where each set lies. An editor's node is in
edit mode because `EditorsFollow` ends every step.

*The argument for the texts.* `SaveNode` sends a text and the children that remain once the orphans are
taken out, and refuses while one is left that the text does not name. The answer may be long in coming,
so `TextInv` says it of the call (`SavesOK`), and of the server (`TextsOK`). A
publication moves a draft's children and text to the node it edits, and what rests on the draft then rests on
that node: the versions are the same, since `TextsOK` also says that a draft has the version of what it
edits. Without that conjunct the invariant is not inductive, and the model without it was
wrong: it let the server give a draft any version, which the code does not do
(`ArgumentNode.createNewDraft` and the body's constructor keep the major version). The model and the
instances were corrected.

### Model-checked only

- Liveness (`PublishEnds`, `SaveCompletes`, `ElementsPlaced`) and everything that would
  need `ENABLED`: out of the provers' reach.
- What recursive definitions compute, which needs induction over data: that `isInfinite` finds
  every circle (`NoCircle`) and `buildReport` every problem (`ReportFindsAll`), the retyping of the
  sketch, the changes of the graph in both pictures; `ForcesComplete` is about the walk over the quadtree.
- Of the cache and the page, what is about two states (`ForgottenByFamily`) or about the walk
  along paths of the graph (`SpotlightShows`).

## 5. What the code does not hold

What follows was met while modelling; no comment or test promises the opposite
(but for the findings of section 3), so no run states it. The models have this
behaviour unless it says otherwise, and the properties are stated so that they say
what remains.

*The service.*

- `getUnsupportedNodes` (`ArgumentNodeRepository.java:61`) looks for nodes without
  children, and a circle has none. A draft that links its own public version is
  published as a node that rests on itself, so an argument need not end in
  sources.
- A refused publication may commit a body with the number -1
  (`VersionHelper.java:119`): the parent was saved before the number was
  given.
- `previousVersion` of a body (`ArgumentNode.java:85`) is the body the draft was made from,
  also when something else was published in between: the second of two
  drafts drops the first from the history.

*The cache.*

- `forgetNode` (`node-cache.js:494`) deletes `cache[nodeId]`, a name it does not
  have, so the node stays in the cache. It leaves its family (`ForgottenByFamily`).
- The parents of a draft are marked for fetching when its publication is sent
  (:398); a graph answered before the publication is done unmarks them. When it
  is answered, the parents are read after `forgetNode` has emptied them (:416), so
  they do not get the public node.
- The answer to the creation of any node deletes the entry under the id of new
  nodes, and with it a blank node that is being written (:81).
- Any answer about a node overwrites what the user has typed in it since (:443).
- A new node that is to be attached as a child (`createAndSaveNode`, :111) gets no
  type, for `assimilateData` (`node-factory.js:58`) takes the type from data with a
  major version only, and without a type nothing is sent.
- `getVersionString` (`node-factory.js:36`) refers to `node` instead of `self` and
  throws for every node with a major version; it has no state and is not modelled.

*The page and the editor.*

- The answer of a publication changes the address although the user has left
  the page for another (`graph-directive.js:265`).
- The dialog may attach a node above the edited one and so close a circle on the
  page until the server answers (`node-editor-directive.js:156`).
- An orphan that has left the children meanwhile blocks every save of the node
  (:142).

*The sketch.*

- A sketch with a circle is saved half and the loop never ends
  (`graph-sketch-directive.js:94`); `SaveCompletes` is stated without one.
- Two clicks send a node twice (:98). Types do not spread to saved nodes, so drawing
  while nodes are saved can make an illegal graph (:158); `EverythingProper` is stated of
  a sketch of which nothing is being saved.

*The picture.*

- A node added again, or an arrow drawn twice, gets several arrows of which
  `edgeRemoved` removes one; `multiEdges` is never cleared.
- An arrow told before `run` to a node that is not there makes a node without
  data. A listener that throws leaves the drawing wrong for good.
- The pin timer of a leaf, four seconds after it was drawn, pins the node also when
  it has another type by then. That can happen in a sketch; `PinnedIsLeaf` is about
  the page of an argument, where types do not change.
- A saved sketch node keeps its element under the old id.
- A node that is redrawn or cleared while it is dragged stays pinned, and the layout
  never rests; so it is after a release outside the window, or a second button
  pressed during a drag, and text can then not be selected.
- A touch on an element that the mouse holds makes the release of the mouse throw; a
  pinch that begins on a node throws, and one whose second finger is on a node scales
  by infinity.
- `reset` centres the picture before it sets the scale to 1, so after zooming it is off
  centre (`astray`). A full screen that the browser refuses leaves the page in
  full-screen mode; entering it in the first moments throws.

*The layout.*

- The forces of a pinned body are never reset, and it counts in the movement, so the
  layout may never be found at rest.
- A body that is bumped leaves the centres of mass above it stale, and a cell may be
  taken as one body though the body pulled is in it (`ForcesComplete` says: at most
  once).
- The box starts at `Number.MIN_VALUE`, which is positive, and so is wrong where all
  coordinates are negative; `Place` has none.

*The services.*

- An answer about the user is taken whoever it is about: after signing out it
  signs in again, and the answers of two sign-ins in reverse order show the first
  user while the second one's token is sent.
- A button keeps the user object it found, also after another login; a user who has
  no votes yet has no map of them, so a waiting button keeps what it showed.
- Two quick clicks, or two buttons of one card, make the counters part from the votes.
- A comment that is saved before the comments have arrived keeps the others off the
  page; comments fetched with it and answered before it show it twice; answers to
  edits in the wrong order show the older text.
- What `error-logger.js` has buffered is never sent once the service has taken over; an
  exception whose trace cannot be made has no report.
- The drafts are listed twice after signing out and in on the page. A draft that is discarded
  twice, by requests that the server serves at once, takes the last one from the list
  (`splice(-1, 1)`): the model's impatient author can do it (`DeleteDraft` of both calls after
  `LoadDiscard` of both).
- The chart begins in the middle of the sum when there are votes older than a week; the answer to
  a rename of an editor that was replaced meanwhile changes the name in the old user object only.

## 6. What comes next

An argument's publications in two transactions, once it is known what the database
isolates.

## 7. Not modelled

- Tokens and their filter, web controllers, configuration, mail: no state that the
  properties are about.
- First logins and the check for a free name: a check and a save each, with
  no code between them, so the outcome is the database's.
- Publications in concurrent transactions (see the assumptions of `ArgumentGraph`).
- `BodyParser`'s scan of the characters: of a text there is what it links to.
- `consumers-directive.js`: its `newConsumer` creates a node on the server and navigates to it. The creation
  is `CreateNodeWithSupport` in `NodeCache` and the navigation `Navigate` in `GraphPage`; that the one
  follows the other is left out.
- The other directives and controllers: they show one answer and change
  nothing.
- Of `vivagraph.js` the WebGL renderer, the graph generators and the algorithms, which the
  site does not use; numbers, such as forces and positions, beyond what decides the
  control. `particles.js`, the animation of the start page.
- The Markdown editor and the other libraries, but for what the client sees of
  them.
