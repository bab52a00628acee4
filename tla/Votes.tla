------------------------------- MODULE Votes -------------------------------
(***************************************************************************)
(* Votes on published arguments and the points they earn: VoteServiceNeo4j *)
(* with User, MajorVersion and Author.                                     *)
(*                                                                         *)
(* A vote pays the owners of the edges that the text of the argument       *)
(* links: MajorVersion.edgeOwners, which the edits of drafts keep.  Each   *)
(* request is one transaction.  It reads what it needs, computes, and      *)
(* stores whole entities; Neo4j does not isolate what was read, so others  *)
(* may commit in between.  Here a request reads in its first step and      *)
(* stores in its second, and a `Thread' serves one request at a time.  An  *)
(* author whom the page does not bring along is really read a little       *)
(* later than the rest.                                                    *)
(*                                                                         *)
(* A version stands for its public node: the page offers no votes on       *)
(* anything else.  The log of scores is left out.  Requests that are       *)
(* refused or find nothing to do change nothing and are left out.          *)
(***************************************************************************)
EXTENDS Integers, FiniteSets, Functions

CONSTANTS User, Author, Version,
          VoteId,        \* identifiers of ARGUMENT_VOTE relationships
          Thread,        \* as many as there are requests at the same time
          None,
          ControlledBy,  \* the user behind an alias
          Founder,       \* the author of a major version
          Kind,          \* the type of its nodes
          FirstTexts,    \* the texts there may be when the voting starts
          ChildSets      \* bound: what an edit may link

VoteType == {"GREAT", "WEAK", "TOUCHE", "TRASH"}
LeafKind == {"source", "subject"}
VersionKind == {"assertion", "interpretation"} \cup LeafKind

ASSUME VotesAssumption ==
    /\ ControlledBy \in [Author -> User]
    /\ Founder \in [Version -> Author]
    /\ Kind \in [Version -> VersionKind]
    /\ FirstTexts \subseteq [Version -> SUBSET Version]
    /\ ChildSets \subseteq SUBSET Version
    /\ None \notin VoteType
    /\ IsFiniteSet(Version)

VARIABLES text,        \* the versions that the text of the public node links
          draft,       \* edited texts that are not public yet
          edgeOwners,  \* MajorVersion.edgeOwners
          votes,       \* ArgumentVote: who votes on what, and how
          count,       \* MajorVersion.greatVotes, weakVotes, toucheVotes, trashVotes
          points,      \* Author.nodePoints
          request      \* what the request of each thread has read

vars == <<text, draft, edgeOwners, votes, count, points, request>>

Init ==
    /\ text \in FirstTexts
    /\ draft = {}
    /\ edgeOwners = [v \in Version |-> [w \in text[v] |-> Founder[v]]]
    /\ votes = [i \in {} |-> None]
    /\ count = [v \in Version |-> [type \in VoteType |-> 0]]
    /\ points = [a \in Author |-> 0]
    /\ request = [t \in Thread |-> None]

-----------------------------------------------------------------------------
\* getBaseValue
BaseValue(type) ==
    CASE type = "GREAT" -> 10
      [] type = "WEAK" -> 2
      [] type = "TOUCHE" -> 6
      [] type = "TRASH" -> -4

\* Fault for the checks: no limit.
MultiplierUnlimited(kind, edges) == IF kind = "assertion" THEN edges ELSE 2

\* An assertion pays for three edges at most.
Multiplier(kind, edges) ==
    IF kind = "assertion" THEN IF edges > 3 THEN 3 ELSE edges ELSE 2

\* getPoints, for a vote or for no vote.
Points(type, kind, edges) ==
    IF type = None THEN 0 ELSE BaseValue(type) * Multiplier(kind, edges)

\* Links without a recorded owner pay nobody.
OwnedBy(a, links, owners) == {w \in links \cap DOMAIN owners : owners[w] = a}

Earners(v, links, owners) ==
    IF Kind[v] = "source" THEN {Founder[v]}
                          ELSE {owners[w] : w \in links \cap DOMAIN owners}

\* Nobody's vote changes their own points.
Paid(r) ==
    {a \in Earners(r.version, r.text, r.edgeOwners) : ControlledBy[a] # r.user}

\* Fault for the checks: the old vote is not taken back.
AwardOnlyNew(r, a) ==
    Points(r.cast, Kind[r.version], Cardinality(OwnedBy(a, r.text, r.edgeOwners)))

\* The old vote is negated at what it is worth now.
Award(r, a) ==
    LET edges == Cardinality(OwnedBy(a, r.text, r.edgeOwners))
    IN  Points(r.cast, Kind[r.version], edges) - Points(r.negate, Kind[r.version], edges)

\* Fault for the checks: a changed vote still counts as what it was.
CountedTwice(r) ==
    [type \in VoteType |-> r.count[type]
        + (IF r.cast = type THEN 1 ELSE 0)
        - (IF r.negate = type /\ r.cast = None THEN 1 ELSE 0)]

\* incrementVote and decrementVote
Counted(r) ==
    [type \in VoteType |-> r.count[type]
        + (IF r.cast = type THEN 1 ELSE 0)
        - (IF r.negate = type THEN 1 ELSE 0)]

-----------------------------------------------------------------------------
VotesOf(u, v) == {i \in DOMAIN votes : votes[i].user = u /\ votes[i].version = v}

\* setArgumentVotes collects the votes of a user in a map and throws when there
\* are two on the same version: such a user cannot be loaded.
Loadable(u) ==
    \A v \in Version : \A i, j \in VotesOf(u, v) : i = j

\* The vote that a request finds: its type, or None.
Existing(u, v) ==
    IF VotesOf(u, v) = {} THEN None
                          ELSE votes[CHOOSE i \in VotesOf(u, v) : TRUE].type

\* What a vote reads, or with cast = None its revocation.
VoteRead(u, v, cast) ==
    [task |-> "vote", user |-> u, version |-> v, cast |-> cast,
     found |-> VotesOf(u, v), negate |-> Existing(u, v), text |-> text[v],
     edgeOwners |-> edgeOwners[v], count |-> count[v], points |-> points]

\* voteNode: not on one's own node, and not the same again.
LoadVote(t, u, v, cast) ==
    /\ request[t] = None
    /\ Loadable(u)
    /\ Kind[v] # "subject"
    /\ ControlledBy[Founder[v]] # u
    /\ Existing(u, v) # cast
    /\ Existing(u, v) = None => DOMAIN votes # VoteId    \* bound
    /\ request' = [request EXCEPT ![t] = VoteRead(u, v, cast)]
    /\ UNCHANGED <<text, draft, edgeOwners, votes, count, points>>

\* unvoteNode
LoadUnvote(t, u, v) ==
    /\ request[t] = None
    /\ Loadable(u)
    /\ Kind[v] # "subject"
    /\ Existing(u, v) # None
    /\ request' = [request EXCEPT ![t] = VoteRead(u, v, None)]
    /\ UNCHANGED <<text, draft, edgeOwners, votes, count, points>>

\* registerNewVote: the relationship is merged with one that says the same.
NewVotes(r) ==
    IF \E i \in VotesOf(r.user, r.version) : votes[i].type = r.cast
    THEN {votes}
    ELSE {[j \in DOMAIN votes \cup {i} |->
            IF j = i THEN [user |-> r.user, version |-> r.version, type |-> r.cast]
                     ELSE votes[j]] : i \in VoteId \ DOMAIN votes}

\* A vote that was read is changed where it still exists ...
ChangedVotes(r) ==
    {[i \in DOMAIN votes |->
        IF i \in r.found THEN [votes[i] EXCEPT !.type = r.cast] ELSE votes[i]]}

\* ... or deleted (revokeVote).
RevokedVotes(r) == {Restrict(votes, DOMAIN votes \ r.found)}

\* The earners, the version with all its fields, and the vote are stored.
StoreVote(t) ==
    LET r == request[t]
    IN  /\ r # None /\ r.task = "vote"
        /\ points' = [a \in Author |-> IF a \in Paid(r) THEN r.points[a] + Award(r, a)
                                                        ELSE points[a]]
        /\ count' = [count EXCEPT ![r.version] = Counted(r)]
        /\ edgeOwners' = [edgeOwners EXCEPT ![r.version] = r.edgeOwners]
        /\ votes' \in (CASE r.negate = None -> NewVotes(r)
                          [] r.cast = None -> RevokedVotes(r)
                          [] OTHER -> ChangedVotes(r))
        /\ request' = [request EXCEPT ![t] = None]
        /\ UNCHANGED <<text, draft>>

-----------------------------------------------------------------------------
\* Fault for the checks: the last owner wins.
MergedOwnersLast(r) ==
    [w \in DOMAIN r.edgeOwners \cup r.children |->
        IF w \in r.children THEN r.author ELSE r.edgeOwners[w]]

\* mergeEdgeOwners: the first owner stays.
MergedOwners(r) ==
    [w \in DOMAIN r.edgeOwners \cup r.children |->
        IF w \in DOMAIN r.edgeOwners THEN r.edgeOwners[w] ELSE r.author]

\* What an assertion links is what it rests on, unless its text is blank.  The
\* text of an interpretation is not checked against its leaf.
TextsFor(v, children) ==
    IF Kind[v] = "assertion" THEN {{}, children} ELSE ChildSets

\* editAssertion and editInterpretation of a draft that author writes, with new
\* children and a new text.
LoadEdit(t, author, v, children, links) ==
    /\ request[t] = None
    /\ Kind[v] \in {"assertion", "interpretation"}
    /\ IF Kind[v] = "interpretation"
       THEN Cardinality(children) <= 1 /\ \A w \in children : Kind[w] \in LeafKind
       ELSE \A w \in children : Kind[w] \notin LeafKind
    /\ links \in TextsFor(v, children)
    /\ request' = [request EXCEPT ![t] =
            [task |-> "edit", author |-> author, version |-> v, children |-> children,
             text |-> links, edgeOwners |-> edgeOwners[v], count |-> count[v]]]
    /\ UNCHANGED <<text, draft, edgeOwners, votes, count, points>>

\* The version is stored with all its fields if its owners have changed.
StoreEdit(t) ==
    LET r == request[t]
    IN  /\ r # None /\ r.task = "edit"
        /\ IF MergedOwners(r) = r.edgeOwners
           THEN UNCHANGED <<edgeOwners, count>>
           ELSE /\ edgeOwners' = [edgeOwners EXCEPT ![r.version] = MergedOwners(r)]
                /\ count' = [count EXCEPT ![r.version] = r.count]
        /\ draft' = draft \cup {[version |-> r.version, text |-> r.text]}
        /\ request' = [request EXCEPT ![t] = None]
        /\ UNCHANGED <<text, votes, points>>

\* The publication of a draft (ArgumentGraph): its text becomes the public one.
Publish(t, d) ==
    /\ request[t] = None
    /\ text' = [text EXCEPT ![d.version] = d.text]
    /\ draft' = draft \ {d}
    /\ UNCHANGED <<edgeOwners, votes, count, points, request>>

Next ==
    \/ \E t \in Thread :
        \/ \E u \in User, v \in Version :
            \/ \E cast \in VoteType : LoadVote(t, u, v, cast)
            \/ LoadUnvote(t, u, v)
        \/ \E author \in Author, v \in Version, children \in ChildSets :
            \E links \in TextsFor(v, children) : LoadEdit(t, author, v, children, links)
        \/ StoreVote(t)
        \/ StoreEdit(t)
        \/ \E d \in draft : Publish(t, d)

Spec == Init /\ [][Next]_vars

-----------------------------------------------------------------------------
VotesFor(v, type) == {i \in DOMAIN votes : votes[i].version = v /\ votes[i].type = type}

\* The four counters of a version (greatVotes and the others, which readers see)
\* are the votes there are on it, however votes are cast, changed and revoked.
CountersAreVotes ==
    \A v \in Version, type \in VoteType : count[v][type] = Cardinality(VotesFor(v, type))

\* A user has at most one vote on a version; with two the user could never be
\* loaded again (User.setArgumentVotes).
OneVotePerVersion == \A u \in User : Loadable(u)

\* Request t stores a vote of u on a version that it has found without one, and that has
\* got one by now.
StoresStaleVote(t, u) ==
    /\ StoreVote(t)
    /\ request[t].user = u /\ request[t].found = {}
    /\ VotesOf(u, request[t].version) # {}

\* Whatever else overlaps: nobody loses the account but by such a request (voteNode and
\* registerNewVote); not by a revocation, a changed vote or the votes of others.
SecondVoteIsStale ==
    [][\A u \in User : Loadable(u) /\ ~Loadable(u)' => \E t \in Thread : StoresStaleVote(t, u)]_vars

\* How many edges in the text of v are a's.
EdgesOf(a, v) == Cardinality({w \in text[v] \cap DOMAIN edgeOwners[v] : edgeOwners[v][w] = a})

\* The step leaves a as many edges in each text.
EdgesStay(a) == \A v \in Version : EdgesOf(a, v)' = EdgesOf(a, v)

\* What a vote i is worth to author a as the text and its owners are now.
Worth(a, i) ==
    LET v == votes[i].version
        edges == EdgesOf(a, v)
        base == [GREAT |-> 10, WEAK |-> 2, TOUCHE |-> 6, TRASH |-> -4][votes[i].type]
    IN  CASE Kind[v] = "assertion" -> base * (IF edges < 3 THEN edges ELSE 3)
          [] Kind[v] = "interpretation" -> IF edges > 0 THEN 2 * base ELSE 0
          [] OTHER -> IF a = Founder[v] THEN 2 * base ELSE 0

\* All that the votes of others are worth to a.
Earned(a) ==
    SumFunctionOnSet([i \in DOMAIN votes |-> Worth(a, i)],
                     {i \in DOMAIN votes : votes[i].user # ControlledBy[a]})

\* Votes cast, changed and revoked in any order, and edits by which an author neither wins
\* nor loses an edge, leave this author with the points that the votes are worth (updateScore).
VoteIsWorthItsEdges ==
    [][\A a \in Author : EdgesStay(a) => points'[a] - points[a] = Earned(a)' - Earned(a)]_vars

\* Once every vote is taken back, a has no points.
NetsZero(a) == DOMAIN votes = {} => points[a] = 0

-----------------------------------------------------------------------------
(***************************************************************************)
(* The inductive invariants behind these properties.                       *)
(***************************************************************************)
\* Requests that overlap are about different versions.
RequestsApart ==
    \A s, t \in Thread : s # t /\ request[s] # None /\ request[t] # None
        => request[s].version # request[t].version

VotesTyped ==
    /\ votes = [i \in DOMAIN votes |-> votes[i]]
    /\ IsFiniteSet(DOMAIN votes)
    /\ \A i \in DOMAIN votes : votes[i] \in [user : User, version : Version, type : VoteType]
    /\ count \in [Version -> [VoteType -> Int]]
    /\ request = [t \in Thread |-> request[t]]

\* What a request has read of its version is what is stored; a vote that it has
\* found is of the type it takes back.
UpToDate(r) ==
    /\ r.version \in Version
    /\ r.count = count[r.version]
    /\ r.task = "vote" =>
        /\ r.user \in User /\ r.cast \in VoteType \cup {None} /\ r.cast # r.negate
        /\ r.found = VotesOf(r.user, r.version)
        /\ r.negate = None <=> r.found = {}
        /\ \A i \in r.found : votes[i].type = r.negate

VotesInv ==
    /\ VotesTyped
    /\ CountersAreVotes
    /\ OneVotePerVersion
    /\ \A t \in Thread : request[t] # None => UpToDate(request[t])
=============================================================================
