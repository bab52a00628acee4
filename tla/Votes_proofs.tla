---------------------------- MODULE Votes_proofs ----------------------------
(***************************************************************************)
(* Proofs of what Votes says of the counters and of the votes of a user:   *)
(* they are right as long as no two requests about one version overlap,    *)
(* and whatever overlaps, a second vote comes from a request that found    *)
(* none.  And of the points: they are what the votes are worth, where      *)
(* requests are served one after the other.                                *)
(***************************************************************************)
EXTENDS Votes, Sums

-----------------------------------------------------------------------------
(***************************************************************************)
(* Facts about the votes there are.                                        *)
(***************************************************************************)
LEMMA VotesForFinite ==
  ASSUME VotesTyped, NEW v, NEW type
  PROVE  /\ IsFiniteSet(VotesFor(v, type))
         /\ Cardinality(VotesFor(v, type)) \in Nat
<1>1. VotesFor(v, type) \in SUBSET DOMAIN votes
  BY DEF VotesFor
<1>2. IsFiniteSet(VotesFor(v, type))
  BY <1>1, FS_Subset DEF VotesTyped
<1> QED BY <1>2, FS_CardinalityType

\* A vote that a request has found is the one vote of its user on its version.
LEMMA FoundOne ==
  ASSUME VotesInv, NEW r, UpToDate(r), r.task = "vote", r.negate # None
  PROVE  \E i \in DOMAIN votes :
            /\ r.found = {i}
            /\ votes[i].user = r.user /\ votes[i].version = r.version
            /\ votes[i].type = r.negate
<1>1. r.found = VotesOf(r.user, r.version) /\ r.found # {}
      /\ r.user \in User /\ r.version \in Version
  BY DEF UpToDate
<1>2. PICK i \in r.found : TRUE
  BY <1>1
<1>3. i \in DOMAIN votes /\ votes[i].user = r.user /\ votes[i].version = r.version
  BY <1>1, <1>2 DEF VotesOf
<1>4. \A j \in r.found : j = i
  BY <1>1, <1>2 DEF VotesInv, OneVotePerVersion, Loadable
<1> QED BY <1>2, <1>3, <1>4 DEF UpToDate

-----------------------------------------------------------------------------
(***************************************************************************)
(* The inductive invariant: it holds initially, and every step preserves   *)
(* it from a state in which overlapping requests are apart.                *)
(***************************************************************************)
LEMMA InitVotes == Init => VotesInv
<1> SUFFICES ASSUME Init PROVE VotesInv
  OBVIOUS
<1>1. VotesTyped
  BY FS_EmptySet DEF Init, VotesTyped
<1>2. CountersAreVotes
  <2>1. \A v, type : VotesFor(v, type) = {}
    BY DEF Init, VotesFor
  <2> QED BY <2>1, FS_EmptySet DEF Init, CountersAreVotes
<1>3. OneVotePerVersion
  BY DEF Init, OneVotePerVersion, Loadable, VotesOf
<1>4. \A t \in Thread : request[t] = None
  BY DEF Init
<1> QED BY <1>1, <1>2, <1>3, <1>4 DEF VotesInv

\* A step that stores nothing: a request is read, or forgotten.
LEMMA NothingStored ==
  ASSUME VotesInv, votes' = votes, count' = count, NEW t, NEW q, q = None \/ UpToDate(q),
         request' = [request EXCEPT ![t] = q]
  PROVE  VotesInv'
<1>1. VotesTyped'
  BY DEF VotesInv, VotesTyped
<1>2. CountersAreVotes' /\ OneVotePerVersion'
  BY DEF VotesInv, CountersAreVotes, VotesFor, OneVotePerVersion, Loadable, VotesOf
<1>3. ASSUME NEW s \in Thread, NEW r, r = request'[s], r # None
      PROVE  UpToDate(r)'
  <2>1. UpToDate(r)
    BY <1>3 DEF VotesInv, VotesTyped
  <2> QED BY <2>1 DEF UpToDate, VotesOf
<1> QED BY <1>1, <1>2, <1>3 DEF VotesInv

\* What a vote or its revocation reads.
LEMMA ReadUpToDate ==
  ASSUME VotesInv, NEW u \in User, NEW v \in Version, NEW cast \in VoteType \cup {None},
         Loadable(u), Existing(u, v) # cast
  PROVE  UpToDate(VoteRead(u, v, cast))
<1> DEFINE r == VoteRead(u, v, cast)
<1>1. /\ r.version = v /\ r.count = count[v] /\ r.user = u /\ r.cast = cast
      /\ r.found = VotesOf(u, v) /\ r.negate = Existing(u, v)
  BY DEF VoteRead
<1> SUFFICES UpToDate(r)
  OBVIOUS
<1> HIDE DEF r
<1>2. CASE VotesOf(u, v) = {}
  <2>1. Existing(u, v) = None
    BY <1>2 DEF Existing
  <2> QED BY <1>1, <1>2, <2>1 DEF UpToDate
<1>3. CASE VotesOf(u, v) # {}
  <2>1. PICK i \in VotesOf(u, v) : Existing(u, v) = votes[i].type
    BY <1>3 DEF Existing
  <2>2. votes[i].type \in VoteType
    BY <2>1 DEF VotesInv, VotesTyped, VotesOf
  <2>3. Existing(u, v) # None
    BY <2>1, <2>2, VotesAssumption
  <2>4. \A j \in VotesOf(u, v) : j = i
    BY <2>1 DEF Loadable
  <2> QED BY <1>1, <1>3, <2>1, <2>3, <2>4 DEF UpToDate
<1> QED BY <1>2, <1>3

LEMMA LoadVoteInv ==
  ASSUME VotesInv, NEW t \in Thread, NEW u \in User, NEW v \in Version, NEW cast \in VoteType,
         LoadVote(t, u, v, cast)
  PROVE  VotesInv'
<1>1. UpToDate(VoteRead(u, v, cast))
  BY ReadUpToDate DEF LoadVote
<1> QED BY <1>1, NothingStored DEF LoadVote

LEMMA LoadUnvoteInv ==
  ASSUME VotesInv, NEW t \in Thread, NEW u \in User, NEW v \in Version, LoadUnvote(t, u, v)
  PROVE  VotesInv'
<1>1. UpToDate(VoteRead(u, v, None))
  BY ReadUpToDate DEF LoadUnvote
<1> QED BY <1>1, NothingStored DEF LoadUnvote

LEMMA LoadEditInv ==
  ASSUME VotesInv, NEW t \in Thread, NEW author, NEW v \in Version, NEW children, NEW links,
         LoadEdit(t, author, v, children, links)
  PROVE  VotesInv'
<1> DEFINE q == [task |-> "edit", author |-> author, version |-> v, children |-> children,
                 text |-> links, edgeOwners |-> edgeOwners[v], count |-> count[v]]
<1>1. UpToDate(q)
  BY DEF UpToDate
<1>2. request' = [request EXCEPT ![t] = q] /\ votes' = votes /\ count' = count
  BY DEF LoadEdit
<1> HIDE DEF q
<1> QED BY <1>1, <1>2, NothingStored

\* An edit stores the counters it has read, and they are the ones stored.
LEMMA StoreEditInv ==
  ASSUME VotesInv, NEW t \in Thread, StoreEdit(t)
  PROVE  VotesInv'
<1> DEFINE r == request[t]
<1>1. UpToDate(r)
  BY DEF StoreEdit, VotesInv
<1>2. count' = count
  <2>1. count' = count \/ count' = [count EXCEPT ![r.version] = r.count]
    BY DEF StoreEdit
  <2>2. r.count = count[r.version]
    BY <1>1 DEF UpToDate
  <2>3. count = [v \in Version |-> count[v]]
    BY DEF VotesInv, VotesTyped
  <2> HIDE DEF r
  <2> QED BY <2>1, <2>2, <2>3
<1>3. request' = [request EXCEPT ![t] = None] /\ votes' = votes
  BY DEF StoreEdit
<1> QED BY <1>2, <1>3, NothingStored

\* What is stored of one version leaves the requests about others up to date.
LEMMA OthersUpToDate ==
  ASSUME VotesInv, RequestsApart, NEW t \in Thread, NEW r, r = request[t], r # None,
         request' = [request EXCEPT ![t] = None],
         \A w \in Version : w # r.version => count'[w] = count[w],
         \A i \in DOMAIN votes : votes[i].version # r.version
                    => i \in DOMAIN votes' /\ votes'[i] = votes[i],
         \A i \in DOMAIN votes' : votes'[i].version # r.version
                    => i \in DOMAIN votes /\ votes'[i] = votes[i]
  PROVE  \A s \in Thread : \A q : q = request'[s] /\ q # None => UpToDate(q)'
<1>1. ASSUME NEW s \in Thread, NEW q, q = request'[s], q # None
      PROVE  UpToDate(q)'
  <2>1. s # t /\ q = request[s]
    BY <1>1 DEF VotesInv, VotesTyped
  <2>2. q.version # r.version /\ UpToDate(q)
    BY <1>1, <2>1 DEF RequestsApart, VotesInv
  <2>3. \A u : VotesOf(u, q.version)' = VotesOf(u, q.version)
    BY <2>2 DEF VotesOf
  <2>4. \A u : \A i \in VotesOf(u, q.version) : votes'[i] = votes[i]
    BY <2>2 DEF VotesOf
  <2> QED BY <2>2, <2>3, <2>4 DEF UpToDate
<1> QED BY <1>1

\* The counters of the versions that a step leaves alone.
LEMMA OtherCounters ==
  ASSUME VotesInv, NEW v \in Version,
         count' \in [Version -> [VoteType -> Int]],
         \A w \in Version : w # v => count'[w] = count[w],
         \A i \in DOMAIN votes : votes[i].version # v
                    => i \in DOMAIN votes' /\ votes'[i] = votes[i],
         \A i \in DOMAIN votes' : votes'[i].version # v
                    => i \in DOMAIN votes /\ votes'[i] = votes[i],
         \A type \in VoteType : count'[v][type] = Cardinality(VotesFor(v, type)')
  PROVE  CountersAreVotes'
<1>1. ASSUME NEW w \in Version, NEW type \in VoteType, w # v
      PROVE  count'[w][type] = Cardinality(VotesFor(w, type)')
  <2>1. VotesFor(w, type)' = VotesFor(w, type)
    BY <1>1 DEF VotesFor
  <2> QED BY <1>1, <2>1 DEF VotesInv, CountersAreVotes
<1> QED BY <1>1 DEF CountersAreVotes

\* A step that changes votes on one version only, and only those of one user there.
LEMMA OtherVoters ==
  ASSUME OneVotePerVersion, NEW u0 \in User, NEW v0 \in Version,
         \A u \in User, v \in Version : u # u0 \/ v # v0 => VotesOf(u, v)' \subseteq VotesOf(u, v),
         \A i, j \in VotesOf(u0, v0)' : i = j
  PROVE  OneVotePerVersion'
BY DEF OneVotePerVersion, Loadable

LEMMA StoreVoteStarts ==
  ASSUME VotesInv, NEW t \in Thread, StoreVote(t), NEW r, r = request[t]
  PROVE  /\ r # None /\ r.task = "vote" /\ UpToDate(r)
         /\ count' = [count EXCEPT ![r.version] = Counted(r)]
         /\ request' = [request EXCEPT ![t] = None]
         /\ r.negate = None => votes' \in NewVotes(r)
         /\ r.negate # None /\ r.cast = None => votes' \in RevokedVotes(r)
         /\ r.negate # None /\ r.cast # None => votes' \in ChangedVotes(r)
<1>1. /\ r # None /\ r.task = "vote"
      /\ count' = [count EXCEPT ![r.version] = Counted(r)]
      /\ request' = [request EXCEPT ![t] = None]
      /\ votes' \in (CASE r.negate = None -> NewVotes(r)
                        [] r.cast = None -> RevokedVotes(r)
                        [] OTHER -> ChangedVotes(r))
  BY DEF StoreVote
<1>2. UpToDate(r)
  BY <1>1 DEF VotesInv
<1>3. /\ r.negate = None => votes' \in NewVotes(r)
      /\ r.negate # None /\ r.cast = None => votes' \in RevokedVotes(r)
      /\ r.negate # None /\ r.cast # None => votes' \in ChangedVotes(r)
  <2>1. r.cast # r.negate
    BY <1>1, <1>2 DEF UpToDate
  <2> QED BY <1>1, <2>1
<1> QED BY <1>1, <1>2, <1>3

\* A first vote of a user on a version.
LEMMA NewVoteInv ==
  ASSUME VotesInv, RequestsApart, NEW t \in Thread, StoreVote(t), NEW r, r = request[t],
         r.negate = None
  PROVE  VotesInv'
<1> DEFINE v == r.version
           new == [user |-> r.user, version |-> v, type |-> r.cast]
<1>1. /\ r # None /\ r.task = "vote" /\ UpToDate(r)
      /\ count' = [count EXCEPT ![v] = Counted(r)]
      /\ request' = [request EXCEPT ![t] = None]
      /\ votes' \in NewVotes(r)
  BY StoreVoteStarts
<1>2. /\ r.user \in User /\ v \in Version /\ r.cast \in VoteType
      /\ VotesOf(r.user, v) = {} /\ r.count = count[v]
  BY <1>1 DEF UpToDate
<1>3. PICK i \in VoteId \ DOMAIN votes :
        votes' = [j \in DOMAIN votes \cup {i} |-> IF j = i THEN new ELSE votes[j]]
  BY <1>1, <1>2 DEF NewVotes
<1>4. /\ new.user = r.user /\ new.version = v /\ new.type = r.cast
      /\ new \in [user : User, version : Version, type : VoteType]
  BY <1>2
<1>5. /\ i \notin DOMAIN votes /\ DOMAIN votes' = DOMAIN votes \cup {i} /\ votes'[i] = new
      /\ \A j \in DOMAIN votes : votes'[j] = votes[j]
      /\ votes' = [j \in DOMAIN votes' |-> votes'[j]]
  BY <1>3
<1>6. /\ VotesTyped /\ CountersAreVotes /\ OneVotePerVersion
      /\ \A type \in VoteType : count[v][type] \in Int
  BY <1>2 DEF VotesInv, VotesTyped
<1>7. /\ Counted(r) \in [VoteType -> Int]
      /\ \A type \in VoteType :
            Counted(r)[type] = IF type = r.cast THEN count[v][type] + 1 ELSE count[v][type]
  BY <1>2, <1>6, VotesAssumption DEF Counted
<1>8. /\ count' \in [Version -> [VoteType -> Int]]
      /\ \A w \in Version : w # v => count'[w] = count[w]
      /\ count'[v] = Counted(r)
  BY <1>1, <1>2, <1>6, <1>7 DEF VotesTyped
<1> HIDE DEF new
<1>9. VotesTyped'
  <2>1. IsFiniteSet(DOMAIN votes')
    BY <1>5, <1>6, FS_AddElement DEF VotesTyped
  <2>2. \A j \in DOMAIN votes' : votes'[j] \in [user : User, version : Version, type : VoteType]
    BY <1>4, <1>5, <1>6 DEF VotesTyped
  <2>3. request' = [s \in Thread |-> request'[s]]
    BY <1>1, <1>6 DEF VotesTyped
  <2> QED BY <1>5, <1>8, <2>1, <2>2, <2>3 DEF VotesTyped
<1>10. /\ \A j \in DOMAIN votes : votes[j].version # v
                    => j \in DOMAIN votes' /\ votes'[j] = votes[j]
       /\ \A j \in DOMAIN votes' : votes'[j].version # v
                    => j \in DOMAIN votes /\ votes'[j] = votes[j]
  BY <1>4, <1>5
<1>11. CountersAreVotes'
  <2>1. ASSUME NEW type \in VoteType
        PROVE  count'[v][type] = Cardinality(VotesFor(v, type)')
    <3>1. IsFiniteSet(VotesFor(v, type)) /\ count[v][type] = Cardinality(VotesFor(v, type))
      BY <1>2, <1>6, VotesForFinite DEF CountersAreVotes
    <3>2. CASE type = r.cast
      <4>1. VotesFor(v, type)' = VotesFor(v, type) \cup {i} /\ i \notin VotesFor(v, type)
        BY <1>4, <1>5, <3>2 DEF VotesFor
      <4>2. Cardinality(VotesFor(v, type) \cup {i}) = Cardinality(VotesFor(v, type)) + 1
        BY <3>1, <4>1, FS_AddElement
      <4> QED BY <1>7, <1>8, <3>1, <3>2, <4>1, <4>2
    <3>3. CASE type # r.cast
      <4>1. VotesFor(v, type)' = VotesFor(v, type)
        BY <1>4, <1>5, <3>3 DEF VotesFor
      <4> QED BY <1>7, <1>8, <3>1, <3>3, <4>1
    <3> QED BY <3>2, <3>3
  <2> QED BY <1>2, <1>8, <1>10, <2>1, OtherCounters
<1>12. OneVotePerVersion'
  <2>1. \A u \in User, w \in Version : u # r.user \/ w # v => VotesOf(u, w)' \subseteq VotesOf(u, w)
    BY <1>4, <1>5 DEF VotesOf
  <2>2. \A j \in VotesOf(r.user, v)' : j = i
    BY <1>2, <1>5 DEF VotesOf
  <2> QED BY <1>2, <1>6, <2>1, <2>2, OtherVoters
<1>13. \A s \in Thread : \A q : q = request'[s] /\ q # None => UpToDate(q)'
  <2>1. \A w \in Version : w # r.version => count'[w] = count[w]
    BY <1>8
  <2>2. r # None /\ request' = [request EXCEPT ![t] = None]
    BY <1>1
  <2> QED BY <1>10, <2>1, <2>2, OthersUpToDate
<1> QED BY <1>9, <1>11, <1>12, <1>13 DEF VotesInv

\* A vote that its user takes back.
LEMMA RevokedVoteInv ==
  ASSUME VotesInv, RequestsApart, NEW t \in Thread, StoreVote(t), NEW r, r = request[t],
         r.negate # None, r.cast = None
  PROVE  VotesInv'
<1> DEFINE v == r.version
<1>1. /\ r # None /\ r.task = "vote" /\ UpToDate(r)
      /\ count' = [count EXCEPT ![v] = Counted(r)]
      /\ request' = [request EXCEPT ![t] = None]
      /\ votes' \in RevokedVotes(r)
  BY StoreVoteStarts
<1>2. r.user \in User /\ v \in Version /\ r.count = count[v]
  BY <1>1 DEF UpToDate
<1>3. PICK i \in DOMAIN votes :
        /\ r.found = {i} /\ votes[i].user = r.user /\ votes[i].version = v
        /\ votes[i].type = r.negate
  BY <1>1, FoundOne
<1>4. /\ VotesTyped /\ CountersAreVotes /\ OneVotePerVersion
      /\ \A type \in VoteType : count[v][type] \in Int
      /\ r.negate \in VoteType
  BY <1>2, <1>3 DEF VotesInv, VotesTyped
<1>5. /\ DOMAIN votes' = DOMAIN votes \ {i}
      /\ \A j \in DOMAIN votes' : votes'[j] = votes[j]
      /\ votes' = [j \in DOMAIN votes' |-> votes'[j]]
  BY <1>1, <1>3 DEF RevokedVotes, Restrict
<1>6. /\ Counted(r) \in [VoteType -> Int]
      /\ \A type \in VoteType :
            Counted(r)[type] = IF type = r.negate THEN count[v][type] - 1 ELSE count[v][type]
  BY <1>2, <1>4, VotesAssumption DEF Counted
<1>7. /\ count' \in [Version -> [VoteType -> Int]]
      /\ \A w \in Version : w # v => count'[w] = count[w]
      /\ count'[v] = Counted(r)
  BY <1>1, <1>2, <1>4, <1>6 DEF VotesTyped
<1>8. VotesTyped'
  <2>1. IsFiniteSet(DOMAIN votes')
    BY <1>4, <1>5, FS_RemoveElement DEF VotesTyped
  <2>2. \A j \in DOMAIN votes' : votes'[j] \in [user : User, version : Version, type : VoteType]
    BY <1>4, <1>5 DEF VotesTyped
  <2>3. request' = [s \in Thread |-> request'[s]]
    BY <1>1, <1>4 DEF VotesTyped
  <2> QED BY <1>5, <1>7, <2>1, <2>2, <2>3 DEF VotesTyped
<1>9. /\ \A j \in DOMAIN votes : votes[j].version # v
            => j \in DOMAIN votes' /\ votes'[j] = votes[j]
      /\ \A j \in DOMAIN votes' : votes'[j].version # v
            => j \in DOMAIN votes /\ votes'[j] = votes[j]
  BY <1>3, <1>5
<1>10. CountersAreVotes'
  <2>1. ASSUME NEW type \in VoteType
        PROVE  count'[v][type] = Cardinality(VotesFor(v, type)')
    <3>1. IsFiniteSet(VotesFor(v, type)) /\ count[v][type] = Cardinality(VotesFor(v, type))
      BY <1>2, <1>4, VotesForFinite DEF CountersAreVotes
    <3>2. CASE type = r.negate
      <4>1. VotesFor(v, type)' = VotesFor(v, type) \ {i} /\ i \in VotesFor(v, type)
        BY <1>3, <1>5, <3>2 DEF VotesFor
      <4>2. Cardinality(VotesFor(v, type) \ {i}) = Cardinality(VotesFor(v, type)) - 1
        BY <3>1, <4>1, FS_RemoveElement
      <4> QED BY <1>6, <1>7, <3>1, <3>2, <4>1, <4>2
    <3>3. CASE type # r.negate
      <4>1. VotesFor(v, type)' = VotesFor(v, type)
        BY <1>3, <1>5, <3>3 DEF VotesFor
      <4> QED BY <1>6, <1>7, <3>1, <3>3, <4>1
    <3> QED BY <3>2, <3>3
  <2> QED BY <1>2, <1>7, <1>9, <2>1, OtherCounters
<1>11. OneVotePerVersion'
  <2>1. \A u \in User, w \in Version : VotesOf(u, w)' \subseteq VotesOf(u, w)
    BY <1>5 DEF VotesOf
  <2> QED BY <1>4, <2>1 DEF OneVotePerVersion, Loadable
<1>12. \A s \in Thread : \A q : q = request'[s] /\ q # None => UpToDate(q)'
  <2>1. \A w \in Version : w # r.version => count'[w] = count[w]
    BY <1>7
  <2>2. r # None /\ request' = [request EXCEPT ![t] = None]
    BY <1>1
  <2> QED BY <1>9, <2>1, <2>2, OthersUpToDate
<1> QED BY <1>8, <1>10, <1>11, <1>12 DEF VotesInv

\* A vote that becomes one of another type.
LEMMA ChangedVoteInv ==
  ASSUME VotesInv, RequestsApart, NEW t \in Thread, StoreVote(t), NEW r, r = request[t],
         r.negate # None, r.cast # None
  PROVE  VotesInv'
<1> DEFINE v == r.version
<1>1. /\ r # None /\ r.task = "vote" /\ UpToDate(r)
      /\ count' = [count EXCEPT ![v] = Counted(r)]
      /\ request' = [request EXCEPT ![t] = None]
      /\ votes' \in ChangedVotes(r)
  BY StoreVoteStarts
<1>2. /\ r.user \in User /\ v \in Version /\ r.count = count[v]
      /\ r.cast \in VoteType /\ r.cast # r.negate
  BY <1>1 DEF UpToDate
<1>3. PICK i \in DOMAIN votes :
        /\ r.found = {i} /\ votes[i].user = r.user /\ votes[i].version = v
        /\ votes[i].type = r.negate
  BY <1>1, FoundOne
<1>4. /\ VotesTyped /\ CountersAreVotes /\ OneVotePerVersion
      /\ \A type \in VoteType : count[v][type] \in Int
      /\ r.negate \in VoteType
      /\ votes[i] \in [user : User, version : Version, type : VoteType]
  BY <1>2, <1>3 DEF VotesInv, VotesTyped
<1>5. /\ DOMAIN votes' = DOMAIN votes
      /\ votes'[i] = [votes[i] EXCEPT !.type = r.cast]
      /\ \A j \in DOMAIN votes : j # i => votes'[j] = votes[j]
      /\ votes' = [j \in DOMAIN votes' |-> votes'[j]]
  BY <1>1, <1>3 DEF ChangedVotes
<1>6. /\ votes'[i].user = r.user /\ votes'[i].version = v /\ votes'[i].type = r.cast
      /\ votes'[i] \in [user : User, version : Version, type : VoteType]
  BY <1>2, <1>3, <1>4, <1>5
<1>7. /\ Counted(r) \in [VoteType -> Int]
      /\ \A type \in VoteType :
            Counted(r)[type] = IF type = r.cast THEN count[v][type] + 1
                               ELSE IF type = r.negate THEN count[v][type] - 1
                               ELSE count[v][type]
  BY <1>2, <1>4 DEF Counted
<1>8. /\ count' \in [Version -> [VoteType -> Int]]
      /\ \A w \in Version : w # v => count'[w] = count[w]
      /\ count'[v] = Counted(r)
  BY <1>1, <1>2, <1>4, <1>7 DEF VotesTyped
<1>9. VotesTyped'
  <2>1. \A j \in DOMAIN votes' : votes'[j] \in [user : User, version : Version, type : VoteType]
    BY <1>4, <1>5, <1>6 DEF VotesTyped
  <2>2. request' = [s \in Thread |-> request'[s]]
    BY <1>1, <1>4 DEF VotesTyped
  <2> QED BY <1>4, <1>5, <1>8, <2>1, <2>2 DEF VotesTyped
<1>10. /\ \A j \in DOMAIN votes : votes[j].version # v
             => j \in DOMAIN votes' /\ votes'[j] = votes[j]
       /\ \A j \in DOMAIN votes' : votes'[j].version # v
             => j \in DOMAIN votes /\ votes'[j] = votes[j]
  BY <1>3, <1>5, <1>6
<1>11. CountersAreVotes'
  <2>1. ASSUME NEW type \in VoteType
        PROVE  count'[v][type] = Cardinality(VotesFor(v, type)')
    <3>1. IsFiniteSet(VotesFor(v, type)) /\ count[v][type] = Cardinality(VotesFor(v, type))
      BY <1>2, <1>4, VotesForFinite DEF CountersAreVotes
    <3>2. CASE type = r.cast
      <4>1. VotesFor(v, type)' = VotesFor(v, type) \cup {i} /\ i \notin VotesFor(v, type)
        BY <1>2, <1>3, <1>5, <1>6, <3>2 DEF VotesFor
      <4>2. Cardinality(VotesFor(v, type) \cup {i}) = Cardinality(VotesFor(v, type)) + 1
        BY <3>1, <4>1, FS_AddElement
      <4> QED BY <1>7, <1>8, <3>1, <3>2, <4>1, <4>2
    <3>3. CASE type = r.negate
      <4>1. VotesFor(v, type)' = VotesFor(v, type) \ {i} /\ i \in VotesFor(v, type)
        BY <1>2, <1>3, <1>5, <1>6, <3>3 DEF VotesFor
      <4>2. Cardinality(VotesFor(v, type) \ {i}) = Cardinality(VotesFor(v, type)) - 1
        BY <3>1, <4>1, FS_RemoveElement
      <4> QED BY <1>2, <1>7, <1>8, <3>1, <3>3, <4>1, <4>2
    <3>4. CASE type # r.cast /\ type # r.negate
      <4>1. VotesFor(v, type)' = VotesFor(v, type)
        BY <1>3, <1>5, <1>6, <3>4 DEF VotesFor
      <4> QED BY <1>7, <1>8, <3>1, <3>4, <4>1
    <3> QED BY <3>2, <3>3, <3>4
  <2> QED BY <1>2, <1>8, <1>10, <2>1, OtherCounters
<1>12. OneVotePerVersion'
  <2>1. \A u \in User, w \in Version : VotesOf(u, w)' \subseteq VotesOf(u, w)
    BY <1>3, <1>5, <1>6 DEF VotesOf
  <2> QED BY <1>4, <2>1 DEF OneVotePerVersion, Loadable
<1>13. \A s \in Thread : \A q : q = request'[s] /\ q # None => UpToDate(q)'
  <2>1. \A w \in Version : w # r.version => count'[w] = count[w]
    BY <1>8
  <2>2. r # None /\ request' = [request EXCEPT ![t] = None]
    BY <1>1
  <2> QED BY <1>10, <2>1, <2>2, OthersUpToDate
<1> QED BY <1>9, <1>11, <1>12, <1>13 DEF VotesInv

LEMMA VotesStep ==
  ASSUME VotesInv, RequestsApart, [Next]_vars
  PROVE  VotesInv'
<1>1. ASSUME NEW t \in Thread, NEW u \in User, NEW v \in Version, NEW cast \in VoteType,
             LoadVote(t, u, v, cast)
      PROVE  VotesInv'
  BY <1>1, LoadVoteInv
<1>2. ASSUME NEW t \in Thread, NEW u \in User, NEW v \in Version, LoadUnvote(t, u, v)
      PROVE  VotesInv'
  BY <1>2, LoadUnvoteInv
<1>3. ASSUME NEW t \in Thread, NEW author, NEW v \in Version, NEW children, NEW links,
             LoadEdit(t, author, v, children, links)
      PROVE  VotesInv'
  BY <1>3, LoadEditInv
<1>4. ASSUME NEW t \in Thread, StoreVote(t) PROVE VotesInv'
  BY <1>4, NewVoteInv, RevokedVoteInv, ChangedVoteInv
<1>5. ASSUME NEW t \in Thread, StoreEdit(t) PROVE VotesInv'
  BY <1>5, StoreEditInv
<1>6. ASSUME votes' = votes, count' = count, request' = request PROVE VotesInv'
  <2>1. VotesTyped' /\ CountersAreVotes' /\ OneVotePerVersion'
    BY <1>6 DEF VotesInv, VotesTyped, CountersAreVotes, VotesFor, OneVotePerVersion, Loadable,
                VotesOf
  <2>2. ASSUME NEW s \in Thread, NEW q, q = request'[s], q # None PROVE UpToDate(q)'
    <3>1. UpToDate(q)
      BY <1>6, <2>2 DEF VotesInv
    <3> QED BY <1>6, <3>1 DEF UpToDate, VotesOf
  <2> QED BY <2>1, <2>2 DEF VotesInv
<1>7. ASSUME NEW t, NEW d, Publish(t, d) PROVE VotesInv'
  BY <1>6, <1>7 DEF Publish
<1>8. CASE UNCHANGED vars
  BY <1>6, <1>8 DEF vars
<1> QED BY <1>1, <1>2, <1>3, <1>4, <1>5, <1>7, <1>8 DEF Next

-----------------------------------------------------------------------------
(***************************************************************************)
(* The points: the inductive invariant, with one request after the other.  *)
(***************************************************************************)
\* Requests that are served one after the other.
OneThread == \A s, t \in Thread : s = t

\* The texts and owners, what drafts and requests have of them, and that nobody votes on
\* a subject.
PaymentsTyped ==
    /\ text \in [Version -> SUBSET Version]
    /\ edgeOwners = [v \in Version |-> edgeOwners[v]]
    /\ points \in [Author -> Int]
    /\ \A d \in draft : d.version \in Version /\ d.text \subseteq Version
    /\ \A i \in DOMAIN votes : Kind[votes[i].version] # "subject"
    /\ \A t \in Thread : request[t] # None /\ request[t].task = "edit" =>
            request[t].text \subseteq Version

\* A vote pays by the text, the owners and the points as they are when it is stored.
PaysAsItIs ==
    \A t \in Thread : LET r == request[t] IN
        r # None /\ r.task = "vote" =>
            /\ Kind[r.version] # "subject"
            /\ r.text = text[r.version] /\ r.edgeOwners = edgeOwners[r.version]
            /\ r.points = points

PointsInv == VotesInv /\ PaymentsTyped /\ PaysAsItIs

LEMMA ApartAlone == OneThread => RequestsApart
BY DEF OneThread, RequestsApart

LEMMA PointsInit == Init => PointsInv
<1> SUFFICES ASSUME Init PROVE PointsInv
  OBVIOUS
<1>1. VotesInv
  BY InitVotes
<1>2. text \in [Version -> SUBSET Version] /\ edgeOwners = [v \in Version |-> edgeOwners[v]]
  BY VotesAssumption DEF Init
<1>3. points \in [Author -> Int] /\ draft = {} /\ DOMAIN votes = {}
  BY DEF Init
<1>4. \A t \in Thread : request[t] = None
  BY DEF Init
<1> QED BY <1>1, <1>2, <1>3, <1>4 DEF PointsInv, PaymentsTyped, PaysAsItIs

\* A request that is the only one, and nothing stored.
LEMMA OnlyRead ==
  ASSUME PointsInv, OneThread, NEW t \in Thread, NEW q, request' = [request EXCEPT ![t] = q],
         UNCHANGED <<text, draft, edgeOwners, votes, count, points>>,
         q = None \/ UpToDate(q),
         q # None /\ q.task = "edit" => q.text \subseteq Version,
         q # None /\ q.task = "vote" => /\ Kind[q.version] # "subject"
                                        /\ q.text = text[q.version]
                                        /\ q.edgeOwners = edgeOwners[q.version]
                                        /\ q.points = points
  PROVE  PointsInv'
<1>1. VotesInv'
  BY NothingStored DEF PointsInv
<1>2. \A s \in Thread : request'[s] = q
  <2>1. request = [s \in Thread |-> request[s]]
    BY DEF PointsInv, VotesInv, VotesTyped
  <2> QED BY <2>1 DEF OneThread
<1>3. PaymentsTyped'
  BY <1>2 DEF PointsInv, PaymentsTyped
<1>4. PaysAsItIs'
  BY <1>2 DEF PaysAsItIs
<1> QED BY <1>1, <1>3, <1>4 DEF PointsInv

LEMMA LoadVotePoints ==
  ASSUME PointsInv, OneThread, NEW t \in Thread, NEW u \in User, NEW v \in Version,
         NEW cast \in VoteType, LoadVote(t, u, v, cast)
  PROVE  PointsInv'
<1> DEFINE q == VoteRead(u, v, cast)
<1>1. UpToDate(q)
  BY ReadUpToDate DEF LoadVote, PointsInv
<1>2. /\ q.task = "vote" /\ q.version = v /\ q.text = text[v] /\ q.edgeOwners = edgeOwners[v]
      /\ q.points = points
  BY DEF VoteRead
<1>3. /\ Kind[v] # "subject" /\ request' = [request EXCEPT ![t] = q]
      /\ UNCHANGED <<text, draft, edgeOwners, votes, count, points>>
  BY DEF LoadVote
<1> HIDE DEF q
<1> QED BY <1>1, <1>2, <1>3, OnlyRead

LEMMA LoadUnvotePoints ==
  ASSUME PointsInv, OneThread, NEW t \in Thread, NEW u \in User, NEW v \in Version,
         LoadUnvote(t, u, v)
  PROVE  PointsInv'
<1> DEFINE q == VoteRead(u, v, None)
<1>1. UpToDate(q)
  BY ReadUpToDate DEF LoadUnvote, PointsInv
<1>2. /\ q.task = "vote" /\ q.version = v /\ q.text = text[v] /\ q.edgeOwners = edgeOwners[v]
      /\ q.points = points
  BY DEF VoteRead
<1>3. /\ Kind[v] # "subject" /\ request' = [request EXCEPT ![t] = q]
      /\ UNCHANGED <<text, draft, edgeOwners, votes, count, points>>
  BY DEF LoadUnvote
<1> HIDE DEF q
<1> QED BY <1>1, <1>2, <1>3, OnlyRead

LEMMA LoadEditPoints ==
  ASSUME PointsInv, OneThread, NEW t \in Thread, NEW author, NEW v \in Version,
         NEW children \in ChildSets, NEW links \in TextsFor(v, children),
         LoadEdit(t, author, v, children, links)
  PROVE  PointsInv'
<1> DEFINE q == [task |-> "edit", author |-> author, version |-> v, children |-> children,
                 text |-> links, edgeOwners |-> edgeOwners[v], count |-> count[v]]
<1>1. UpToDate(q)
  BY DEF UpToDate
<1>2. q.task = "edit" /\ q.text = links
  OBVIOUS
<1>3. links \subseteq Version
  BY VotesAssumption DEF TextsFor
<1>4. /\ request' = [request EXCEPT ![t] = q]
      /\ UNCHANGED <<text, draft, edgeOwners, votes, count, points>>
  BY DEF LoadEdit
<1> HIDE DEF q
<1> QED BY <1>1, <1>2, <1>3, <1>4, OnlyRead

\* After a request has stored what it had to there is none.
LEMMA NoRequest ==
  ASSUME PointsInv, OneThread, NEW t \in Thread, request' = [request EXCEPT ![t] = None]
  PROVE  \A s \in Thread : request'[s] = None
<1>1. request = [s \in Thread |-> request[s]]
  BY DEF PointsInv, VotesInv, VotesTyped
<1> QED BY <1>1 DEF OneThread

LEMMA StoreEditPoints ==
  ASSUME PointsInv, OneThread, NEW t \in Thread, StoreEdit(t)
  PROVE  PointsInv'
<1> DEFINE r == request[t]
<1>1. VotesInv'
  BY StoreEditInv DEF PointsInv
<1>2. /\ r # None /\ r.task = "edit" /\ request' = [request EXCEPT ![t] = None]
      /\ draft' = draft \cup {[version |-> r.version, text |-> r.text]}
      /\ UNCHANGED <<text, votes, points>>
      /\ edgeOwners' = edgeOwners \/ edgeOwners' = [edgeOwners EXCEPT ![r.version] = MergedOwners(r)]
  BY DEF StoreEdit
<1>3. r.version \in Version /\ r.text \subseteq Version
  BY <1>2 DEF PointsInv, VotesInv, UpToDate, PaymentsTyped
<1>4. \A s \in Thread : request'[s] = None
  BY <1>2, NoRequest
<1>5. PaymentsTyped
  BY DEF PointsInv
<1> HIDE DEF r
<1>6. edgeOwners' = [v \in Version |-> edgeOwners'[v]]
  BY <1>2, <1>5 DEF PaymentsTyped
<1>7. \A d \in draft' : d.version \in Version /\ d.text \subseteq Version
  BY <1>2, <1>3, <1>5 DEF PaymentsTyped
<1>8. PaymentsTyped'
  BY <1>2, <1>4, <1>5, <1>6, <1>7 DEF PaymentsTyped
<1>9. PaysAsItIs'
  BY <1>4 DEF PaysAsItIs
<1> QED BY <1>1, <1>8, <1>9 DEF PointsInv

LEMMA PublishPoints ==
  ASSUME PointsInv, OneThread, NEW t \in Thread, NEW d \in draft, Publish(t, d)
  PROVE  PointsInv'
<1>1. VotesInv'
  <2>1. [Next]_vars
    BY DEF Next
  <2> QED BY <2>1, VotesStep, ApartAlone DEF PointsInv
<1>2. /\ request[t] = None /\ text' = [text EXCEPT ![d.version] = d.text] /\ draft' \subseteq draft
      /\ UNCHANGED <<edgeOwners, votes, count, points, request>>
  BY DEF Publish
<1>3. \A s \in Thread : request'[s] = None
  BY <1>2 DEF OneThread
<1>4. PaymentsTyped'
  BY <1>2, <1>3 DEF PointsInv, PaymentsTyped
<1> QED BY <1>1, <1>3, <1>4 DEF PointsInv, PaysAsItIs

-----------------------------------------------------------------------------
(***************************************************************************)
(* What a vote pays is what it is worth.                                   *)
(***************************************************************************)
\* What a vote of a type is worth to a, or no vote.
Base(type) == [GREAT |-> 10, WEAK |-> 2, TOUCHE |-> 6, TRASH |-> -4][type]
Factor(a, v) ==
    IF Kind[v] = "assertion" THEN IF EdgesOf(a, v) < 3 THEN EdgesOf(a, v) ELSE 3
    ELSE IF Kind[v] = "interpretation" THEN IF EdgesOf(a, v) > 0 THEN 2 ELSE 0
    ELSE IF a = Founder[v] THEN 2 ELSE 0
Value(a, v, type) == IF type = None THEN 0 ELSE Base(type) * Factor(a, v)

LEMMA BaseIs == \A type \in VoteType : Base(type) \in Int /\ BaseValue(type) = Base(type)
BY DEF VoteType, Base, BaseValue

LEMMA EdgesCounted ==
  ASSUME PaymentsTyped, NEW a, NEW v \in Version
  PROVE  /\ EdgesOf(a, v) \in Nat
         /\ EdgesOf(a, v) > 0 <=> \E w \in text[v] \cap DOMAIN edgeOwners[v] : edgeOwners[v][w] = a
         /\ Factor(a, v) \in Nat
<1> DEFINE E == {w \in text[v] \cap DOMAIN edgeOwners[v] : edgeOwners[v][w] = a}
<1>1. E \in SUBSET Version
  BY DEF PaymentsTyped
<1>2. IsFiniteSet(E)
  BY <1>1, VotesAssumption, FS_Subset
<1>3. Cardinality(E) \in Nat /\ (Cardinality(E) = 0 <=> E = {})
  BY <1>2, FS_CardinalityType, FS_EmptySet
<1>4. EdgesOf(a, v) \in Nat /\ (EdgesOf(a, v) > 0 <=> E # {})
  BY <1>3 DEF EdgesOf
<1>5. Factor(a, v) \in Nat
  BY <1>4 DEF Factor
<1> QED BY <1>4, <1>5

LEMMA WorthIs ==
  ASSUME PointsInv, NEW a, NEW i \in DOMAIN votes
  PROVE  /\ Worth(a, i) = Value(a, votes[i].version, votes[i].type)
         /\ Worth(a, i) \in Int
<1> DEFINE v == votes[i].version
           type == votes[i].type
           edges == EdgesOf(a, v)
<1>1. v \in Version /\ type \in VoteType
  BY DEF PointsInv, VotesInv, VotesTyped
<1>2. /\ edges = EdgesOf(a, v) /\ EdgesOf(a, v) \in Nat /\ Factor(a, v) \in Nat
      /\ Base(type) \in Int /\ type # None
  <2>1. edges = EdgesOf(a, v)
    OBVIOUS
  <2>2. PaymentsTyped
    BY DEF PointsInv
  <2> HIDE DEF v, type, edges
  <2>3. EdgesOf(a, v) \in Nat /\ Factor(a, v) \in Nat
    BY <1>1, <2>2, EdgesCounted
  <2>4. Base(type) \in Int /\ type # None
    BY <1>1, BaseIs, VotesAssumption
  <2> QED BY <2>1, <2>3, <2>4
<1>3. Worth(a, i) =
        CASE Kind[v] = "assertion" -> Base(type) * (IF edges < 3 THEN edges ELSE 3)
          [] Kind[v] = "interpretation" -> IF edges > 0 THEN 2 * Base(type) ELSE 0
          [] OTHER -> IF a = Founder[v] THEN 2 * Base(type) ELSE 0
  BY DEF Worth, Base
<1> HIDE DEF v, type, edges
<1>4. Worth(a, i) = Base(type) * Factor(a, v)
  <2>1. CASE Kind[v] = "assertion"
    BY <1>2, <1>3, <2>1 DEF Factor
  <2>2. CASE Kind[v] = "interpretation"
    BY <1>2, <1>3, <2>2 DEF Factor
  <2>3. CASE Kind[v] # "assertion" /\ Kind[v] # "interpretation"
    BY <1>2, <1>3, <2>3 DEF Factor
  <2> QED BY <2>1, <2>2, <2>3
<1>5. Worth(a, i) = Value(a, v, type) /\ Worth(a, i) \in Int
  BY <1>2, <1>4 DEF Value
<1> QED BY <1>5 DEF v, type

\* updateScore, of a request that has read what is stored.
Change(r, a) == IF a \in Paid(r) THEN Award(r, a) ELSE 0
LEMMA PaidIs ==
  ASSUME PointsInv, NEW t \in Thread, NEW r, r = request[t], r # None, r.task = "vote",
         NEW a \in Author
  PROVE  /\ ControlledBy[a] = r.user => Change(r, a) = 0
         /\ ControlledBy[a] # r.user =>
                Change(r, a) = Value(a, r.version, r.cast) - Value(a, r.version, r.negate)
         /\ Value(a, r.version, r.cast) \in Int /\ Value(a, r.version, r.negate) \in Int
<1> DEFINE v == r.version
<1>1. UpToDate(r)
  BY DEF PointsInv, VotesInv
<1>2. v \in Version /\ r.cast \in VoteType \cup {None}
  BY <1>1 DEF UpToDate
<1>3. r.negate \in VoteType \cup {None}
  <2>1. CASE r.negate = None
    BY <2>1
  <2>2. CASE r.negate # None
    <3>1. PICK i \in DOMAIN votes : votes[i].type = r.negate
      BY <1>1, <2>2, FoundOne DEF PointsInv
    <3> QED BY <3>1 DEF PointsInv, VotesInv, VotesTyped
  <2> QED BY <2>1, <2>2
<1>4. Kind[v] # "subject" /\ r.text = text[v] /\ r.edgeOwners = edgeOwners[v]
  BY DEF PointsInv, PaysAsItIs
<1>5. Kind[v] \in VersionKind
  BY <1>2, VotesAssumption
<1>6. /\ EdgesOf(a, v) \in Nat /\ Factor(a, v) \in Nat
      /\ EdgesOf(a, v) > 0 <=> \E w \in text[v] \cap DOMAIN edgeOwners[v] : edgeOwners[v][w] = a
  BY <1>2, EdgesCounted DEF PointsInv
<1> DEFINE edges == Cardinality(OwnedBy(a, r.text, r.edgeOwners))
           m == Multiplier(Kind[v], edges)
<1>7. edges = EdgesOf(a, v)
  BY <1>4 DEF OwnedBy, EdgesOf
<1>8. \A type \in VoteType \cup {None} :
        Points(type, Kind[v], edges) = IF type = None THEN 0 ELSE Base(type) * m
  BY BaseIs, VotesAssumption DEF Points
<1>9. Award(r, a) = Points(r.cast, Kind[v], edges) - Points(r.negate, Kind[v], edges)
  BY DEF Award
<1>10. a \in Paid(r) <=>
          /\ ControlledBy[a] # r.user
          /\ IF Kind[v] = "source" THEN a = Founder[v] ELSE EdgesOf(a, v) > 0
  BY <1>4, <1>6 DEF Paid, Earners
<1>11. m = IF Kind[v] = "assertion" THEN IF EdgesOf(a, v) > 3 THEN 3 ELSE EdgesOf(a, v) ELSE 2
  BY <1>7 DEF Multiplier
<1> HIDE DEF edges, m, v
<1>12. \A type \in VoteType : Base(type) \in Int
  BY BaseIs
<1>13. (IF Kind[v] = "source" THEN a = Founder[v] ELSE EdgesOf(a, v) > 0) => m = Factor(a, v)
  BY <1>4, <1>5, <1>6, <1>11 DEF Factor, VersionKind, LeafKind
<1>14. ~(IF Kind[v] = "source" THEN a = Founder[v] ELSE EdgesOf(a, v) > 0) => Factor(a, v) = 0
  BY <1>4, <1>5, <1>6 DEF Factor, VersionKind, LeafKind
<1>15. Value(a, v, r.cast) \in Int /\ Value(a, v, r.negate) \in Int
  BY <1>2, <1>3, <1>6, <1>12 DEF Value
<1>16. ControlledBy[a] = r.user => Change(r, a) = 0
  BY <1>10 DEF Change
<1>17. ControlledBy[a] # r.user => Change(r, a) = Value(a, v, r.cast) - Value(a, v, r.negate)
  <2> SUFFICES ASSUME ControlledBy[a] # r.user
               PROVE  Change(r, a) = Value(a, v, r.cast) - Value(a, v, r.negate)
    OBVIOUS
  <2>1. CASE a \in Paid(r)
    <3>1. m = Factor(a, v)
      BY <1>10, <1>13, <2>1
    <3>2. /\ Points(r.cast, Kind[v], edges) = Value(a, v, r.cast)
          /\ Points(r.negate, Kind[v], edges) = Value(a, v, r.negate)
      BY <1>2, <1>3, <1>8, <3>1 DEF Value
    <3> QED BY <1>9, <2>1, <3>2 DEF Change
  <2>2. CASE a \notin Paid(r)
    <3>1. Factor(a, v) = 0
      BY <1>10, <1>14, <2>2
    <3>2. Value(a, v, r.cast) = 0 /\ Value(a, v, r.negate) = 0
      BY <1>2, <1>3, <1>12, <3>1 DEF Value
    <3> QED BY <2>2, <3>2 DEF Change
  <2> QED BY <2>1, <2>2
<1> QED BY <1>15, <1>16, <1>17 DEF v

-----------------------------------------------------------------------------
(***************************************************************************)
(* The sums before and after.                                              *)
(***************************************************************************)
Worths(a) == [i \in DOMAIN votes |-> Worth(a, i)]
OfOthers(a) == {i \in DOMAIN votes : votes[i].user # ControlledBy[a]}

\* What the sums are made of.
SumFacts ==
    \A a \in Author :
        /\ \A i \in DOMAIN votes :
            Worths(a)[i] = Value(a, votes[i].version, votes[i].type) /\ Worths(a)[i] \in Int
        /\ \A S \in SUBSET DOMAIN votes : Summable(Worths(a), S)
        /\ OfOthers(a) \in SUBSET DOMAIN votes
        /\ Earned(a) = SumFunctionOnSet(Worths(a), OfOthers(a)) /\ Earned(a) \in Int

LEMMA SumsNow == PointsInv => SumFacts
<1> SUFFICES ASSUME PointsInv, NEW a \in Author
             PROVE  /\ \A i \in DOMAIN votes :
                        /\ Worths(a)[i] = Value(a, votes[i].version, votes[i].type)
                        /\ Worths(a)[i] \in Int
                    /\ \A S \in SUBSET DOMAIN votes : Summable(Worths(a), S)
                    /\ OfOthers(a) \in SUBSET DOMAIN votes
                    /\ Earned(a) = SumFunctionOnSet(Worths(a), OfOthers(a)) /\ Earned(a) \in Int
  BY DEF SumFacts
<1>1. \A i \in DOMAIN votes :
        Worths(a)[i] = Value(a, votes[i].version, votes[i].type) /\ Worths(a)[i] \in Int
  BY WorthIs DEF Worths
<1>2. IsFiniteSet(DOMAIN votes)
  BY DEF PointsInv, VotesInv, VotesTyped
<1>3. \A S \in SUBSET DOMAIN votes : Summable(Worths(a), S)
  BY <1>1, <1>2, FS_Subset DEF Summable
<1>4. OfOthers(a) \in SUBSET DOMAIN votes
  BY DEF OfOthers
<1>5. Earned(a) = SumFunctionOnSet(Worths(a), OfOthers(a))
  BY DEF Earned, Worths, OfOthers
<1>6. SumFunctionOnSet(Worths(a), OfOthers(a)) \in Int
  BY <1>3, <1>4, SumInt
<1> QED BY <1>1, <1>3, <1>4, <1>5, <1>6

LEMMA SumsNext == PointsInv' => SumFacts'
BY SumsNow, PTL

\* What a vote is worth afterwards, where texts and owners stay.
LEMMA WorthNext ==
  ASSUME PointsInv', UNCHANGED <<text, edgeOwners>>, NEW a \in Author, NEW i \in DOMAIN votes'
  PROVE  Worths(a)'[i] = Value(a, votes'[i].version, votes'[i].type)
<1>1. SumFacts'
  BY SumsNext
<1>2. Worths(a)'[i] = Value(a, votes[i].version, votes[i].type)'
  BY <1>1 DEF SumFacts
<1> QED BY <1>2 DEF Value, Factor, EdgesOf

LEMMA WorthKept ==
  ASSUME UNCHANGED <<text, edgeOwners>>, NEW a, NEW i \in DOMAIN votes, i \in DOMAIN votes',
         votes'[i] = votes[i]
  PROVE  Worths(a)'[i] = Worths(a)[i]
BY DEF Worths, Worth, EdgesOf

\* Where nobody votes, an author with the same edges has earned the same.
LEMMA NothingEarned ==
  ASSUME PointsInv, UNCHANGED <<votes, points>>, NEW a \in Author, EdgesStay(a)
  PROVE  points'[a] - points[a] = Earned(a)' - Earned(a)
<1>1. \A i \in DOMAIN votes : Worth(a, i)' = Worth(a, i)
  <2> TAKE i \in DOMAIN votes
  <2>1. votes[i].version \in Version
    BY DEF PointsInv, VotesInv, VotesTyped
  <2>2. EdgesOf(a, votes[i].version)' = EdgesOf(a, votes[i].version)
    BY <2>1 DEF EdgesStay, EdgesOf
  <2> QED BY <2>2 DEF Worth
<1>2. Worths(a)' = Worths(a) /\ OfOthers(a)' = OfOthers(a)
  BY <1>1 DEF Worths, OfOthers
<1>3. Earned(a)' = Earned(a)
  <2>1. Earned(a) = SumFunctionOnSet(Worths(a), OfOthers(a))
    BY DEF Earned, Worths, OfOthers
  <2>2. Earned(a)' = SumFunctionOnSet(Worths(a)', OfOthers(a)')
    BY DEF Earned, Worths, OfOthers
  <2> QED BY <1>2, <2>1, <2>2
<1>4. points[a] \in Int /\ Earned(a) \in Int
  BY SumsNow DEF PointsInv, PaymentsTyped, SumFacts
<1> QED BY <1>3, <1>4

\* What the storing of a vote changes.
LEMMA StoreVotePoints ==
  ASSUME PointsInv, OneThread, NEW t \in Thread, StoreVote(t), NEW r, r = request[t]
  PROVE  /\ PointsInv'
         /\ UNCHANGED <<text, edgeOwners>>
         /\ \A a \in Author : points[a] \in Int /\ points'[a] = points[a] + Change(r, a)
<1>1. /\ r # None /\ r.task = "vote" /\ UpToDate(r)
      /\ request' = [request EXCEPT ![t] = None]
  BY StoreVoteStarts DEF PointsInv
<1>2. r.edgeOwners = edgeOwners[r.version] /\ r.points = points /\ Kind[r.version] # "subject"
  BY <1>1 DEF PointsInv, PaysAsItIs
<1>3. /\ points' = [a \in Author |-> IF a \in Paid(r) THEN r.points[a] + Award(r, a) ELSE points[a]]
      /\ edgeOwners' = [edgeOwners EXCEPT ![r.version] = r.edgeOwners]
      /\ UNCHANGED <<text, draft>>
  BY DEF StoreVote
<1>4. PaymentsTyped
  BY DEF PointsInv
<1>5. edgeOwners' = edgeOwners
  BY <1>2, <1>3, <1>4 DEF PaymentsTyped
<1>6. \A a \in Author : points[a] \in Int /\ points'[a] = points[a] + Change(r, a)
  BY <1>2, <1>3, <1>4 DEF PaymentsTyped, Change
<1>7. \A a \in Author : Change(r, a) \in Int
  <2> TAKE a \in Author
  <2>1. /\ ControlledBy[a] = r.user => Change(r, a) = 0
        /\ ControlledBy[a] # r.user =>
                Change(r, a) = Value(a, r.version, r.cast) - Value(a, r.version, r.negate)
        /\ Value(a, r.version, r.cast) \in Int /\ Value(a, r.version, r.negate) \in Int
    BY <1>1, PaidIs
  <2> QED BY <2>1
<1>8. points' \in [Author -> Int]
  BY <1>3, <1>6, <1>7
<1>9. VotesInv'
  <2>1. [Next]_vars
    BY DEF Next
  <2> QED BY <2>1, VotesStep, ApartAlone DEF PointsInv
<1>10. \A s \in Thread : request'[s] = None
  BY <1>1, NoRequest
<1>11. \A i \in DOMAIN votes' : Kind[votes'[i].version] # "subject"
  <2>1. CASE r.negate = None
    <3>1. votes' \in NewVotes(r)
      BY <2>1, StoreVoteStarts DEF PointsInv
    <3>2. r.found = {} /\ VotesOf(r.user, r.version) = {}
      BY <1>1, <2>1 DEF UpToDate
    <3>3. PICK i \in VoteId \ DOMAIN votes :
            votes' = [j \in DOMAIN votes \cup {i} |->
                IF j = i THEN [user |-> r.user, version |-> r.version, type |-> r.cast] ELSE votes[j]]
      BY <3>1, <3>2 DEF NewVotes
    <3> QED BY <1>2, <1>4, <3>3 DEF PaymentsTyped
  <2>2. CASE r.negate # None /\ r.cast = None
    <3>1. votes' \in RevokedVotes(r)
      BY <2>2, StoreVoteStarts DEF PointsInv
    <3> QED BY <1>4, <3>1 DEF PaymentsTyped, RevokedVotes, Restrict
  <2>3. CASE r.negate # None /\ r.cast # None
    <3>1. votes' \in ChangedVotes(r)
      BY <2>3, StoreVoteStarts DEF PointsInv
    <3>2. \A i \in DOMAIN votes : votes[i] \in [user : User, version : Version, type : VoteType]
      BY DEF PointsInv, VotesInv, VotesTyped
    <3>3. \A i \in DOMAIN votes' : i \in DOMAIN votes /\ votes'[i].version = votes[i].version
      BY <3>1, <3>2 DEF ChangedVotes
    <3> QED BY <1>4, <3>3 DEF PaymentsTyped
  <2> QED BY <2>1, <2>2, <2>3
<1>12. PaymentsTyped'
  BY <1>3, <1>4, <1>5, <1>8, <1>10, <1>11 DEF PaymentsTyped
<1>13. PaysAsItIs'
  BY <1>10 DEF PaysAsItIs
<1> QED BY <1>3, <1>5, <1>6, <1>9, <1>12, <1>13 DEF PointsInv

\* A first vote adds a summand, or none for those who vote for themselves.
LEMMA NewVotePays ==
  ASSUME PointsInv, OneThread, NEW t \in Thread, StoreVote(t), NEW r, r = request[t],
         r.negate = None, NEW a \in Author
  PROVE  Earned(a)' - Earned(a) = Change(r, a)
<1> DEFINE v == r.version
           new == [user |-> r.user, version |-> v, type |-> r.cast]
<1>1. /\ r # None /\ r.task = "vote" /\ UpToDate(r) /\ votes' \in NewVotes(r)
  BY StoreVoteStarts DEF PointsInv
<1>2. r.found = {} /\ VotesOf(r.user, v) = {}
  BY <1>1 DEF UpToDate
<1>3. PICK i \in VoteId \ DOMAIN votes :
        votes' = [j \in DOMAIN votes \cup {i} |-> IF j = i THEN new ELSE votes[j]]
  BY <1>1, <1>2 DEF NewVotes
<1>4. new.user = r.user /\ new.version = v /\ new.type = r.cast
  OBVIOUS
<1>5. /\ i \notin DOMAIN votes /\ DOMAIN votes' = DOMAIN votes \cup {i} /\ votes'[i] = new
      /\ \A j \in DOMAIN votes : votes'[j] = votes[j]
  BY <1>3
<1>6. PointsInv' /\ UNCHANGED <<text, edgeOwners>>
  BY StoreVotePoints
<1> HIDE DEF new
<1>7. /\ OfOthers(a)' = IF r.user = ControlledBy[a] THEN OfOthers(a) ELSE OfOthers(a) \cup {i}
      /\ i \notin OfOthers(a)
  BY <1>4, <1>5 DEF OfOthers
<1>8. \A j \in OfOthers(a) : Worths(a)'[j] = Worths(a)[j]
  BY <1>5, <1>6, WorthKept DEF OfOthers
<1>9. Worths(a)'[i] = Value(a, v, r.cast)
  <2>1. Worths(a)'[i] = Value(a, votes'[i].version, votes'[i].type)
    BY <1>5, <1>6, WorthNext
  <2> QED BY <1>4, <1>5, <2>1
<1>10. /\ Earned(a) = SumFunctionOnSet(Worths(a), OfOthers(a)) /\ Earned(a) \in Int
       /\ Earned(a)' = SumFunctionOnSet(Worths(a)', OfOthers(a)') /\ Earned(a)' \in Int
       /\ Summable(Worths(a), OfOthers(a)) /\ Summable(Worths(a)', OfOthers(a)')
  BY <1>6, SumsNow, SumsNext DEF SumFacts
<1>11. SumFunctionOnSet(Worths(a), OfOthers(a)) = SumFunctionOnSet(Worths(a)', OfOthers(a))
  BY <1>8, <1>10, SumSame
<1>12. /\ ControlledBy[a] = r.user => Change(r, a) = 0
       /\ ControlledBy[a] # r.user => Change(r, a) = Value(a, v, r.cast) - Value(a, v, r.negate)
       /\ Value(a, v, r.cast) \in Int
  BY <1>1, PaidIs
<1>13. CASE r.user = ControlledBy[a]
  BY <1>7, <1>10, <1>11, <1>12, <1>13
<1>14. CASE r.user # ControlledBy[a]
  <2>1. i \in OfOthers(a)' /\ OfOthers(a)' \ {i} = OfOthers(a)
    BY <1>7, <1>14
  <2>2. SumFunctionOnSet(Worths(a)', OfOthers(a)')
            = Worths(a)'[i] + SumFunctionOnSet(Worths(a)', OfOthers(a)' \ {i})
    BY <1>10, <2>1, SumWithout
  <2>3. Value(a, v, r.negate) = 0
    BY DEF Value
  <2>4. Earned(a)' = Value(a, v, r.cast) + Earned(a)
    BY <1>9, <1>10, <1>11, <2>1, <2>2
  <2>5. Change(r, a) = Value(a, v, r.cast) - 0
    BY <1>12, <1>14, <2>3
  <2> QED BY <1>10, <1>12, <2>4, <2>5
<1> QED BY <1>13, <1>14

\* A revocation takes a summand away.
LEMMA RevokedVotePays ==
  ASSUME PointsInv, OneThread, NEW t \in Thread, StoreVote(t), NEW r, r = request[t],
         r.negate # None, r.cast = None, NEW a \in Author
  PROVE  Earned(a)' - Earned(a) = Change(r, a)
<1> DEFINE v == r.version
<1>1. /\ r # None /\ r.task = "vote" /\ UpToDate(r) /\ votes' \in RevokedVotes(r)
  BY StoreVoteStarts DEF PointsInv
<1>2. PICK i \in DOMAIN votes :
        /\ r.found = {i} /\ votes[i].user = r.user /\ votes[i].version = v
        /\ votes[i].type = r.negate
  BY <1>1, FoundOne DEF PointsInv
<1>3. /\ DOMAIN votes' = DOMAIN votes \ {i}
      /\ \A j \in DOMAIN votes' : votes'[j] = votes[j]
  BY <1>1, <1>2 DEF RevokedVotes, Restrict
<1>4. PointsInv' /\ UNCHANGED <<text, edgeOwners>>
  BY StoreVotePoints
<1>5. /\ OfOthers(a)' = OfOthers(a) \ {i}
      /\ i \in OfOthers(a) <=> r.user # ControlledBy[a]
  BY <1>2, <1>3 DEF OfOthers
<1>6. \A j \in OfOthers(a)' : Worths(a)'[j] = Worths(a)[j]
  BY <1>3, <1>4, WorthKept DEF OfOthers
<1>7. Worths(a)[i] = Value(a, v, r.negate)
  BY <1>2, SumsNow DEF SumFacts
<1>8. /\ Earned(a) = SumFunctionOnSet(Worths(a), OfOthers(a)) /\ Earned(a) \in Int
      /\ Earned(a)' = SumFunctionOnSet(Worths(a)', OfOthers(a)') /\ Earned(a)' \in Int
      /\ Summable(Worths(a), OfOthers(a)) /\ Summable(Worths(a)', OfOthers(a)')
  BY <1>4, SumsNow, SumsNext DEF SumFacts
<1>9. SumFunctionOnSet(Worths(a)', OfOthers(a)') = SumFunctionOnSet(Worths(a), OfOthers(a)')
  BY <1>6, <1>8, SumSame
<1>10. /\ ControlledBy[a] = r.user => Change(r, a) = 0
       /\ ControlledBy[a] # r.user => Change(r, a) = Value(a, v, r.cast) - Value(a, v, r.negate)
       /\ Value(a, v, r.negate) \in Int
  BY <1>1, PaidIs
<1>11. CASE r.user = ControlledBy[a]
  <2>1. OfOthers(a)' = OfOthers(a)
    BY <1>5, <1>11
  <2> QED BY <1>8, <1>9, <1>10, <1>11, <2>1
<1>12. CASE r.user # ControlledBy[a]
  <2>1. SumFunctionOnSet(Worths(a), OfOthers(a))
            = Worths(a)[i] + SumFunctionOnSet(Worths(a), OfOthers(a) \ {i})
    BY <1>5, <1>8, <1>12, SumWithout
  <2>2. Value(a, v, r.cast) = 0
    BY DEF Value
  <2>3. Earned(a) = Value(a, v, r.negate) + Earned(a)'
    BY <1>5, <1>7, <1>8, <1>9, <2>1
  <2>4. Change(r, a) = 0 - Value(a, v, r.negate)
    BY <1>10, <1>12, <2>2
  <2> QED BY <1>8, <1>10, <2>3, <2>4
<1> QED BY <1>11, <1>12

\* A changed vote is another summand.
LEMMA ChangedVotePays ==
  ASSUME PointsInv, OneThread, NEW t \in Thread, StoreVote(t), NEW r, r = request[t],
         r.negate # None, r.cast # None, NEW a \in Author
  PROVE  Earned(a)' - Earned(a) = Change(r, a)
<1> DEFINE v == r.version
<1>1. /\ r # None /\ r.task = "vote" /\ UpToDate(r) /\ votes' \in ChangedVotes(r)
  BY StoreVoteStarts DEF PointsInv
<1>2. PICK i \in DOMAIN votes :
        /\ r.found = {i} /\ votes[i].user = r.user /\ votes[i].version = v
        /\ votes[i].type = r.negate
  BY <1>1, FoundOne DEF PointsInv
<1>3. /\ DOMAIN votes' = DOMAIN votes
      /\ votes'[i] = [votes[i] EXCEPT !.type = r.cast]
      /\ \A j \in DOMAIN votes : j # i => votes'[j] = votes[j]
  BY <1>1, <1>2 DEF ChangedVotes
<1>4. votes'[i].user = r.user /\ votes'[i].version = v /\ votes'[i].type = r.cast
  <2>1. votes[i] \in [user : User, version : Version, type : VoteType]
    BY <1>2 DEF PointsInv, VotesInv, VotesTyped
  <2> QED BY <1>2, <1>3, <2>1
<1>5. PointsInv' /\ UNCHANGED <<text, edgeOwners>>
  BY StoreVotePoints
<1>6. /\ OfOthers(a)' = OfOthers(a)
      /\ i \in OfOthers(a) <=> r.user # ControlledBy[a]
  <2>1. \A j \in DOMAIN votes : votes'[j].user = votes[j].user
    BY <1>2, <1>3, <1>4
  <2> QED BY <1>2, <1>3, <2>1 DEF OfOthers
<1>7. \A j \in OfOthers(a) \ {i} : Worths(a)'[j] = Worths(a)[j]
  BY <1>3, <1>5, WorthKept DEF OfOthers
<1>8. Worths(a)[i] = Value(a, v, r.negate) /\ Worths(a)'[i] = Value(a, v, r.cast)
  <2>1. Worths(a)[i] = Value(a, v, r.negate)
    BY <1>2, SumsNow DEF SumFacts
  <2>2. Worths(a)'[i] = Value(a, v, r.cast)
    <3>1. Worths(a)'[i] = Value(a, votes'[i].version, votes'[i].type)
      BY <1>2, <1>3, <1>5, WorthNext
    <3> QED BY <1>4, <3>1
  <2> QED BY <2>1, <2>2
<1>9. /\ Earned(a) = SumFunctionOnSet(Worths(a), OfOthers(a)) /\ Earned(a) \in Int
      /\ Earned(a)' = SumFunctionOnSet(Worths(a)', OfOthers(a)) /\ Earned(a)' \in Int
      /\ Summable(Worths(a), OfOthers(a)) /\ Summable(Worths(a)', OfOthers(a))
  BY <1>5, <1>6, SumsNow, SumsNext DEF SumFacts
<1>10. /\ ControlledBy[a] = r.user => Change(r, a) = 0
       /\ ControlledBy[a] # r.user => Change(r, a) = Value(a, v, r.cast) - Value(a, v, r.negate)
       /\ Value(a, v, r.negate) \in Int /\ Value(a, v, r.cast) \in Int
  BY <1>1, PaidIs
<1>11. CASE r.user = ControlledBy[a]
  <2>1. \A j \in OfOthers(a) : Worths(a)[j] = Worths(a)'[j]
    BY <1>6, <1>7, <1>11
  <2>2. SumFunctionOnSet(Worths(a), OfOthers(a)) = SumFunctionOnSet(Worths(a)', OfOthers(a))
    BY <1>9, <2>1, SumSame
  <2> QED BY <1>9, <1>10, <1>11, <2>2
<1>12. CASE r.user # ControlledBy[a]
  <2> DEFINE rest == OfOthers(a) \ {i}
  <2>1. /\ SumFunctionOnSet(Worths(a), OfOthers(a)) = Worths(a)[i] + SumFunctionOnSet(Worths(a), rest)
        /\ SumFunctionOnSet(Worths(a)', OfOthers(a))
                = Worths(a)'[i] + SumFunctionOnSet(Worths(a)', rest)
    BY <1>6, <1>9, <1>12, SumWithout
  <2>2. rest \in SUBSET OfOthers(a)
    OBVIOUS
  <2>3. Summable(Worths(a), rest)
    BY <1>9, <2>2, Smaller
  <2>4. SumFunctionOnSet(Worths(a), rest) \in Int
    BY <2>3, SumInt
  <2>5. SumFunctionOnSet(Worths(a), rest) = SumFunctionOnSet(Worths(a)', rest)
    BY <1>7, <2>3, SumSame
  <2>6. Change(r, a) = Value(a, v, r.cast) - Value(a, v, r.negate)
    BY <1>10, <1>12
  <2> HIDE DEF rest
  <2> QED BY <1>8, <1>9, <1>10, <2>1, <2>4, <2>5, <2>6
<1> QED BY <1>11, <1>12

LEMMA PointsStep ==
  ASSUME PointsInv, OneThread, [Next]_vars
  PROVE  /\ PointsInv'
         /\ \A a \in Author : EdgesStay(a) => points'[a] - points[a] = Earned(a)' - Earned(a)
<1>1. ASSUME NEW t \in Thread, NEW u \in User, NEW v \in Version, NEW cast \in VoteType,
             LoadVote(t, u, v, cast)
      PROVE  PointsInv' /\ UNCHANGED <<votes, points>>
  BY <1>1, LoadVotePoints DEF LoadVote
<1>2. ASSUME NEW t \in Thread, NEW u \in User, NEW v \in Version, LoadUnvote(t, u, v)
      PROVE  PointsInv' /\ UNCHANGED <<votes, points>>
  BY <1>2, LoadUnvotePoints DEF LoadUnvote
<1>3. ASSUME NEW t \in Thread, NEW author, NEW v \in Version, NEW children \in ChildSets,
             NEW links \in TextsFor(v, children), LoadEdit(t, author, v, children, links)
      PROVE  PointsInv' /\ UNCHANGED <<votes, points>>
  BY <1>3, LoadEditPoints DEF LoadEdit
<1>4. ASSUME NEW t \in Thread, StoreEdit(t)
      PROVE  PointsInv' /\ UNCHANGED <<votes, points>>
  BY <1>4, StoreEditPoints DEF StoreEdit
<1>5. ASSUME NEW t \in Thread, NEW d \in draft, Publish(t, d)
      PROVE  PointsInv' /\ UNCHANGED <<votes, points>>
  BY <1>5, PublishPoints DEF Publish
<1>6. ASSUME UNCHANGED vars
      PROVE  PointsInv' /\ UNCHANGED <<votes, points>>
  <2>1. VotesInv'
    BY <1>6, VotesStep, ApartAlone DEF PointsInv
  <2>2. PaymentsTyped' /\ PaysAsItIs'
    BY <1>6 DEF PointsInv, vars, PaymentsTyped, PaysAsItIs
  <2> QED BY <1>6, <2>1, <2>2 DEF PointsInv, vars
<1>7. ASSUME NEW t \in Thread, StoreVote(t)
      PROVE  /\ PointsInv'
             /\ \A a \in Author : points'[a] - points[a] = Earned(a)' - Earned(a)
  <2> DEFINE r == request[t]
  <2>1. PointsInv' /\ \A a \in Author : points[a] \in Int /\ points'[a] = points[a] + Change(r, a)
    BY <1>7, StoreVotePoints
  <2>2. ASSUME NEW a \in Author PROVE points'[a] - points[a] = Earned(a)' - Earned(a)
    <3>1. Earned(a)' - Earned(a) = Change(r, a)
      BY <1>7, NewVotePays, RevokedVotePays, ChangedVotePays
    <3>2. Earned(a)' \in Int /\ Earned(a) \in Int
      BY <2>1, SumsNow, SumsNext DEF SumFacts
    <3>3. points[a] \in Int /\ points'[a] = points[a] + Change(r, a)
      BY <2>1
    <3> HIDE DEF r
    <3> QED BY <3>1, <3>2, <3>3
  <2> QED BY <2>1, <2>2
<1>8. CASE \E t \in Thread : StoreVote(t)
  BY <1>7, <1>8
<1>9. CASE ~\E t \in Thread : StoreVote(t)
  <2>1. PointsInv' /\ UNCHANGED <<votes, points>>
    BY <1>1, <1>2, <1>3, <1>4, <1>5, <1>6, <1>9 DEF Next
  <2> QED BY <2>1, NothingEarned
<1> QED BY <1>8, <1>9

-----------------------------------------------------------------------------
(***************************************************************************)
(* An author whose edges stay, whatever edges others add.                  *)
(***************************************************************************)
PaidUp(a) == PointsInv /\ points[a] = Earned(a)

LEMMA NothingEarnedYet ==
  ASSUME NEW a, DOMAIN votes = {}
  PROVE  Earned(a) = 0
<1>1. Earned(a) = SumFunctionOnSet(Worths(a), {})
  BY DEF Earned, Worths
<1> QED BY <1>1, SumOfNone

LEMMA PaidUpStep ==
  ASSUME NEW a \in Author, PaidUp(a), OneThread, [Next]_vars, EdgesStay(a)
  PROVE  PaidUp(a)'
<1>1. PointsInv /\ PointsInv'
  BY PointsStep DEF PaidUp
<1>2. points[a] \in Int /\ Earned(a) \in Int /\ Earned(a)' \in Int /\ points'[a] \in Int
  BY <1>1, SumsNow, SumsNext DEF PointsInv, PaymentsTyped, SumFacts
<1>3. points'[a] - points[a] = Earned(a)' - Earned(a)
  BY <1>1, PointsStep
<1> QED BY <1>1, <1>2, <1>3 DEF PaidUp

-----------------------------------------------------------------------------
(***************************************************************************)
(* Votes of requests that overlap in any way.                              *)
(***************************************************************************)
\* A request that has nothing to negate has found no vote, and casts one.
ReadAsFound(r) ==
    r.task = "vote" =>
        /\ r.user \in User /\ r.version \in Version /\ r.cast \in VoteType \cup {None}
        /\ r.negate = None => r.found = {} /\ r.cast # None

EverRead ==
    /\ \A i \in DOMAIN votes : votes[i] \in [user : User, version : Version, type : VoteType]
    /\ request = [t \in Thread |-> request[t]]
    /\ \A t \in Thread : request[t] # None => ReadAsFound(request[t])

\* Every vote after the step was there before, of the same user on the same version.
VotesRemain ==
    \A i \in DOMAIN votes' :
        i \in DOMAIN votes /\ votes'[i].user = votes[i].user /\ votes'[i].version = votes[i].version

LEMMA InitRead == Init => EverRead
BY DEF Init, EverRead

LEMMA NothingVoted ==
  ASSUME EverRead, votes' = votes, NEW t, NEW q, q = None \/ ReadAsFound(q),
         request' = [request EXCEPT ![t] = q]
  PROVE  EverRead' /\ VotesRemain
<1>1. ASSUME NEW s \in Thread, request'[s] # None PROVE ReadAsFound(request'[s])
  BY <1>1 DEF EverRead
<1>2. request' = [s \in Thread |-> request'[s]]
  BY DEF EverRead
<1> QED BY <1>1, <1>2 DEF EverRead, VotesRemain, ReadAsFound

LEMMA VoteReadAsFound ==
  ASSUME EverRead, NEW u \in User, NEW v \in Version, NEW cast \in VoteType \cup {None},
         Existing(u, v) # cast
  PROVE  ReadAsFound(VoteRead(u, v, cast))
<1>1. ASSUME Existing(u, v) = None PROVE VotesOf(u, v) = {}
  <2>1. SUFFICES ASSUME VotesOf(u, v) # {} PROVE FALSE
    OBVIOUS
  <2>2. PICK i \in VotesOf(u, v) : Existing(u, v) = votes[i].type
    BY <2>1 DEF Existing
  <2>3. votes[i].type \in VoteType
    BY <2>2 DEF EverRead, VotesOf
  <2> QED BY <1>1, <2>2, <2>3, VotesAssumption
<1> QED BY <1>1 DEF ReadAsFound, VoteRead

\* A vote that has found another, or takes one back, adds none.
LEMMA FoundVotesRemain ==
  ASSUME EverRead, NEW t \in Thread, StoreVote(t), request[t].negate # None
  PROVE  /\ VotesRemain
         /\ \A i \in DOMAIN votes' : votes'[i] \in [user : User, version : Version, type : VoteType]
<1> DEFINE r == request[t]
<1>1. r.cast \in VoteType \cup {None}
  BY DEF StoreVote, EverRead, ReadAsFound
<1>2. CASE r.cast = None
  <2>1. votes' = [i \in DOMAIN votes \ r.found |-> votes[i]]
    BY <1>2 DEF StoreVote, RevokedVotes, Restrict
  <2> QED BY <2>1 DEF VotesRemain, EverRead
<1>3. CASE r.cast # None
  <2>1. votes' = [i \in DOMAIN votes |->
                    IF i \in r.found THEN [votes[i] EXCEPT !.type = r.cast] ELSE votes[i]]
    BY <1>3 DEF StoreVote, ChangedVotes
  <2> QED BY <1>1, <1>3, <2>1 DEF VotesRemain, EverRead
<1> QED BY <1>2, <1>3

LEMMA VotesRemainLoadable ==
  ASSUME VotesRemain, NEW u, Loadable(u)
  PROVE  Loadable(u)'
BY DEF VotesRemain, Loadable, VotesOf

\* A vote that has found none adds one, or none.
LEMMA NewVoteRead ==
  ASSUME EverRead, NEW t \in Thread, StoreVote(t), NEW r, r = request[t],
         r.negate = None
  PROVE  /\ \A i \in DOMAIN votes' : votes'[i] \in [user : User, version : Version, type : VoteType]
         /\ \A u \in User : Loadable(u) /\ ~Loadable(u)' => StoresStaleVote(t, u)
<1>1. /\ r.user \in User /\ r.version \in Version /\ r.found = {}
      /\ r.cast \in VoteType
      /\ votes' \in NewVotes(r)
  BY DEF StoreVote, EverRead, ReadAsFound
<1>2. CASE votes' = votes
  BY <1>2 DEF EverRead, Loadable, VotesOf
<1>3. CASE votes' # votes
  <2>1. PICK i \in VoteId \ DOMAIN votes :
          votes' = [j \in DOMAIN votes \cup {i} |->
            IF j = i THEN [user |-> r.user, version |-> r.version, type |-> r.cast] ELSE votes[j]]
    BY <1>1, <1>3 DEF NewVotes
  <2>2. /\ i \notin DOMAIN votes /\ DOMAIN votes' = DOMAIN votes \cup {i}
        /\ votes'[i] = [user |-> r.user, version |-> r.version, type |-> r.cast]
        /\ \A j \in DOMAIN votes : votes'[j] = votes[j]
    BY <2>1
  <2>3. ASSUME NEW u \in User, Loadable(u), ~(u = r.user /\ VotesOf(u, r.version) # {})
        PROVE  Loadable(u)'
    <3>1. \A v : v # r.version \/ u # r.user => VotesOf(u, v)' = VotesOf(u, v)
      BY <2>2 DEF VotesOf
    <3>2. u = r.user => VotesOf(u, r.version)' = {i}
      BY <2>2, <2>3 DEF VotesOf
    <3> QED BY <2>3, <3>1, <3>2 DEF Loadable
  <2>4. \A j \in DOMAIN votes' : votes'[j] \in [user : User, version : Version, type : VoteType]
    BY <1>1, <2>2 DEF EverRead
  <2> QED BY <1>1, <2>3, <2>4 DEF StoresStaleVote
<1> QED BY <1>2, <1>3

LEMMA ReadStep ==
  ASSUME EverRead, [Next]_vars
  PROVE  /\ EverRead'
         /\ \A u \in User : Loadable(u) /\ ~Loadable(u)' => \E t \in Thread : StoresStaleVote(t, u)
<1>1. ASSUME NEW t \in Thread, NEW u \in User, NEW v \in Version, NEW cast \in VoteType,
             LoadVote(t, u, v, cast)
      PROVE  EverRead' /\ VotesRemain
  <2>1. ReadAsFound(VoteRead(u, v, cast))
    BY <1>1, VoteReadAsFound DEF LoadVote
  <2> QED BY <1>1, <2>1, NothingVoted DEF LoadVote
<1>2. ASSUME NEW t \in Thread, NEW u \in User, NEW v \in Version, LoadUnvote(t, u, v)
      PROVE  EverRead' /\ VotesRemain
  <2>1. ReadAsFound(VoteRead(u, v, None))
    BY <1>2, VoteReadAsFound DEF LoadUnvote
  <2> QED BY <1>2, <2>1, NothingVoted DEF LoadUnvote
<1>3. ASSUME NEW t \in Thread, NEW author, NEW v \in Version, NEW children, NEW links,
             LoadEdit(t, author, v, children, links)
      PROVE  EverRead' /\ VotesRemain
  <2> DEFINE q == [task |-> "edit", author |-> author, version |-> v, children |-> children,
                   text |-> links, edgeOwners |-> edgeOwners[v], count |-> count[v]]
  <2>1. ReadAsFound(q)
    BY DEF ReadAsFound
  <2>2. request' = [request EXCEPT ![t] = q] /\ votes' = votes
    BY <1>3 DEF LoadEdit
  <2> HIDE DEF q
  <2> QED BY <2>1, <2>2, NothingVoted
<1>4. ASSUME NEW t \in Thread, StoreEdit(t) PROVE EverRead' /\ VotesRemain
  BY <1>4, NothingVoted DEF StoreEdit
<1>5. ASSUME votes' = votes, request' = request PROVE EverRead' /\ VotesRemain
  BY <1>5 DEF EverRead, ReadAsFound, VotesRemain
<1>6. ASSUME NEW t \in Thread, StoreVote(t)
      PROVE  /\ EverRead'
             /\ \A u \in User : Loadable(u) /\ ~Loadable(u)' => StoresStaleVote(t, u)
  <2>1. \A s \in Thread : request'[s] # None => ReadAsFound(request'[s])
    BY <1>6 DEF StoreVote, EverRead
  <2>2. request' = [s \in Thread |-> request'[s]]
    BY <1>6 DEF StoreVote, EverRead
  <2>3. \A i \in DOMAIN votes' : votes'[i] \in [user : User, version : Version, type : VoteType]
    BY <1>6, FoundVotesRemain, NewVoteRead
  <2>4. EverRead'
    BY <2>1, <2>2, <2>3 DEF EverRead, ReadAsFound
  <2>5. ASSUME NEW u \in User, Loadable(u), ~Loadable(u)' PROVE StoresStaleVote(t, u)
    BY <1>6, <2>5, FoundVotesRemain, VotesRemainLoadable, NewVoteRead
  <2> QED BY <2>4, <2>5
<1>7. ASSUME EverRead' /\ VotesRemain
      PROVE  /\ EverRead'
             /\ \A u \in User :
                    Loadable(u) /\ ~Loadable(u)' => \E t \in Thread : StoresStaleVote(t, u)
  BY <1>7, VotesRemainLoadable
<1>8. ASSUME NEW t, NEW d, Publish(t, d) PROVE EverRead' /\ VotesRemain
  BY <1>5, <1>8 DEF Publish
<1>9. CASE UNCHANGED vars
  BY <1>5, <1>7, <1>9 DEF vars
<1> QED BY <1>1, <1>2, <1>3, <1>4, <1>6, <1>7, <1>8, <1>9 DEF Next

-----------------------------------------------------------------------------
(***************************************************************************)
(* The theorems.                                                           *)
(***************************************************************************)
LEMMA VotesAlways == Spec /\ []RequestsApart => []VotesInv
<1>1. VotesInv /\ RequestsApart /\ [Next]_vars => VotesInv'
  BY VotesStep
<1> QED BY <1>1, InitVotes, PTL DEF Spec

\* For any users, versions and threads: as long as the requests that overlap are about
\* different versions, the counters of a version are the votes on it, however votes
\* are cast, changed and revoked and texts edited and published.
THEOREM CountersAreVotesCorrect == Spec /\ []RequestsApart => []CountersAreVotes
<1>1. VotesInv => CountersAreVotes
  BY DEF VotesInv
<1> QED BY <1>1, VotesAlways, PTL

\* For any users, versions and threads, with requests that overlap in any way: a user who can
\* be loaded stays so unless a vote is stored by a request that had found none, where there
\* is one of that user by now (voteNode, registerNewVote and setArgumentVotes).
THEOREM SecondVoteIsStaleCorrect == Spec => SecondVoteIsStale
<1> DEFINE Stale == \A u \in User :
                Loadable(u) /\ ~Loadable(u)' => \E t \in Thread : StoresStaleVote(t, u)
<1>1. EverRead /\ [Next]_vars => EverRead' /\ Stale
  BY ReadStep
<1>2. Spec => [][Stale]_vars
  <2> HIDE DEF Stale
  <2> QED BY <1>1, InitRead, PTL DEF Spec
<1> QED BY <1>2 DEF SecondVoteIsStale

\* For any users, versions and votes, where requests are served one after the other: whatever
\* is voted, revoked and edited changes the points of every author whose edges stay by
\* what the votes of others are worth then (updateScore and getPoints).
THEOREM VoteIsWorthItsEdgesCorrect == Spec /\ []OneThread => VoteIsWorthItsEdges
<1> DEFINE Paying == \A a \in Author :
                EdgesStay(a) => points'[a] - points[a] = Earned(a)' - Earned(a)
<1>1. PointsInv /\ OneThread /\ [Next]_vars => PointsInv' /\ [Paying]_vars
  BY PointsStep
<1>2. Spec /\ []OneThread => [][Paying]_vars
  <2> HIDE DEF Paying
  <2> QED BY <1>1, PointsInit, PTL DEF Spec
<1> QED BY <1>2 DEF VoteIsWorthItsEdges

\* For any users, versions and votes, where requests are served one after the other: an
\* author whose edges in each text are as many as they were has at any time the points
\* that the votes are worth, and none once they are revoked, whatever edges others add.
THEOREM NetsZeroCorrect ==
  ASSUME NEW a \in Author
  PROVE  Spec /\ []OneThread /\ [][EdgesStay(a)]_vars => []NetsZero(a)
<1>1. Init => PaidUp(a)
  BY PointsInit, NothingEarnedYet DEF PaidUp, Init
<1>2. PaidUp(a) /\ OneThread /\ [Next]_vars /\ [EdgesStay(a)]_vars => PaidUp(a)'
  <2>1. UNCHANGED vars => EdgesStay(a)
    BY DEF vars, EdgesStay, EdgesOf
  <2> QED BY <2>1, PaidUpStep
<1>3. PaidUp(a) => NetsZero(a)
  BY NothingEarnedYet DEF PaidUp, NetsZero
<1> QED BY <1>1, <1>2, <1>3, PTL DEF Spec
=============================================================================
