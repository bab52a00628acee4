------------------------------- MODULE MCVotes ------------------------------
(***************************************************************************)
(* Votes on small instances, and what is expected of them.  An assertion,  *)
(* an interpretation and a source are voted on, and the assertion is       *)
(* edited; the other versions are only linked.                             *)
(***************************************************************************)
EXTENDS Votes, TLC

CONSTANTS claim, reading, paper, ann, bob, Ann, Bob, Cid,
          Scenarios,  \* the scenarios of this run
          Editors     \* bound: who edits

VARIABLE scenario  \* which of them is played

others == Version \ {claim, reading, paper}

\* What claim links at first and what edits of it may link, what is voted on, and
\* how; and how far points drift.
Scenario(s) ==
    CASE s = "cap" -> [first |-> {reading} \cup others,
                       edits |-> {{}, {paper}, {reading} \cup others},
                       active |-> {claim, reading, paper}, casts |-> {"GREAT", "TRASH"},
                       points |-> 50]
      [] s = "growing" ->
            LET w1 == CHOOSE w \in others : TRUE
                w2 == CHOOSE w \in others \ {w1} : TRUE
            IN  [first |-> {reading, w1},
                 edits |-> {{reading, w1}, {reading, w1, w2}, {reading} \cup others},
                 active |-> {claim}, casts |-> {"GREAT", "TOUCHE", "TRASH"},
                 points |-> 60]
      [] s = "race" -> [first |-> {reading}, edits |-> {{reading}},
                        active |-> {claim}, casts |-> {"GREAT", "TRASH"},
                        points |-> 24]

MCControlledBy == [a \in Author |-> IF a = ann THEN Ann ELSE Bob]
MCFounder == [v \in Version |-> IF v = paper THEN bob ELSE ann]
MCKind == [v \in Version |->
    CASE v = reading -> "interpretation" [] v = paper -> "source" [] OTHER -> "assertion"]
MCFirstText(s) == [v \in Version |->
    CASE v = claim -> Scenario(s).first [] v = reading -> {paper} [] OTHER -> {}]
MCFirstTexts == {MCFirstText(s) : s \in Scenarios}
MCChildSets == UNION {Scenario(s).edits : s \in Scenarios}

MCInit == Init /\ scenario \in Scenarios /\ text = MCFirstText(scenario)
MCSpec == MCInit /\ [][Next /\ UNCHANGED scenario]_<<vars, scenario>>

Bounds ==
    /\ Cardinality(draft) <= 1
    /\ \A t \in Thread : request[t] # None =>
        /\ request[t].task = "edit" =>
            /\ request[t].author \in Editors /\ request[t].version = claim
            /\ {request[t].text, request[t].children} \subseteq Scenario(scenario).edits
        /\ request[t].task = "vote" =>
            /\ request[t].version \in Scenario(scenario).active
            /\ request[t].cast \in Scenario(scenario).casts \cup {None}
    /\ \A a \in Author : points[a] \in -(Scenario(scenario).points \div 2)..Scenario(scenario).points

Symmetry == Permutations(VoteId) \cup Permutations(Thread)

-----------------------------------------------------------------------------
\* "card edited with additional edge by B, card vote revoked. A will net 0
\* points": others adding edges does not change what a revocation takes back
\* from the author of the first text.
FounderNetsZero == scenario = "growing" => NetsZero(Founder[claim])

=============================================================================
