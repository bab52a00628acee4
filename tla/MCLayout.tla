------------------------------- MODULE MCLayout -------------------------------
(***************************************************************************)
(* The layout of the picture and the drags on it, each on a small          *)
(* instance, and what is expected of them.                                 *)
(***************************************************************************)
EXTENDS Layout, Input, TLC

CONSTANTS Parts,     \* which of the two moves
          MaxFrames  \* bound

VARIABLES scenario,  \* the part that moves
          frames     \* frames so far

pictureVars == <<layoutVars, began, inputVars, scenario, frames>>

MCInit ==
    /\ scenario \in Parts
    /\ LayoutInit /\ InputInit
    /\ scenario = "layout" => wanted = {}
    /\ frames = 0

\* Bodies, springs and pins are there before the first frame; after it the user takes a
\* body away, or places the pinned one.  A frame leaves bodies where they are, or they
\* meet.  One body is pinned, the first or the last.
First == CHOOSE b \in Body : TRUE
Meeting == CHOOSE place \in Place : TRUE
Small ==
    /\ frames = 0 /\ bodies' = bodies /\ Resting => \A b \in Body : body'[b].pos = body[b].pos
    /\ frames = 0 =>
        \E order \in {SetToSeq(Body), Reverse(SetToSeq(Body))} : IsPrefix(bodies', order)
    /\ frames > 0 =>
        /\ springs' \subseteq springs /\ Len(bodies') <= Len(bodies)
        /\ Resting => \A b \in Body :
            body'[b] = body[b] \/ (body[b].isPinned /\ body'[b].isPinned)
    /\ phase = "move" => \A b \in Body :
        body[b].isPinned \/ body'[b].pos \in {began[b], Meeting}
    /\ \A b \in Body : body'[b].isPinned => b = First

MCNext ==
    /\ UNCHANGED scenario
    /\ \/ /\ scenario = "layout"
          /\ LayoutNext /\ Remember /\ Small
          /\ IF phase = "rest" /\ phase' = "insert"
             THEN frames < MaxFrames /\ frames' = frames + 1
             ELSE UNCHANGED frames
          /\ UNCHANGED inputVars
       \/ /\ scenario = "input" /\ InputNext
          /\ UNCHANGED <<layoutVars, frames, began>>

MCSpec == MCInit /\ [][MCNext]_pictureVars

MCEnds == [s \in Spring |-> <<CHOOSE b \in Body : TRUE, CHOOSE b \in Body : b # CHOOSE d \in Body : TRUE>>]
MCPlace == {<<0, 0>>, <<64, 0>>, <<64, 64>>, <<16, 16>>}

\* What is lost or interrupted is not followed; neither are frames after the last.
Bounds ==
    /\ recentre <= 1 /\ ~disturbed
    /\ frames = MaxFrames => phase # "rest"

Symmetry == Permutations(Node) \cup Permutations(Finger)

-----------------------------------------------------------------------------
\* The bodies in the tree from a cell down.
Holds[i \in Nat] ==
    LET c == cell[i]
        below == SelectSeq(c.quad, LAMBDA q : q # None)
    IN  IF c.body # None THEN <<c.body>>
        ELSE FlattenSeq([j \in DOMAIN below |-> Holds[below[j]]])

MassOf(s) == FoldSeq(LAMBDA b, sum : Mass(b) + sum, 0, s)
Times(b, s) == Len(SelectSeq(s, LAMBDA d : d = b))

\* A body that may move is pulled by every other body exactly once, alone or as part of a
\* cell of their joint mass, by itself at most as part of a cell, and by its springs,
\* whatever cells the last frame left, unless two bodies could not be told apart
\* (insert, updateBodyForce).
ForcesComplete ==
    phase = "move" /\ ~gaveUp =>
        \A b \in Range(bodies) : ~body[b].isPinned =>
            LET pulling == FlattenSeq([i \in DOMAIN pulls[b].cells |-> Holds[pulls[b].cells[i]]])
            IN  /\ \A d \in Range(bodies) \ {b} : Times(d, pulling) = 1
                /\ Times(b, pulling) <= 1
                /\ \A i \in Range(pulls[b].cells) :
                    cell[i].body = None => cell[i].mass = MassOf(Holds[i])
                /\ pulls[b].springs = SpringsAt(b)
=============================================================================
