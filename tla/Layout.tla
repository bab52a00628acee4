-------------------------------- MODULE Layout --------------------------------
(***************************************************************************)
(* The force-directed layout of the picture: the simulator of              *)
(* vivagraph.js and its quadtree.                                          *)
(*                                                                         *)
(* A frame inserts the bodies into a tree of square cells, lets every body *)
(* that is not pinned be pulled by the cells and the springs, moves them   *)
(* and finds the box around them.  The cells of the last frame are used    *)
(* again.  How far forces move a body is not modelled: any Place.          *)
(***************************************************************************)
EXTENDS Integers, Sequences, FiniteSets, FiniteSetsExt, SequencesExt

CONSTANTS Body, Spring,
          Ends,     \* the two bodies of each spring
          Place,    \* where a body may come to rest, pairs of coordinates
          None

ASSUME LayoutAssumption ==
    /\ Ends \in [Spring -> Body \X Body] /\ None \notin Body
    /\ Place \subseteq Nat \X Nat /\ Place # {}

VARIABLES bodies,   \* the bodies of the simulator, in the order they were added
          springs,  \* its springs
          body,     \* pos, prevPos and isPinned of each body
          cell,     \* the cells made so far (nodesCache)
          used,     \* how many of them this frame uses (currentInCache)
          todo,     \* bodies that are still to be inserted
          stack,    \* bodies on their way down the tree: cell and body
          phase,    \* of the frame: rest, insert, move
          pulls,    \* what pulls each body: cells, springs
          gaveUp,   \* bodies were left out of the tree
          box,      \* the box around the picture
          began     \* history: where each body was when the frame began

treeVars == <<cell, used, stack, gaveUp>>
layoutVars == <<bodies, springs, body, treeVars, todo, phase, pulls, box>>

X == 1
Y == 2
Position(b) == body[b].pos

\* Three times the mass: a third for every link (nodeMass).
Mass(b) == 3 + Cardinality({s \in springs : b \in Range(Ends[s])})

At(place, pinned) == [pos |-> place, prevPos |-> place, isPinned |-> pinned]
NoPull == [cells |-> <<>>, springs |-> 0]
EmptyBox == [left |-> 0, right |-> 0, top |-> 0, bottom |-> 0]

LayoutInit ==
    /\ bodies = <<>> /\ springs = {}
    /\ body = [b \in Body |-> At(CHOOSE place \in Place : TRUE, FALSE)]
    /\ cell = <<>> /\ used = 0 /\ stack = <<>> /\ gaveUp = FALSE
    /\ todo = <<>> /\ phase = "rest" /\ pulls = [b \in Body |-> NoPull] /\ box = EmptyBox
    /\ began = [b \in Body |-> Position(b)]

-----------------------------------------------------------------------------
(* Between frames.                                                          *)

Resting == phase = "rest"

\* Near two neighbours or the middle of the box, with a random offset: anywhere.
BestNewPosition == Place

\* addBodyAt
AddBody(b) ==
    /\ Resting /\ b \notin Range(bodies)
    /\ bodies' = Append(bodies, b)
    /\ \E place \in BestNewPosition : body' = [body EXCEPT ![b] = At(place, FALSE)]
    /\ pulls' = [pulls EXCEPT ![b] = NoPull]
    /\ UNCHANGED <<springs, treeVars, todo, phase, box>>

\* The links of a node are gone before the node is.
RemoveBody(b) ==
    /\ Resting /\ b \in Range(bodies)
    /\ \A s \in springs : b \notin Range(Ends[s])
    /\ \E i \in DOMAIN bodies : bodies[i] = b /\ bodies' = RemoveAt(bodies, i)
    /\ box' = IF Len(bodies) = 1 THEN EmptyBox ELSE box
    /\ UNCHANGED <<springs, body, treeVars, todo, phase, pulls>>

AddSpring(s) ==
    /\ Resting /\ s \notin springs /\ Range(Ends[s]) \subseteq Range(bodies)
    /\ springs' = springs \cup {s}
    /\ UNCHANGED <<bodies, body, treeVars, todo, phase, pulls, box>>

RemoveSpring(s) ==
    /\ Resting /\ s \in springs
    /\ springs' = springs \ {s}
    /\ UNCHANGED <<bodies, body, treeVars, todo, phase, pulls, box>>

PinNode(b, pinned) ==
    /\ Resting /\ b \in Range(bodies)
    /\ body' = [body EXCEPT ![b] = [@ EXCEPT !.isPinned = pinned]]
    /\ UNCHANGED <<bodies, springs, treeVars, todo, phase, pulls, box>>

\* setPosition: a node is dragged, pinned or not.
SetPosition(b, place) ==
    /\ Resting /\ b \in Range(bodies)
    /\ body' = [body EXCEPT ![b] = At(place, @.isPinned)]
    /\ UNCHANGED <<bodies, springs, treeVars, todo, phase, pulls, box>>

-----------------------------------------------------------------------------
(* Inserting the bodies into the tree.                                      *)

Least(axis) == Min({Position(b)[axis] : b \in Range(bodies)})
Greatest(axis) == Max({Position(b)[axis] : b \in Range(bodies)})

\* newNode: a cell is taken from the last frame or made, and is empty.
NewCell(left, right, top, bottom, b) ==
    [quad |-> [i \in 1..4 |-> None], body |-> b, mass |-> 0, massX |-> 0, massY |-> 0,
     left |-> left, right |-> right, top |-> top, bottom |-> bottom]
WithCell(cells, i, c) == IF i > Len(cells) THEN Append(cells, c) ELSE [cells EXCEPT ![i] = c]

\* insertBodies: a square around all bodies, with the last body in it.
BeginFrame ==
    /\ Resting /\ bodies # <<>>
    /\ LET width == Max({Greatest(X) - Least(X), Greatest(Y) - Least(Y)})
           first == IF Len(bodies) > 1 THEN Last(bodies) ELSE None
           root == NewCell(Least(X), Least(X) + width, Least(Y), Least(Y) + width, first)
       IN  cell' = WithCell(cell, 1, root)
    /\ used' = 1
    /\ todo' = IF Len(bodies) > 1 THEN Reverse(Front(bodies)) ELSE <<>>
    /\ phase' = "insert" /\ gaveUp' = FALSE
    /\ UNCHANGED <<bodies, springs, body, stack, pulls, box>>

Insert ==
    /\ phase = "insert" /\ stack = <<>> /\ todo # <<>>
    /\ stack' = <<[cell |-> 1, body |-> Head(todo)]>>
    /\ todo' = Tail(todo)
    /\ UNCHANGED <<bodies, springs, body, cell, used, gaveUp, phase, pulls, box>>

Entry == Last(stack)
Descending == phase = "insert" /\ stack # <<>>

\* Further to the right than the middle, or further down.
East(c, place) == 2 * place[X] > c.left + c.right
South(c, place) == 2 * place[Y] > c.top + c.bottom
Quadrant(c, place) == 1 + (IF East(c, place) THEN 1 ELSE 0) + (IF South(c, place) THEN 2 ELSE 0)
Middle(a, b) == (a + b) \div 2

\* An internal cell counts the body, and passes it on or makes a cell for it.
Descend ==
    /\ Descending /\ cell[Entry.cell].body = None
    /\ LET c == cell[Entry.cell]
           b == Entry.body
           place == Position(b)
           q == Quadrant(c, place)
           counted == [c EXCEPT !.mass = @ + Mass(b), !.massX = @ + Mass(b) * place[X],
                                !.massY = @ + Mass(b) * place[Y]]
           x == Middle(c.left, c.right)
           y == Middle(c.top, c.bottom)
           leaf == NewCell(IF East(c, place) THEN x ELSE c.left,
                           IF East(c, place) THEN x + (x - c.left) ELSE x,
                           IF South(c, place) THEN y ELSE c.top,
                           IF South(c, place) THEN y + (y - c.top) ELSE y, b)
       IN  IF c.quad[q] = None
           THEN /\ used' = used + 1
                /\ cell' = WithCell([cell EXCEPT ![Entry.cell] =
                                [counted EXCEPT !.quad = [@ EXCEPT ![q] = used + 1]]],
                              used + 1, leaf)
                /\ stack' = Front(stack)
           ELSE /\ cell' = [cell EXCEPT ![Entry.cell] = counted]
                /\ stack' = Append(Front(stack), [cell |-> c.quad[q], body |-> b])
                /\ UNCHANGED used
    /\ UNCHANGED <<bodies, springs, body, todo, gaveUp, phase, pulls, box>>

\* "Prevent infinite subdivision by bumping one node anywhere in this quadrant", on its
\* diagonal, up to three times.
Bumps(c) == {<<c.left + i * ((c.right - c.left) \div 2), c.top + i * ((c.bottom - c.top) \div 2)>> :
                i \in {0, 1}}

Emptied == [cell EXCEPT ![Entry.cell] = [@ EXCEPT !.body = None]]

\* Fault for the checks: the body that was there is forgotten.
OnlyNew(old) == stack

\* "We have to convert current leaf into internal node and continue adding two nodes."
Both(old) == Front(stack) \o <<[cell |-> Entry.cell, body |-> old], Entry>>

Split ==
    /\ Descending /\ cell[Entry.cell].body # None
    /\ LET old == cell[Entry.cell].body
       IN  /\ Position(old) # Position(Entry.body)
           /\ stack' = Both(old)
    /\ cell' = Emptied
    /\ UNCHANGED <<bodies, springs, body, used, gaveUp, todo, phase, pulls, box>>

SplitAfterBump ==
    /\ Descending /\ cell[Entry.cell].body # None
    /\ LET old == cell[Entry.cell].body
       IN  /\ Position(old) = Position(Entry.body)
           /\ \E place \in Bumps(cell[Entry.cell]) \ {Position(Entry.body)} :
                body' = [body EXCEPT ![old] = [@ EXCEPT !.pos = place]]
           /\ stack' = Both(old)
    /\ cell' = Emptied
    /\ UNCHANGED <<bodies, springs, used, gaveUp, todo, phase, pulls, box>>

\* "This is very bad, we ran out of precision."  Both bodies stay out of the tree.
GiveUp ==
    /\ Descending /\ cell[Entry.cell].body # None
    /\ Position(cell[Entry.cell].body) = Position(Entry.body)
    /\ Position(Entry.body) \in Bumps(cell[Entry.cell])
    /\ cell' = Emptied /\ stack' = <<>> /\ gaveUp' = TRUE
    /\ UNCHANGED <<bodies, springs, body, used, todo, phase, pulls, box>>

-----------------------------------------------------------------------------
(* Forces, and the step of the simulator.                                   *)

\* "If s / r < theta, treat this internal node as a single body": the distance of its
\* centre of mass, squared, in units of its mass; theta is 0.8.
Far(c, place) ==
    LET dx == c.massX - c.mass * place[X]
        dy == c.massY - c.mass * place[Y]
        width == (c.right - c.left) * c.mass
    IN  IF dx = 0 /\ dy = 0 THEN c.mass # 0 /\ width = 0
        ELSE 25 * width * width < 16 * (dx * dx + dy * dy)

\* The cells that pull a body, down from one of them (updateBodyForce).
Pulling(b) ==
    LET from[i \in 1..used] ==
          LET c == cell[i]
              below == SelectSeq(c.quad, LAMBDA q : q # None)
          IN  CASE c.body = b -> <<>>
                [] c.body # None -> <<i>>
                [] Far(c, Position(b)) -> <<i>>
                [] OTHER -> FlattenSeq([j \in DOMAIN below |-> from[below[j]]])
    IN  from[1]

SpringsAt(b) == Cardinality({s \in springs : b \in Range(Ends[s])})

\* accumulateForces: a pinned body keeps what it had, and gets the springs.
AccumulateForces ==
    /\ phase = "insert" /\ stack = <<>> /\ todo = <<>>
    /\ pulls' = [b \in Body |->
            CASE b \notin Range(bodies) -> pulls[b]
              [] body[b].isPinned -> [pulls[b] EXCEPT !.springs = @ + SpringsAt(b)]
              [] OTHER -> [cells |-> Pulling(b), springs |-> SpringsAt(b)]]
    /\ phase' = "move"
    /\ UNCHANGED <<bodies, springs, body, treeVars, todo, box>>

\* The box around the bodies, with the pinned ones back in their places.
Around(places) ==
    [left |-> Min({p[X] : p \in places}), right |-> Max({p[X] : p \in places}),
     top |-> Min({p[Y] : p \in places}), bottom |-> Max({p[Y] : p \in places})]

\* Fault for the checks: pinned bodies are where they were bumped to.
SettledAnywhere(b, place) ==
    IF body[b].isPinned THEN At(body[b].pos, TRUE) ELSE At(place, FALSE)

\* integrate moves every body; updateBoundingBox returns the pinned ones.
Settled(b, place) ==
    IF body[b].isPinned THEN At(body[b].prevPos, TRUE) ELSE At(place, FALSE)

EndFrame ==
    /\ phase = "move"
    /\ \E places \in [Range(bodies) -> Place] :
        body' = [b \in Body |-> IF b \in Range(bodies) THEN Settled(b, places[b]) ELSE body[b]]
    /\ box' = Around({body'[b].pos : b \in Range(bodies)})
    /\ phase' = "rest"
    /\ UNCHANGED <<bodies, springs, treeVars, todo, pulls>>

LayoutNext ==
    \/ BeginFrame \/ Insert \/ Descend \/ Split \/ SplitAfterBump \/ GiveUp
    \/ AccumulateForces \/ EndFrame
    \/ \E b \in Body :
        \/ AddBody(b) \/ RemoveBody(b)
        \/ \E pinned \in BOOLEAN : PinNode(b, pinned)
        \/ \E place \in Place : SetPosition(b, place)
    \/ \E s \in Spring : AddSpring(s) \/ RemoveSpring(s)

Remember ==
    IF phase = "rest" /\ phase' = "insert" THEN began' = [b \in Body |-> Position(b)]
    ELSE UNCHANGED began

LayoutSpec == LayoutInit /\ [][LayoutNext /\ Remember]_<<layoutVars, began>>

-----------------------------------------------------------------------------
\* When a frame is over, a pinned body is where it was when the frame began, though it was
\* bumped and moved with the others, and all bodies are in the box (updateBoundingBox).
PinnedStays ==
    [][phase = "move" /\ phase' = "rest" =>
        \A b \in Range(bodies) :
            /\ body[b].isPinned => body'[b].pos = began[b]
            /\ body'[b].pos[X] \in box'.left..box'.right
            /\ body'[b].pos[Y] \in box'.top..box'.bottom]_<<layoutVars, began>>

\* A body has its three fields, and returns to a place; the bodies of the simulator.
LayoutTyped ==
    /\ body = [b \in Body |-> body[b]]
    /\ \A b \in Body :
        /\ body[b] = [pos |-> body[b].pos, prevPos |-> body[b].prevPos,
                      isPinned |-> body[b].isPinned]
        /\ body[b].prevPos \in Place /\ body[b].isPinned \in BOOLEAN
    /\ bodies \in Seq(Body)

\* Between frames bodies return to where they are; during a frame to where they were.
ReturnsToStart ==
    \A b \in Range(bodies) :
        body[b].prevPos = IF phase = "rest" THEN body[b].pos ELSE began[b]

LayoutInv == LayoutTyped /\ ReturnsToStart
=============================================================================
