--------------------------------- MODULE Input --------------------------------
(***************************************************************************)
(* Mouse, fingers and full screen on the picture: dragndrop.js of          *)
(* vivagraph.js, once for every node and once for the container, what its  *)
(* renderer does with them, and the full screen of the directive.          *)
(*                                                                         *)
(* A drag begins on an element and goes on with listeners on the document. *)
(* A dragged node is pinned, and the layout does not rest meanwhile.       *)
(***************************************************************************)
EXTENDS Integers, FiniteSets

CONSTANTS Node,      \* the nodes of the picture
          Container, \* the element around them
          Finger, Mouse, \* fingers, and the buttons of the mouse
          Nothing

ASSUME InputAssumption == Container \notin Node /\ Nothing \notin Node \cup {Container}

VARIABLES manager,     \* dragndrop of every element that has one
          blocked,     \* text cannot be selected (onselectstart)
          heldBy,      \* elements that cannot be dragged by the browser (ondragstart)
          pressed,     \* buttons that are down
          finger,      \* where each finger touches
          pin,         \* the layout: pinned nodes
          wasPinned,   \* the same, before the drag, of every binding
          wanted,      \* nodes pinned by the page
          userInteraction,
          zoom,        \* the picture: home, zoomed, infinite, astray (home, but moved)
          running,     \* the renderer runs
          full,        \* what the document says, and what the page believes
          recentre,    \* timers of the full screen
          disturbed,   \* something happened the handlers do not expect
          early        \* the full screen changed before the renderer ran

dragVars == <<manager, blocked, heldBy, wasPinned, userInteraction>>
handVars == <<pressed, finger>>
screenVars == <<running, full, recentre, early>>
inputVars == <<dragVars, handVars, screenVars, pin, wanted, zoom, disturbed>>

Element == Node \cup {Container}

\* A new dragndrop; only the callbacks of a node are there from the start.
Manager(drag) == [live |-> TRUE, drag |-> drag, scroll |-> FALSE, mouse |-> FALSE,
                  touch |-> FALSE, touchInProgress |-> FALSE, object |-> Nothing,
                  prevSelectStart |-> FALSE, measured |-> FALSE]
NoManager == [Manager(FALSE) EXCEPT !.live = FALSE]

InputInit ==
    /\ manager = [e \in Element |-> NoManager]
    /\ blocked = FALSE /\ heldBy = {} /\ pressed = {} /\ finger = [f \in Finger |-> Nothing]
    /\ wanted \in SUBSET Node /\ pin = wanted /\ wasPinned = {}
    /\ userInteraction = FALSE /\ zoom = "home"
    /\ running = FALSE /\ full = [document |-> FALSE, page |-> FALSE] /\ recentre = 0
    /\ disturbed = FALSE /\ early = FALSE

Dragging(e) == manager[e].mouse \/ manager[e].touch
Down == {f \in Finger : finger[f] # Nothing}

-----------------------------------------------------------------------------
(* The renderer and the page.                                               *)

\* onScroll listens to the wheel as long as there is a callback (updateScrollEvents).
Scrolling(m, enable) == [m EXCEPT !.scroll = enable]

\* setDragEnabled, setScrollEnabled
Enabled(m, enable) == Scrolling([m EXCEPT !.drag = enable], enable)

\* listenToEvents: the container can be dragged and zoomed, a node dragged.
Listening(e) == Scrolling(Manager(TRUE), e = Container)

\* After 400 ms the renderer runs, and the container is disabled again.
RunRenderer ==
    /\ ~running
    /\ running' = TRUE
    /\ manager' = [[e \in Element |-> Listening(e)] EXCEPT ![Container] = Enabled(@, FALSE)]
    /\ UNCHANGED <<blocked, heldBy, wasPinned, userInteraction, handVars, full, recentre,
                   early, pin, wanted, zoom, disturbed>>

\* handleFullscreenChange; before run there is no container to enable, and it throws.
FullscreenChange ==
    /\ full' = [document |-> ~full.document, page |-> ~full.document]
    /\ IF running
       THEN /\ manager' = [manager EXCEPT ![Container] = Enabled(@, ~full.document)]
            /\ recentre' = recentre + 1
            /\ UNCHANGED early
       ELSE early' = TRUE /\ UNCHANGED <<manager, recentre>>
    /\ UNCHANGED <<blocked, heldBy, wasPinned, userInteraction, handVars, running, pin,
                   wanted, zoom, disturbed>>

\* enterFullscreen: the page believes it before the browser agrees.
EnterFullscreen ==
    /\ full' = [full EXCEPT !.page = TRUE]
    /\ UNCHANGED <<dragVars, handVars, running, recentre, early, pin, wanted, zoom, disturbed>>

\* updateCenter, with the scale that the renderer believes in.
Centred == IF zoom \in {"home", "astray"} THEN "home" ELSE "astray"

\* renderer.reset, 200 ms later: centred first, and only then told the scale.
Recentre ==
    /\ recentre > 0
    /\ recentre' = recentre - 1 /\ zoom' = Centred
    /\ UNCHANGED <<dragVars, handVars, running, full, early, pin, wanted, disturbed>>

\* release: nobody listens for this element any more.
Released(n) == [manager EXCEPT ![n] = NoManager]

\* processNodeChange: the element of a node is removed and made anew.  What release
\* does not undo stays: "could be unsafe. We might wanna release dragObject, etc."
RedrawNode(n) ==
    /\ manager[n].live
    /\ manager' = [Released(n) EXCEPT ![n] = Listening(n)]
    /\ heldBy' = heldBy \ {n} /\ wasPinned' = wasPinned \ {n}
    /\ disturbed' = (disturbed \/ Dragging(n) \/ \E f \in Finger : finger[f] = n)
    /\ UNCHANGED <<blocked, userInteraction, handVars, screenVars, pin, wanted, zoom>>

\* A leaf is pinned by its timer.
PinLeaf(n) ==
    /\ running /\ n \notin wanted
    /\ pin' = pin \cup {n} /\ wanted' = wanted \cup {n}
    /\ disturbed' = (disturbed \/ Dragging(n))
    /\ UNCHANGED <<dragVars, handVars, screenVars, zoom>>

-----------------------------------------------------------------------------
(* Beginning and end of a drag.                                             *)

\* onStart of nodes: pinned, and the layout kept awake.
Started(nodes) ==
    /\ wasPinned' = (wasPinned \ nodes) \cup (nodes \cap pin)
    /\ pin' = pin \cup nodes
    /\ userInteraction' = (userInteraction \/ nodes # {})

\* onStop of nodes.
Stopped(nodes) ==
    /\ pin' = (pin \ nodes) \cup (nodes \cap wasPinned)
    /\ userInteraction' = (userInteraction /\ nodes = {})
    /\ UNCHANGED wasPinned

\* In most browsers the middle button has the number that the left one has in old ones.
IsLeftButton(button) == button # "right"

\* Fault for the checks: a touch may be a press as well.
IgnoresNever(m) == FALSE

\* "Modern browsers will fire mousedown for touch events too."
Ignores(m) == m.touchInProgress

MouseDown(e, button) ==
    /\ button \notin pressed /\ running
    /\ pressed' = pressed \cup {button}
    /\ IF Ignores(manager[e]) \/ ~IsLeftButton(button)
       THEN UNCHANGED <<dragVars, pin, disturbed>>
       ELSE /\ Started({e} \cap Node)
            /\ manager' = [manager EXCEPT ![e] =
                    [@ EXCEPT !.mouse = TRUE, !.object = e, !.prevSelectStart = blocked]]
            /\ blocked' = TRUE /\ heldBy' = heldBy \cup {e}
            /\ disturbed' = (disturbed \/ \E x \in Element : manager[x].mouse)
    /\ UNCHANGED <<finger, screenVars, wanted, zoom>>

\* handleMouseUp of everyone who listens, of any button.  Without its object, which a
\* touch has taken away, it throws before it calls onStop.
MouseUp(button) ==
    LET dropped == {e \in Element : manager[e].mouse}
    IN  /\ button \in pressed
        /\ pressed' = pressed \ {button}
        /\ manager' = [e \in Element |-> IF e \in dropped
                THEN [manager[e] EXCEPT !.mouse = FALSE, !.object = Nothing] ELSE manager[e]]
        /\ IF dropped = {} THEN UNCHANGED blocked
           ELSE \E e \in dropped : blocked' = manager[e].prevSelectStart
        /\ heldBy' = heldBy \ {manager[e].object : e \in dropped}
        /\ Stopped({e \in dropped \cap Node : manager[e].object # Nothing})
        /\ UNCHANGED <<finger, screenVars, wanted, zoom, disturbed>>

\* The button is released outside the window.
LoseMouseUp(button) ==
    /\ button \in pressed
    /\ pressed' = pressed \ {button}
    /\ disturbed' = (disturbed \/ \E e \in Element : manager[e].mouse)
    /\ UNCHANGED <<dragVars, finger, screenVars, pin, wanted, zoom>>

\* A finger touches an element; some browsers tell the container of a touch on a node.
\* A second finger only measures.
TouchStart(f, e, bubbles) ==
    LET told == IF bubbles /\ Down = {} THEN {e, Container} ELSE {e}
        dragged == {x \in told : manager[x].drag}
    IN  /\ finger[f] = Nothing /\ running
        /\ finger' = [finger EXCEPT ![f] = e]
        /\ IF Down = {}
           THEN /\ Started(dragged \cap Node)
                /\ manager' = [x \in Element |-> IF x \in dragged
                        THEN [manager[x] EXCEPT !.object = e, !.touch = TRUE,
                                                !.touchInProgress = TRUE]
                        ELSE manager[x]]
                /\ disturbed' = (disturbed \/ \E x \in dragged : Dragging(x))
           ELSE /\ manager' = [manager EXCEPT ![e] = [@ EXCEPT !.measured = TRUE]]
                /\ UNCHANGED <<pin, wasPinned, userInteraction, disturbed>>
        /\ UNCHANGED <<blocked, heldBy, pressed, screenVars, wanted, zoom>>

\* handleTouchEnd of everyone who listens, when the first finger is lifted.
TouchEnd(f) ==
    LET dropped == {e \in Element : manager[e].touch}
    IN  /\ finger[f] # Nothing
        /\ finger' = [finger EXCEPT ![f] = Nothing]
        /\ manager' = [e \in Element |-> IF e \in dropped
                THEN [manager[e] EXCEPT !.touch = FALSE, !.touchInProgress = FALSE,
                                        !.object = Nothing]
                ELSE manager[e]]
        /\ Stopped(dropped \cap Node)
        /\ UNCHANGED <<blocked, heldBy, pressed, screenVars, wanted, zoom, disturbed>>

LoseTouchEnd(f) ==
    /\ finger[f] # Nothing
    /\ finger' = [finger EXCEPT ![f] = Nothing]
    /\ disturbed' = (disturbed \/ \E e \in Element : manager[e].touch)
    /\ UNCHANGED <<dragVars, pressed, screenVars, pin, wanted, zoom>>

Following(e) == manager[e].mouse \/ (manager[e].touch /\ Cardinality(Down) = 1)

\* handleMouseMove, and handleTouchMove of one finger: onDrag of the nodes.
Move ==
    /\ \E e \in Element : Following(e)
    /\ userInteraction' = (userInteraction \/ \E n \in Node : Following(n))
    /\ UNCHANGED <<manager, blocked, heldBy, wasPinned, handVars, screenVars, pin, wanted,
                   zoom, disturbed>>

\* scale: a factor may be infinite, and stays so.
Scaled(measured) == IF measured /\ zoom # "infinite" THEN "zoomed" ELSE "infinite"

\* handleTouchMove of two fingers: by the length that the container measured, which is
\* none if the second finger came down on a node.  Nodes have nothing to scroll, and throw.
Pinch ==
    /\ Cardinality(Down) = 2 /\ manager[Container].touch /\ manager[Container].scroll
    /\ zoom' = Scaled(manager[Container].measured)
    /\ UNCHANGED <<dragVars, handVars, screenVars, pin, wanted, disturbed>>

Wheel ==
    /\ manager[Container].scroll
    /\ zoom' = Scaled(TRUE)
    /\ UNCHANGED <<dragVars, handVars, screenVars, pin, wanted, disturbed>>

InputNext ==
    \/ RunRenderer \/ FullscreenChange \/ EnterFullscreen \/ Recentre \/ Move \/ Pinch \/ Wheel
    \/ \E n \in Node : RedrawNode(n) \/ PinLeaf(n)
    \/ \E button \in Mouse :
        MouseUp(button) \/ LoseMouseUp(button) \/ \E e \in Element : MouseDown(e, button)
    \/ \E f \in Finger :
        \/ TouchEnd(f) \/ LoseTouchEnd(f)
        \/ \E e \in Element, bubbles \in BOOLEAN : TouchStart(f, e, bubbles)

InputSpec == InputInit /\ [][InputNext]_inputVars

-----------------------------------------------------------------------------
\* When no finger or button is down any more, nothing is left of the drags: no listener on
\* the document, text can be selected, the nodes are pinned that the page wants pinned and
\* the layout may rest; and the picture can be moved as a whole in full screen only and
\* has its own size again some time after it.  So it is unless a release was lost, a press
\* interrupted a drag or a node was drawn anew below the hand (handleMouseUp,
\* handleTouchEnd, handleFullscreenChange).
InputReleased ==
    /\ pressed = {} /\ Down = {} /\ ~disturbed =>
        /\ \A e \in Element : ~Dragging(e)
        /\ ~blocked /\ heldBy = {} /\ pin = wanted /\ ~userInteraction
    /\ running /\ ~early =>
        /\ manager[Container].drag = full.document /\ manager[Container].scroll = full.document
        /\ ~full.document /\ recentre = 0 => zoom \in {"home", "astray"}

-----------------------------------------------------------------------------
(***************************************************************************)
(* The inductive invariant behind it.                                      *)
(***************************************************************************)
Managers ==
    [live : BOOLEAN, drag : BOOLEAN, scroll : BOOLEAN, mouse : BOOLEAN, touch : BOOLEAN,
     touchInProgress : BOOLEAN, object : Element \cup {Nothing}, prevSelectStart : BOOLEAN,
     measured : BOOLEAN]

InputTyped ==
    /\ manager \in [Element -> Managers]
    /\ finger \in [Finger -> Element \cup {Nothing}]
    /\ heldBy \subseteq Element
    /\ pin \subseteq Node /\ wanted \subseteq Node /\ wasPinned \subseteq Node
    /\ blocked \in BOOLEAN /\ userInteraction \in BOOLEAN
    /\ full \in [document : BOOLEAN, page : BOOLEAN] /\ recentre \in Nat

\* There is nothing to press or to touch before the renderer runs.
RunsFirst == ~running => \A e \in Element : manager[e] = NoManager

\* A listener has a button or a finger to wait for, which will stop it; the mouse and
\* the fingers do not hold the same element, so each finds its own object.
HandsApart ==
    \A e \in Element :
        /\ manager[e].touchInProgress <=> manager[e].touch
        /\ manager[e].touch => Down # {}
        /\ manager[e].mouse =>
            /\ pressed # {} /\ ~manager[e].touch
            /\ manager[e].object = e /\ ~manager[e].prevSelectStart

\* What a drag has changed is what the end of it changes back.
DragsUndone ==
    /\ heldBy = {e \in Element : manager[e].mouse}
    /\ blocked => \E e \in Element : manager[e].mouse
    /\ userInteraction => \E n \in Node : Dragging(n)
    /\ \A n \in Node : n \in wanted <=> n \in (IF Dragging(n) THEN wasPinned ELSE pin)

\* The container takes part in full screen only, and what was zoomed then is undone by a timer.
ScreenFollowed ==
    /\ running =>
        /\ manager[Container].drag <=> full.document
        /\ manager[Container].scroll <=> full.document
    /\ ~running => ~full.document
    /\ zoom \in {"home", "astray"} \/ full.document \/ recentre > 0

InputInv ==
    /\ InputTyped
    /\ RunsFirst
    /\ ~disturbed => HandsApart /\ DragsUndone
    /\ ~early => ScreenFollowed
=============================================================================
