----------------------------- MODULE Library_proofs -----------------------------
(***************************************************************************)
(* Proofs about the drawing library: what Input says of mouse, fingers and *)
(* full screen, whatever is let go leaves nothing behind; and what Layout  *)
(* says of a frame, pinned bodies return to where they were when it began, *)
(* and the box holds all bodies.                                           *)
(***************************************************************************)
EXTENDS Layout, Input, WellFoundedInduction, TLAPS

-----------------------------------------------------------------------------
\* Mouse, fingers and full screen.

\* Dragged by the mouse, or by a finger.
LEMMA DragKinds ==
  ASSUME NEW e
  PROVE  Dragging(e) <=> manager[e].mouse \/ manager[e].touch
BY DEF Dragging

LEMMA InitInput == InputInit => InputInv
<1> SUFFICES ASSUME InputInit PROVE InputInv
  OBVIOUS
<1>1. \A e \in Element : manager[e] = NoManager /\ NoManager \in Managers
  BY DEF InputInit, NoManager, Manager, Managers
<1>2. \A e \in Element : ~manager[e].mouse /\ ~manager[e].touch /\ ~manager[e].touchInProgress
  BY <1>1 DEF NoManager, Manager
<1>3. InputTyped
  BY <1>1 DEF InputInit, InputTyped
<1>4. RunsFirst
  BY <1>1 DEF RunsFirst
<1>5. HandsApart
  BY <1>2 DEF HandsApart
<1>6. DragsUndone
  <2>1. \A n \in Node : n \in Element /\ ~Dragging(n)
    BY <1>2 DEF Dragging, Element
  <2> QED BY <1>2, <2>1 DEF InputInit, DragsUndone
<1>7. ScreenFollowed
  BY DEF InputInit, ScreenFollowed
<1> QED BY <1>3, <1>4, <1>5, <1>6, <1>7 DEF InputInv

-----------------------------------------------------------------------------
(***************************************************************************)
(* The renderer and the page.                                              *)
(***************************************************************************)
LEMMA RunRendererInv == ASSUME InputInv, RunRenderer PROVE InputInv'
<1>1. Container \in Element /\ \A n \in Node : n \in Element /\ n # Container
  BY InputAssumption DEF Element
<1>2. \A e \in Element : /\ manager'[e] \in Managers
                         /\ ~manager'[e].mouse /\ ~manager'[e].touch
                         /\ ~manager'[e].touchInProgress
                         /\ ~manager[e].mouse /\ ~manager[e].touch
  BY <1>1 DEF RunRenderer, InputInv, RunsFirst, NoManager, Manager, Managers, Listening, Enabled,
              Scrolling
<1>3. InputTyped'
  <2>1. manager' \in [Element -> Managers]
    BY <1>2 DEF RunRenderer
  <2> QED BY <2>1 DEF RunRenderer, InputInv, InputTyped, handVars
<1>4. RunsFirst'
  BY DEF RunRenderer, RunsFirst
<1>5. ASSUME ~disturbed' PROVE HandsApart' /\ DragsUndone'
  <2>1. DragsUndone /\ \A n \in Node : ~Dragging(n) /\ ~Dragging(n)'
    BY <1>1, <1>2, <1>5 DEF RunRenderer, InputInv, Dragging
  <2>2. HandsApart'
    BY <1>2 DEF HandsApart
  <2>3. DragsUndone'
    BY <1>2, <2>1 DEF RunRenderer, DragsUndone
  <2> QED BY <2>2, <2>3
<1>6. ASSUME ~early' PROVE ScreenFollowed'
  <2>1. ~manager'[Container].drag /\ ~manager'[Container].scroll
    BY <1>1 DEF RunRenderer, Listening, Enabled, Scrolling, Manager
  <2> QED BY <1>6, <2>1 DEF RunRenderer, InputInv, ScreenFollowed, InputTyped
<1> QED BY <1>3, <1>4, <1>5, <1>6 DEF InputInv

LEMMA FullscreenChangeInv == ASSUME InputInv, FullscreenChange PROVE InputInv'
<1>1. Container \in Element /\ \A n \in Node : n \in Element /\ n # Container
  BY InputAssumption DEF Element
<1>2. \A e \in Element : /\ manager'[e] \in Managers
                         /\ manager'[e].mouse = manager[e].mouse
                         /\ manager'[e].touch = manager[e].touch
                         /\ manager'[e].touchInProgress = manager[e].touchInProgress
                         /\ manager'[e].object = manager[e].object
                         /\ manager'[e].prevSelectStart = manager[e].prevSelectStart
  <2>1. CASE running
    <3>1. ASSUME NEW m \in Managers, NEW b \in BOOLEAN
          PROVE  /\ Enabled(m, b) \in Managers
                 /\ Enabled(m, b).mouse = m.mouse /\ Enabled(m, b).touch = m.touch
                 /\ Enabled(m, b).touchInProgress = m.touchInProgress
                 /\ Enabled(m, b).object = m.object
                 /\ Enabled(m, b).prevSelectStart = m.prevSelectStart
      BY DEF Managers, Enabled, Scrolling
    <3>2. manager' = [manager EXCEPT ![Container] = Enabled(manager[Container], ~full.document)]
      BY <2>1 DEF FullscreenChange
    <3>3. manager \in [Element -> Managers] /\ (~full.document) \in BOOLEAN
      BY DEF InputInv, InputTyped
    <3>4. PICK b \in BOOLEAN : b = (~full.document)
      BY <3>3
    <3>5. ASSUME NEW e \in Element
          PROVE  /\ manager[e] \in Managers
                 /\ manager'[e] = manager[e] \/ manager'[e] = Enabled(manager[e], b)
      BY <3>2, <3>3, <3>4
    <3> QED BY <3>1, <3>5
  <2>2. CASE ~running
    BY <2>2 DEF FullscreenChange, InputInv, InputTyped
  <2> QED BY <2>1, <2>2
<1>3. InputTyped'
  <2>1. manager' \in [Element -> Managers]
    BY <1>2 DEF FullscreenChange, InputInv, InputTyped
  <2> QED BY <2>1 DEF FullscreenChange, InputInv, InputTyped, handVars
<1>4. RunsFirst'
  BY DEF FullscreenChange, InputInv, RunsFirst
<1>5. ASSUME ~disturbed' PROVE HandsApart' /\ DragsUndone'
  <2>1. HandsApart /\ DragsUndone /\ \A n \in Node : Dragging(n)' <=> Dragging(n)
    BY <1>1, <1>2, <1>5 DEF FullscreenChange, InputInv, Dragging
  <2>2. HandsApart'
    BY <1>2, <2>1 DEF FullscreenChange, HandsApart, Down, handVars
  <2>3. DragsUndone'
    BY <1>2, <2>1 DEF FullscreenChange, DragsUndone
  <2> QED BY <2>2, <2>3
<1>6. ASSUME ~early' PROVE ScreenFollowed'
  <2>1. running /\ ~early /\ manager'[Container] = Enabled(manager[Container], ~full.document)
    BY <1>1, <1>6 DEF FullscreenChange, InputInv, InputTyped
  <2>2. (manager'[Container].drag <=> ~full.document) /\ (manager'[Container].scroll <=> ~full.document)
    <3>1. \A m \in Managers : \A b : Enabled(m, b).drag = b /\ Enabled(m, b).scroll = b
      BY DEF Managers, Enabled, Scrolling
    <3>2. manager[Container] \in Managers
      BY <1>1 DEF InputInv, InputTyped
    <3> QED BY <2>1, <3>1, <3>2
  <2>3. full'.document = ~full.document /\ recentre' > 0 /\ running'
    BY <2>1 DEF FullscreenChange, InputInv, InputTyped
  <2> QED BY <2>2, <2>3 DEF ScreenFollowed
<1> QED BY <1>3, <1>4, <1>5, <1>6 DEF InputInv

\* What changes no drag and no hand.
LEMMA DragsSame ==
  ASSUME InputInv, UNCHANGED <<dragVars, handVars, pin, wanted, disturbed>>
  PROVE  ~disturbed' => HandsApart' /\ DragsUndone'
<1> SUFFICES ASSUME ~disturbed PROVE HandsApart' /\ DragsUndone'
  OBVIOUS
<1>1. HandsApart /\ DragsUndone
  BY DEF InputInv
<1>2. HandsApart'
  BY <1>1 DEF HandsApart, Down, dragVars, handVars
<1>3. DragsUndone'
  BY <1>1 DEF DragsUndone, Dragging, dragVars
<1> QED BY <1>2, <1>3

LEMMA EnterFullscreenInv == ASSUME InputInv, EnterFullscreen PROVE InputInv'
<1>1. full'.document = full.document
  BY DEF EnterFullscreen, InputInv, InputTyped
<1>2. InputTyped'
  BY DEF EnterFullscreen, InputInv, InputTyped, dragVars, handVars
<1>3. RunsFirst'
  BY DEF EnterFullscreen, InputInv, RunsFirst, dragVars
<1>4. ~disturbed' => HandsApart' /\ DragsUndone'
  BY DragsSame DEF EnterFullscreen
<1>5. ~early' => ScreenFollowed'
  BY <1>1 DEF EnterFullscreen, InputInv, ScreenFollowed, dragVars
<1> QED BY <1>2, <1>3, <1>4, <1>5 DEF InputInv

\* A change of the scale: it is the picture's own, or in full screen, or a timer goes off.
LEMMA ZoomInv ==
  ASSUME InputInv, UNCHANGED <<dragVars, handVars, pin, wanted, disturbed, running, full, early>>,
         recentre' \in Nat,
         ~early => zoom' \in {"home", "astray"} \/ full.document \/ recentre' > 0
  PROVE  InputInv'
<1>1. InputTyped'
  BY DEF InputInv, InputTyped, dragVars, handVars
<1>2. RunsFirst'
  BY DEF InputInv, RunsFirst, dragVars
<1>3. ~disturbed' => HandsApart' /\ DragsUndone'
  BY DragsSame
<1>4. ~early' => ScreenFollowed'
  BY DEF InputInv, ScreenFollowed, dragVars
<1> QED BY <1>1, <1>2, <1>3, <1>4 DEF InputInv

LEMMA RecentreInv == ASSUME InputInv, Recentre PROVE InputInv'
<1>1. recentre' \in Nat
  BY DEF Recentre, InputInv, InputTyped
<1>2. zoom' \in {"home", "astray"}
  BY DEF Recentre, Centred
<1> QED BY <1>1, <1>2, ZoomInv DEF Recentre

\* Who zooms is in full screen.
LEMMA ScrollsInFullscreen ==
  ASSUME InputInv, manager[Container].scroll, ~early
  PROVE  full.document
<1>1. running
  BY DEF InputInv, RunsFirst, NoManager, Manager, Element
<1> QED BY <1>1 DEF InputInv, ScreenFollowed

LEMMA PinchInv == ASSUME InputInv, Pinch PROVE InputInv'
<1>1. recentre' \in Nat
  BY DEF Pinch, InputInv, InputTyped, screenVars
<1>2. ~early => full.document
  BY ScrollsInFullscreen DEF Pinch
<1> QED BY <1>1, <1>2, ZoomInv DEF Pinch, screenVars

LEMMA WheelInv == ASSUME InputInv, Wheel PROVE InputInv'
<1>1. recentre' \in Nat
  BY DEF Wheel, InputInv, InputTyped, screenVars
<1>2. ~early => full.document
  BY ScrollsInFullscreen DEF Wheel
<1> QED BY <1>1, <1>2, ZoomInv DEF Wheel, screenVars

-----------------------------------------------------------------------------
(***************************************************************************)
(* Hands, and nodes that are drawn anew or pinned.                         *)
(***************************************************************************)
\* The screen takes no notice of hands.
LEMMA ScreenSame ==
  ASSUME InputInv, UNCHANGED <<screenVars, zoom>>,
         manager'[Container].drag = manager[Container].drag,
         manager'[Container].scroll = manager[Container].scroll
  PROVE  ~early' => ScreenFollowed'
BY DEF InputInv, ScreenFollowed, screenVars

LEMMA RedrawNodeInv == ASSUME InputInv, NEW n \in Node, RedrawNode(n) PROVE InputInv'
<1>1. n # Container /\ n \in Element /\ \A x \in Node : x \in Element
  BY InputAssumption DEF Element
<1>2. /\ \A e \in Element : manager'[e] = IF e = n THEN Listening(n) ELSE manager[e]
      /\ Listening(n) \in Managers
      /\ ~Listening(n).mouse /\ ~Listening(n).touch /\ ~Listening(n).touchInProgress
  BY <1>1 DEF RedrawNode, Released, Listening, Scrolling, Manager, Managers, InputInv, InputTyped
<1>3. InputTyped'
  <2>1. manager' \in [Element -> Managers]
    BY <1>2 DEF RedrawNode, Released, InputInv, InputTyped
  <2> QED BY <2>1 DEF RedrawNode, InputInv, InputTyped, handVars, screenVars
<1>4. RunsFirst'
  <2>1. running
    BY <1>1 DEF RedrawNode, InputInv, RunsFirst, NoManager, Manager
  <2> QED BY <2>1 DEF RedrawNode, RunsFirst, screenVars
<1>5. ASSUME ~disturbed' PROVE HandsApart' /\ DragsUndone'
  <2>1. HandsApart /\ DragsUndone /\ ~manager[n].mouse /\ ~manager[n].touch
    BY <1>5 DEF RedrawNode, InputInv, Dragging
  <2>2. \A e \in Element : /\ manager'[e].mouse <=> manager[e].mouse
                           /\ manager'[e].touch <=> manager[e].touch
    BY <1>2, <2>1
  <2>3. HandsApart'
    BY <1>2, <2>1 DEF RedrawNode, HandsApart, Down, handVars
  <2>4. DragsUndone'
    <3>1. \A x \in Node : Dragging(x)' <=> Dragging(x)
      BY <1>1, <2>2 DEF Dragging
    <3>2. \A x \in Node : Dragging(x) => (x \in wasPinned' <=> x \in wasPinned)
      BY <2>1 DEF RedrawNode, Dragging
    <3>3. heldBy' = {e \in Element : manager'[e].mouse}
      BY <2>1, <2>2 DEF RedrawNode, DragsUndone
    <3>4. blocked' => \E e \in Element : manager'[e].mouse
      BY <2>1, <2>2 DEF RedrawNode, DragsUndone
    <3>5. userInteraction' => \E x \in Node : Dragging(x)'
      BY <2>1, <3>1 DEF RedrawNode, DragsUndone
    <3>6. \A x \in Node : x \in wanted' <=> x \in (IF Dragging(x)' THEN wasPinned' ELSE pin')
      BY <2>1, <3>1, <3>2 DEF RedrawNode, DragsUndone
    <3> QED BY <3>3, <3>4, <3>5, <3>6 DEF DragsUndone
  <2> QED BY <2>3, <2>4
<1>6. ~early' => ScreenFollowed'
  <2>1. manager'[Container] = manager[Container]
    BY <1>1, <1>2 DEF Element
  <2> QED BY <2>1, ScreenSame DEF RedrawNode
<1> QED BY <1>3, <1>4, <1>5, <1>6 DEF InputInv

LEMMA PinLeafInv == ASSUME InputInv, NEW n \in Node, PinLeaf(n) PROVE InputInv'
<1>1. InputTyped'
  BY DEF PinLeaf, InputInv, InputTyped, dragVars, handVars, screenVars
<1>2. RunsFirst'
  BY DEF PinLeaf, InputInv, RunsFirst, dragVars, screenVars
<1>3. ASSUME ~disturbed' PROVE HandsApart' /\ DragsUndone'
  <2>1. HandsApart /\ DragsUndone /\ ~Dragging(n)
    BY <1>3 DEF PinLeaf, InputInv
  <2>2. HandsApart'
    BY <2>1 DEF PinLeaf, HandsApart, Down, dragVars, handVars
  <2>3. \A x \in Node : Dragging(x)' <=> Dragging(x)
    BY DEF PinLeaf, Dragging, dragVars
  <2>4. DragsUndone'
    BY <2>1, <2>3 DEF PinLeaf, DragsUndone, dragVars
  <2> QED BY <2>2, <2>4
<1>4. ~early' => ScreenFollowed'
  BY ScreenSame DEF PinLeaf, dragVars
<1> QED BY <1>1, <1>2, <1>3, <1>4 DEF InputInv

LEMMA MoveInv == ASSUME InputInv, Move PROVE InputInv'
<1>1. \A n \in Node : Following(n) => Dragging(n)
  BY DEF Following, Dragging
<1>2. userInteraction' = (userInteraction \/ \E n \in Node : Following(n))
      /\ userInteraction' \in BOOLEAN
  BY DEF Move
<1>3. InputTyped'
  BY <1>2 DEF Move, InputInv, InputTyped, handVars, screenVars
<1>4. RunsFirst'
  BY DEF Move, InputInv, RunsFirst, screenVars
<1>5. ASSUME ~disturbed' PROVE HandsApart' /\ DragsUndone'
  <2>1. HandsApart /\ DragsUndone
    BY <1>5 DEF Move, InputInv
  <2>2. HandsApart'
    BY <2>1 DEF Move, HandsApart, Down, handVars
  <2>3. userInteraction' => \E n \in Node : Dragging(n)
    BY <1>1, <1>2, <2>1 DEF DragsUndone
  <2>4. \A x : Dragging(x)' <=> Dragging(x)
    BY DEF Move, Dragging
  <2>5. DragsUndone'
    BY <2>1, <2>3, <2>4 DEF Move, DragsUndone
  <2> QED BY <2>2, <2>5
<1>6. ~early' => ScreenFollowed'
  BY ScreenSame DEF Move
<1> QED BY <1>3, <1>4, <1>5, <1>6 DEF InputInv

LEMMA LoseMouseUpInv == ASSUME InputInv, NEW button \in Mouse, LoseMouseUp(button) PROVE InputInv'
<1>1. InputTyped'
  BY DEF LoseMouseUp, InputInv, InputTyped, dragVars, screenVars
<1>2. RunsFirst'
  BY DEF LoseMouseUp, InputInv, RunsFirst, dragVars, screenVars
<1>3. ASSUME ~disturbed' PROVE HandsApart' /\ DragsUndone'
  <2>1. HandsApart /\ DragsUndone /\ \A e \in Element : ~manager[e].mouse
    BY <1>3 DEF LoseMouseUp, InputInv
  <2>2. HandsApart'
    BY <2>1 DEF LoseMouseUp, HandsApart, Down, dragVars
  <2>3. DragsUndone'
    BY <2>1 DEF LoseMouseUp, DragsUndone, Dragging, dragVars
  <2> QED BY <2>2, <2>3
<1>4. ~early' => ScreenFollowed'
  BY ScreenSame DEF LoseMouseUp, dragVars
<1> QED BY <1>1, <1>2, <1>3, <1>4 DEF InputInv

LEMMA LoseTouchEndInv == ASSUME InputInv, NEW f \in Finger, LoseTouchEnd(f) PROVE InputInv'
<1>1. InputTyped'
  BY DEF LoseTouchEnd, InputInv, InputTyped, dragVars, screenVars
<1>2. RunsFirst'
  BY DEF LoseTouchEnd, InputInv, RunsFirst, dragVars, screenVars
<1>3. ASSUME ~disturbed' PROVE HandsApart' /\ DragsUndone'
  <2>1. HandsApart /\ DragsUndone /\ \A e \in Element : ~manager[e].touch
    BY <1>3 DEF LoseTouchEnd, InputInv
  <2>2. HandsApart'
    BY <2>1 DEF LoseTouchEnd, HandsApart, dragVars
  <2>3. DragsUndone'
    BY <2>1 DEF LoseTouchEnd, DragsUndone, Dragging, dragVars
  <2> QED BY <2>2, <2>3
<1>4. ~early' => ScreenFollowed'
  BY ScreenSame DEF LoseTouchEnd, dragVars
<1> QED BY <1>1, <1>2, <1>3, <1>4 DEF InputInv

-----------------------------------------------------------------------------
(***************************************************************************)
(* The mouse.                                                              *)
(***************************************************************************)
LEMMA MouseDownInv ==
  ASSUME InputInv, NEW e \in Element, NEW button \in Mouse, MouseDown(e, button)
  PROVE  InputInv'
<1>1. running /\ running' /\ pressed' # {}
  BY DEF MouseDown, screenVars
<1>2. Container \in Element /\ \A n \in Node : n \in Element
  BY DEF Element
<1>3. CASE UNCHANGED <<dragVars, pin, disturbed>>
  <2>1. InputTyped'
    BY <1>3 DEF MouseDown, InputInv, InputTyped, dragVars, screenVars
  <2>2. RunsFirst'
    BY <1>1 DEF RunsFirst
  <2>3. ASSUME ~disturbed' PROVE HandsApart' /\ DragsUndone'
    <3>1. HandsApart /\ DragsUndone
      BY <1>3, <2>3 DEF InputInv
    <3>2. HandsApart'
      BY <1>1, <1>3, <3>1 DEF MouseDown, HandsApart, Down, dragVars
    <3>3. DragsUndone'
      BY <1>3, <3>1 DEF MouseDown, DragsUndone, Dragging, dragVars
    <3> QED BY <3>2, <3>3
  <2>4. ~early' => ScreenFollowed'
    BY <1>3, ScreenSame DEF MouseDown, dragVars
  <2> QED BY <2>1, <2>2, <2>3, <2>4 DEF InputInv
<1>4. CASE ~UNCHANGED <<dragVars, pin, disturbed>>
  <2>1. /\ ~manager[e].touchInProgress
        /\ Started({e} \cap Node)
        /\ manager' = [manager EXCEPT ![e] =
                [@ EXCEPT !.mouse = TRUE, !.object = e, !.prevSelectStart = blocked]]
        /\ blocked' = TRUE /\ heldBy' = heldBy \cup {e}
        /\ disturbed' = (disturbed \/ \E x \in Element : manager[x].mouse)
    BY <1>4 DEF MouseDown, Ignores
  <2>2. \A x \in Element :
            /\ manager'[x] = IF x # e THEN manager[x]
                             ELSE [manager[e] EXCEPT !.mouse = TRUE, !.object = e,
                                                     !.prevSelectStart = blocked]
            /\ manager[x] \in Managers
    BY <2>1 DEF InputInv, InputTyped
  <2>3. /\ manager'[e] \in Managers /\ manager'[e].mouse /\ manager'[e].object = e
        /\ manager'[e].prevSelectStart = blocked
        /\ manager'[e].touch = manager[e].touch
        /\ manager'[e].touchInProgress = manager[e].touchInProgress
        /\ manager'[e].drag = manager[e].drag /\ manager'[e].scroll = manager[e].scroll
    <3>1. blocked \in BOOLEAN
      BY DEF InputInv, InputTyped
    <3> QED BY <2>2, <3>1 DEF Managers
  <2>4. InputTyped'
    <3>1. manager' \in [Element -> Managers]
      BY <2>1, <2>2, <2>3 DEF InputInv, InputTyped
    <3>2. heldBy' \subseteq Element /\ blocked' \in BOOLEAN
      BY <2>1 DEF InputInv, InputTyped
    <3>3. pin' \subseteq Node /\ wasPinned' \subseteq Node /\ userInteraction' \in BOOLEAN
      BY <2>1 DEF Started, InputInv, InputTyped
    <3> QED BY <3>1, <3>2, <3>3 DEF MouseDown, InputInv, InputTyped, screenVars
  <2>5. RunsFirst'
    BY <1>1 DEF RunsFirst
  <2>6. ASSUME ~disturbed' PROVE HandsApart' /\ DragsUndone'
    <3>1. HandsApart /\ DragsUndone /\ \A x \in Element : ~manager[x].mouse
      BY <2>1, <2>6 DEF InputInv
    <3>2. ~manager[e].touch /\ ~blocked /\ heldBy = {}
      BY <2>1, <3>1 DEF HandsApart, DragsUndone
    <3>3. HandsApart'
      BY <1>1, <2>2, <2>3, <3>1, <3>2 DEF MouseDown, HandsApart, Down
    <3>4. heldBy' = {x \in Element : manager'[x].mouse}
      BY <2>1, <2>2, <2>3, <3>1, <3>2
    <3>5. \A n \in Node : Dragging(n)' <=> (n = e \/ Dragging(n))
      BY <1>2, <2>2, <2>3 DEF Dragging
    <3>6. userInteraction' => \E n \in Node : Dragging(n)'
      BY <2>1, <3>1, <3>5 DEF Started, DragsUndone
    <3>7. \A n \in Node : n \in wanted' <=> n \in (IF Dragging(n)' THEN wasPinned' ELSE pin')
      <4>1. ASSUME NEW n \in Node
            PROVE  n \in wanted <=> n \in (IF Dragging(n)' THEN wasPinned' ELSE pin')
        <5>1. CASE n = e
          <6>1. ~Dragging(n) /\ Dragging(n)'
            BY <5>1, <3>1, <3>2, <3>5 DEF Dragging
          <6>2. n \in wasPinned' <=> n \in pin
            BY <5>1, <2>1 DEF Started
          <6> QED BY <6>1, <6>2, <3>1 DEF DragsUndone
        <5>2. CASE n # e
          <6>1. (n \in wasPinned' <=> n \in wasPinned) /\ (n \in pin' <=> n \in pin)
            BY <5>2, <2>1 DEF Started
          <6> QED BY <5>2, <6>1, <3>1, <3>5 DEF DragsUndone
        <5> QED BY <5>1, <5>2
      <4> QED BY <4>1 DEF MouseDown
    <3>8. \E x \in Element : manager'[x].mouse
      BY <2>3
    <3>9. DragsUndone'
      BY <3>4, <3>6, <3>7, <3>8 DEF DragsUndone
    <3> QED BY <3>3, <3>9
  <2>7. ~early' => ScreenFollowed'
    BY <1>2, <2>2, <2>3, ScreenSame DEF MouseDown
  <2> QED BY <2>4, <2>5, <2>6, <2>7 DEF InputInv
<1> QED BY <1>3, <1>4

LEMMA MouseUpInv == ASSUME InputInv, NEW button \in Mouse, MouseUp(button) PROVE InputInv'
<1> DEFINE dropped == {e \in Element : manager[e].mouse}
<1>1. Container \in Element /\ \A n \in Node : n \in Element
  BY DEF Element
<1>2. /\ \A x \in Element :
            /\ manager'[x] = IF x \in dropped
                             THEN [manager[x] EXCEPT !.mouse = FALSE, !.object = Nothing]
                             ELSE manager[x]
            /\ manager[x] \in Managers
      /\ dropped = {} => blocked' = blocked
      /\ dropped # {} => \E e \in dropped : blocked' = manager[e].prevSelectStart
      /\ heldBy' = heldBy \ {manager[e].object : e \in dropped}
      /\ Stopped({e \in dropped \cap Node : manager[e].object # Nothing})
  BY DEF MouseUp, InputInv, InputTyped
<1>3. \A x \in Element :
        /\ manager'[x] \in Managers /\ ~manager'[x].mouse
        /\ manager'[x].touch = manager[x].touch
        /\ manager'[x].touchInProgress = manager[x].touchInProgress
        /\ manager'[x].drag = manager[x].drag /\ manager'[x].scroll = manager[x].scroll
  <2>1. ASSUME NEW m \in Managers, NEW x, x = [m EXCEPT !.mouse = FALSE, !.object = Nothing]
        PROVE  /\ x \in Managers /\ ~x.mouse /\ x.touch = m.touch
               /\ x.touchInProgress = m.touchInProgress
               /\ x.drag = m.drag /\ x.scroll = m.scroll
    BY <2>1 DEF Managers
  <2>2. ASSUME NEW x \in Element, x \in dropped
        PROVE  /\ manager'[x] = [manager[x] EXCEPT !.mouse = FALSE, !.object = Nothing]
               /\ manager[x] \in Managers
    BY <1>2, <2>2
  <2>3. ASSUME NEW x \in Element, x \notin dropped
        PROVE  manager'[x] = manager[x] /\ manager[x] \in Managers /\ ~manager[x].mouse
    BY <1>2, <2>3
  <2> HIDE DEF dropped
  <2>4. ASSUME NEW x \in Element, x \in dropped
        PROVE  /\ manager'[x] \in Managers /\ ~manager'[x].mouse
               /\ manager'[x].touch = manager[x].touch
               /\ manager'[x].touchInProgress = manager[x].touchInProgress
               /\ manager'[x].drag = manager[x].drag /\ manager'[x].scroll = manager[x].scroll
    BY <2>1, <2>2, <2>4
  <2> QED BY <2>3, <2>4
<1>4. InputTyped'
  <2>1. manager' \in [Element -> Managers]
    BY <1>3 DEF MouseUp
  <2>2. heldBy' \subseteq Element /\ blocked' \in BOOLEAN
    <3>1. \A e \in dropped : manager[e].prevSelectStart \in BOOLEAN
      BY <1>2 DEF Managers
    <3> QED BY <1>2, <3>1 DEF InputInv, InputTyped
  <2>3. pin' \subseteq Node /\ wasPinned' \subseteq Node /\ userInteraction' \in BOOLEAN
    BY <1>2 DEF Stopped, InputInv, InputTyped
  <2> QED BY <2>1, <2>2, <2>3 DEF MouseUp, InputInv, InputTyped, screenVars
<1>5. RunsFirst'
  <2>1. ASSUME ~running, NEW e \in Element PROVE manager'[e] = NoManager
    <3>1. manager[e] = NoManager /\ e \notin dropped
      BY <2>1 DEF InputInv, RunsFirst, NoManager, Manager
    <3> QED BY <3>1, <1>2
  <2> QED BY <2>1 DEF MouseUp, RunsFirst, screenVars
<1>6. ASSUME ~disturbed' PROVE HandsApart' /\ DragsUndone'
  <2>1. HandsApart /\ DragsUndone
    BY <1>6 DEF MouseUp, InputInv
  <2>2. \A e \in dropped : manager[e].object = e /\ ~manager[e].prevSelectStart
                           /\ ~manager[e].touch
    BY <2>1 DEF HandsApart
  <2>3. \A e \in dropped : e # Nothing
    BY InputAssumption DEF Element
  <2>4. HandsApart'
    BY <1>3, <2>1 DEF MouseUp, HandsApart, Down
  <2>5. heldBy' = {e \in Element : manager'[e].mouse}
    <3>1. {manager[e].object : e \in dropped} = dropped /\ heldBy = dropped
      BY <2>1, <2>2 DEF DragsUndone
    <3>2. heldBy' = {}
      BY <1>2, <3>1
    <3>3. \A e \in Element : ~manager'[e].mouse
      BY <1>3
    <3> QED BY <3>2, <3>3
  <2>6. ~blocked'
    BY <1>2, <2>1, <2>2 DEF DragsUndone
  <2>7. {e \in dropped \cap Node : manager[e].object # Nothing} = dropped \cap Node
    BY <2>2, <2>3
  <2>8. Stopped(dropped \cap Node)
    BY <1>2, <2>7
  <2>9. \A n \in Node : /\ n \in dropped => Dragging(n) /\ ~Dragging(n)'
                        /\ n \notin dropped => (Dragging(n)' <=> Dragging(n))
    BY <1>1, <1>3, <2>2 DEF Dragging
  <2>10. userInteraction' => \E n \in Node : Dragging(n)'
    BY <2>1, <2>8, <2>9 DEF Stopped, DragsUndone
  <2>11. \A n \in Node : n \in wanted' <=> n \in (IF Dragging(n)' THEN wasPinned' ELSE pin')
    <3>1. ASSUME NEW n \in Node
          PROVE  n \in wanted <=> n \in (IF Dragging(n)' THEN wasPinned' ELSE pin')
      <4>1. CASE n \in dropped
        <5>1. n \in pin' <=> n \in wasPinned
          BY <2>8, <4>1 DEF Stopped
        <5> QED BY <5>1, <4>1, <2>1, <2>9 DEF DragsUndone
      <4>2. CASE n \notin dropped
        <5>1. (n \in pin' <=> n \in pin) /\ wasPinned' = wasPinned
          BY <2>8, <4>2 DEF Stopped
        <5> QED BY <5>1, <4>2, <2>1, <2>9 DEF DragsUndone
      <4> QED BY <4>1, <4>2
    <3> QED BY <3>1 DEF MouseUp
  <2>12. DragsUndone'
    BY <2>5, <2>6, <2>10, <2>11 DEF DragsUndone
  <2> QED BY <2>4, <2>12
<1>7. ~early' => ScreenFollowed'
  BY <1>1, <1>3, ScreenSame DEF MouseUp
<1> QED BY <1>4, <1>5, <1>6, <1>7 DEF InputInv

-----------------------------------------------------------------------------
(***************************************************************************)
(* Fingers.                                                                *)
(***************************************************************************)
\* A further finger only measures.
LEMMA FurtherFingerInv ==
  ASSUME InputInv, NEW f \in Finger, NEW e \in Element, NEW bubbles \in BOOLEAN,
         TouchStart(f, e, bubbles), Down # {}
  PROVE  InputInv'
<1>1. /\ running /\ running' /\ finger' = [finger EXCEPT ![f] = e]
      /\ manager' = [manager EXCEPT ![e] = [@ EXCEPT !.measured = TRUE]]
      /\ UNCHANGED <<pin, wasPinned, userInteraction, disturbed>>
      /\ UNCHANGED <<blocked, heldBy, pressed, screenVars, wanted, zoom>>
  BY DEF TouchStart, screenVars
<1>2. Container \in Element /\ \A n \in Node : n \in Element
  BY DEF Element
<1>3. \A x \in Element :
        /\ manager'[x] \in Managers
        /\ manager'[x].mouse = manager[x].mouse /\ manager'[x].touch = manager[x].touch
        /\ manager'[x].touchInProgress = manager[x].touchInProgress
        /\ manager'[x].object = manager[x].object
        /\ manager'[x].prevSelectStart = manager[x].prevSelectStart
        /\ manager'[x].drag = manager[x].drag /\ manager'[x].scroll = manager[x].scroll
  <2>1. ASSUME NEW m \in Managers, NEW x, x = [m EXCEPT !.measured = TRUE]
        PROVE  /\ x \in Managers /\ x.mouse = m.mouse /\ x.touch = m.touch
               /\ x.touchInProgress = m.touchInProgress /\ x.object = m.object
               /\ x.prevSelectStart = m.prevSelectStart /\ x.drag = m.drag /\ x.scroll = m.scroll
    BY <2>1 DEF Managers
  <2>2. \A x \in Element : manager[x] \in Managers
    BY DEF InputInv, InputTyped
  <2>3. ASSUME NEW x \in Element, x # e PROVE manager'[x] = manager[x]
    BY <1>1, <2>3 DEF InputInv, InputTyped
  <2>4. manager'[e] = [manager[e] EXCEPT !.measured = TRUE]
    BY <1>1 DEF InputInv, InputTyped
  <2> QED BY <2>1, <2>2, <2>3, <2>4
<1>4. Down' # {}
  <2>1. PICK g \in Finger : finger[g] # Nothing
    BY DEF Down
  <2>2. finger'[g] # Nothing
    BY <1>1, <2>1, InputAssumption DEF InputInv, InputTyped, Element
  <2> QED BY <2>2 DEF Down
<1>5. InputTyped'
  <2>1. manager' \in [Element -> Managers]
    BY <1>1, <1>3 DEF InputInv, InputTyped
  <2> QED BY <1>1, <2>1 DEF InputInv, InputTyped, screenVars
<1>6. RunsFirst'
  BY <1>1 DEF RunsFirst
<1>7. ASSUME ~disturbed' PROVE HandsApart' /\ DragsUndone'
  <2>1. HandsApart /\ DragsUndone
    BY <1>1, <1>7 DEF InputInv
  <2>2. HandsApart'
    BY <1>1, <1>3, <1>4, <2>1 DEF HandsApart
  <2>3. \A n \in Node : Dragging(n)' <=> Dragging(n)
    BY <1>2, <1>3 DEF Dragging
  <2>4. DragsUndone'
    BY <1>1, <1>3, <2>1, <2>3 DEF DragsUndone
  <2> QED BY <2>2, <2>4
<1>8. ~early' => ScreenFollowed'
  BY <1>1, <1>2, <1>3, ScreenSame
<1> QED BY <1>5, <1>6, <1>7, <1>8 DEF InputInv

\* The first one begins a drag of what it touches, and of the container if that is told.
LEMMA FirstFingerInv ==
  ASSUME InputInv, NEW f \in Finger, NEW e \in Element, NEW bubbles \in BOOLEAN,
         TouchStart(f, e, bubbles), Down = {}
  PROVE  InputInv'
<1> DEFINE told == IF bubbles /\ Down = {} THEN {e, Container} ELSE {e}
           dragged == {x \in told : manager[x].drag}
<1>1. Container \in Element /\ \A n \in Node : n \in Element
  BY DEF Element
<1>2. /\ running /\ running' /\ finger' = [finger EXCEPT ![f] = e]
      /\ Started(dragged \cap Node)
      /\ manager' = [x \in Element |-> IF x \in dragged
                THEN [manager[x] EXCEPT !.object = e, !.touch = TRUE, !.touchInProgress = TRUE]
                ELSE manager[x]]
      /\ disturbed' = (disturbed \/ \E x \in dragged : Dragging(x))
      /\ UNCHANGED <<blocked, heldBy, pressed, screenVars, wanted, zoom>>
  BY DEF TouchStart, screenVars
<1>3. dragged \subseteq Element
  BY <1>1
<1> HIDE DEF dragged
<1>4. ASSUME NEW m \in Managers, NEW x,
             x = [m EXCEPT !.object = e, !.touch = TRUE, !.touchInProgress = TRUE]
      PROVE  /\ x \in Managers /\ x.touch /\ x.touchInProgress /\ x.mouse = m.mouse
             /\ x.drag = m.drag /\ x.scroll = m.scroll
  BY <1>4 DEF Managers
<1>5. \A x \in Element : manager[x] \in Managers
  BY DEF InputInv, InputTyped
<1>6. ASSUME NEW x \in Element, x \in dragged
      PROVE  /\ manager'[x] \in Managers /\ manager'[x].touch /\ manager'[x].touchInProgress
             /\ manager'[x].mouse = manager[x].mouse
             /\ manager'[x].drag = manager[x].drag /\ manager'[x].scroll = manager[x].scroll
  <2>1. manager'[x] = [manager[x] EXCEPT !.object = e, !.touch = TRUE, !.touchInProgress = TRUE]
    BY <1>2, <1>6
  <2> QED BY <1>4, <1>5, <2>1
<1>7. ASSUME NEW x \in Element, x \notin dragged PROVE manager'[x] = manager[x]
  BY <1>2, <1>7
<1>8. Down' # {}
  <2>1. e # Nothing
    BY InputAssumption DEF Element
  <2>2. finger'[f] = e
    BY <1>2 DEF InputInv, InputTyped
  <2> QED BY <2>1, <2>2 DEF Down
<1>9. InputTyped'
  <2>1. manager' \in [Element -> Managers]
    <3>1. \A x \in Element : manager'[x] \in Managers
      BY <1>5, <1>6, <1>7
    <3> QED BY <1>2, <3>1
  <2>2. pin' \subseteq Node /\ wasPinned' \subseteq Node /\ userInteraction' \in BOOLEAN
    BY <1>2 DEF Started, InputInv, InputTyped
  <2> QED BY <1>2, <2>1, <2>2 DEF InputInv, InputTyped, screenVars
<1>10. RunsFirst'
  BY <1>2 DEF RunsFirst
<1>11. ASSUME ~disturbed' PROVE HandsApart' /\ DragsUndone'
  <2>1. HandsApart /\ DragsUndone /\ \A x \in dragged : ~Dragging(x)
    BY <1>2, <1>11 DEF InputInv
  <2>2. HandsApart'
    <3>1. ASSUME NEW x \in Element
          PROVE  /\ manager'[x].touchInProgress <=> manager'[x].touch
                 /\ manager'[x].mouse =>
                      /\ pressed # {} /\ ~manager'[x].touch
                      /\ manager'[x].object = x /\ ~manager'[x].prevSelectStart
      <4>1. CASE x \in dragged
        BY <1>6, <2>1, <4>1 DEF Dragging
      <4>2. CASE x \notin dragged
        BY <1>7, <2>1, <4>2 DEF HandsApart
      <4> QED BY <4>1, <4>2
    <3> QED BY <1>2, <1>8, <3>1 DEF HandsApart
  <2>3. \A x \in Element : manager'[x].mouse <=> manager[x].mouse
    BY <1>6, <1>7
  <2>4. \A n \in Node : Dragging(n)' <=> (n \in dragged \/ Dragging(n))
    <3>1. ASSUME NEW n \in Node PROVE Dragging(n)' <=> (n \in dragged \/ Dragging(n))
      <4>1. CASE n \in dragged
        BY <1>1, <1>6, <4>1 DEF Dragging
      <4>2. CASE n \notin dragged
        BY <1>1, <1>7, <4>2 DEF Dragging
      <4> QED BY <4>1, <4>2
    <3> QED BY <3>1
  <2>5. heldBy' = {x \in Element : manager'[x].mouse}
        /\ (blocked' => \E x \in Element : manager'[x].mouse)
    BY <1>2, <2>1, <2>3 DEF DragsUndone
  <2>6. userInteraction' => \E n \in Node : Dragging(n)'
    BY <1>2, <2>1, <2>4 DEF Started, DragsUndone
  <2>7. \A n \in Node : n \in wanted' <=> n \in (IF Dragging(n)' THEN wasPinned' ELSE pin')
    <3>1. ASSUME NEW n \in Node
          PROVE  n \in wanted <=> n \in (IF Dragging(n)' THEN wasPinned' ELSE pin')
      <4>1. CASE n \in dragged
        <5>1. n \in wasPinned' <=> n \in pin
          BY <1>2, <4>1 DEF Started
        <5> QED BY <4>1, <5>1, <2>1, <2>4 DEF DragsUndone
      <4>2. CASE n \notin dragged
        <5>1. (n \in wasPinned' <=> n \in wasPinned) /\ (n \in pin' <=> n \in pin)
          BY <1>2, <4>2 DEF Started
        <5> QED BY <4>2, <5>1, <2>1, <2>4 DEF DragsUndone
      <4> QED BY <4>1, <4>2
    <3> QED BY <1>2, <3>1
  <2>8. DragsUndone'
    BY <2>5, <2>6, <2>7 DEF DragsUndone
  <2> QED BY <2>2, <2>8
<1>12. ~early' => ScreenFollowed'
  <2>1. manager'[Container].drag = manager[Container].drag
        /\ manager'[Container].scroll = manager[Container].scroll
    BY <1>1, <1>6, <1>7
  <2> QED BY <1>2, <2>1, ScreenSame
<1> QED BY <1>9, <1>10, <1>11, <1>12 DEF InputInv

LEMMA TouchEndInv == ASSUME InputInv, NEW f \in Finger, TouchEnd(f) PROVE InputInv'
<1> DEFINE dropped == {e \in Element : manager[e].touch}
<1>1. Container \in Element /\ \A n \in Node : n \in Element
  BY DEF Element
<1>2. /\ finger' = [finger EXCEPT ![f] = Nothing]
      /\ manager' = [e \in Element |-> IF e \in dropped
                THEN [manager[e] EXCEPT !.touch = FALSE, !.touchInProgress = FALSE,
                                        !.object = Nothing]
                ELSE manager[e]]
      /\ Stopped(dropped \cap Node)
      /\ UNCHANGED <<blocked, heldBy, pressed, screenVars, wanted, zoom, disturbed>>
  BY DEF TouchEnd
<1>3. ASSUME NEW m \in Managers, NEW x,
             x = [m EXCEPT !.touch = FALSE, !.touchInProgress = FALSE, !.object = Nothing]
      PROVE  /\ x \in Managers /\ ~x.touch /\ ~x.touchInProgress /\ x.mouse = m.mouse
             /\ x.drag = m.drag /\ x.scroll = m.scroll
  BY <1>3 DEF Managers
<1>4. \A x \in Element : manager[x] \in Managers
  BY DEF InputInv, InputTyped
<1>5. ASSUME NEW x \in Element, x \in dropped
      PROVE  /\ manager'[x] \in Managers /\ ~manager'[x].touch /\ ~manager'[x].touchInProgress
             /\ manager'[x].mouse = manager[x].mouse
             /\ manager'[x].drag = manager[x].drag /\ manager'[x].scroll = manager[x].scroll
  <2>1. manager'[x] = [manager[x] EXCEPT !.touch = FALSE, !.touchInProgress = FALSE,
                                         !.object = Nothing]
    BY <1>2, <1>5
  <2> QED BY <1>3, <1>4, <2>1
<1>6. ASSUME NEW x \in Element, x \notin dropped
      PROVE  manager'[x] = manager[x] /\ ~manager[x].touch
  BY <1>2, <1>6
<1>7. InputTyped'
  <2>1. manager' \in [Element -> Managers]
    <3>1. \A x \in Element : manager'[x] \in Managers
      BY <1>4, <1>5, <1>6
    <3> QED BY <1>2, <3>1
  <2>2. pin' \subseteq Node /\ wasPinned' \subseteq Node /\ userInteraction' \in BOOLEAN
    BY <1>2 DEF Stopped, InputInv, InputTyped
  <2> QED BY <1>2, <2>1, <2>2 DEF InputInv, InputTyped, screenVars
<1>8. RunsFirst'
  <2>1. ASSUME ~running, NEW e \in Element PROVE manager'[e] = NoManager
    <3>1. manager[e] = NoManager /\ e \notin dropped
      BY <2>1 DEF InputInv, RunsFirst, NoManager, Manager
    <3> QED BY <3>1, <1>6
  <2> QED BY <1>2, <2>1 DEF RunsFirst, screenVars
<1>9. ASSUME ~disturbed' PROVE HandsApart' /\ DragsUndone'
  <2>1. HandsApart /\ DragsUndone
    BY <1>2, <1>9 DEF InputInv
  <2>2. \A x \in dropped : ~manager[x].mouse
    BY <2>1 DEF HandsApart
  <2>3. HandsApart'
    <3>1. ASSUME NEW x \in Element
          PROVE  /\ ~manager'[x].touchInProgress /\ ~manager'[x].touch
                 /\ manager'[x].mouse =>
                      /\ pressed # {}
                      /\ manager'[x].object = x /\ ~manager'[x].prevSelectStart
      <4>1. CASE x \in dropped
        BY <1>5, <2>2, <4>1
      <4>2. CASE x \notin dropped
        BY <1>6, <2>1, <4>2 DEF HandsApart
      <4> QED BY <4>1, <4>2
    <3> QED BY <1>2, <3>1 DEF HandsApart
  <2>4. \A x \in Element : manager'[x].mouse <=> manager[x].mouse
    BY <1>5, <1>6
  <2>5. \A n \in Node : /\ n \in dropped => Dragging(n) /\ ~Dragging(n)'
                        /\ n \notin dropped => (Dragging(n)' <=> Dragging(n))
    <3>1. ASSUME NEW n \in Node
          PROVE  /\ n \in dropped => Dragging(n) /\ ~Dragging(n)'
                 /\ n \notin dropped => (Dragging(n)' <=> Dragging(n))
      <4>1. CASE n \in dropped
        BY <1>1, <1>5, <2>2, <4>1 DEF Dragging
      <4>2. CASE n \notin dropped
        BY <1>1, <1>6, <4>2 DEF Dragging
      <4> QED BY <4>1, <4>2
    <3> QED BY <3>1
  <2>6. heldBy' = {x \in Element : manager'[x].mouse}
        /\ (blocked' => \E x \in Element : manager'[x].mouse)
    BY <1>2, <2>1, <2>4 DEF DragsUndone
  <2>7. userInteraction' => \E n \in Node : Dragging(n)'
    BY <1>2, <2>1, <2>5 DEF Stopped, DragsUndone
  <2>8. \A n \in Node : n \in wanted' <=> n \in (IF Dragging(n)' THEN wasPinned' ELSE pin')
    <3>1. ASSUME NEW n \in Node
          PROVE  n \in wanted <=> n \in (IF Dragging(n)' THEN wasPinned' ELSE pin')
      <4>1. CASE n \in dropped
        <5>1. n \in pin' <=> n \in wasPinned
          BY <1>2, <4>1 DEF Stopped
        <5> QED BY <5>1, <4>1, <2>1, <2>5 DEF DragsUndone
      <4>2. CASE n \notin dropped
        <5>1. (n \in pin' <=> n \in pin) /\ wasPinned' = wasPinned
          BY <1>2, <4>2 DEF Stopped
        <5> QED BY <5>1, <4>2, <2>1, <2>5 DEF DragsUndone
      <4> QED BY <4>1, <4>2
    <3> QED BY <1>2, <3>1
  <2>9. DragsUndone'
    BY <2>6, <2>7, <2>8 DEF DragsUndone
  <2> QED BY <2>3, <2>9
<1>10. ~early' => ScreenFollowed'
  <2>1. manager'[Container].drag = manager[Container].drag
        /\ manager'[Container].scroll = manager[Container].scroll
    BY <1>1, <1>5, <1>6
  <2> QED BY <1>2, <2>1, ScreenSame
<1> QED BY <1>7, <1>8, <1>9, <1>10 DEF InputInv

-----------------------------------------------------------------------------
(***************************************************************************)
(* The theorems.                                                           *)
(***************************************************************************)
LEMMA InputStep == InputInv /\ [InputNext]_inputVars => InputInv'
<1> SUFFICES ASSUME InputInv, [InputNext]_inputVars PROVE InputInv'
  OBVIOUS
<1>1. CASE UNCHANGED inputVars
  <2>1. InputTyped' /\ RunsFirst'
    BY <1>1 DEF InputInv, InputTyped, RunsFirst, inputVars, dragVars, handVars, screenVars
  <2>2. ~disturbed' => HandsApart' /\ DragsUndone'
    BY <1>1, DragsSame DEF inputVars
  <2>3. ~early' => ScreenFollowed'
    BY <1>1, ScreenSame DEF inputVars, dragVars
  <2> QED BY <2>1, <2>2, <2>3 DEF InputInv
<1>2. ASSUME NEW n \in Node, RedrawNode(n) \/ PinLeaf(n) PROVE InputInv'
  BY <1>2, RedrawNodeInv, PinLeafInv
<1>3. ASSUME NEW button \in Mouse, MouseUp(button) \/ LoseMouseUp(button) PROVE InputInv'
  BY <1>3, MouseUpInv, LoseMouseUpInv
<1>4. ASSUME NEW button \in Mouse, NEW e \in Element, MouseDown(e, button) PROVE InputInv'
  BY <1>4, MouseDownInv
<1>5. ASSUME NEW f \in Finger, TouchEnd(f) \/ LoseTouchEnd(f) PROVE InputInv'
  BY <1>5, TouchEndInv, LoseTouchEndInv
<1>6. ASSUME NEW f \in Finger, NEW e \in Element, NEW bubbles \in BOOLEAN,
             TouchStart(f, e, bubbles)
      PROVE  InputInv'
  BY <1>6, FirstFingerInv, FurtherFingerInv
<1>7. CASE RunRenderer \/ FullscreenChange \/ EnterFullscreen \/ Recentre \/ Move \/ Pinch \/ Wheel
  BY <1>7, RunRendererInv, FullscreenChangeInv, EnterFullscreenInv, RecentreInv, MoveInv,
     PinchInv, WheelInv
<1> QED BY <1>1, <1>2, <1>3, <1>4, <1>5, <1>6, <1>7 DEF InputNext

\* What the handlers rely on, in every state: each listener has its hand, and each drag
\* can be undone by the one that will stop it.
THEOREM InputInvCorrect == InputSpec => []InputInv
BY InitInput, InputStep, PTL DEF InputSpec

\* For any nodes, buttons and fingers, when all of them are up nothing is left of the
\* drags, unless a release was lost, a press interrupted a drag or a node was drawn anew
\* below the hand; and the picture follows the full screen.
THEOREM InputReleasedCorrect == InputSpec => []InputReleased
<1>1. ASSUME InputInv PROVE InputReleased
  <2>1. ASSUME pressed = {}, Down = {}, ~disturbed
        PROVE  /\ \A e \in Element : ~Dragging(e)
               /\ ~blocked /\ heldBy = {} /\ pin = wanted /\ ~userInteraction
    <3>1. HandsApart /\ DragsUndone
      BY <1>1, <2>1 DEF InputInv
    <3>2. \A e \in Element : ~manager[e].mouse /\ ~manager[e].touch
      BY <2>1, <3>1 DEF HandsApart
    <3>3. \A n \in Node : ~Dragging(n)
      BY <3>2 DEF Dragging, Element
    <3>4. pin = wanted
      BY <1>1, <3>1, <3>3 DEF InputInv, InputTyped, DragsUndone
    <3> QED BY <3>1, <3>2, <3>3, <3>4 DEF DragsUndone, Dragging
  <2>2. ASSUME running, ~early
        PROVE  /\ manager[Container].drag = full.document
               /\ manager[Container].scroll = full.document
               /\ ~full.document /\ recentre = 0 => zoom \in {"home", "astray"}
    <3>1. ScreenFollowed /\ recentre \in Nat /\ full.document \in BOOLEAN
          /\ manager[Container] \in Managers
      BY <1>1, <2>2 DEF InputInv, InputTyped, Element
    <3>2. manager[Container].drag \in BOOLEAN /\ manager[Container].scroll \in BOOLEAN
      BY <3>1 DEF Managers
    <3>3. ~full.document /\ recentre = 0 => zoom \in {"home", "astray"}
      BY <3>1 DEF ScreenFollowed
    <3> QED BY <2>2, <3>1, <3>2, <3>3 DEF ScreenFollowed
  <2> QED BY <2>1, <2>2 DEF InputReleased
<1>2. InputInv => InputReleased
  BY <1>1
<1> QED BY <1>2, InputInvCorrect, PTL

-----------------------------------------------------------------------------
\* The frames of the layout.

\* The fields of a body that is given a new place, pin or bump.
LEMMA BodyFields ==
  ASSUME NEW m, m = [pos |-> m.pos, prevPos |-> m.prevPos, isPinned |-> m.isPinned]
  PROVE  /\ \A place, pinned :
              /\ At(place, pinned) = [pos |-> place, prevPos |-> place, isPinned |-> pinned]
              /\ At(place, pinned).pos = place /\ At(place, pinned).prevPos = place
              /\ At(place, pinned).isPinned = pinned
         /\ \A place : [m EXCEPT !.pos = place] =
              [pos |-> place, prevPos |-> m.prevPos, isPinned |-> m.isPinned]
         /\ \A pinned : [m EXCEPT !.isPinned = pinned] =
              [pos |-> m.pos, prevPos |-> m.prevPos, isPinned |-> pinned]
BY DEF At

LEMMA InitLayout == LayoutInit => LayoutInv
<1> SUFFICES ASSUME LayoutInit PROVE LayoutInv
  OBVIOUS
<1> DEFINE start == CHOOSE place \in Place : TRUE
<1>1. start \in Place
  BY LayoutAssumption
<1> HIDE DEF start
<1>2. \A b \in Body : body[b] = At(start, FALSE)
  BY DEF LayoutInit, start
<1>3. \A b \in Body :
        /\ body[b] = [pos |-> body[b].pos, prevPos |-> body[b].prevPos,
                      isPinned |-> body[b].isPinned]
        /\ body[b].prevPos = start /\ body[b].isPinned = FALSE
  BY <1>2, SMT DEF At
<1>4. LayoutTyped
  <2>1. body = [b \in Body |-> body[b]] /\ bodies \in Seq(Body)
    BY DEF LayoutInit
  <2> QED BY <1>1, <1>3, <2>1 DEF LayoutTyped
<1>5. ReturnsToStart
  <2>1. bodies = <<>>
    BY DEF LayoutInit
  <2> QED BY <2>1 DEF ReturnsToStart, Range
<1> QED BY <1>4, <1>5 DEF LayoutInv

-----------------------------------------------------------------------------
(***************************************************************************)
(* The steps: one lemma for those that leave the bodies alone, and one for *)
(* each other.                                                             *)
(***************************************************************************)
LEMMA SameBodies ==
  ASSUME LayoutInv, UNCHANGED <<bodies, body>>, Remember,
         (phase' = phase) \/ (phase = "rest" /\ phase' = "insert")
            \/ (phase = "insert" /\ phase' = "move")
  PROVE  LayoutInv'
<1>1. LayoutTyped'
  BY DEF LayoutInv, LayoutTyped
<1>2. ReturnsToStart'
  <2>1. CASE phase = "rest" /\ phase' = "insert"
    <3>1. \A b \in Body : began'[b] = body[b].pos
      BY <2>1 DEF Remember, Position
    <3>2. Range(bodies) \subseteq Body
      BY DEF LayoutInv, LayoutTyped, Range
    <3> QED BY <2>1, <3>1, <3>2 DEF LayoutInv, ReturnsToStart
  <2>2. CASE ~(phase = "rest" /\ phase' = "insert")
    <3>1. began' = began
      BY <2>2 DEF Remember
    <3> QED BY <2>2, <3>1 DEF LayoutInv, ReturnsToStart
  <2> QED BY <2>1, <2>2
<1> QED BY <1>1, <1>2 DEF LayoutInv

\* A body is changed between frames: it is at rest where it is put.
LEMMA PutAtRest ==
  ASSUME LayoutInv, phase = "rest", phase' = phase, Remember, bodies' \in Seq(Body),
         NEW b \in Body, NEW m, Range(bodies') \subseteq Range(bodies) \cup {b},
         m = [pos |-> m.pos, prevPos |-> m.prevPos, isPinned |-> m.isPinned],
         m.prevPos = m.pos, m.prevPos \in Place, m.isPinned \in BOOLEAN,
         body' = [body EXCEPT ![b] = m]
  PROVE  LayoutInv'
<1>1. body' = [d \in Body |-> IF d = b THEN m ELSE body[d]]
  BY DEF LayoutInv, LayoutTyped
<1>2. \A d \in Body : body'[d] = IF d = b THEN m ELSE body[d]
  BY <1>1
<1>3. LayoutTyped'
  <2>1. body' = [d \in Body |-> body'[d]]
    BY <1>1
  <2>2. ASSUME NEW d \in Body
        PROVE  /\ body'[d] = [pos |-> body'[d].pos, prevPos |-> body'[d].prevPos,
                              isPinned |-> body'[d].isPinned]
               /\ body'[d].prevPos \in Place /\ body'[d].isPinned \in BOOLEAN
    BY <1>2 DEF LayoutInv, LayoutTyped
  <2> QED BY <2>1, <2>2 DEF LayoutTyped
<1>4. ReturnsToStart'
  <2>1. Range(bodies') \subseteq Body
    BY DEF Range
  <2>2. \A d \in Range(bodies') : body'[d].prevPos = body'[d].pos
    BY <1>2, <2>1 DEF LayoutInv, ReturnsToStart
  <2> QED BY <2>2 DEF ReturnsToStart
<1> QED BY <1>3, <1>4 DEF LayoutInv

\* A body that is taken out of a list leaves the others.
LEMMA RemoveAtKeeps ==
  ASSUME NEW S, NEW s \in Seq(S), NEW i \in 1..Len(s)
  PROVE  RemoveAt(s, i) \in Seq(S)
<1>1. SubSeq(s, 1, i - 1) \in Seq(S)
  OBVIOUS
<1>2. SubSeq(s, i + 1, Len(s)) \in Seq(S)
  OBVIOUS
<1>3. \A t, u \in Seq(S) : t \o u \in Seq(S)
  OBVIOUS
<1> QED BY <1>1, <1>2, <1>3 DEF RemoveAt

LEMMA BetweenFrames ==
  ASSUME LayoutInv, Remember, NEW b \in Body,
         \/ AddBody(b) \/ RemoveBody(b)
         \/ \E pinned \in BOOLEAN : PinNode(b, pinned)
         \/ \E place \in Place : SetPosition(b, place)
  PROVE  LayoutInv'
<1> DEFINE m == body[b]
<1>1. /\ m = [pos |-> m.pos, prevPos |-> m.prevPos, isPinned |-> m.isPinned]
      /\ m.prevPos \in Place /\ m.isPinned \in BOOLEAN
  BY DEF LayoutInv, LayoutTyped
<1>2. bodies \in Seq(Body)
  BY DEF LayoutInv, LayoutTyped
<1>3. CASE AddBody(b)
  <2>1. PICK place \in Place : body' = [body EXCEPT ![b] = At(place, FALSE)]
    BY <1>3 DEF AddBody, BestNewPosition
  <2>2. /\ phase = "rest" /\ phase' = phase /\ bodies' \in Seq(Body)
        /\ Range(bodies') \subseteq Range(bodies) \cup {b}
    BY <1>2, <1>3 DEF AddBody, Resting, Range
  <2> DEFINE n == At(place, FALSE)
  <2>3. /\ n = [pos |-> n.pos, prevPos |-> n.prevPos, isPinned |-> n.isPinned]
        /\ n.prevPos = n.pos /\ n.prevPos \in Place /\ n.isPinned \in BOOLEAN
    BY DEF At
  <2> HIDE DEF n, m
  <2>4. body' = [body EXCEPT ![b] = n]
    BY <2>1 DEF n
  <2> QED BY <2>2, <2>3, <2>4, PutAtRest
<1>4. CASE RemoveBody(b)
  <2>1. PICK i \in DOMAIN bodies : bodies' = RemoveAt(bodies, i)
    BY <1>4 DEF RemoveBody
  <2>2. bodies' \in Seq(Body) /\ Range(bodies') \subseteq Range(bodies)
    <3> DEFINE S == Range(bodies)
    <3>1. S \subseteq Body /\ bodies \in Seq(S) /\ i \in 1..Len(bodies)
      BY <1>2 DEF Range
    <3> HIDE DEF S
    <3>2. bodies' \in Seq(S)
      BY <2>1, <3>1, RemoveAtKeeps
    <3>3. bodies' \in Seq(Body)
      BY <3>1, <3>2
    <3>4. Range(bodies') \subseteq S
      BY <3>2 DEF Range
    <3> QED BY <3>3, <3>4 DEF S
  <2>3. phase' = phase /\ body' = body /\ phase = "rest"
    BY <1>4 DEF RemoveBody, Resting
  <2>4. began' = began
    BY <2>3 DEF Remember
  <2> QED BY <2>2, <2>3, <2>4 DEF LayoutInv, LayoutTyped, ReturnsToStart
<1>5. ASSUME NEW pinned \in BOOLEAN, PinNode(b, pinned) PROVE LayoutInv'
  <2>1. body' = [body EXCEPT ![b] = [m EXCEPT !.isPinned = pinned]]
    BY <1>5 DEF PinNode
  <2>2. /\ phase = "rest" /\ phase' = phase /\ bodies' \in Seq(Body)
        /\ Range(bodies') \subseteq Range(bodies) \cup {b} /\ b \in Range(bodies)
    BY <1>2, <1>5 DEF PinNode, Resting
  <2>3. m.prevPos = m.pos
    BY <2>2 DEF LayoutInv, ReturnsToStart
  <2> DEFINE n == [m EXCEPT !.isPinned = pinned]
  <2> HIDE DEF m
  <2>4. n = [pos |-> m.pos, prevPos |-> m.prevPos, isPinned |-> pinned]
    BY <1>1, BodyFields
  <2>5. /\ n = [pos |-> n.pos, prevPos |-> n.prevPos, isPinned |-> n.isPinned]
        /\ n.prevPos = n.pos /\ n.prevPos \in Place /\ n.isPinned \in BOOLEAN
    BY <1>1, <2>3, <2>4
  <2>6. body' = [body EXCEPT ![b] = n]
    BY <2>1
  <2> HIDE DEF n
  <2> QED BY <2>2, <2>5, <2>6, PutAtRest
<1>6. ASSUME NEW place \in Place, SetPosition(b, place) PROVE LayoutInv'
  <2>1. body' = [body EXCEPT ![b] = At(place, m.isPinned)]
    BY <1>6 DEF SetPosition
  <2>2. /\ phase = "rest" /\ phase' = phase /\ bodies' \in Seq(Body)
        /\ Range(bodies') \subseteq Range(bodies) \cup {b} /\ b \in Range(bodies)
    BY <1>2, <1>6 DEF SetPosition, Resting
  <2> DEFINE n == At(place, m.isPinned)
  <2> HIDE DEF m
  <2>3. /\ n = [pos |-> n.pos, prevPos |-> n.prevPos, isPinned |-> n.isPinned]
        /\ n.prevPos = n.pos /\ n.prevPos \in Place /\ n.isPinned \in BOOLEAN
    BY <1>1 DEF At
  <2>4. body' = [body EXCEPT ![b] = n]
    BY <2>1
  <2> HIDE DEF n
  <2> QED BY <2>2, <2>3, <2>4, PutAtRest
<1> QED BY <1>3, <1>4, <1>5, <1>6

\* The bump moves a body, and not the place it returns to.
LEMMA BumpInv == ASSUME LayoutInv, SplitAfterBump, Remember PROVE LayoutInv'
<1> DEFINE old == cell[Entry.cell].body
<1>1. PICK place : body' = [body EXCEPT ![old] = [body[old] EXCEPT !.pos = place]]
  BY DEF SplitAfterBump
<1>2. phase = "insert" /\ phase' = phase /\ bodies' = bodies
  BY DEF SplitAfterBump, Descending
<1> HIDE DEF old
<1>3. body' = [d \in Body |-> IF d = old THEN [body[old] EXCEPT !.pos = place] ELSE body[d]]
  BY <1>1 DEF LayoutInv, LayoutTyped
<1>4. ASSUME NEW d \in Body
      PROVE  /\ body'[d].prevPos = body[d].prevPos /\ body'[d].isPinned = body[d].isPinned
             /\ body'[d] = [pos |-> body'[d].pos, prevPos |-> body'[d].prevPos,
                            isPinned |-> body'[d].isPinned]
  <2>1. body[d] = [pos |-> body[d].pos, prevPos |-> body[d].prevPos,
                   isPinned |-> body[d].isPinned]
    BY DEF LayoutInv, LayoutTyped
  <2>2. CASE d = old
    <3>1. body'[d] = [body[d] EXCEPT !.pos = place]
      BY <1>3, <2>2
    <3>2. body'[d] = [pos |-> place, prevPos |-> body[d].prevPos, isPinned |-> body[d].isPinned]
      BY <2>1, <3>1, BodyFields
    <3> QED BY <3>2
  <2>3. CASE d # old
    <3>1. body'[d] = body[d]
      BY <1>3, <2>3
    <3> QED BY <2>1, <3>1
  <2> QED BY <2>2, <2>3
<1>5. LayoutTyped'
  <2>1. body' = [d \in Body |-> body'[d]]
    BY <1>3
  <2> QED BY <1>2, <1>4, <2>1 DEF LayoutInv, LayoutTyped
<1>6. ReturnsToStart'
  <2>1. began' = began
    BY <1>2 DEF Remember
  <2>2. Range(bodies) \subseteq Body
    BY DEF LayoutInv, LayoutTyped, Range
  <2> QED BY <1>2, <1>4, <2>1, <2>2 DEF LayoutInv, ReturnsToStart
<1> QED BY <1>5, <1>6 DEF LayoutInv

\* A body at the end of a frame.
LEMMA SettledFields ==
  ASSUME NEW b \in Body, NEW place, LayoutTyped
  PROVE  /\ Settled(b, place) = [pos |-> Settled(b, place).pos,
                                 prevPos |-> Settled(b, place).pos,
                                 isPinned |-> body[b].isPinned]
         /\ Settled(b, place).pos = IF body[b].isPinned THEN body[b].prevPos ELSE place
<1>1. body[b].isPinned \in BOOLEAN
  BY DEF LayoutTyped
<1> QED BY <1>1 DEF Settled, At

\* What a frame leaves of the bodies.
LEMMA FrameEnds ==
  ASSUME LayoutInv, EndFrame
  PROVE  /\ body' = [b \in Body |-> body'[b]]
         /\ \A b \in Range(bodies) :
              /\ body'[b] = [pos |-> body'[b].pos, prevPos |-> body'[b].prevPos,
                             isPinned |-> body'[b].isPinned]
              /\ body'[b].pos \in Place /\ body'[b].prevPos = body'[b].pos
              /\ body'[b].isPinned = body[b].isPinned
              /\ body[b].isPinned => body'[b].pos = began[b]
         /\ \A b \in Body \ Range(bodies) : body'[b] = body[b]
<1>1. PICK places \in [Range(bodies) -> Place] :
        body' = [b \in Body |-> IF b \in Range(bodies) THEN Settled(b, places[b]) ELSE body[b]]
  BY DEF EndFrame
<1>2. ASSUME NEW b \in Range(bodies)
      PROVE  /\ body'[b] = [pos |-> body'[b].pos, prevPos |-> body'[b].prevPos,
                            isPinned |-> body'[b].isPinned]
             /\ body'[b].pos \in Place /\ body'[b].prevPos = body'[b].pos
             /\ body'[b].isPinned = body[b].isPinned
             /\ body[b].isPinned => body'[b].pos = began[b]
  <2>1. b \in Body
    BY DEF LayoutInv, LayoutTyped, Range
  <2>2. body'[b] = Settled(b, places[b])
    BY <1>1, <2>1
  <2>3. places[b] \in Place /\ body[b].prevPos \in Place /\ body[b].isPinned \in BOOLEAN
    BY <1>1, <2>1 DEF LayoutInv, LayoutTyped
  <2>4. body[b].prevPos = began[b]
    BY DEF LayoutInv, ReturnsToStart, EndFrame
  <2>5. /\ body'[b] = [pos |-> body'[b].pos, prevPos |-> body'[b].pos,
                       isPinned |-> body[b].isPinned]
        /\ body'[b].pos = IF body[b].isPinned THEN body[b].prevPos ELSE places[b]
    BY <2>1, <2>2, SettledFields DEF LayoutInv
  <2>6. body'[b].prevPos = body'[b].pos /\ body'[b].isPinned = body[b].isPinned
    BY <2>5
  <2> QED BY <2>3, <2>4, <2>5, <2>6
<1>3. \A b \in Body \ Range(bodies) : body'[b] = body[b]
  BY <1>1
<1>4. body' = [b \in Body |-> body'[b]]
  BY <1>1
<1> QED BY <1>2, <1>3, <1>4

LEMMA EndFrameInv == ASSUME LayoutInv, EndFrame, Remember PROVE LayoutInv'
<1>1. phase' = "rest" /\ bodies' = bodies /\ Range(bodies) \subseteq Body
  BY DEF EndFrame, LayoutInv, LayoutTyped, Range
<1>2. LayoutTyped'
  <2>1. body' = [b \in Body |-> body'[b]] /\ bodies' \in Seq(Body)
    BY <1>1, FrameEnds DEF LayoutInv, LayoutTyped
  <2>2. ASSUME NEW b \in Body
        PROVE  /\ body'[b] = [pos |-> body'[b].pos, prevPos |-> body'[b].prevPos,
                              isPinned |-> body'[b].isPinned]
               /\ body'[b].prevPos \in Place /\ body'[b].isPinned \in BOOLEAN
    <3>1. /\ body[b] = [pos |-> body[b].pos, prevPos |-> body[b].prevPos,
                        isPinned |-> body[b].isPinned]
          /\ body[b].prevPos \in Place /\ body[b].isPinned \in BOOLEAN
      BY DEF LayoutInv, LayoutTyped
    <3>2. CASE b \in Range(bodies)
      <4>1. /\ body'[b] = [pos |-> body'[b].pos, prevPos |-> body'[b].prevPos,
                           isPinned |-> body'[b].isPinned]
            /\ body'[b].pos \in Place /\ body'[b].prevPos = body'[b].pos
            /\ body'[b].isPinned = body[b].isPinned
        BY <3>2, FrameEnds
      <4> QED BY <3>1, <4>1
    <3>3. CASE b \notin Range(bodies)
      <4>1. body'[b] = body[b]
        BY <3>3, FrameEnds
      <4> QED BY <3>1, <4>1
    <3> QED BY <3>2, <3>3
  <2> QED BY <2>1, <2>2 DEF LayoutTyped
<1>3. ReturnsToStart'
  <2>1. \A b \in Range(bodies) : body'[b].prevPos = body'[b].pos
    BY FrameEnds
  <2> QED BY <1>1, <2>1 DEF ReturnsToStart
<1> QED BY <1>2, <1>3 DEF LayoutInv

LEMMA LayoutStep == ASSUME LayoutInv, LayoutNext, Remember PROVE LayoutInv'
<1>1. CASE BeginFrame
  BY <1>1, SameBodies DEF BeginFrame, Resting
<1>2. CASE Insert
  BY <1>2, SameBodies DEF Insert
<1>3. CASE Descend
  BY <1>3, SameBodies DEF Descend
<1>4. CASE Split
  BY <1>4, SameBodies DEF Split
<1>5. CASE SplitAfterBump
  BY <1>5, BumpInv
<1>6. CASE GiveUp
  BY <1>6, SameBodies DEF GiveUp
<1>7. CASE AccumulateForces
  BY <1>7, SameBodies DEF AccumulateForces
<1>8. CASE EndFrame
  BY <1>8, EndFrameInv
<1>9. ASSUME NEW b \in Body,
             \/ AddBody(b) \/ RemoveBody(b)
             \/ \E pinned \in BOOLEAN : PinNode(b, pinned)
             \/ \E place \in Place : SetPosition(b, place)
      PROVE  LayoutInv'
  BY <1>9, BetweenFrames
<1>10. ASSUME NEW s \in Spring, AddSpring(s) \/ RemoveSpring(s) PROVE LayoutInv'
  BY <1>10, SameBodies DEF AddSpring, RemoveSpring
<1> QED BY <1>1, <1>2, <1>3, <1>4, <1>5, <1>6, <1>7, <1>8, <1>9, <1>10 DEF LayoutNext

\* Between frames every body returns to where it is, and during a frame to where it was
\* when the frame began, however the tree is built and whoever is bumped.
THEOREM LayoutInvCorrect == LayoutSpec => []LayoutInv
<1>1. LayoutInv /\ UNCHANGED <<layoutVars, began>> => LayoutInv'
  BY DEF LayoutInv, LayoutTyped, ReturnsToStart, layoutVars
<1>2. LayoutInv /\ [LayoutNext /\ Remember]_<<layoutVars, began>> => LayoutInv'
  BY <1>1, LayoutStep
<1> QED BY <1>2, InitLayout, PTL DEF LayoutSpec

-----------------------------------------------------------------------------
(***************************************************************************)
(* The box: among finitely many places some are outermost.                 *)
(***************************************************************************)
\* By the least length at which a sequence had no greatest element.
LEMMA GreatestInSequence ==
  ASSUME NEW n \in Nat, NEW f \in [1..n -> Int], n # 0
  PROVE  \E m \in 1..n : \A i \in 1..n : f[i] <= f[m]
<1> DEFINE T == {k \in 1..n : ~\E m \in 1..k : \A i \in 1..k : f[i] <= f[m]}
<1>1. SUFFICES ASSUME T # {} PROVE FALSE
  <2>1. n \in 1..n
    OBVIOUS
  <2> QED BY <2>1
<1>2. T \subseteq Nat
  OBVIOUS
<1>3. PICK k \in T : \A y \in T : ~ (<<y, k>> \in OpToRel(<, Nat))
  <2> HIDE DEF T
  <2> QED BY <1>1, <1>2, WFMin, NatLessThanWellFounded
<1>4. \A y \in T : ~(y < k)
  <2> HIDE DEF T
  <2> QED BY <1>2, <1>3 DEF OpToRel
<1>5. k # 1
  <2>1. ~\E m \in 1..k : \A i \in 1..k : f[i] <= f[m]
    OBVIOUS
  <2>2. f[1] \in Int
    OBVIOUS
  <2> QED BY <2>1, <2>2
<1>6. k - 1 \in 1..n /\ k - 1 < k /\ k \in 1..n
  BY <1>5
<1>7. PICK m \in 1..k - 1 : \A i \in 1..k - 1 : f[i] <= f[m]
  BY <1>4, <1>6
<1>8. f[m] \in Int /\ f[k] \in Int /\ m \in 1..k /\ k \in 1..k
  BY <1>6
<1>9. CASE f[k] <= f[m]
  <2>1. \A i \in 1..k : f[i] <= f[m]
    BY <1>6, <1>7, <1>9
  <2> QED BY <1>8, <2>1
<1>10. CASE f[m] <= f[k]
  <2>1. ASSUME NEW i \in 1..k PROVE f[i] <= f[k]
    <3>1. f[i] \in Int
      BY <1>6
    <3>2. CASE i = k
      BY <1>8, <3>2
    <3>3. CASE i # k
      <4>1. f[i] <= f[m]
        BY <1>6, <1>7, <3>3
      <4> QED BY <1>8, <1>10, <3>1, <4>1
    <3> QED BY <3>2, <3>3
  <2> QED BY <1>8, <2>1
<1> QED BY <1>8, <1>9, <1>10

\* The numbers that a sequence takes lie between the least and the greatest of them.
LEMMA BetweenMinAndMax ==
  ASSUME NEW n \in Nat, NEW f \in [1..n -> Int], n # 0
  PROVE  LET S == {f[i] : i \in 1..n} IN \A i \in 1..n : f[i] \in Min(S)..Max(S)
<1> DEFINE S == {f[i] : i \in 1..n}
<1> DEFINE g == [i \in 1..n |-> -f[i]]
<1>1. PICK m \in 1..n : \A i \in 1..n : f[i] <= f[m]
  BY GreatestInSequence
<1>2. PICK l \in 1..n : \A i \in 1..n : g[i] <= g[l]
  <2>1. g \in [1..n -> Int]
    OBVIOUS
  <2> HIDE DEF g
  <2> QED BY <2>1, GreatestInSequence
<1>3. \A i \in 1..n : f[i] \in Int /\ f[l] <= f[i]
  BY <1>2
<1>4. S \subseteq Int /\ \A i \in 1..n : f[i] \in S
  OBVIOUS
<1>5. f[m] \in S /\ \A y \in S : f[m] >= y
  BY <1>1
<1>6. f[l] \in S /\ \A y \in S : f[l] <= y
  BY <1>3
<1> HIDE DEF S, g
<1>7. Max(S) \in S /\ \A y \in S : Max(S) >= y
  BY <1>5 DEF Max
<1>8. Min(S) \in S /\ \A y \in S : Min(S) <= y
  BY <1>6 DEF Min
<1>9. \A i \in 1..n : f[i] \in Min(S)..Max(S)
  BY <1>4, <1>7, <1>8
<1> QED BY <1>9 DEF S

\* The box around the bodies holds each of them.
LEMMA BoxHolds ==
  ASSUME LayoutInv, EndFrame, NEW b \in Range(bodies)
  PROVE  /\ body'[b].pos[X] \in box'.left..box'.right
         /\ body'[b].pos[Y] \in box'.top..box'.bottom
<1> DEFINE n == Len(bodies)
<1>1. n \in Nat /\ DOMAIN bodies = 1..n
  BY DEF LayoutInv, LayoutTyped
<1>2. PICK j \in 1..n : b = bodies[j]
  BY <1>1 DEF Range
<1>3. \A i \in 1..n : bodies[i] \in Range(bodies)
  BY <1>1 DEF Range
<1>4. \A i \in 1..n : body'[bodies[i]].pos \in Nat \X Nat
  BY <1>3, FrameEnds, LayoutAssumption
<1> DEFINE places == {body'[d].pos : d \in Range(bodies)}
<1>5. box' = Around(places)
  BY DEF EndFrame
<1>6. ASSUME NEW axis \in {X, Y}
      PROVE  body'[b].pos[axis] \in Min({p[axis] : p \in places})..Max({p[axis] : p \in places})
  <2> DEFINE f == [i \in 1..n |-> body'[bodies[i]].pos[axis]]
  <2>1. f \in [1..n -> Int] /\ n # 0
    BY <1>2, <1>4 DEF X, Y
  <2>2. {p[axis] : p \in places} = {f[i] : i \in 1..n}
    <3>1. Range(bodies) = {bodies[i] : i \in 1..n}
      BY <1>1 DEF Range
    <3>2. places = {body'[bodies[i]].pos : i \in 1..n}
      <4> HIDE DEF n
      <4> QED BY <3>1
    <3>3. \A i \in 1..n : f[i] = body'[bodies[i]].pos[axis]
      OBVIOUS
    <3> HIDE DEF places, f, n
    <3> QED BY <3>2, <3>3
  <2>3. f[j] \in Min({f[i] : i \in 1..n})..Max({f[i] : i \in 1..n})
    <3> HIDE DEF f
    <3> QED BY <1>1, <1>2, <2>1, BetweenMinAndMax
  <2>4. f[j] = body'[b].pos[axis]
    BY <1>2
  <2> QED BY <2>2, <2>3, <2>4
<1> HIDE DEF places, n
<1>7. /\ box'.left = Min({p[X] : p \in places}) /\ box'.right = Max({p[X] : p \in places})
      /\ box'.top = Min({p[Y] : p \in places}) /\ box'.bottom = Max({p[Y] : p \in places})
  BY <1>5 DEF Around
<1> QED BY <1>6, <1>7

\* For any bodies, places and springs: when a frame is over, however its tree was built, a
\* pinned body is where it was when the frame began, and all bodies are in the box
\* (updateBoundingBox).
THEOREM PinnedStaysCorrect == LayoutSpec => PinnedStays
<1> DEFINE Kept == phase = "move" /\ phase' = "rest" =>
        \A b \in Range(bodies) :
            /\ body[b].isPinned => body'[b].pos = began[b]
            /\ body'[b].pos[X] \in box'.left..box'.right
            /\ body'[b].pos[Y] \in box'.top..box'.bottom
<1>1. LayoutNext /\ phase = "move" /\ phase' = "rest" => EndFrame
  BY DEF LayoutNext, BeginFrame, Insert, Descend, Descending, Split, SplitAfterBump, GiveUp,
         AccumulateForces, AddBody, RemoveBody, PinNode, SetPosition, AddSpring, RemoveSpring,
         Resting
<1>2. LayoutInv /\ EndFrame => Kept
  BY FrameEnds, BoxHolds
<1>3. LayoutInv /\ [LayoutNext /\ Remember]_<<layoutVars, began>> => [Kept]_<<layoutVars, began>>
  BY <1>1, <1>2
<1> QED BY <1>3, LayoutInvCorrect, PTL DEF LayoutSpec, PinnedStays

=============================================================================
