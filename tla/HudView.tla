-------------------------------- MODULE HudView --------------------------------
(***************************************************************************)
(* The interface detours of src/src/hud_view.cpp: the marker pass that     *)
(* projects through a copy of the view, the capture of the reticle element *)
(* and the sprite draw that moves, latches, hides and puts it back.        *)
(*                                                                         *)
(* The engine draws the interface on whichever thread it likes, so every   *)
(* thread may run any detour.  A step of a detour ends where another thread *)
(* could see the difference: the stores of the two latches, and the byte   *)
(* put on record, suppressed while the engine draws and put back.  The     *)
(* render thread publishes frames under the lock at any moment, and the    *)
(* engine shows or hides an element at any moment too, in the middle of a  *)
(* draw of it as well: the controller and the draw need not be on one      *)
(* thread.  An element's sprite is named by the element; an address is     *)
(* used again once it is freed.                                            *)
(*                                                                         *)
(* Assumed of the engine: it neither destroys an element it is drawing nor *)
(* draws one on two threads at once, and it updates no controller it is    *)
(* destroying.                                                             *)
(***************************************************************************)
EXTENDS Naturals

CONSTANTS
  Threads,    \* threads the engine draws the interface on
  Elements,   \* addresses a reticle element can be at
  Views,      \* addresses a renderView_t can be at
  Poses,      \* poses the render hook can publish
  OffScreen,  \* those of them that turn the aim out of the picture
  None        \* a null pointer, no pose, the layout position

ASSUME OffScreenAssumption == OffScreen \subseteq Poses
ASSUME NoneAssumption == None \notin Elements \cup Views \cup Poses

VARIABLES
  start,      \* how UiWorldView::Start stands
  installed,  \* how many of its four detours are in
  enabled,    \* g_enabled
  frame,      \* g_frame
  live,       \* the elements that exist
  crosshair,  \* g_crosshair
  shifted,    \* g_shiftedSprite
  offset,     \* where each sprite is: the pose that displaces it, or None
  shown,      \* each element's visibility byte
  drawFrame,  \* g_drawFrame of each thread
  drawView,   \* g_drawView of each thread
  canvas,     \* each thread's g_canvasWidth and g_canvasHeight are positive
  pc,         \* which step of a detour each thread is at
  draw,       \* SpriteDraw's locals
  kept,       \* history: the visibility the engine last gave each element while no
              \*   draw had its byte on record
  late,       \* history: elements given one while they are being drawn
  moved       \* history: the sprites that have been moved off their layout

startVars == <<start, installed, enabled>>
engineVars == <<live, kept, late>>
threadVars == <<drawFrame, drawView, canvas>>
placeVars == <<offset, moved>>
vars == <<start, installed, enabled, frame, live, crosshair, shifted, offset,
          shown, drawFrame, drawView, canvas, pc, draw, kept, late, moved>>

Detours == 4     \* MarkerView, CrosshairUpdate, CrosshairDestroy, SpriteDraw
DestroyDetour == 3

HudFrame == [active : BOOLEAN, pose : Poses \cup {None}]
NoFrame == [active |-> FALSE, pose |-> None]
Draw == [element : Elements \cup {None}, sprite : Elements \cup {None},
         compensate : BOOLEAN, visible : BOOLEAN, wasVisible : BOOLEAN]
NoDraw == [element |-> None, sprite |-> None, compensate |-> FALSE,
           visible |-> TRUE, wasVisible |-> TRUE]

TypeOK ==
  /\ start \in {"installing", "installed", "refused"}
  /\ installed \in 0 .. Detours
  /\ enabled \in BOOLEAN
  /\ frame \in HudFrame
  /\ live \subseteq Elements
  /\ crosshair \in Elements \cup {None} /\ shifted \in Elements \cup {None}
  /\ offset \in [Elements -> Poses \cup {None}]
  /\ shown \in [Elements -> BOOLEAN] /\ kept \in [Elements -> BOOLEAN]
  /\ drawFrame \in [Threads -> HudFrame]
  /\ drawView \in [Threads -> Views \cup {None}]
  /\ canvas \in [Threads -> BOOLEAN]
  /\ pc \in [Threads -> {"idle", "latch", "suppress", "drawing", "destroy"}]
  /\ draw \in [Threads -> Draw]
  /\ moved \subseteq Elements /\ late \subseteq Elements

Init ==
  /\ start = "installing" /\ installed = 0 /\ enabled = FALSE
  /\ frame = NoFrame
  /\ live = {}
  /\ crosshair = None /\ shifted = None
  /\ offset = [e \in Elements |-> None]
  /\ shown = [e \in Elements |-> TRUE] /\ kept = shown
  /\ drawFrame = [t \in Threads |-> NoFrame]
  /\ drawView = [t \in Threads |-> None]
  /\ canvas = [t \in Threads |-> FALSE]
  /\ pc = [t \in Threads |-> "idle"]
  /\ draw = [t \in Threads |-> NoDraw]
  /\ moved = {} /\ late = {}

Busy(e) == \E t \in Threads : pc[t] # "idle" /\ draw[t].element = e

\* A draw has the element's visibility on record and is going to put it back.
Recorded(e) == \E t \in Threads : pc[t] \in {"suppress", "drawing"} /\ draw[t].element = e

\* The engine is drawing the element.
DrawnBy(t, e) == pc[t] = "drawing" /\ draw[t].element = e

--------------------------------------------------------------------------------
(* UiWorldView::Start on the bootstrap thread. *)

StartOnly == UNCHANGED <<frame, engineVars, crosshair, shifted, placeVars, shown,
                         threadVars, pc, draw>>

InstallDetour ==
  /\ start = "installing"
  /\ installed < Detours
  /\ installed' = installed + 1
  /\ UNCHANGED <<start, enabled>>
  /\ StartOnly

\* CreateHook or EnableHook refuses: those already in come back out.
RefuseDetour ==
  /\ start = "installing"
  /\ installed < Detours
  /\ start' = "refused"
  /\ installed' = 0
  /\ UNCHANGED enabled
  /\ StartOnly

\* The release store, once all four are in.
EnableDetours ==
  /\ start = "installing"
  /\ installed = Detours
  /\ start' = "installed"
  /\ enabled' = TRUE
  /\ UNCHANGED installed
  /\ StartOnly

--------------------------------------------------------------------------------
(* The render thread. *)

\* SetFrame under the exclusive lock; the hook calls it only if Start succeeded.
SetFrame(f) ==
  /\ start = "installed"
  /\ f.active = (f.pose # None)
  /\ frame' = f
  /\ UNCHANGED <<startVars, engineVars, crosshair, shifted, placeVars, shown, threadVars,
                 pc, draw>>

--------------------------------------------------------------------------------
(* The engine: reticles come, and are shown or hidden. *)

EngineOnly == UNCHANGED <<startVars, frame, crosshair, shifted, moved, threadVars, pc, draw>>

CreateReticle(e) ==
  /\ e \notin live
  /\ live' = live \cup {e}
  /\ offset' = [offset EXCEPT ![e] = None]
  /\ shown' = [shown EXCEPT ![e] = TRUE]
  /\ kept' = [kept EXCEPT ![e] = TRUE]
  /\ UNCHANGED late
  /\ EngineOnly

\* The engine writes the other value into the byte, on whichever thread, in the middle
\* of a draw of the element as well.
SetVisible(e) ==
  /\ e \in live
  /\ shown' = [shown EXCEPT ![e] = ~@]
  /\ kept' = IF Recorded(e) THEN kept ELSE [kept EXCEPT ![e] = ~@]
  /\ late' = IF \E t \in Threads : DrawnBy(t, e) THEN late \cup {e} ELSE late
  /\ UNCHANGED <<live, offset>>
  /\ EngineOnly

--------------------------------------------------------------------------------
(* The detours, on any interface thread. *)

DetourOnly == UNCHANGED <<startVars, frame, kept>>

Destroying(e) == \E t \in Threads : pc[t] = "destroy" /\ draw[t].element = e

\* The frame a marker pass draws with: no pose is composed onto a view that is not a
\* usable camera, and what is left of the frame is not looked at.
Posed(usable) == IF usable THEN frame ELSE NoFrame

\* Whether the marker has a canvas is told apart where a draw will ask: for a pass
\* that projects through a pose and leaves the aim in the picture.
Canvases(usable) ==
  IF Posed(usable).active /\ Posed(usable).pose \notin OffScreen THEN BOOLEAN ELSE {TRUE}

\* The marker pass: the published frame is latched for the reticle draw that
\* follows, active only if the copy of the view was one to compose onto.
MarkerView(t, v, usable, hasCanvas) ==
  /\ enabled
  /\ pc[t] = "idle"
  /\ canvas' = [canvas EXCEPT ![t] = hasCanvas]
  /\ drawFrame' = [drawFrame EXCEPT ![t] = Posed(usable)]
  /\ drawView' = [drawView EXCEPT ![t] = v]
  /\ UNCHANGED <<live, late, crosshair, shifted, placeVars, shown, pc, draw>>
  /\ DetourOnly

\* The controller's parent, read back after its own update, null until it is set.
CrosshairUpdate(t, e, parent) ==
  /\ enabled
  /\ pc[t] = "idle"
  /\ e \in live /\ ~Destroying(e)
  /\ crosshair' = parent
  /\ UNCHANGED <<live, late, shifted, placeVars, shown, threadVars, pc, draw>>
  /\ DetourOnly

\* Defect: cleared only when the parent still reads back as the captured pointer.
CrosshairDestroyIfParent(t, e, parent) ==
  /\ pc[t] = "idle"
  /\ e \in live /\ ~Busy(e)
  /\ crosshair' = IF installed >= DestroyDetour /\ crosshair = parent THEN None ELSE crosshair
  /\ pc' = [pc EXCEPT ![t] = "destroy"]
  /\ draw' = [draw EXCEPT ![t] = [NoDraw EXCEPT !.element = e]]
  /\ UNCHANGED <<live, late, shifted, placeVars, shown, threadVars>>
  /\ DetourOnly

\* Cleared outright before the engine's destructor, whatever the controller's parent
\* reads by then; g_shiftedSprite is left.
CrosshairDestroy(t, e, parent) ==
  /\ pc[t] = "idle"
  /\ e \in live /\ ~Busy(e)
  /\ crosshair' = IF installed >= DestroyDetour THEN None ELSE crosshair
  /\ pc' = [pc EXCEPT ![t] = "destroy"]
  /\ draw' = [draw EXCEPT ![t] = [NoDraw EXCEPT !.element = e]]
  /\ UNCHANGED <<live, late, shifted, placeVars, shown, threadVars>>
  /\ DetourOnly

EngineDestroys(t) ==
  /\ pc[t] = "destroy"
  /\ live' = live \ {draw[t].element}
  /\ pc' = [pc EXCEPT ![t] = "idle"]
  /\ draw' = [draw EXCEPT ![t] = NoDraw]
  /\ UNCHANGED <<late, crosshair, shifted, placeVars, shown, threadVars>>
  /\ DetourOnly

Compensates(t, v) == v # None /\ v = drawView[t] /\ frame.active /\ drawFrame[t].active

\* ProjectReticle's answer, asked only of a compensated draw.
Visible(t, v) == Compensates(t, v) => drawFrame[t].pose \notin OffScreen

\* Defect: the way back asks for a canvas too.
PlaceableOnCanvas(t, v, sprite) ==
  canvas[t] /\ (Compensates(t, v) \/ (drawView[t] # None /\ shifted = sprite))

Placeable(t, v, sprite) == IF Compensates(t, v) THEN canvas[t]
                           ELSE drawView[t] # None /\ shifted = sprite

\* Defect: the reticle is put where the newest pose would put it.
TargetOfTheLiveFrame(t, v) == IF Compensates(t, v) THEN frame.pose ELSE None

\* Where the sprite goes: the offset of the pose the marker pass drew with, or none.
Target(t, v) == IF Compensates(t, v) THEN drawFrame[t].pose ELSE None

\* SpriteDraw of the captured element, up to g_setPosition: the offset of the pose
\* the marker pass drew with, or none.  A draw that places nothing leaves the latch
\* alone and goes on to put the element's visibility on record.  A draw of any other
\* element goes straight to the engine's.
Place(t, v, sprite) ==
  LET placed == sprite # None /\ Visible(t, v) /\ Placeable(t, v, sprite)
      target == Target(t, v)
  IN /\ enabled
     /\ pc[t] = "idle"
     /\ crosshair # None /\ ~Busy(crosshair)
     /\ draw' = [draw EXCEPT ![t] =
                   [element |-> crosshair, sprite |-> sprite,
                    compensate |-> Compensates(t, v), visible |-> Visible(t, v),
                    wasVisible |-> IF placed THEN TRUE ELSE shown[crosshair]]]
     /\ offset' = IF placed THEN [offset EXCEPT ![sprite] = target] ELSE offset
     /\ moved' = IF placed /\ target # None THEN moved \cup {sprite} ELSE moved
     /\ pc' = [pc EXCEPT ![t] = IF placed THEN "latch" ELSE "suppress"]
     /\ UNCHANGED <<live, late, crosshair, shifted, shown, threadVars>>
     /\ DetourOnly

\* The latch, and then the element's visibility put on record.  One step, as is the
\* end of Place: between the two only SetVisible could tell them apart, and there it
\* does what it does before both.
Latch(t) ==
  /\ pc[t] = "latch"
  /\ shifted' = IF draw[t].compensate THEN draw[t].sprite ELSE None
  /\ draw' = [draw EXCEPT ![t].wasVisible = shown[draw[t].element]]
  /\ pc' = [pc EXCEPT ![t] = "suppress"]
  /\ UNCHANGED <<live, crosshair, placeVars, shown, late, threadVars>>
  /\ DetourOnly

\* Defect: what is put back is the byte as suppressed.
SuppressForGood(t) ==
  LET suppressed == draw[t].wasVisible /\ draw[t].visible
  IN /\ pc[t] = "suppress"
     /\ shown' = [shown EXCEPT ![draw[t].element] = suppressed]
     /\ draw' = [draw EXCEPT ![t].wasVisible = suppressed]
     /\ pc' = [pc EXCEPT ![t] = "drawing"]
     /\ UNCHANGED <<live, crosshair, shifted, placeVars, late, threadVars>>
     /\ DetourOnly

\* The byte is suppressed for the engine's draw, which begins.
Suppress(t) ==
  /\ pc[t] = "suppress"
  /\ shown' = [shown EXCEPT ![draw[t].element] = draw[t].wasVisible /\ draw[t].visible]
  /\ pc' = [pc EXCEPT ![t] = "drawing"]
  /\ UNCHANGED <<live, crosshair, shifted, placeVars, late, threadVars, draw>>
  /\ DetourOnly

\* Defect: the byte is put back by a destructor, which an unwind does not run.
EndDrawOnReturn(t, unwinds) ==
  /\ pc[t] = "drawing"
  /\ shown' = IF unwinds THEN shown
              ELSE [shown EXCEPT ![draw[t].element] = draw[t].wasVisible]
  /\ late' = late \ {draw[t].element}
  /\ draw' = [draw EXCEPT ![t] = NoDraw]
  /\ pc' = [pc EXCEPT ![t] = "idle"]
  /\ UNCHANGED <<live, crosshair, shifted, placeVars, threadVars>>
  /\ DetourOnly

\* The __finally: the engine's draw has returned, or has unwound, and the recorded
\* byte is written over whatever the engine has made of it meanwhile.
EndDraw(t, unwinds) ==
  /\ pc[t] = "drawing"
  /\ shown' = [shown EXCEPT ![draw[t].element] = draw[t].wasVisible]
  /\ late' = late \ {draw[t].element}
  /\ draw' = [draw EXCEPT ![t] = NoDraw]
  /\ pc' = [pc EXCEPT ![t] = "idle"]
  /\ UNCHANGED <<live, crosshair, shifted, placeVars, threadVars>>
  /\ DetourOnly

--------------------------------------------------------------------------------
Start == InstallDetour \/ RefuseDetour \/ EnableDetours
Engine == \E e \in Elements : CreateReticle(e) \/ SetVisible(e)
SpriteDraw(t) ==
  \/ \E v \in Views \cup {None}, s \in {crosshair, None} : Place(t, v, s)
  \/ Latch(t) \/ Suppress(t)
  \/ \E unwinds \in BOOLEAN : EndDraw(t, unwinds)
Controller(t) ==
  \/ \E e \in Elements : \E parent \in {e, None} :
       CrosshairUpdate(t, e, parent) \/ CrosshairDestroy(t, e, parent)
  \/ EngineDestroys(t)
Marker(t) == \E v \in Views, usable \in BOOLEAN : \E hasCanvas \in Canvases(usable) :
               MarkerView(t, v, usable, hasCanvas)
Interface(t) == Marker(t) \/ Controller(t) \/ SpriteDraw(t)

Next == \/ Start \/ Engine
        \/ \E f \in HudFrame : SetFrame(f)
        \/ \E t \in Threads : Interface(t)

Spec == Init /\ [][Next]_vars

--------------------------------------------------------------------------------
(* Properties. *)

\* The captured element is one the engine has not freed: SpriteDraw never writes a
\* visibility byte into, or moves a sprite read out of, memory given to somebody
\* else (CrosshairDestroy, and g_enabled stored after every detour is in).
CapturedIsLive == crosshair # None => crosshair \in live

\* The picture the engine is drawing an element as, and the visibility it will find
\* afterwards: what a draw has on record while there is one, else the byte itself.
Drawn == [e \in Elements |-> IF \E t \in Threads : DrawnBy(t, e)
                             THEN {[seen |-> shown[e], place |-> offset[e]]}
                             ELSE {}]
VisibleAfter == [e \in Elements |->
                   IF Recorded(e)
                   THEN \E t \in Threads : /\ pc[t] \in {"suppress", "drawing"}
                                           /\ draw[t].element = e /\ draw[t].wasVisible
                   ELSE shown[e]]

\* Every draw of an element is as if it were one step of one thread, however the
\* threads' detours interleave: it is of an element that exists, nothing moves its
\* sprite and nobody but the engine shows or hides it while it is drawn, a draw
\* begins on none that the engine has hidden, and once it ends the visibility is what
\* it was before (StockInterface).  That is all that is promised: what the engine
\* gives an element from the record on lasts as long as the draw, or not even that.
Stock == INSTANCE StockInterface WITH visible <- VisibleAfter, drawn <- Drawn,
                                      Places <- Poses \cup {None}
StockInterfaceSpec == Stock!Spec

\* Whenever no draw has its byte on record an element is as visible as the engine made
\* it the last time none had, whichever threads drew and whether or not a draw
\* unwound.  What the engine makes it in the middle of a draw is undone by the
\* __finally, which puts back what was recorded.
VisibilityIsTheEngines ==
  \A e \in Elements : ~Recorded(e) => shown[e] = kept[e]

\* While a compensated reticle is drawn it stands where the pose the markers of the
\* same view were projected through puts it, and it is not drawn at all when that
\* pose turns the aim out of the picture, whatever has been published meanwhile,
\* unless the engine itself shows it while it is drawing it.
DrawnWhereItAims ==
  \A t \in Threads : pc[t] = "drawing" /\ draw[t].compensate =>
    /\ drawFrame[t].active
    /\ drawFrame[t].pose \in OffScreen /\ draw[t].element \notin late =>
         ~shown[draw[t].element]
    /\ drawFrame[t].pose \notin OffScreen /\ canvas[t] /\ draw[t].sprite # None =>
         offset[draw[t].sprite] = drawFrame[t].pose

\* What the reticle's draw sees once it no longer compensates, on a thread that
\* has run a marker pass: a sprite at its layout position.
AtLayout(t) ==
  pc[t] = "drawing" /\ ~draw[t].compensate /\ drawView[t] # None /\ draw[t].sprite # None =>
    offset[draw[t].sprite] = None

\* While one sprite only has ever been moved, the way back always runs: no thread
\* that draws it uncompensated leaves it displaced (g_shiftedSprite).
OneReticleComesBack ==
  \A t \in Threads : moved \subseteq {draw[t].sprite} => AtLayout(t)

\* What the comment in SpriteDraw says of switching tracking off: the live frame
\* reads inactive at the first draw after the toggle and the way back runs, so the
\* reticle is not left displaced by the last pose.
OffReticleComesBack ==
  [][\A t \in Threads :
       pc[t] = "idle" /\ pc'[t] \in {"latch", "suppress"} /\ ~frame.active
       /\ drawView[t] # None /\ draw'[t].sprite # None =>
         offset'[draw'[t].sprite] = None]_vars
================================================================================
