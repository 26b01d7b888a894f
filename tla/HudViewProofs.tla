----------------------------- MODULE HudViewProofs -----------------------------
(***************************************************************************)
(* Proofs about HudView, for any number of threads, elements and poses.    *)
(* OwnerInv is what the engine's own discipline gives the detours: a draw  *)
(* or a destruction has its element to itself.  The rest follows what each *)
(* detour has done to the element by the time another thread looks.  Behind *)
(* it are the refinement of StockInterface and the gate of the log lines.  *)
(***************************************************************************)
EXTENDS HudView, Sequences, TLAPS

StartInv ==
  /\ enabled <=> start = "installed"
  /\ enabled => installed = Detours
  /\ crosshair # None => enabled

\* Every draw and every destruction has its element to itself, and the captured
\* element is not one of those being destroyed.
OwnerInv ==
  /\ \A t \in Threads : pc[t] # "idle" => draw[t].element \in live
  /\ \A t, u \in Threads : pc[t] # "idle" /\ pc[u] # "idle" /\ t # u =>
       draw[t].element # draw[u].element
  /\ crosshair # None => /\ crosshair \in live
                         /\ \A t \in Threads : pc[t] = "destroy" => draw[t].element # crosshair

Recording == {"suppress", "drawing"}
Drawing == {"latch"} \cup Recording

\* What a draw has on record is what the engine last gave the element outside one, and
\* what the element is drawn with is that suppressed, unless the engine has changed it.
VisibleInv ==
  /\ \A t \in Threads : pc[t] \in Recording => draw[t].wasVisible = kept[draw[t].element]
  /\ \A t \in Threads : pc[t] = "drawing" /\ draw[t].element \notin late =>
       shown[draw[t].element] = (kept[draw[t].element] /\ draw[t].visible)
  /\ \A e \in Elements : ~Recorded(e) => shown[e] = kept[e]
  /\ \A e \in late : \E t \in Threads : DrawnBy(t, e)

FrameInv ==
  /\ frame.active => frame.pose # None
  /\ \A t \in Threads : drawFrame[t].active => drawFrame[t].pose # None

\* What Place has decided, and where it has left its sprite.
PlaceInv ==
  \A t \in Threads : pc[t] \in Drawing =>
    /\ draw[t].sprite \in {draw[t].element, None}
    /\ draw[t].compensate => drawFrame[t].active
    /\ draw[t].visible <=> (draw[t].compensate => drawFrame[t].pose \notin OffScreen)
    /\ pc[t] = "latch" =>
         /\ draw[t].sprite # None /\ draw[t].sprite \in moved
         /\ ~draw[t].compensate => offset[draw[t].sprite] = None
    /\ draw[t].compensate /\ draw[t].visible /\ canvas[t] /\ draw[t].sprite # None =>
         offset[draw[t].sprite] = drawFrame[t].pose

\* Only sprites that have been moved are displaced or latched; while there is one,
\* it is latched, or about to be, as long as it is displaced.
LatchInv ==
  /\ shifted # None => shifted \in moved
  /\ \A s \in Elements : offset[s] # None => s \in moved
  /\ \A s \in Elements : moved \subseteq {s} /\ offset[s] # None =>
       \/ shifted = s
       \/ \E t \in Threads : pc[t] = "latch" /\ draw[t].compensate /\ draw[t].sprite = s

BackInv ==
  \A t \in Threads :
    /\ pc[t] \in Drawing /\ ~draw[t].compensate /\ drawView[t] # None /\ draw[t].sprite # None
    /\ moved \subseteq {draw[t].sprite}
    => offset[draw[t].sprite] = None

IInv == /\ TypeOK /\ StartInv /\ OwnerInv /\ VisibleInv /\ FrameInv /\ PlaceInv
        /\ LatchInv /\ BackInv

\* A step that leaves the visibilities and the draws that have one on record alone.
LEMMA VisibleKept ==
  ASSUME VisibleInv, UNCHANGED <<shown, kept, late>>,
         \A t \in Threads : pc[t] \in Recording \/ pc'[t] \in Recording =>
                             pc'[t] = pc[t] /\ draw'[t] = draw[t]
  PROVE  VisibleInv'
  <1>1. \A t \in Threads : pc'[t] \in Recording =>
          draw'[t].wasVisible = kept'[draw'[t].element]
    BY DEF VisibleInv
  <1>2. \A t \in Threads : pc'[t] = "drawing" /\ draw'[t].element \notin late' =>
          shown'[draw'[t].element] = (kept'[draw'[t].element] /\ draw'[t].visible)
    BY DEF VisibleInv, Recording
  <1>3. ASSUME NEW e \in Elements, ~Recorded(e)' PROVE shown'[e] = kept'[e]
    <2>1. ~Recorded(e)
      BY <1>3 DEF Recorded, Recording
    <2> QED BY <2>1 DEF VisibleInv
  <1>4. ASSUME NEW e \in late' PROVE \E t \in Threads : DrawnBy(t, e)'
    <2>1. PICK t \in Threads : DrawnBy(t, e)
      BY DEF VisibleInv
    <2>2. DrawnBy(t, e)'
      BY <2>1 DEF DrawnBy, Recording
    <2> QED BY <2>2
  <1> QED BY <1>1, <1>2, <1>3, <1>4 DEF VisibleInv

USE OffScreenAssumption, NoneAssumption DEF Detours, DestroyDetour

\* Before Start there is no detour, no element and nothing drawn.
LEMMA InitIInv == Init => IInv
  <1> SUFFICES ASSUME Init PROVE IInv
    OBVIOUS
  <1> USE DEF Init
  <1>1. TypeOK
    <2>1. NoDraw \in Draw /\ NoFrame \in HudFrame
      BY DEF NoDraw, Draw, HudFrame, NoFrame
    <2>2. offset \in [Elements -> Poses \cup {None}]
      OBVIOUS
    <2>4. shown \in [Elements -> BOOLEAN]
      OBVIOUS
    <2>5. kept \in [Elements -> BOOLEAN]
      BY <2>4
    <2>3. /\ drawFrame \in [Threads -> HudFrame] /\ drawView \in [Threads -> Views \cup {None}]
          /\ canvas \in [Threads -> BOOLEAN] /\ draw \in [Threads -> Draw]
          /\ pc \in [Threads -> {"idle", "latch", "suppress", "drawing", "destroy"}]
      BY <2>1
    <2>6. start \in {"installing", "installed", "refused"} /\ installed \in 0 .. 4
      OBVIOUS
    <2>8. enabled \in BOOLEAN /\ frame \in HudFrame
      BY <2>1
    <2>7. /\ live \subseteq Elements /\ moved \subseteq Elements /\ late \subseteq Elements
          /\ crosshair \in Elements \cup {None} /\ shifted \in Elements \cup {None}
      OBVIOUS
    <2> QED BY <2>2, <2>3, <2>4, <2>5, <2>6, <2>7, <2>8 DEF TypeOK
  <1>2. StartInv /\ OwnerInv /\ FrameInv
    BY DEF StartInv, OwnerInv, FrameInv, NoFrame
  <1>4. VisibleInv
    <2>1. ASSUME NEW u \in Threads PROVE pc[u] = "idle"
      BY Zenon
    <2>2. late = {}
      OBVIOUS
    <2>3. kept = shown
      OBVIOUS
    <2> QED BY <2>1, <2>2, <2>3 DEF VisibleInv, Recording
  <1>3. PlaceInv /\ LatchInv /\ BackInv
    BY DEF PlaceInv, LatchInv, BackInv, Drawing, Recording
  <1> QED BY <1>1, <1>2, <1>3, <1>4 DEF IInv

\* Start's steps: no detour acts before the last of them.
LEMMA StartStep == ASSUME IInv, Start PROVE IInv'
  <1> USE DEF IInv, StartOnly, engineVars, placeVars, threadVars
  <1>1. UNCHANGED <<frame, engineVars, crosshair, shifted, placeVars, shown, threadVars, pc, draw>>
    BY DEF Start, InstallDetour, RefuseDetour, EnableDetours
  <1>2. TypeOK'
    <2>1. start' \in {"installing", "installed", "refused"} /\ enabled' \in BOOLEAN
      BY DEF Start, InstallDetour, RefuseDetour, EnableDetours, TypeOK
    <2>2. installed' \in 0 .. 4
      BY DEF Start, InstallDetour, RefuseDetour, EnableDetours, TypeOK
    <2> QED BY <1>1, <2>1, <2>2 DEF TypeOK
  <1>3. StartInv'
    BY <1>1 DEF StartInv, TypeOK, Start, InstallDetour, RefuseDetour, EnableDetours
  <1>4. OwnerInv' /\ FrameInv'
    BY <1>1 DEF OwnerInv, FrameInv
  <1>6. VisibleInv'
    <2>1. UNCHANGED <<shown, kept, late, pc, draw>>
      BY <1>1
    <2> QED BY <2>1, VisibleKept
  <1>5. PlaceInv' /\ LatchInv' /\ BackInv'
    BY <1>1 DEF PlaceInv, LatchInv, BackInv, Drawing, Recording
  <1> QED BY <1>2, <1>3, <1>4, <1>5, <1>6

\* A published frame reaches no draw but through a marker pass.
LEMMA SetFrameStep == ASSUME IInv, NEW f \in HudFrame, SetFrame(f) PROVE IInv'
  <1> USE DEF IInv, SetFrame, startVars, engineVars, placeVars, threadVars
  <1>1. TypeOK' /\ StartInv' /\ FrameInv'
    BY DEF TypeOK, StartInv, FrameInv
  <1>2. OwnerInv'
    BY DEF OwnerInv
  <1>4. VisibleInv'
    BY VisibleKept
  <1>3. PlaceInv' /\ LatchInv' /\ BackInv'
    BY DEF PlaceInv, LatchInv, BackInv, Drawing, Recording
  <1> QED BY <1>1, <1>2, <1>3, <1>4

\* An element comes at an address nothing is at, so no detour is at work on it.
LEMMA CreateStep == ASSUME IInv, NEW e \in Elements, CreateReticle(e) PROVE IInv'
  <1> USE DEF IInv, CreateReticle, EngineOnly, startVars, engineVars, placeVars, threadVars
  <1>1. UNCHANGED <<startVars, frame, crosshair, shifted, moved, threadVars, pc, draw, late>>
    OBVIOUS
  <1>2. StartInv' /\ FrameInv'
    BY <1>1 DEF StartInv, FrameInv
  <1>3. \A t \in Threads : pc[t] # "idle" => draw[t].element # e
    BY DEF OwnerInv
  <1>4. /\ live' \in SUBSET Elements /\ live \subseteq live'
        /\ offset' \in [Elements -> Poses \cup {None}]
        /\ shown' \in [Elements -> BOOLEAN] /\ kept' \in [Elements -> BOOLEAN]
    BY DEF TypeOK
  <1>5. /\ \A d \in Elements \ {e} : shown'[d] = shown[d] /\ kept'[d] = kept[d]
                                      /\ offset'[d] = offset[d]
        /\ offset'[e] = None /\ shown'[e] = TRUE /\ kept'[e] = TRUE
    BY DEF TypeOK
  <1>6. TypeOK'
    BY <1>1, <1>4 DEF TypeOK
  <1>7. OwnerInv'
    BY <1>1, <1>4 DEF OwnerInv
  <1>8. \A t \in Threads : pc[t] # "idle" => draw[t].element \in Elements \ {e}
    BY <1>3 DEF OwnerInv, TypeOK
  <1>9. VisibleInv'
    <2>1. ASSUME NEW t \in Threads, pc'[t] \in Recording
          PROVE  draw'[t].wasVisible = kept'[draw'[t].element]
      <3>1. draw[t].element \in Elements \ {e}
        BY <1>1, <1>8, <2>1 DEF Recording
      <3>2. draw[t].wasVisible = kept[draw[t].element]
        BY <1>1, <2>1 DEF VisibleInv
      <3> QED BY <1>1, <1>5, <3>1, <3>2
    <2>2. ASSUME NEW t \in Threads, pc'[t] = "drawing", draw'[t].element \notin late'
          PROVE  shown'[draw'[t].element] = (kept'[draw'[t].element] /\ draw'[t].visible)
      <3>1. draw[t].element \in Elements \ {e}
        BY <1>1, <1>8, <2>2
      <3>2. shown[draw[t].element] = (kept[draw[t].element] /\ draw[t].visible)
        BY <1>1, <2>2 DEF VisibleInv
      <3> QED BY <1>1, <1>5, <3>1, <3>2
    <2>3. ASSUME NEW d \in Elements, ~Recorded(d)' PROVE shown'[d] = kept'[d]
      <3>1. ~Recorded(d)
        BY <1>1, <2>3 DEF Recorded
      <3>2. shown[d] = kept[d]
        BY <3>1 DEF VisibleInv
      <3> QED BY <1>5, <3>2
    <2>4. \A d \in late' : \E t \in Threads : DrawnBy(t, d)'
      BY <1>1 DEF VisibleInv, DrawnBy
    <2> QED BY <2>1, <2>2, <2>3, <2>4 DEF VisibleInv
  <1>10. PlaceInv'
    BY <1>1, <1>5, <1>8 DEF PlaceInv, Drawing, Recording
  <1>11. LatchInv'
    BY <1>1, <1>5 DEF LatchInv
  <1>12. BackInv'
    BY <1>1, <1>5, <1>8 DEF BackInv, PlaceInv, Drawing, Recording
  <1> QED BY <1>2, <1>6, <1>7, <1>9, <1>10, <1>11, <1>12

\* The engine's change of a visibility is kept where no draw has it on record, and the
\* element is marked where one is being drawn.
LEMMA SetVisibleStep == ASSUME IInv, NEW e \in Elements, SetVisible(e) PROVE IInv'
  <1> USE DEF IInv, EngineOnly, startVars, engineVars, placeVars, threadVars
  <1>1. UNCHANGED <<startVars, frame, live, crosshair, shifted, offset, moved, threadVars, pc, draw>>
    BY DEF SetVisible
  <1>2. StartInv' /\ OwnerInv' /\ FrameInv'
    BY <1>1 DEF StartInv, OwnerInv, FrameInv
  <1>3. PlaceInv' /\ LatchInv' /\ BackInv'
    BY <1>1 DEF PlaceInv, LatchInv, BackInv, Drawing, Recording
  <1>4. /\ shown' \in [Elements -> BOOLEAN] /\ kept' \in [Elements -> BOOLEAN]
        /\ late' \in SUBSET Elements
    BY DEF SetVisible, TypeOK
  <1>5. TypeOK'
    BY <1>1, <1>4 DEF TypeOK
  <1>6. /\ \A d \in Elements \ {e} : shown'[d] = shown[d] /\ kept'[d] = kept[d]
        /\ shown'[e] = ~shown[e]
        /\ kept'[e] = IF Recorded(e) THEN kept[e] ELSE ~kept[e]
        /\ late' = IF \E t \in Threads : DrawnBy(t, e) THEN late \cup {e} ELSE late
    BY DEF SetVisible, TypeOK
  <1>7. VisibleInv'
    <2>1. ASSUME NEW t \in Threads, pc'[t] \in Recording
          PROVE  draw'[t].wasVisible = kept'[draw'[t].element]
      <3>1. draw[t].element = e => Recorded(e)
        BY <1>1, <2>1 DEF Recorded, Recording
      <3>2. draw[t].element \in Elements
        BY <1>1, <2>1 DEF OwnerInv, TypeOK, Recording
      <3>3. draw[t].wasVisible = kept[draw[t].element]
        BY <1>1, <2>1 DEF VisibleInv
      <3> QED BY <1>1, <1>6, <3>1, <3>2, <3>3
    <2>2. ASSUME NEW t \in Threads, pc'[t] = "drawing", draw'[t].element \notin late'
          PROVE  shown'[draw'[t].element] = (kept'[draw'[t].element] /\ draw'[t].visible)
      <3>1. draw[t].element # e
        BY <1>1, <1>6, <2>2 DEF DrawnBy
      <3>2. draw[t].element \in Elements \ {e}
        BY <1>1, <2>2, <3>1 DEF OwnerInv, TypeOK
      <3>3. draw[t].element \notin late
        BY <1>1, <1>6, <2>2
      <3>4. shown[draw[t].element] = (kept[draw[t].element] /\ draw[t].visible)
        BY <1>1, <2>2, <3>3 DEF VisibleInv
      <3> QED BY <1>1, <1>6, <3>2, <3>4
    <2>3. ASSUME NEW d \in Elements, ~Recorded(d)' PROVE shown'[d] = kept'[d]
      <3>1. ~Recorded(d)
        BY <1>1, <2>3 DEF Recorded
      <3>2. shown[d] = kept[d]
        BY <3>1 DEF VisibleInv
      <3> QED BY <1>6, <3>1, <3>2
    <2>4. ASSUME NEW d \in late' PROVE \E t \in Threads : DrawnBy(t, d)'
      <3>1. d \in late \/ (d = e /\ \E t \in Threads : DrawnBy(t, e))
        BY <1>6
      <3>2. \E t \in Threads : DrawnBy(t, d)
        BY <3>1 DEF VisibleInv
      <3> QED BY <1>1, <3>2 DEF DrawnBy
    <2> QED BY <2>1, <2>2, <2>3, <2>4 DEF VisibleInv
  <1> QED BY <1>2, <1>3, <1>5, <1>7

\* The marker pass writes only the latches of a thread that is drawing nothing.
LEMMA MarkerStep == ASSUME IInv, NEW t \in Threads, Marker(t) PROVE IInv'
  <1> USE DEF IInv, DetourOnly, startVars, placeVars
  <1>1. /\ UNCHANGED <<startVars, frame, kept, late, live, crosshair, shifted, placeVars, shown,
                       pc, draw>>
        /\ pc[t] = "idle"
    BY DEF Marker, MarkerView, Posed
  <1>2. /\ drawFrame' \in [Threads -> HudFrame] /\ drawView' \in [Threads -> Views \cup {None}]
        /\ canvas' \in [Threads -> BOOLEAN]
    <2>1. PICK v \in Views, usable \in BOOLEAN : \E hasCanvas \in Canvases(usable) :
                 MarkerView(t, v, usable, hasCanvas)
      BY DEF Marker
    <2>2. PICK hasCanvas \in BOOLEAN : MarkerView(t, v, usable, hasCanvas)
      <3>1. Canvases(usable) \subseteq BOOLEAN
        BY DEF Canvases
      <3> QED BY <2>1, <3>1
    <2>3. Posed(usable) \in HudFrame
      BY DEF Posed, NoFrame, HudFrame, TypeOK
    <2> QED BY <2>2, <2>3 DEF MarkerView, TypeOK
  <1>3. drawFrame'[t] \in {frame, NoFrame}
    BY DEF Marker, MarkerView, Posed, TypeOK
  <1>4. \A u \in Threads \ {t} : /\ drawFrame'[u] = drawFrame[u] /\ drawView'[u] = drawView[u]
                                 /\ canvas'[u] = canvas[u]
    BY DEF Marker, MarkerView, Posed, TypeOK
  <1>5. TypeOK'
    BY <1>1, <1>2 DEF TypeOK
  <1>6. StartInv' /\ OwnerInv'
    BY <1>1 DEF StartInv, OwnerInv
  <1>7. VisibleInv'
    <2>1. UNCHANGED <<shown, kept, late, pc, draw>>
      BY <1>1
    <2> QED BY <2>1, VisibleKept
  <1>8. FrameInv'
    BY <1>1, <1>3, <1>4 DEF FrameInv, NoFrame
  <1>9. PlaceInv'
    BY <1>1, <1>4 DEF PlaceInv, Drawing, Recording
  <1>10. LatchInv'
    BY <1>1 DEF LatchInv
  <1>11. BackInv'
    BY <1>1, <1>4 DEF BackInv, Drawing, Recording
  <1> QED BY <1>5, <1>6, <1>7, <1>8, <1>9, <1>10, <1>11

\* A captured element is one that nobody is destroying.
LEMMA UpdateStep ==
  ASSUME IInv, NEW t \in Threads, NEW e \in Elements, NEW parent \in {e, None},
         CrosshairUpdate(t, e, parent)
  PROVE  IInv'
  <1> USE DEF IInv, DetourOnly, startVars, placeVars, threadVars
  <1>1. /\ UNCHANGED <<startVars, frame, kept, late, live, shifted, placeVars, shown, threadVars,
                       pc, draw>>
        /\ crosshair' = parent /\ enabled /\ e \in live
        /\ \A u \in Threads : pc[u] = "destroy" => draw[u].element # e
    BY DEF CrosshairUpdate, Destroying
  <1>2. TypeOK' /\ StartInv' /\ FrameInv'
    BY <1>1 DEF TypeOK, StartInv, FrameInv
  <1>3. OwnerInv'
    BY <1>1 DEF OwnerInv
  <1>4. VisibleInv'
    <2>1. UNCHANGED <<shown, kept, late, pc, draw>>
      BY <1>1
    <2> QED BY <2>1, VisibleKept
  <1>5. PlaceInv' /\ LatchInv' /\ BackInv'
    BY <1>1 DEF PlaceInv, LatchInv, BackInv, Drawing, Recording
  <1> QED BY <1>2, <1>3, <1>4, <1>5

\* The capture is dropped before the destructor runs, and nothing else changes.
LEMMA DestroyStep ==
  ASSUME IInv, NEW t \in Threads, NEW e \in Elements, NEW parent,
         CrosshairDestroy(t, e, parent)
  PROVE  IInv'
  <1> USE DEF IInv, DetourOnly, startVars, placeVars, threadVars
  <1>1. /\ UNCHANGED <<startVars, frame, kept, late, live, shifted, placeVars, shown, threadVars>>
        /\ e \in live /\ pc[t] = "idle"
        /\ \A u \in Threads : pc[u] # "idle" => draw[u].element # e
    BY DEF CrosshairDestroy, Busy
  <1>2. crosshair' = None
    BY DEF CrosshairDestroy, StartInv
  <1>3. pc'[t] = "destroy" /\ draw'[t] = [NoDraw EXCEPT !.element = e]
    BY DEF CrosshairDestroy, TypeOK
  <1>4. \A u \in Threads \ {t} : pc'[u] = pc[u] /\ draw'[u] = draw[u]
    BY DEF CrosshairDestroy, TypeOK
  <1>5. TypeOK'
    <2>1. draw'[t] \in Draw
      BY <1>3 DEF NoDraw, Draw
    <2>2. /\ draw' \in [Threads -> Draw]
          /\ pc' \in [Threads -> {"idle", "latch", "suppress", "drawing", "destroy"}]
      BY <2>1 DEF CrosshairDestroy, TypeOK
    <2> QED BY <1>1, <1>2, <2>2 DEF TypeOK
  <1>6. StartInv' /\ FrameInv'
    BY <1>1, <1>2 DEF StartInv, FrameInv
  <1>7. OwnerInv'
    <2>1. draw'[t].element = e
      BY <1>3 DEF NoDraw
    <2> QED BY <1>1, <1>2, <1>4, <2>1 DEF OwnerInv
  <1>8. VisibleInv'
    <2>1. UNCHANGED <<shown, kept, late>>
      BY <1>1
    <2>2. pc[t] \notin Recording /\ pc'[t] \notin Recording
      BY <1>1, <1>3 DEF Recording
    <2> QED BY <1>4, <2>1, <2>2, VisibleKept
  <1>9. PlaceInv'
    BY <1>1, <1>3, <1>4 DEF PlaceInv, Drawing, Recording
  <1>10. LatchInv'
    BY <1>1, <1>3, <1>4 DEF LatchInv
  <1>11. BackInv'
    BY <1>1, <1>3, <1>4 DEF BackInv, Drawing, Recording
  <1> QED BY <1>5, <1>6, <1>7, <1>8, <1>9, <1>10, <1>11

\* What the engine frees is neither captured nor being drawn.
LEMMA FreeStep == ASSUME IInv, NEW t \in Threads, EngineDestroys(t) PROVE IInv'
  <1> USE DEF IInv, DetourOnly, startVars, placeVars, threadVars
  <1>1. /\ UNCHANGED <<startVars, frame, kept, late, crosshair, shifted, placeVars, shown, threadVars>>
        /\ pc[t] = "destroy" /\ live' = live \ {draw[t].element}
    BY DEF EngineDestroys
  <1>2. pc'[t] = "idle" /\ draw'[t] = NoDraw
    BY DEF EngineDestroys, TypeOK
  <1>3. \A u \in Threads \ {t} : pc'[u] = pc[u] /\ draw'[u] = draw[u]
    BY DEF EngineDestroys, TypeOK
  <1>4. TypeOK'
    <2>1. NoDraw \in Draw
      BY DEF NoDraw, Draw
    <2>2. /\ draw' \in [Threads -> Draw]
          /\ pc' \in [Threads -> {"idle", "latch", "suppress", "drawing", "destroy"}]
      BY <2>1 DEF EngineDestroys, TypeOK
    <2> QED BY <1>1, <2>2 DEF TypeOK
  <1>5. StartInv' /\ FrameInv'
    BY <1>1 DEF StartInv, FrameInv
  <1>6. OwnerInv'
    BY <1>1, <1>2, <1>3 DEF OwnerInv
  <1>7. VisibleInv'
    <2>1. UNCHANGED <<shown, kept, late>>
      BY <1>1
    <2>2. pc[t] \notin Recording /\ pc'[t] \notin Recording
      BY <1>1, <1>2 DEF Recording
    <2> QED BY <1>3, <2>1, <2>2, VisibleKept
  <1>8. PlaceInv'
    BY <1>1, <1>2, <1>3 DEF PlaceInv, Drawing, Recording
  <1>9. LatchInv'
    BY <1>1, <1>2, <1>3 DEF LatchInv
  <1>10. BackInv'
    BY <1>1, <1>2, <1>3 DEF BackInv, Drawing, Recording
  <1> QED BY <1>4, <1>5, <1>6, <1>7, <1>8, <1>9, <1>10

\* A draw that begins has the captured element to itself, decides against the frame
\* of its own marker pass, and moves its own sprite or none.
LEMMA PlaceStep ==
  ASSUME IInv, NEW t \in Threads, NEW v \in Views \cup {None}, NEW s \in {crosshair, None},
         Place(t, v, s)
  PROVE  IInv'
  <1> USE DEF IInv, DetourOnly, startVars, threadVars
  <1>1. /\ UNCHANGED <<startVars, frame, kept, late, live, crosshair, shifted, shown, threadVars>>
        /\ pc[t] = "idle" /\ crosshair # None /\ enabled
        /\ \A u \in Threads : pc[u] # "idle" => draw[u].element # crosshair
    BY DEF Place, Busy
  <1>2. crosshair \in live /\ crosshair \in Elements
    BY <1>1 DEF OwnerInv, TypeOK
  <1> DEFINE placed == s # None /\ Visible(t, v) /\ Placeable(t, v, s)
             new == [element |-> crosshair, sprite |-> s,
                     compensate |-> Compensates(t, v), visible |-> Visible(t, v),
                     wasVisible |-> IF placed THEN TRUE ELSE shown[crosshair]]
  <1>3. pc'[t] = (IF placed THEN "latch" ELSE "suppress") /\ draw'[t] = new
    BY DEF Place, TypeOK
  <1>4. \A u \in Threads \ {t} : pc'[u] = pc[u] /\ draw'[u] = draw[u]
    BY DEF Place, TypeOK
  <1>5. /\ offset' = IF placed THEN [offset EXCEPT ![s] = Target(t, v)] ELSE offset
        /\ moved' = IF placed /\ Target(t, v) # None THEN moved \cup {s} ELSE moved
    BY DEF Place
  <1>6. Compensates(t, v) => drawFrame[t].active /\ Target(t, v) = drawFrame[t].pose
                             /\ Target(t, v) # None
    BY DEF Compensates, Target, FrameInv
  <1>7. ~Compensates(t, v) => Target(t, v) = None /\ Visible(t, v)
                              /\ (placed => shifted = s)
    BY DEF Compensates, Target, Visible, Placeable
  <1>8. Target(t, v) \in Poses \cup {None}
    BY DEF Target, TypeOK, HudFrame
  <1>9. placed => s = crosshair
    OBVIOUS
  <1>10. /\ offset' \in [Elements -> Poses \cup {None}]
         /\ \A d \in Elements \ {crosshair} : offset'[d] = offset[d]
         /\ placed => offset'[crosshair] = Target(t, v)
         /\ ~placed => offset' = offset
    BY <1>2, <1>5, <1>8, <1>9 DEF TypeOK
  <1>11. /\ moved' \in SUBSET Elements /\ moved \subseteq moved' /\ moved' \subseteq moved \cup {crosshair}
         /\ placed => s \in moved'
    <2>1. placed => s \in moved'
      <3>1. CASE Compensates(t, v)
        BY <1>5, <1>6, <3>1
      <3>2. CASE ~Compensates(t, v)
        BY <1>1, <1>5, <1>7, <1>9, <3>2 DEF LatchInv
      <3> QED BY <3>1, <3>2
    <2>2. moved' \in {moved, moved \cup {crosshair}}
      BY <1>5, <1>9
    <2> QED BY <1>2, <2>1, <2>2 DEF TypeOK
  <1>12. /\ new.element = crosshair /\ new.sprite = s
         /\ new.compensate = Compensates(t, v) /\ new.visible = Visible(t, v)
         /\ ~placed => new.wasVisible = shown[crosshair]
    OBVIOUS
  <1>13. new \in Draw
    <2>1. Visible(t, v) \in BOOLEAN /\ Compensates(t, v) \in BOOLEAN
      BY DEF Visible, Compensates, TypeOK, HudFrame
    <2>3. (IF placed THEN TRUE ELSE shown[crosshair]) \in BOOLEAN
      BY <1>2 DEF TypeOK
    <2>2. crosshair \in Elements \cup {None} /\ s \in Elements \cup {None}
      BY <1>2
    <2> HIDE DEF placed
    <2> QED BY <2>1, <2>2, <2>3 DEF Draw
  <1> HIDE DEF placed, new
  <1>14. TypeOK'
    <2>1. /\ draw' \in [Threads -> Draw]
          /\ pc' \in [Threads -> {"idle", "latch", "suppress", "drawing", "destroy"}]
      <3>1. /\ draw' = [draw EXCEPT ![t] = new]
            /\ pc' = [pc EXCEPT ![t] = IF placed THEN "latch" ELSE "suppress"]
        BY DEF Place, new, placed
      <3> QED BY <1>13, <3>1 DEF TypeOK
    <2> QED BY <1>1, <1>10, <1>11, <2>1 DEF TypeOK
  <1>15. StartInv' /\ FrameInv'
    BY <1>1 DEF StartInv, FrameInv
  <1>16. OwnerInv'
    BY <1>1, <1>2, <1>3, <1>4, <1>12 DEF OwnerInv
  <1>17. VisibleInv'
    <2>1. ~Recorded(crosshair)
      BY <1>1 DEF Recorded
    <2>2. shown[crosshair] = kept[crosshair]
      BY <1>2, <2>1 DEF VisibleInv
    <2>3. ASSUME NEW u \in Threads, pc'[u] \in Recording
          PROVE  draw'[u].wasVisible = kept'[draw'[u].element]
      <3>1. CASE u = t
        <4>1. ~placed
          BY <1>3, <2>3, <3>1 DEF Recording
        <4> QED BY <1>1, <1>3, <1>12, <2>2, <3>1, <4>1
      <3>2. CASE u # t
        BY <1>1, <1>4, <2>3, <3>2 DEF VisibleInv
      <3> QED BY <3>1, <3>2
    <2>4. ASSUME NEW u \in Threads, pc'[u] = "drawing", draw'[u].element \notin late'
          PROVE  shown'[draw'[u].element] = (kept'[draw'[u].element] /\ draw'[u].visible)
      <3>1. u # t
        BY <1>3, <2>4
      <3> QED BY <1>1, <1>4, <2>4, <3>1 DEF VisibleInv
    <2>5. ASSUME NEW d \in Elements, ~Recorded(d)' PROVE shown'[d] = kept'[d]
      <3>1. ~Recorded(d)
        <4> SUFFICES ASSUME NEW u \in Threads, pc[u] \in Recording, draw[u].element = d
                     PROVE  FALSE
          BY DEF Recorded, Recording
        <4>1. u # t
          BY <1>1 DEF Recording
        <4>2. pc'[u] \in {"suppress", "drawing"} /\ draw'[u].element = d
          BY <1>4, <4>1 DEF Recording
        <4> QED BY <2>5, <4>2 DEF Recorded
      <3> QED BY <1>1, <3>1 DEF VisibleInv
    <2>6. ASSUME NEW d \in late' PROVE \E u \in Threads : DrawnBy(u, d)'
      <3>1. PICK u \in Threads : DrawnBy(u, d)
        BY <1>1 DEF VisibleInv
      <3>2. DrawnBy(u, d)'
        BY <1>1, <1>4, <3>1 DEF DrawnBy
      <3> QED BY <3>2
    <2> QED BY <2>3, <2>4, <2>5, <2>6 DEF VisibleInv
  <1>18. \A u \in Threads \ {t} : pc[u] \in Drawing => draw[u].sprite # crosshair
    BY <1>1 DEF PlaceInv, Drawing, Recording
  <1>19. PlaceInv'
    <2>1. \A u \in Threads \ {t} : pc[u] \in Drawing /\ draw[u].sprite # None
                                     => draw[u].sprite \in Elements \ {crosshair}
      BY <1>18 DEF TypeOK, Draw, Drawing, Recording
    <2>2. ASSUME NEW u \in Threads \ {t}, pc'[u] \in Drawing
          PROVE  /\ draw'[u].sprite \in {draw'[u].element, None}
                 /\ draw'[u].compensate => drawFrame'[u].active
                 /\ draw'[u].visible <=> (draw'[u].compensate => drawFrame'[u].pose \notin OffScreen)
                 /\ pc'[u] = "latch" =>
                      /\ draw'[u].sprite # None /\ draw'[u].sprite \in moved'
                      /\ ~draw'[u].compensate => offset'[draw'[u].sprite] = None
                 /\ draw'[u].compensate /\ draw'[u].visible /\ canvas'[u]
                    /\ draw'[u].sprite # None =>
                      offset'[draw'[u].sprite] = drawFrame'[u].pose
      BY <1>1, <1>4, <1>10, <1>11, <2>1, <2>2 DEF PlaceInv
    <2>3. /\ draw'[t].sprite \in {draw'[t].element, None}
          /\ draw'[t].compensate => drawFrame'[t].active
          /\ draw'[t].visible <=> (draw'[t].compensate => drawFrame'[t].pose \notin OffScreen)
      BY <1>1, <1>3, <1>6, <1>12 DEF Visible
    <2>4. pc'[t] = "latch" =>
            /\ draw'[t].sprite # None /\ draw'[t].sprite \in moved'
            /\ ~draw'[t].compensate => offset'[draw'[t].sprite] = None
      <3> SUFFICES ASSUME pc'[t] = "latch"
                   PROVE  /\ draw'[t].sprite # None /\ draw'[t].sprite \in moved'
                          /\ ~draw'[t].compensate => offset'[draw'[t].sprite] = None
        OBVIOUS
      <3>1. placed
        BY <1>3
      <3> QED BY <1>1, <1>3, <1>7, <1>9, <1>10, <1>11, <1>12, <3>1
    <2>5. ASSUME draw'[t].compensate, draw'[t].visible, canvas'[t], draw'[t].sprite # None
          PROVE  offset'[draw'[t].sprite] = drawFrame'[t].pose
      <3>1. placed
        BY <1>1, <1>3, <1>12, <2>5 DEF placed, Placeable
      <3> QED BY <1>1, <1>3, <1>6, <1>9, <1>10, <1>12, <2>5, <3>1
    <2> QED BY <2>2, <2>3, <2>4, <2>5 DEF PlaceInv
  <1>20. LatchInv'
    <2>1. shifted' # None => shifted' \in moved'
      BY <1>1, <1>11 DEF LatchInv
    <2>2. \A d \in Elements : offset'[d] # None => d \in moved'
      BY <1>2, <1>9, <1>10, <1>11 DEF LatchInv
    <2>3. ASSUME NEW d \in Elements, moved' \subseteq {d}, offset'[d] # None
          PROVE  \/ shifted' = d
                 \/ \E u \in Threads : /\ pc'[u] = "latch" /\ draw'[u].compensate
                                       /\ draw'[u].sprite = d
      <3>1. CASE placed
        <4>1. d = crosshair /\ s = crosshair
          BY <1>9, <1>11, <2>3, <3>1
        <4>2. Compensates(t, v)
          BY <1>7, <1>10, <2>3, <3>1, <4>1
        <4> QED BY <1>3, <1>12, <3>1, <4>1, <4>2
      <3>2. CASE ~placed
        <4>1. offset[d] # None /\ moved \subseteq {d}
          BY <1>10, <1>11, <2>3, <3>2
        <4>2. CASE shifted = d
          BY <1>1, <4>2
        <4>3. ASSUME NEW u \in Threads, pc[u] = "latch", draw[u].compensate, draw[u].sprite = d
              PROVE  \E w \in Threads : /\ pc'[w] = "latch"
                                        /\ draw'[w].compensate /\ draw'[w].sprite = d
          <5>1. u # t
            BY <1>1, <4>3
          <5> QED BY <1>4, <4>3, <5>1
        <4> QED BY <4>1, <4>2, <4>3 DEF LatchInv
      <3> QED BY <3>1, <3>2
    <2> QED BY <2>1, <2>2, <2>3 DEF LatchInv
  <1>21. BackInv'
    <2>1. ASSUME NEW u \in Threads \ {t}, pc'[u] \in Drawing, ~draw'[u].compensate,
                 drawView'[u] # None, draw'[u].sprite # None, moved' \subseteq {draw'[u].sprite}
          PROVE  offset'[draw'[u].sprite] = None
      <3>1. offset[draw[u].sprite] = None
        BY <1>1, <1>4, <1>11, <2>1 DEF BackInv
      <3>2. draw[u].sprite \in Elements \ {crosshair}
        BY <1>4, <1>18, <2>1 DEF TypeOK, Draw, Drawing, Recording
      <3> QED BY <1>4, <1>10, <2>1, <3>1, <3>2
    <2>2. ASSUME ~draw'[t].compensate, drawView'[t] # None, draw'[t].sprite # None,
                 moved' \subseteq {draw'[t].sprite}
          PROVE  offset'[draw'[t].sprite] = None
      <3>1. ~Compensates(t, v) /\ s = crosshair /\ draw'[t].sprite = s
        BY <1>3, <1>12, <2>2
      <3>2. CASE placed
        BY <1>7, <1>10, <3>1, <3>2
      <3>3. CASE ~placed
        <4>1. shifted # s
          BY <1>1, <1>7, <2>2, <3>1, <3>3 DEF placed, Placeable
        <4>2. \A u \in Threads : pc[u] = "latch" => draw[u].sprite # crosshair
          BY <1>1, <1>18 DEF Drawing
        <4>3. moved \subseteq {s}
          BY <1>11, <2>2, <3>1
        <4> QED BY <1>2, <1>10, <3>1, <3>3, <4>1, <4>2, <4>3 DEF LatchInv
      <3> QED BY <3>2, <3>3
    <2> QED BY <2>1, <2>2 DEF BackInv
  <1> QED BY <1>14, <1>15, <1>16, <1>17, <1>19, <1>20, <1>21

\* The latch names the sprite just moved, or nothing once it is back, and what the
\* engine last gave the element is put on record.
LEMMA LatchStep == ASSUME IInv, NEW t \in Threads, Latch(t) PROVE IInv'
  <1> USE DEF IInv, DetourOnly, startVars, placeVars, threadVars
  <1> DEFINE e == draw[t].element
  <1>1. /\ UNCHANGED <<startVars, frame, kept, late, live, crosshair, placeVars, shown, threadVars>>
        /\ pc[t] = "latch"
        /\ shifted' = IF draw[t].compensate THEN draw[t].sprite ELSE None
    BY DEF Latch
  <1>2. e \in Elements /\ draw[t] \in Draw /\ draw[t].sprite \in Elements \cup {None}
    BY <1>1 DEF OwnerInv, TypeOK, Draw
  <1>3. pc'[t] = "suppress" /\ draw'[t] = [draw[t] EXCEPT !.wasVisible = shown[e]]
    BY DEF Latch, TypeOK
  <1>4. \A u \in Threads \ {t} : pc'[u] = pc[u] /\ draw'[u] = draw[u]
    BY DEF Latch, TypeOK
  <1>5. /\ draw'[t].element = e /\ draw'[t].sprite = draw[t].sprite
        /\ draw'[t].compensate = draw[t].compensate /\ draw'[t].visible = draw[t].visible
        /\ draw'[t].wasVisible = shown[e]
    BY <1>2, <1>3 DEF Draw
  <1>7. \A u \in Threads \ {t} : pc[u] # "idle" => draw[u].element # e
    BY <1>1 DEF OwnerInv
  <1> HIDE DEF e
  <1>8. TypeOK'
    <2>1. draw'[t] \in Draw
      <3>1. shown[e] \in BOOLEAN
        BY <1>2 DEF TypeOK
      <3> QED BY <1>2, <1>3, <3>1 DEF Draw
    <2>2. /\ draw' \in [Threads -> Draw]
          /\ pc' \in [Threads -> {"idle", "latch", "suppress", "drawing", "destroy"}]
      BY <2>1 DEF Latch, TypeOK
    <2>3. shifted' \in Elements \cup {None}
      BY <1>1, <1>2 DEF TypeOK
    <2> QED BY <1>1, <2>2, <2>3 DEF TypeOK
  <1>9. StartInv' /\ FrameInv'
    BY <1>1 DEF StartInv, FrameInv
  <1>10. OwnerInv'
    <2>1. \A u \in Threads : /\ draw'[u].element = draw[u].element
                             /\ pc'[u] # "idle" => pc[u] # "idle"
                             /\ pc'[u] = "destroy" => pc[u] = "destroy"
      BY <1>1, <1>3, <1>4, <1>5 DEF e
    <2> QED BY <1>1, <2>1 DEF OwnerInv
  <1>11. VisibleInv'
    <2>1. ~Recorded(e)
      <3>1. pc[t] \notin {"suppress", "drawing"}
        BY <1>1
      <3> QED BY <1>7, <3>1 DEF Recorded
    <2>2. shown[e] = kept[e]
      BY <1>2, <2>1 DEF VisibleInv
    <2>3. ASSUME NEW u \in Threads, pc'[u] \in Recording
          PROVE  draw'[u].wasVisible = kept'[draw'[u].element]
      <3>1. CASE u = t
        BY <1>1, <1>5, <2>2, <3>1
      <3>2. CASE u # t
        BY <1>1, <1>4, <2>3, <3>2 DEF VisibleInv
      <3> QED BY <3>1, <3>2
    <2>4. ASSUME NEW u \in Threads, pc'[u] = "drawing", draw'[u].element \notin late'
          PROVE  shown'[draw'[u].element] = (kept'[draw'[u].element] /\ draw'[u].visible)
      <3>1. u # t
        BY <1>3, <2>4
      <3> QED BY <1>1, <1>4, <2>4, <3>1 DEF VisibleInv
    <2>5. ASSUME NEW d \in Elements, ~Recorded(d)' PROVE shown'[d] = kept'[d]
      <3>1. d # e
        BY <1>3, <1>5, <2>5 DEF Recorded
      <3>2. ~Recorded(d)
        <4> SUFFICES ASSUME NEW u \in Threads, pc[u] \in Recording, draw[u].element = d
                     PROVE  FALSE
          BY DEF Recorded, Recording
        <4>1. u # t
          BY <1>1 DEF Recording
        <4>2. pc'[u] \in {"suppress", "drawing"} /\ draw'[u].element = d
          BY <1>4, <4>1 DEF Recording
        <4> QED BY <2>5, <4>2 DEF Recorded
      <3> QED BY <1>1, <3>2 DEF VisibleInv
    <2>6. ASSUME NEW d \in late' PROVE \E u \in Threads : DrawnBy(u, d)'
      <3>1. PICK u \in Threads : DrawnBy(u, d)
        BY <1>1 DEF VisibleInv
      <3>2. DrawnBy(u, d)'
        BY <1>1, <1>4, <3>1 DEF DrawnBy
      <3> QED BY <3>2
    <2> QED BY <2>3, <2>4, <2>5, <2>6 DEF VisibleInv
  <1>12. PlaceInv'
    <2>1. pc[t] \in Drawing
      BY <1>1 DEF Drawing
    <2>2. \A u \in Threads \ {t} : pc'[u] \in Drawing => pc[u] \in Drawing
      BY <1>4
    <2>3. ASSUME NEW u \in Threads, pc'[u] \in Drawing
          PROVE  /\ draw'[u].sprite \in {draw'[u].element, None}
                 /\ draw'[u].compensate => drawFrame'[u].active
                 /\ draw'[u].visible <=> (draw'[u].compensate => drawFrame'[u].pose \notin OffScreen)
                 /\ pc'[u] = "latch" =>
                      /\ draw'[u].sprite # None /\ draw'[u].sprite \in moved'
                      /\ ~draw'[u].compensate => offset'[draw'[u].sprite] = None
                 /\ draw'[u].compensate /\ draw'[u].visible /\ canvas'[u]
                    /\ draw'[u].sprite # None =>
                      offset'[draw'[u].sprite] = drawFrame'[u].pose
      <3>1. CASE u = t
        BY <1>1, <1>3, <1>5, <2>1, <3>1 DEF PlaceInv, e
      <3>2. CASE u # t
        BY <1>1, <1>4, <2>2, <2>3, <3>2 DEF PlaceInv
      <3> QED BY <3>1, <3>2
    <2> QED BY <2>3 DEF PlaceInv
  <1>13. /\ draw[t].sprite \in moved
         /\ ~draw[t].compensate => offset[draw[t].sprite] = None
    BY <1>1 DEF PlaceInv, Drawing, Recording
  <1>14. LatchInv'
    <2>1. shifted' # None => shifted' \in moved'
      BY <1>1, <1>13 DEF LatchInv
    <2>2. \A d \in Elements : offset'[d] # None => d \in moved'
      BY <1>1 DEF LatchInv
    <2>3. ASSUME NEW d \in Elements, moved' \subseteq {d}, offset'[d] # None
          PROVE  shifted' = d
      <3>1. draw[t].sprite = d
        BY <1>1, <1>13, <2>3
      <3>2. draw[t].compensate
        BY <1>1, <1>13, <2>3, <3>1
      <3> QED BY <1>1, <3>1, <3>2
    <2> QED BY <2>1, <2>2, <2>3 DEF LatchInv
  <1>15. BackInv'
    <2>1. \A u \in Threads \ {t} : pc'[u] \in Drawing => pc[u] \in Drawing
      BY <1>4
    <2>2. pc[t] \in Drawing
      BY <1>1 DEF Drawing
    <2> QED BY <1>1, <1>4, <1>5, <2>1, <2>2 DEF BackInv
  <1> QED BY <1>8, <1>9, <1>10, <1>11, <1>12, <1>14, <1>15

\* The byte is suppressed with what the engine last gave the element on record.
LEMMA SuppressStep == ASSUME IInv, NEW t \in Threads, Suppress(t) PROVE IInv'
  <1> USE DEF IInv, DetourOnly, startVars, placeVars, threadVars
  <1> DEFINE e == draw[t].element
  <1>1. /\ UNCHANGED <<startVars, frame, kept, late, live, crosshair, shifted, placeVars, threadVars,
                       draw>>
        /\ pc[t] = "suppress"
    BY DEF Suppress
  <1>2. e \in Elements /\ draw[t] \in Draw
    BY <1>1 DEF OwnerInv, TypeOK
  <1>3. /\ pc' \in [Threads -> {"idle", "latch", "suppress", "drawing", "destroy"}]
        /\ pc'[t] = "drawing" /\ \A u \in Threads \ {t} : pc'[u] = pc[u]
    BY DEF Suppress, TypeOK
  <1>4. /\ shown' \in [Elements -> BOOLEAN]
        /\ shown'[e] = (draw[t].wasVisible /\ draw[t].visible)
        /\ \A d \in Elements \ {e} : shown'[d] = shown[d]
    BY <1>2 DEF Suppress, TypeOK, Draw
  <1>5. \A u \in Threads \ {t} : pc[u] # "idle" => draw[u].element # e
    BY <1>1 DEF OwnerInv
  <1>6. draw[t].wasVisible = kept[e]
    BY <1>1 DEF VisibleInv, Recording
  <1> HIDE DEF e
  <1>7. TypeOK'
    BY <1>1, <1>3, <1>4 DEF TypeOK
  <1>8. StartInv' /\ FrameInv'
    BY <1>1 DEF StartInv, FrameInv
  <1>9. OwnerInv'
    <2>1. \A u \in Threads : /\ pc'[u] # "idle" => pc[u] # "idle"
                             /\ pc'[u] = "destroy" => pc[u] = "destroy"
      BY <1>1, <1>3
    <2> QED BY <1>1, <2>1 DEF OwnerInv
  <1>10. VisibleInv'
    <2>1. \A d \in Elements : Recorded(d)' <=> Recorded(d)
      BY <1>1, <1>3 DEF Recorded
    <2>2. ASSUME NEW u \in Threads, pc'[u] \in Recording
          PROVE  draw'[u].wasVisible = kept'[draw'[u].element]
      <3>1. CASE u = t
        BY <1>1, <1>6, <3>1 DEF e
      <3>2. CASE u # t
        BY <1>1, <1>3, <2>2, <3>2 DEF VisibleInv
      <3> QED BY <3>1, <3>2
    <2>3. ASSUME NEW u \in Threads, pc'[u] = "drawing", draw'[u].element \notin late'
          PROVE  shown'[draw'[u].element] = (kept'[draw'[u].element] /\ draw'[u].visible)
      <3>1. CASE u = t
        BY <1>1, <1>4, <1>6, <3>1 DEF e
      <3>2. CASE u # t
        <4>1. draw[u].element \in Elements \ {e}
          BY <1>1, <1>3, <1>5, <2>3, <3>2 DEF OwnerInv, TypeOK
        <4>2. shown[draw[u].element] = (kept[draw[u].element] /\ draw[u].visible)
          BY <1>1, <1>3, <2>3, <3>2 DEF VisibleInv
        <4> QED BY <1>1, <1>4, <4>1, <4>2
      <3> QED BY <3>1, <3>2
    <2>4. ASSUME NEW d \in Elements, ~Recorded(d)' PROVE shown'[d] = kept'[d]
      <3>1. d # e
        BY <1>1, <1>3, <2>4 DEF Recorded, e
      <3>2. shown[d] = kept[d]
        BY <2>1, <2>4 DEF VisibleInv
      <3> QED BY <1>1, <1>4, <3>1, <3>2
    <2>5. ASSUME NEW d \in late' PROVE \E u \in Threads : DrawnBy(u, d)'
      <3>1. PICK u \in Threads : DrawnBy(u, d)
        BY <1>1 DEF VisibleInv
      <3>2. DrawnBy(u, d)'
        BY <1>1, <1>3, <3>1 DEF DrawnBy
      <3> QED BY <3>2
    <2> QED BY <2>2, <2>3, <2>4, <2>5 DEF VisibleInv
  <1>11. \A u \in Threads : /\ pc'[u] \in Drawing => pc[u] \in Drawing
                            /\ pc'[u] = "latch" <=> pc[u] = "latch"
    BY <1>1, <1>3 DEF Drawing, Recording
  <1>12. PlaceInv'
    BY <1>1, <1>11 DEF PlaceInv
  <1>13. LatchInv'
    BY <1>1, <1>11 DEF LatchInv
  <1>14. BackInv'
    BY <1>1, <1>11 DEF BackInv
  <1> QED BY <1>7, <1>8, <1>9, <1>10, <1>12, <1>13, <1>14

\* What is on record is put back however the engine's draw ended.
LEMMA EndDrawStep ==
  ASSUME IInv, NEW t \in Threads, NEW unwinds, EndDraw(t, unwinds)
  PROVE  IInv'
  <1> USE DEF IInv, DetourOnly, startVars, placeVars, threadVars
  <1> DEFINE e == draw[t].element
  <1>1. /\ UNCHANGED <<startVars, frame, kept, live, crosshair, shifted, placeVars, threadVars>>
        /\ pc[t] = "drawing" /\ late' = late \ {e}
    BY DEF EndDraw
  <1>2. e \in Elements /\ draw[t] \in Draw
    BY <1>1 DEF OwnerInv, TypeOK
  <1>3. pc'[t] = "idle" /\ draw'[t] = NoDraw
    BY DEF EndDraw, TypeOK
  <1>4. \A u \in Threads \ {t} : pc'[u] = pc[u] /\ draw'[u] = draw[u]
    BY DEF EndDraw, TypeOK
  <1>5. /\ shown' \in [Elements -> BOOLEAN]
        /\ shown'[e] = draw[t].wasVisible
        /\ \A d \in Elements \ {e} : shown'[d] = shown[d]
    BY <1>2 DEF EndDraw, TypeOK, Draw
  <1>6. \A u \in Threads \ {t} : pc[u] # "idle" => draw[u].element # e
    BY <1>1 DEF OwnerInv
  <1> HIDE DEF e
  <1>7. TypeOK'
    <2>1. NoDraw \in Draw
      BY DEF NoDraw, Draw
    <2>2. /\ draw' \in [Threads -> Draw]
          /\ pc' \in [Threads -> {"idle", "latch", "suppress", "drawing", "destroy"}]
      BY <2>1 DEF EndDraw, TypeOK
    <2>3. late' \subseteq Elements
      BY <1>1 DEF TypeOK
    <2> QED BY <1>1, <1>5, <2>2, <2>3 DEF TypeOK
  <1>8. StartInv' /\ FrameInv'
    BY <1>1 DEF StartInv, FrameInv
  <1>9. OwnerInv'
    BY <1>1, <1>3, <1>4 DEF OwnerInv
  <1>10. VisibleInv'
    <2>1. \A u \in Threads : pc'[u] \in Recording =>
            u # t /\ pc[u] \in Recording /\ draw[u].element \in Elements \ {e}
      BY <1>3, <1>4, <1>6 DEF OwnerInv, TypeOK, Recording
    <2>2. ASSUME NEW u \in Threads, pc'[u] \in Recording
          PROVE  draw'[u].wasVisible = kept'[draw'[u].element]
      BY <1>1, <1>4, <2>1, <2>2 DEF VisibleInv
    <2>3. ASSUME NEW u \in Threads, pc'[u] = "drawing", draw'[u].element \notin late'
          PROVE  shown'[draw'[u].element] = (kept'[draw'[u].element] /\ draw'[u].visible)
      <3>1. u # t /\ draw[u].element \in Elements \ {e}
        BY <2>1, <2>3 DEF Recording
      <3>2. draw[u].element \notin late
        BY <1>1, <1>4, <2>3, <3>1
      <3>3. shown[draw[u].element] = (kept[draw[u].element] /\ draw[u].visible)
        BY <1>4, <2>3, <3>1, <3>2 DEF VisibleInv
      <3> QED BY <1>1, <1>4, <1>5, <3>1, <3>3
    <2>4. ASSUME NEW d \in Elements, ~Recorded(d)' PROVE shown'[d] = kept'[d]
      <3>1. CASE d = e
        <4>1. draw[t].wasVisible = kept[e]
          BY <1>1 DEF VisibleInv, Recording, e
        <4> QED BY <1>1, <1>5, <3>1, <4>1
      <3>2. CASE d # e
        <4>1. ~Recorded(d)
          <5> SUFFICES ASSUME NEW u \in Threads, pc[u] \in Recording, draw[u].element = d
                       PROVE  FALSE
            BY DEF Recorded, Recording
          <5>1. u # t
            BY <3>2 DEF e
          <5>2. pc'[u] \in {"suppress", "drawing"} /\ draw'[u].element = d
            BY <1>4, <5>1 DEF Recording
          <5> QED BY <2>4, <5>2 DEF Recorded
        <4> QED BY <1>1, <1>5, <3>2, <4>1 DEF VisibleInv
      <3> QED BY <3>1, <3>2
    <2>5. ASSUME NEW d \in late' PROVE \E u \in Threads : DrawnBy(u, d)'
      <3>1. d \in late /\ d # e
        BY <1>1
      <3>2. PICK u \in Threads : DrawnBy(u, d)
        BY <3>1 DEF VisibleInv
      <3>3. u # t
        BY <3>1, <3>2 DEF DrawnBy, e
      <3>4. DrawnBy(u, d)'
        BY <1>4, <3>2, <3>3 DEF DrawnBy
      <3> QED BY <3>4
    <2> QED BY <2>2, <2>3, <2>4, <2>5 DEF VisibleInv
  <1>11. PlaceInv'
    BY <1>1, <1>3, <1>4 DEF PlaceInv, Drawing, Recording
  <1>12. LatchInv'
    BY <1>1, <1>3, <1>4 DEF LatchInv
  <1>13. BackInv'
    BY <1>1, <1>3, <1>4 DEF BackInv, Drawing, Recording
  <1> QED BY <1>7, <1>8, <1>9, <1>10, <1>11, <1>12, <1>13

\* The invariant is inductive.
LEMMA NextIInv == IInv /\ [Next]_vars => IInv'
  <1> SUFFICES ASSUME IInv, [Next]_vars PROVE IInv'
    OBVIOUS
  <1>1. CASE Start \/ Engine
    BY <1>1, StartStep, CreateStep, SetVisibleStep DEF Engine
  <1>2. CASE \E f \in HudFrame : SetFrame(f)
    BY <1>2, SetFrameStep
  <1>3. ASSUME NEW t \in Threads, Marker(t) PROVE IInv'
    BY <1>3, MarkerStep
  <1>4. ASSUME NEW t \in Threads, Controller(t) PROVE IInv'
    BY <1>4, UpdateStep, DestroyStep, FreeStep DEF Controller
  <1>5. ASSUME NEW t \in Threads, SpriteDraw(t) PROVE IInv'
    BY <1>5, PlaceStep, LatchStep, SuppressStep, EndDrawStep DEF SpriteDraw
  <1>6. CASE UNCHANGED vars
    <2>1. TypeOK' /\ StartInv' /\ OwnerInv' /\ FrameInv'
      BY <1>6 DEF IInv, vars, TypeOK, StartInv, OwnerInv, FrameInv
    <2>2. VisibleInv'
      <3>1. UNCHANGED <<shown, kept, late, pc, draw>>
        BY <1>6 DEF vars
      <3> QED BY <3>1, VisibleKept DEF IInv
    <2>3. PlaceInv' /\ LatchInv' /\ BackInv'
      BY <1>6 DEF IInv, vars, PlaceInv, LatchInv, BackInv, Drawing, Recording
    <2> QED BY <2>1, <2>2, <2>3 DEF IInv
  <1> QED BY <1>1, <1>2, <1>3, <1>4, <1>5, <1>6 DEF Next, Interface

\* Every reachable state satisfies the invariant.
THEOREM Invariance == Spec => []IInv
  <1> QED BY InitIInv, NextIInv, PTL DEF Spec

\* Every reachable state is well typed.
THEOREM TypeCorrect == Spec => []TypeOK
  <1>1. IInv => TypeOK
    BY DEF IInv
  <1> QED BY <1>1, Invariance, PTL

\* SpriteDraw never works on an element the engine has freed (CrosshairDestroy).
THEOREM CaptureIsLive == Spec => []CapturedIsLive
  <1>1. IInv => CapturedIsLive
    BY DEF IInv, OwnerInv, CapturedIsLive
  <1> QED BY <1>1, Invariance, PTL

\* Whenever no draw has its byte on record an element is as visible as the engine made
\* it the last time none had (the __finally).
THEOREM VisibilityRestored == Spec => []VisibilityIsTheEngines
  <1>1. IInv => VisibilityIsTheEngines
    BY DEF IInv, VisibleInv, VisibilityIsTheEngines
  <1> QED BY <1>1, Invariance, PTL

\* A compensated reticle is drawn with the pose its markers were (SpriteDraw).
THEOREM ReticleIsWhereItAims == Spec => []DrawnWhereItAims
  <1>1. IInv => DrawnWhereItAims
    <2> SUFFICES ASSUME IInv, NEW t \in Threads, pc[t] = "drawing", draw[t].compensate
                 PROVE  /\ drawFrame[t].active
                        /\ drawFrame[t].pose \in OffScreen /\ draw[t].element \notin late =>
                             ~shown[draw[t].element]
                        /\ drawFrame[t].pose \notin OffScreen /\ canvas[t]
                           /\ draw[t].sprite # None =>
                             offset[draw[t].sprite] = drawFrame[t].pose
      BY DEF DrawnWhereItAims
    <2>1. pc[t] \in Drawing
      BY DEF Drawing, Recording
    <2>2. draw[t].element \notin late /\ shown[draw[t].element] => draw[t].visible
      BY DEF IInv, VisibleInv
    <2> QED BY <2>1, <2>2 DEF IInv, PlaceInv
  <1> QED BY <1>1, Invariance, PTL

\* While one sprite only has been moved, the way back always runs (g_shiftedSprite).
THEOREM TheOneReticleComesBack == Spec => []OneReticleComesBack
  <1>1. IInv => OneReticleComesBack
    BY DEF IInv, BackInv, OneReticleComesBack, AtLayout, Drawing, Recording
  <1> QED BY <1>1, Invariance, PTL

--------------------------------------------------------------------------------
(* The interface hooks implement StockInterface. *)

DrawnAtAll(e) == \E t \in Threads : DrawnBy(t, e)

\* What the engine will find in a visibility byte is what it last put there.
LEMMA AfterIsKept == IInv => VisibleAfter = kept
  <1> SUFFICES ASSUME IInv PROVE VisibleAfter = kept
    OBVIOUS
  <1>1. kept \in [Elements -> BOOLEAN] /\ shown \in [Elements -> BOOLEAN]
    BY DEF IInv, TypeOK
  <1> DEFINE Records(t, e) == pc[t] \in {"suppress", "drawing"} /\ draw[t].element = e
  <1>2. ASSUME NEW e \in Elements PROVE VisibleAfter[e] = kept[e]
    <2>1. CASE Recorded(e)
      <3>1. VisibleAfter[e] = \E t \in Threads : Records(t, e) /\ draw[t].wasVisible
        BY <2>1 DEF VisibleAfter
      <3>2. \A t \in Threads : Records(t, e) => draw[t].wasVisible = kept[e]
        BY DEF IInv, VisibleInv, Recording
      <3>3. CASE kept[e]
        <4>1. \E t \in Threads : Records(t, e) /\ draw[t].wasVisible
          BY <2>1, <3>2, <3>3 DEF Recorded
        <4> QED BY <1>1, <3>1, <3>3, <4>1
      <3>4. CASE ~kept[e]
        <4>1. ~\E t \in Threads : Records(t, e) /\ draw[t].wasVisible
          BY <3>2, <3>4
        <4> QED BY <1>1, <3>1, <3>4, <4>1
      <3> QED BY <3>3, <3>4
    <2>2. CASE ~Recorded(e)
      <3>1. VisibleAfter[e] = shown[e]
        BY <2>2 DEF VisibleAfter
      <3>2. shown[e] = kept[e]
        BY <2>2 DEF IInv, VisibleInv
      <3> QED BY <3>1, <3>2
    <2> QED BY <2>1, <2>2
  <1>3. VisibleAfter = [e \in Elements |-> VisibleAfter[e]]
    BY DEF VisibleAfter
  <1> QED BY <1>1, <1>2, <1>3

Kept == VisibleAfter = kept

LEMMA AfterIsKeptNext == IInv' => VisibleAfter' = kept'
  <1>1. IInv => Kept
    BY AfterIsKept DEF Kept
  <1>2. IInv' => Kept'
    BY <1>1, PTL
  <1> QED BY <1>2 DEF Kept

\* A step that neither begins nor ends a draw, and leaves alone what is being drawn,
\* is not seen by the engine's draws.
LEMMA DrawnKept ==
  ASSUME \A t \in Threads, e \in Elements : DrawnBy(t, e)' <=> DrawnBy(t, e),
         \A e \in Elements : DrawnAtAll(e) => shown'[e] = shown[e] /\ offset'[e] = offset[e]
  PROVE  Drawn' = Drawn
  <1>1. ASSUME NEW e \in Elements PROVE Drawn'[e] = Drawn[e]
    <2>1. CASE DrawnAtAll(e)
      <3>1. \E t \in Threads : DrawnBy(t, e)'
        BY <2>1 DEF DrawnAtAll
      <3>2. Drawn'[e] = {[seen |-> shown'[e], place |-> offset'[e]]}
        BY <3>1 DEF Drawn
      <3>3. Drawn[e] = {[seen |-> shown[e], place |-> offset[e]]}
        BY <2>1 DEF Drawn, DrawnAtAll
      <3> QED BY <2>1, <3>2, <3>3
    <2>2. CASE ~DrawnAtAll(e)
      <3>1. ~\E t \in Threads : DrawnBy(t, e)'
        BY <2>2 DEF DrawnAtAll
      <3> QED BY <2>2, <3>1 DEF Drawn, DrawnAtAll
    <2> QED BY <2>1, <2>2
  <1> QED BY <1>1 DEF Drawn

\* Nothing is drawn of an element that is not there, or that nothing is at work on.
LEMMA NotDrawn ==
  ASSUME IInv, NEW e \in Elements, e \notin live \/ ~Busy(e)
  PROVE  ~DrawnAtAll(e) /\ Drawn[e] = {}
  <1>1. ~DrawnAtAll(e)
    BY DEF DrawnAtAll, DrawnBy, Busy, IInv, OwnerInv
  <1> QED BY <1>1 DEF Drawn, DrawnAtAll

LEMMA InitRefines == Init => Stock!Init
  <1> SUFFICES ASSUME Init PROVE Stock!Init
    OBVIOUS
  <1>1. \A e \in Elements : ~DrawnAtAll(e)
    BY DEF Init, DrawnAtAll, DrawnBy
  <1>2. Drawn = [e \in Elements |-> {}]
    BY <1>1 DEF Drawn, DrawnAtAll
  <1>3. VisibleAfter = [e \in Elements |-> TRUE]
    <2>1. VisibleAfter = kept
      BY AfterIsKept, InitIInv
    <2> QED BY <2>1 DEF Init
  <1> QED BY <1>2, <1>3 DEF Init, Stock!Init

\* Start, the published frame, the marker pass and the capture are not seen.
LEMMA UnseenRefines ==
  ASSUME IInv, IInv', UNCHANGED <<live, kept, offset, shown, pc, draw>>
  PROVE  UNCHANGED Stock!vars
  <1>1. Drawn' = Drawn
    <2>1. \A t \in Threads, e \in Elements : DrawnBy(t, e)' <=> DrawnBy(t, e)
      BY DEF DrawnBy
    <2> QED BY <2>1, DrawnKept
  <1>2. VisibleAfter' = VisibleAfter
    BY AfterIsKept, AfterIsKeptNext
  <1> QED BY <1>1, <1>2 DEF Stock!vars

LEMMA CreateRefines ==
  ASSUME IInv, IInv', NEW e \in Elements, CreateReticle(e) PROVE Stock!Next
  <1> USE DEF EngineOnly
  <1>1. ~DrawnAtAll(e)
    BY NotDrawn DEF CreateReticle
  <1>2. Drawn' = Drawn
    <2>1. \A t \in Threads, d \in Elements : DrawnBy(t, d)' <=> DrawnBy(t, d)
      BY DEF CreateReticle, DrawnBy
    <2>2. \A d \in Elements \ {e} : shown'[d] = shown[d] /\ offset'[d] = offset[d]
      BY DEF CreateReticle, IInv, TypeOK
    <2> QED BY <1>1, <2>1, <2>2, DrawnKept
  <1>3. VisibleAfter = kept /\ VisibleAfter' = kept'
    BY AfterIsKept, AfterIsKeptNext
  <1> QED BY <1>2, <1>3 DEF CreateReticle, Stock!Next, Stock!Create

\* A change of the engine's is of the visibility, of the picture, or of a byte that is
\* about to be written over.
LEMMA SetVisibleRefines ==
  ASSUME IInv, IInv', NEW e \in Elements, SetVisible(e)
  PROVE  Stock!Next \/ UNCHANGED Stock!vars
  <1> USE DEF EngineOnly
  <1>1. /\ e \in live /\ UNCHANGED <<live, offset, pc, draw>>
        /\ shown'[e] = ~shown[e] /\ \A d \in Elements \ {e} : shown'[d] = shown[d]
        /\ kept' = IF Recorded(e) THEN kept ELSE [kept EXCEPT ![e] = ~kept[e]]
    BY DEF SetVisible, placeVars, IInv, TypeOK
  <1>2. \A t \in Threads, d \in Elements : DrawnBy(t, d)' <=> DrawnBy(t, d)
    BY <1>1 DEF DrawnBy
  <1>3. VisibleAfter = kept /\ VisibleAfter' = kept'
    BY AfterIsKept, AfterIsKeptNext
  <1>4. CASE ~DrawnAtAll(e)
    <2>1. Drawn' = Drawn
      BY <1>1, <1>2, <1>4, DrawnKept
    <2>2. Drawn[e] = {}
      BY <1>4 DEF Drawn, DrawnAtAll
    <2>3. CASE Recorded(e)
      BY <1>1, <1>3, <2>1, <2>3 DEF Stock!vars
    <2>4. CASE ~Recorded(e)
      BY <1>1, <1>3, <2>1, <2>2, <2>4 DEF Stock!Next, Stock!Toggle
    <2> QED BY <2>3, <2>4
  <1>5. CASE DrawnAtAll(e)
    <2>1. Recorded(e)
      BY <1>5 DEF DrawnAtAll, DrawnBy, Recorded
    <2>2. VisibleAfter' = VisibleAfter
      BY <1>1, <1>3, <2>1
    <2> DEFINE before == [seen |-> shown[e], place |-> offset[e]]
    <2>3. Drawn[e] = {before}
      BY <1>5 DEF Drawn, DrawnAtAll
    <2>4. Drawn'[e] = {[seen |-> ~shown[e], place |-> offset[e]]}
      <3>1. \E t \in Threads : DrawnBy(t, e)'
        BY <1>2, <1>5 DEF DrawnAtAll
      <3>2. Drawn'[e] = {[seen |-> shown'[e], place |-> offset'[e]]}
        BY <3>1 DEF Drawn
      <3> QED BY <1>1, <3>2
    <2>5. Drawn'[e] = {Stock!Picture(~p.seen, p.place) : p \in Drawn[e]}
      <3>1. Stock!Picture(~before.seen, before.place) = [seen |-> ~shown[e], place |-> offset[e]]
        BY DEF Stock!Picture
      <3> HIDE DEF before
      <3> QED BY <2>3, <2>4, <3>1
    <2>6. ASSUME NEW d \in Elements \ {e} PROVE Drawn'[d] = Drawn[d]
      <3>1. (\E t \in Threads : DrawnBy(t, d)') <=> \E t \in Threads : DrawnBy(t, d)
        BY <1>2
      <3>2. shown'[d] = shown[d] /\ offset'[d] = offset[d]
        BY <1>1
      <3>3. CASE \E t \in Threads : DrawnBy(t, d)
        BY <3>1, <3>2, <3>3 DEF Drawn
      <3>4. CASE ~\E t \in Threads : DrawnBy(t, d)
        BY <3>1, <3>4 DEF Drawn
      <3> QED BY <3>3, <3>4
    <2>7. Drawn' = [Drawn EXCEPT ![e] = Drawn'[e]]
      <3>1. /\ Drawn = [d \in Elements |-> Drawn[d]]
            /\ Drawn' = [d \in Elements |-> Drawn'[d]]
        BY DEF Drawn
      <3> QED BY <2>6, <3>1
    <2>8. Drawn[e] # {}
      BY <2>3
    <2>9. Stock!ToggleWhileDrawn(e)
      <3>1. Drawn' = [Drawn EXCEPT ![e] = {Stock!Picture(~p.seen, p.place) : p \in Drawn[e]}]
        BY <2>5, <2>7
      <3> QED BY <1>1, <2>2, <2>8, <3>1 DEF Stock!ToggleWhileDrawn
    <2> QED BY <2>9 DEF Stock!Next
  <1> QED BY <1>4, <1>5

\* Capture and destruction, the placing of the captured element's sprite and what is
\* put on record touch nothing that is being drawn.
LEMMA IdleRefines ==
  ASSUME IInv, IInv', NEW t \in Threads, pc[t] # "drawing", pc'[t] # "drawing",
         UNCHANGED <<live, kept, shown>>,
         \A u \in Threads \ {t} : pc'[u] = pc[u] /\ draw'[u] = draw[u],
         \A e \in Elements : DrawnAtAll(e) => offset'[e] = offset[e]
  PROVE  UNCHANGED Stock!vars
  <1>1. Drawn' = Drawn
    <2>1. \A u \in Threads, e \in Elements : DrawnBy(u, e)' <=> DrawnBy(u, e)
      BY DEF DrawnBy
    <2> QED BY <2>1, DrawnKept
  <1>2. VisibleAfter' = VisibleAfter
    BY AfterIsKept, AfterIsKeptNext
  <1> QED BY <1>1, <1>2 DEF Stock!vars

LEMMA DestroyRefines ==
  ASSUME IInv, IInv', NEW t \in Threads, NEW e \in Elements, NEW parent,
         CrosshairDestroy(t, e, parent)
  PROVE  UNCHANGED Stock!vars
  <1>1. /\ pc[t] # "drawing" /\ pc'[t] # "drawing" /\ UNCHANGED <<live, kept, shown, offset>>
        /\ \A u \in Threads \ {t} : pc'[u] = pc[u] /\ draw'[u] = draw[u]
    BY DEF CrosshairDestroy, DetourOnly, placeVars, IInv, TypeOK
  <1> QED BY <1>1, IdleRefines

LEMMA PlaceRefines ==
  ASSUME IInv, IInv', NEW t \in Threads, NEW v \in Views \cup {None},
         NEW s \in {crosshair, None}, Place(t, v, s)
  PROVE  UNCHANGED Stock!vars
  <1>1. /\ pc[t] # "drawing" /\ pc'[t] # "drawing" /\ UNCHANGED <<live, kept, shown>>
        /\ \A u \in Threads \ {t} : pc'[u] = pc[u] /\ draw'[u] = draw[u]
        /\ crosshair # None /\ ~Busy(crosshair)
    BY DEF Place, DetourOnly, IInv, TypeOK
  <1>2. crosshair \in Elements
    BY <1>1 DEF IInv, TypeOK
  <1>3. ~DrawnAtAll(crosshair)
    BY <1>1, <1>2, NotDrawn
  <1>4. \A e \in Elements \ {crosshair} : offset'[e] = offset[e]
    BY <1>1, <1>2 DEF Place, IInv, TypeOK
  <1> QED BY <1>1, <1>3, <1>4, IdleRefines

\* The engine's destructor runs on an element nothing draws.
LEMMA FreeRefines ==
  ASSUME IInv, IInv', NEW t \in Threads, EngineDestroys(t) PROVE Stock!Next
  <1> DEFINE e == draw[t].element
  <1>1. /\ pc[t] = "destroy" /\ live' = live \ {e} /\ UNCHANGED <<kept, shown, offset>>
        /\ pc'[t] = "idle"
        /\ \A u \in Threads \ {t} : pc'[u] = pc[u] /\ draw'[u] = draw[u]
    BY DEF EngineDestroys, DetourOnly, placeVars, IInv, TypeOK
  <1>2. e \in live /\ e \in Elements
    BY <1>1 DEF IInv, OwnerInv, TypeOK
  <1>3. ~DrawnAtAll(e) /\ Drawn[e] = {}
    <2>1. ~DrawnAtAll(e)
      BY <1>1 DEF DrawnAtAll, DrawnBy, IInv, OwnerInv
    <2> QED BY <1>2, <2>1 DEF Drawn, DrawnAtAll
  <1>4. Drawn' = Drawn
    <2>1. \A u \in Threads, d \in Elements : DrawnBy(u, d)' <=> DrawnBy(u, d)
      BY <1>1 DEF DrawnBy
    <2> QED BY <1>1, <2>1, DrawnKept
  <1>5. VisibleAfter' = VisibleAfter
    BY <1>1, AfterIsKept, AfterIsKeptNext
  <1> HIDE DEF e
  <1>6. Stock!Free(e)
    BY <1>1, <1>2, <1>3, <1>4, <1>5 DEF Stock!Free
  <1> QED BY <1>2, <1>6 DEF Stock!Next

LEMMA LatchRefines ==
  ASSUME IInv, IInv', NEW t \in Threads, Latch(t) PROVE UNCHANGED Stock!vars
  <1>1. /\ pc[t] # "drawing" /\ pc'[t] # "drawing" /\ UNCHANGED <<live, kept, shown, offset>>
        /\ \A u \in Threads \ {t} : pc'[u] = pc[u] /\ draw'[u] = draw[u]
    BY DEF Latch, DetourOnly, placeVars, IInv, TypeOK
  <1> QED BY <1>1, IdleRefines

\* The engine's draw begins: it sees the byte as suppressed and the sprite as placed.
LEMMA SuppressRefines ==
  ASSUME IInv, IInv', NEW t \in Threads, Suppress(t) PROVE Stock!Next
  <1>1. /\ pc[t] = "suppress" /\ pc'[t] = "drawing" /\ UNCHANGED <<live, kept, offset, draw>>
        /\ \A u \in Threads \ {t} : pc'[u] = pc[u] /\ draw'[u] = draw[u]
    BY DEF Suppress, DetourOnly, placeVars, IInv, TypeOK
  <1>e. PICK e \in Elements : e = draw[t].element
    BY <1>1 DEF IInv, OwnerInv, TypeOK
  <1>2. e \in live /\ draw[t] \in Draw
    BY <1>1, <1>e DEF IInv, OwnerInv, TypeOK
  <1>3. draw'[t].element = e
    BY <1>e, <1>1
  <1>4. /\ shown'[e] = (kept[e] /\ draw[t].visible)
        /\ \A d \in Elements \ {e} : shown'[d] = shown[d]
    <2>1. draw[t].wasVisible = kept[e]
      BY <1>e, <1>1 DEF IInv, VisibleInv, Recording
    <2>2. shown' = [shown EXCEPT ![e] = draw[t].wasVisible /\ draw[t].visible]
      BY <1>e DEF Suppress
    <2> QED BY <1>2, <2>1, <2>2 DEF IInv, TypeOK, Draw
  <1>5. \A u \in Threads : ~DrawnBy(u, e)
    BY <1>1, <1>e DEF DrawnBy, IInv, OwnerInv
  <1>6. VisibleAfter = kept /\ VisibleAfter' = kept'
    BY AfterIsKept, AfterIsKeptNext
  <1>7. kept[e] \in BOOLEAN /\ offset[e] \in Poses \cup {None}
    BY <1>2 DEF IInv, TypeOK
  <1>8. \A u \in Threads, d \in Elements \ {e} : DrawnBy(u, d)' <=> DrawnBy(u, d)
    BY <1>e, <1>1, <1>3 DEF DrawnBy
  <1>9. DrawnBy(t, e)'
    BY <1>e, <1>1, <1>3 DEF DrawnBy
  <1>10. Drawn[e] = {} /\ Drawn'[e] = {[seen |-> shown'[e], place |-> offset[e]]}
    <2>1. Drawn[e] = {}
      BY <1>2, <1>5 DEF Drawn
    <2>2. \E u \in Threads : DrawnBy(u, e)'
      BY <1>9
    <2>3. Drawn'[e] = {[seen |-> shown'[e], place |-> offset'[e]]}
      BY <1>2, <2>2 DEF Drawn
    <2> QED BY <1>1, <2>1, <2>3
  <1>11. ASSUME NEW d \in Elements \ {e} PROVE Drawn'[d] = Drawn[d]
    <2>1. (\E u \in Threads : DrawnBy(u, d)') <=> \E u \in Threads : DrawnBy(u, d)
      BY <1>8
    <2>2. shown'[d] = shown[d] /\ offset'[d] = offset[d]
      BY <1>1, <1>4
    <2>3. CASE \E u \in Threads : DrawnBy(u, d)
      BY <2>1, <2>2, <2>3 DEF Drawn
    <2>4. CASE ~\E u \in Threads : DrawnBy(u, d)
      BY <2>1, <2>4 DEF Drawn
    <2> QED BY <2>3, <2>4
  <1>12. Drawn' = [Drawn EXCEPT ![e] = Drawn'[e]]
    <2>1. /\ Drawn = [d \in Elements |-> Drawn[d]]
          /\ Drawn' = [d \in Elements |-> Drawn'[d]]
      BY DEF Drawn
    <2> QED BY <1>11, <2>1
  <1>13. shown'[e] \in {kept[e], FALSE}
    <2>1. CASE draw[t].visible
      <3>1. shown'[e] = kept[e]
        BY <1>2, <1>4, <1>7, <2>1 DEF Draw
      <3> QED BY <1>7, <3>1
    <2>2. CASE ~draw[t].visible
      BY <1>4, <2>2
    <2> QED BY <2>1, <2>2
  <1>14. \E seen \in {kept[e], FALSE}, place \in Poses \cup {None} :
           Drawn'[e] = {Stock!Picture(seen, place)}
    <2>1. PICK seen \in {kept[e], FALSE} : seen = shown'[e]
      BY <1>13
    <2>2. PICK place \in Poses \cup {None} : place = offset[e]
      BY <1>7
    <2>3. Drawn'[e] = {Stock!Picture(seen, place)}
      BY <1>10, <2>1, <2>2 DEF Stock!Picture
    <2> QED BY <2>3
  <1>15. Stock!BeginDraw(e)
    <2>1. UNCHANGED <<live, VisibleAfter>>
      BY <1>1, <1>6
    <2>2. VisibleAfter[e] = kept[e]
      BY <1>6
    <2>3. \E seen \in {VisibleAfter[e], FALSE}, place \in Poses \cup {None} :
            Drawn'[e] = {Stock!Picture(seen, place)}
      BY <1>14, <2>2
    <2> QED BY <1>2, <1>10, <1>12, <2>1, <2>3 DEF Stock!BeginDraw
  <1> QED BY <1>2, <1>15 DEF Stock!Next

\* The engine's draw ends, and the byte is what it was before.
LEMMA EndDrawRefines ==
  ASSUME IInv, IInv', NEW t \in Threads, NEW unwinds, EndDraw(t, unwinds) PROVE Stock!Next
  <1>e. PICK e \in Elements : e = draw[t].element
    BY DEF EndDraw, IInv, OwnerInv, TypeOK
  <1>1. /\ pc[t] = "drawing" /\ pc'[t] = "idle" /\ UNCHANGED <<live, kept, offset>>
        /\ \A u \in Threads \ {t} : pc'[u] = pc[u] /\ draw'[u] = draw[u]
        /\ \A d \in Elements \ {e} : shown'[d] = shown[d]
    BY <1>e DEF EndDraw, DetourOnly, placeVars, IInv, TypeOK
  <1>2. e \in live
    BY <1>e, <1>1 DEF IInv, OwnerInv
  <1>3. DrawnBy(t, e) /\ \A u \in Threads : ~DrawnBy(u, e)'
    <2>1. \A u \in Threads \ {t} : pc[u] # "idle" => draw[u].element # e
      BY <1>e, <1>1 DEF IInv, OwnerInv
    <2> QED BY <1>e, <1>1, <2>1 DEF DrawnBy
  <1>4. \A u \in Threads, d \in Elements \ {e} : DrawnBy(u, d)' <=> DrawnBy(u, d)
    BY <1>e, <1>1 DEF DrawnBy
  <1>5. VisibleAfter' = VisibleAfter
    BY <1>1, AfterIsKept, AfterIsKeptNext
  <1>6. Drawn[e] # {} /\ Drawn'[e] = {}
    BY <1>2, <1>3 DEF Drawn
  <1>7. ASSUME NEW d \in Elements \ {e} PROVE Drawn'[d] = Drawn[d]
    <2>1. (\E u \in Threads : DrawnBy(u, d)') <=> \E u \in Threads : DrawnBy(u, d)
      BY <1>4
    <2>2. shown'[d] = shown[d] /\ offset'[d] = offset[d]
      BY <1>1
    <2>3. CASE \E u \in Threads : DrawnBy(u, d)
      BY <2>1, <2>2, <2>3 DEF Drawn
    <2>4. CASE ~\E u \in Threads : DrawnBy(u, d)
      BY <2>1, <2>4 DEF Drawn
    <2> QED BY <2>3, <2>4
  <1>8. Drawn' = [Drawn EXCEPT ![e] = {}]
    <2>1. /\ Drawn = [d \in Elements |-> Drawn[d]]
          /\ Drawn' = [d \in Elements |-> Drawn'[d]]
      BY DEF Drawn
    <2> QED BY <1>6, <1>7, <2>1
  <1>9. Stock!EndDraw(e)
    BY <1>1, <1>5, <1>6, <1>8 DEF Stock!EndDraw
  <1> QED BY <1>2, <1>9 DEF Stock!Next

LEMMA NextRefines ==
  ASSUME IInv, IInv', [Next]_vars PROVE Stock!Next \/ UNCHANGED Stock!vars
  <1>1. CASE Start \/ (\E f \in HudFrame : SetFrame(f)) \/ UNCHANGED vars
    <2>1. UNCHANGED <<live, kept, offset, shown, pc, draw>>
      BY <1>1 DEF Start, InstallDetour, RefuseDetour, EnableDetours, StartOnly, SetFrame,
                  engineVars, placeVars, vars
    <2> QED BY <2>1, UnseenRefines
  <1>2. CASE Engine
    BY <1>2, CreateRefines, SetVisibleRefines DEF Engine
  <1>3. ASSUME NEW t \in Threads, Marker(t) PROVE UNCHANGED Stock!vars
    <2>1. UNCHANGED <<live, kept, offset, shown, pc, draw>>
      BY <1>3 DEF Marker, MarkerView, DetourOnly, placeVars
    <2> QED BY <2>1, UnseenRefines
  <1>4. ASSUME NEW t \in Threads, Controller(t) PROVE Stock!Next \/ UNCHANGED Stock!vars
    <2>1. ASSUME NEW e \in Elements, NEW parent \in {e, None}, CrosshairUpdate(t, e, parent)
          PROVE  UNCHANGED Stock!vars
      <3>1. UNCHANGED <<live, kept, offset, shown, pc, draw>>
        BY <2>1 DEF CrosshairUpdate, DetourOnly, placeVars
      <3> QED BY <3>1, UnseenRefines
    <2> QED BY <1>4, <2>1, DestroyRefines, FreeRefines DEF Controller
  <1>5. ASSUME NEW t \in Threads, SpriteDraw(t) PROVE Stock!Next \/ UNCHANGED Stock!vars
    BY <1>5, PlaceRefines, LatchRefines, SuppressRefines, EndDrawRefines DEF SpriteDraw
  <1> QED BY <1>1, <1>2, <1>3, <1>4, <1>5 DEF Next, Interface

\* The interface hooks implement StockInterface: every draw is of an element that
\* exists, stands where it was placed, is shown or hidden by nobody else while it lasts,
\* and leaves the visibility it found (SpriteDraw, its suppressed byte and the
\* __finally that puts back what was recorded).
THEOREM ImplementsStockInterface == Spec => StockInterfaceSpec
  <1>1. Init => Stock!Init
    BY InitRefines
  <1>2. IInv /\ IInv' /\ [Next]_vars => [Stock!Next]_(Stock!vars)
    BY NextRefines
  <1> QED BY <1>1, <1>2, Invariance, PTL DEF Spec, Stock!Spec, StockInterfaceSpec

--------------------------------------------------------------------------------
(* The gate of the hooks' log lines, which any thread that draws may enter. *)

CONSTANTS m_intervalMs, kTickRange, kUptime, kClockBound
VARIABLES clock, m_lastMs, gatePc, now, previous, lines
Gate == INSTANCE TimedLogGate WITH pc <- gatePc

\* The clock does not come round to zero while the mod runs.
ClockAssumption ==
  /\ m_intervalMs \in Nat /\ kTickRange \in Nat /\ kUptime \in Nat /\ kClockBound \in Nat
  /\ kUptime <= kClockBound /\ kClockBound < kTickRange

\* Every reading is one the clock has shown, and m_lastMs is on the last line.
GateInv ==
  /\ clock \in 0 .. kClockBound /\ m_lastMs \in 0 .. kClockBound
  /\ now \in [Threads -> 0 .. kClockBound] /\ previous \in [Threads -> 0 .. kClockBound]
  /\ lines \in Seq(0 .. kClockBound)
  /\ lines # <<>> => m_lastMs = lines[Len(lines)]
  /\ Gate!LaterLinesAreApart

\* Unsigned subtraction of a time that is not later is subtraction.
LEMMA UnsignedDifference ==
  ASSUME NEW range \in Nat, NEW a \in Nat, NEW b \in Nat, b <= a, a < range
  PROVE  (a - b + range) % range = a - b
  <1> DEFINE x == a - b
  <1>1. x \in Nat /\ x < range
    OBVIOUS
  <1> HIDE DEF x
  <1>2. (x + range) % range = x
    BY <1>1
  <1> QED BY <1>2 DEF x

\* A line is only ever added behind the one whose time is m_lastMs.
LEMMA ExchangeGateInv ==
  ASSUME ClockAssumption, GateInv, NEW t \in Threads, Gate!Exchange(t)
  PROVE  GateInv'
  <1> USE DEF ClockAssumption, GateInv
  <1> DEFINE line == now[t]
  <1>1. line \in 0 .. kClockBound
    OBVIOUS
  <1>2. UNCHANGED <<clock, now, previous>>
    BY DEF Gate!Exchange
  <1>3. CASE UNCHANGED <<m_lastMs, lines>>
    BY <1>2, <1>3 DEF Gate!LaterLinesAreApart
  <1>4. CASE /\ Gate!Elapsed(t) >= m_intervalMs /\ m_lastMs = previous[t]
             /\ m_lastMs' = line /\ lines' = Append(lines, line)
    <2>1. line < m_lastMs \/ line >= m_lastMs + m_intervalMs
      <3>1. CASE line >= m_lastMs
        <4>1. Gate!Elapsed(t) = line - m_lastMs
          <5>1. kTickRange \in Nat /\ line \in Nat /\ m_lastMs \in Nat /\ line < kTickRange
            BY <1>1
          <5>2. (line - m_lastMs + kTickRange) % kTickRange = line - m_lastMs
            BY <3>1, <5>1, UnsignedDifference
          <5>3. Gate!Elapsed(t) = (line - m_lastMs + kTickRange) % kTickRange
            BY <1>4 DEF Gate!Elapsed
          <5> QED BY <5>2, <5>3
        <4> QED BY <1>1, <1>4, <4>1
      <3>2. CASE line < m_lastMs
        BY <3>2
      <3> QED BY <1>1, <3>1, <3>2
    <2> HIDE DEF line
    <2>2. /\ lines' \in Seq(0 .. kClockBound) /\ Len(lines') = Len(lines) + 1
          /\ DOMAIN lines = 1 .. Len(lines) /\ DOMAIN lines' = 1 .. Len(lines')
          /\ Len(lines) \in Nat
          /\ lines'[Len(lines) + 1] = line
          /\ \A i \in 1 .. Len(lines) : lines'[i] = lines[i]
      BY <1>1, <1>4
    <2>3. ASSUME NEW i \in DOMAIN lines', i + 1 \in DOMAIN lines'
          PROVE  lines'[i + 1] < lines'[i] \/ lines'[i + 1] >= lines'[i] + m_intervalMs
      <3>1. CASE i + 1 \in DOMAIN lines
        <4>1. i \in DOMAIN lines
          BY <2>2, <2>3, <3>1
        <4> QED BY <2>2, <3>1, <4>1 DEF Gate!LaterLinesAreApart
      <3>2. CASE i + 1 \notin DOMAIN lines
        <4>1. i = Len(lines) /\ i \in 1 .. Len(lines)
          BY <2>2, <2>3, <3>2
        <4>2. lines # <<>>
          BY <4>1
        <4>3. lines'[i] = m_lastMs /\ lines'[i + 1] = line
          BY <2>2, <4>1, <4>2
        <4> QED BY <2>1, <4>3
      <3> QED BY <3>1, <3>2
    <2>4. Gate!LaterLinesAreApart'
      BY <1>2, <2>3 DEF Gate!LaterLinesAreApart
    <2>5. m_lastMs' = lines'[Len(lines')] /\ m_lastMs' \in 0 .. kClockBound
      BY <1>1, <1>4, <2>2
    <2> QED BY <1>2, <2>2, <2>4, <2>5
  <1> QED BY <1>3, <1>4 DEF Gate!Exchange

LEMMA NextGateInv == ASSUME ClockAssumption, GateInv, [Gate!Next]_(Gate!vars) PROVE GateInv'
  <1> USE DEF ClockAssumption, GateInv
  <1>1. CASE Gate!Tick
    BY <1>1 DEF Gate!Tick, Gate!LaterLinesAreApart
  <1>2. ASSUME NEW t \in Threads, Gate!ReadClock(t) \/ Gate!LoadLast(t) PROVE GateInv'
    <2>1. UNCHANGED <<clock, m_lastMs, lines>>
      BY <1>2 DEF Gate!ReadClock, Gate!LoadLast
    <2>2. now' \in [Threads -> 0 .. kClockBound] /\ previous' \in [Threads -> 0 .. kClockBound]
      BY <1>2 DEF Gate!ReadClock, Gate!LoadLast
    <2> QED BY <2>1, <2>2 DEF Gate!LaterLinesAreApart
  <1>3. CASE UNCHANGED Gate!vars
    BY <1>3 DEF Gate!vars, Gate!LaterLinesAreApart
  <1> QED BY <1>1, <1>2, <1>3, ExchangeGateInv DEF Gate!Next

\* A line of the interface hooks is an interval later than the one before it, or of a
\* thread that read the clock before that one's thread did: OncePerInterval fails in no
\* other way, with any number of threads (ShouldLog's compare-exchange).
THEOREM OnlyHeldThreadsCrowdTheLog ==
  ASSUME ClockAssumption PROVE Gate!Spec => []Gate!LaterLinesAreApart
  <1>1. Gate!Init => GateInv
    BY ClockAssumption DEF ClockAssumption, Gate!Init, GateInv, Gate!LaterLinesAreApart
  <1>2. GateInv /\ [Gate!Next]_(Gate!vars) => GateInv'
    BY ClockAssumption, NextGateInv
  <1>3. GateInv => Gate!LaterLinesAreApart
    BY DEF GateInv
  <1> QED BY <1>1, <1>2, <1>3, PTL DEF Gate!Spec
================================================================================
