--------------------------- MODULE CameraHookProofs ----------------------------
(***************************************************************************)
(* Proofs about CameraHook, for every set of worlds, cameras and poses.    *)
(*                                                                         *)
(* Neither NothingCompounds nor CleanIsTheGames is inductive: that the     *)
(* snapshot of the next call is clean follows from what Restore put back,  *)
(* and that from what the write left in m_wrote and in the view together.  *)
(* FrameInv is that chain; BootInv says what an armed detour can rely on;  *)
(* InterfaceInv what has been published by the time the frame is drawn.    *)
(***************************************************************************)
EXTENDS CameraHook, TLAPS

BootInv ==
  /\ armed => gameState /\ boot \in {"armed", "ready", "failed"}
  /\ boot = "state" => gameState
  /\ pc \in InsideRender => armed /\ world \in Worlds

\* v is the clean view c turned by one usable pose of that rotation and lean.
TurnedOnce(v, c, r, l) ==
  /\ \E y \in BOOLEAN : v = Tracked(c, [rotation |-> r, lean |-> l, worldYaw |-> y])
  /\ Usable(v)

FrameInv ==
  /\ wrote => pc \in {"publish", "draw", "restore"}
  /\ pc \in {"gate", "build", "publish", "draw"} \/ wrote =>
       clean = Filled(view[world].camera)
  /\ \A w \in Worlds : ~(wrote /\ w = world) => view[w].poses = <<>>
  /\ wrote => TurnedOnce(view[world], clean, rotation, lean)

GateInv ==
  /\ offAllFrame => ~enabled
  /\ wrote \/ pc = "build" => ~offAllFrame

InterfaceInv ==
  pc = "draw" /\ compensate =>
    /\ hud.active = wrote
    /\ hud.active => hud.pose.rotation = rotation /\ hud.pose.lean = lean

IInv == TypeOK /\ BootInv /\ FrameInv /\ GateInv /\ InterfaceInv

\* A view the game filled carries no pose.
LEMMA FilledFacts ==
  ASSUME NEW c \in Cameras
  PROVE  Filled(c) \in View /\ Filled(c).camera = c /\ Filled(c).poses = <<>>
  BY DEF Filled, View

\* Composing one pose onto a clean view (BuildTrackedView on PreRender's snapshot)
\* gives a view of the same camera that carries exactly that pose.
LEMMA TrackedFacts ==
  ASSUME NEW c \in Cameras, NEW p \in Pose
  PROVE  /\ Tracked(Filled(c), p) \in View
         /\ Tracked(Filled(c), p).camera = c
         /\ Tracked(Filled(c), p).poses = <<p>>
         /\ <<p>> # <<>> /\ Len(<<p>>) = 1 /\ <<p>>[1] = p
  <1>1. <<p>> \in Seq(Pose) /\ <<p>> # <<>> /\ Len(<<p>>) = 1 /\ <<p>>[1] = p
    OBVIOUS
  <1>2. Append(<<>>, p) = <<p>>
    OBVIOUS
  <1> QED BY <1>1, <1>2 DEF Tracked, Filled, View

\* Every component keeps its type.
LEMMA InitTypeOK == Init => TypeOK
  <1> SUFFICES ASSUME Init PROVE TypeOK
    OBVIOUS
  <1>1. view \in [Worlds -> View]
    BY FilledFacts DEF Init
  <1>2. clean \in View
    BY FilledFacts DEF Init
  <1>3. hud \in [active : BOOLEAN, pose : Pose]
    BY DEF Init, NoPose, Pose
  <1> QED BY <1>1, <1>2, <1>3 DEF Init, TypeOK, RefusalKinds

\* Composing a pose onto any view gives a view.
LEMMA TrackedType ==
  ASSUME NEW v \in View, NEW p \in Pose
  PROVE  Tracked(v, p) \in View
  <1>1. Append(v.poses, p) \in Seq(Pose)
    BY DEF View
  <1> QED BY <1>1 DEF Tracked, View

\* FrameInv reads seven variables and nothing else.
LEMMA FrameKept ==
  ASSUME FrameInv, UNCHANGED <<pc, world, view, clean, wrote, rotation, lean>>
  PROVE  FrameInv'
  <1>1. pc' = pc /\ world' = world /\ view' = view /\ clean' = clean /\ wrote' = wrote
        /\ rotation' = rotation /\ lean' = lean
    OBVIOUS
  <1> QED BY <1>1 DEF FrameInv

\* The mod as LoadSettings leaves it satisfies the invariant.
LEMMA InitIInv == Init => IInv
  <1> SUFFICES ASSUME Init PROVE IInv
    OBVIOUS
  <1>1. TypeOK
    BY InitTypeOK
  <1>2. BootInv
    BY DEF Init, BootInv, InsideRender, PreRenderSteps
  <1>3. FrameInv
    BY FilledFacts DEF Init, FrameInv
  <1>4. GateInv /\ InterfaceInv
    BY DEF Init, GateInv, InterfaceInv
  <1> QED BY <1>1, <1>2, <1>3, <1>4 DEF IInv

\* The bootstrap thread writes nothing a frame that is past Enter reads: every
\* step of it before Arm precedes the first such frame.
LEMMA BootstrapStep == IInv /\ Bootstrap => IInv'
  <1> SUFFICES ASSUME IInv, Bootstrap PROVE IInv'
    OBVIOUS
  <1> USE DEF IInv, Bootstrap, EnableDetour, RefuseInstall, StartInterface, BuildGameState,
          BootstrapThrows, Arm, StartHotkeys, BootOnly, flagVars, hookVars, poseVars
  <1>1. TypeOK'
    BY DEF TypeOK
  <1>2. BootInv'
    BY DEF BootInv
  <1>3. FrameInv'
    BY FrameKept
  <1>4. GateInv'
    BY DEF GateInv
  <1>5. InterfaceInv'
    BY DEF InterfaceInv, BootInv, InsideRender
  <1> QED BY <1>1, <1>2, <1>3, <1>4, <1>5

\* Nor does the hotkey thread: the frame keeps what it read of the two flags.
LEMMA HotkeyStep == IInv /\ Hotkey => IInv'
  <1> SUFFICES ASSUME IInv, Hotkey PROVE IInv'
    OBVIOUS
  <1> USE DEF IInv, Hotkey, ToggleEnabled, ToggleYawMode, FlagsOnly, bootVars, hookVars, poseVars
  <1>1. TypeOK'
    BY DEF TypeOK
  <1>2. BootInv'
    BY DEF BootInv
  <1>3. FrameInv'
    BY FrameKept
  <1>4. GateInv'
    BY DEF GateInv
  <1>5. InterfaceInv'
    BY DEF InterfaceInv
  <1> QED BY <1>1, <1>2, <1>3, <1>4, <1>5

\* The engine refills only a view no call is holding.
LEMMA RefillStep == IInv /\ Engine => IInv'
  <1> SUFFICES ASSUME IInv, NEW w \in Worlds, NEW c \in Cameras, Refill(w, c) PROVE IInv'
    BY DEF Engine
  <1> USE DEF IInv, Refill, bootVars, flagVars, hookVars, poseVars
  <1>1. TypeOK'
    BY FilledFacts DEF TypeOK
  <1>2. BootInv'
    BY DEF BootInv
  <1>3. FrameInv'
    <2>1. wrote => view'[world] = view[world]
      BY DEF FrameInv, BootInv, InsideRender, PreRenderSteps, TypeOK
    <2>2. pc \in {"gate", "build", "publish", "draw"} => view'[world] = view[world]
      BY DEF BootInv, InsideRender, PreRenderSteps, TypeOK
    <2>3. \A u \in Worlds : view'[u] = IF u = w THEN Filled(c) ELSE view[u]
      BY DEF TypeOK
    <2> QED BY <2>1, <2>2, <2>3, FilledFacts DEF FrameInv
  <1>4. GateInv'
    BY DEF GateInv
  <1>5. InterfaceInv'
    BY DEF InterfaceInv
  <1> QED BY <1>1, <1>2, <1>3, <1>4, <1>5

\* Entering a call changes the frame's own state and none of the views.
LEMMA EnterStep == ASSUME IInv, NEW w \in Worlds \cup {None}, Enter(w) PROVE IInv'
  <1> USE DEF IInv, Enter, bootVars, flagVars, hookVars, poseVars
  <1>1. ~wrote
    BY DEF FrameInv
  <1>2. TypeOK'
    BY DEF TypeOK, InsideRender, PreRenderSteps
  <1>3. BootInv'
    BY NoneAssumption DEF BootInv, TypeOK, InsideRender, PreRenderSteps
  <1>4. FrameInv'
    <2>1. \A u \in Worlds : view[u].poses = <<>>
      BY <1>1 DEF FrameInv
    <2>2. ~wrote' /\ view' = view /\ pc' \notin {"gate", "build", "publish", "draw"}
      BY <1>1
    <2> QED BY <2>1, <2>2 DEF FrameInv
  <1>5. GateInv' /\ InterfaceInv'
    BY <1>1 DEF GateInv, InterfaceInv, TypeOK
  <1> QED BY <1>2, <1>3, <1>4, <1>5

\* The snapshot is taken of a view no pose is left on.
LEMMA SnapshotStep == IInv /\ Snapshot => IInv'
  <1> SUFFICES ASSUME IInv, Snapshot PROVE IInv'
    OBVIOUS
  <1> USE DEF IInv, Snapshot, bootVars, flagVars, hookVars, poseVars
  <1>1. world \in Worlds /\ ~wrote
    BY DEF BootInv, FrameInv, InsideRender, PreRenderSteps
  <1>2. TypeOK'
    BY <1>1 DEF TypeOK, InsideRender, PreRenderSteps
  <1>3. BootInv'
    BY DEF BootInv, InsideRender, PreRenderSteps
  <1>4. FrameInv'
    <2>1. view[world] = Filled(view[world].camera)
      <3>1. view[world].poses = <<>> /\ view[world] \in View
        BY <1>1 DEF FrameInv, TypeOK
      <3> QED BY <3>1 DEF View, Filled
    <2>2. clean' = Filled(view'[world'].camera) /\ ~wrote'
      BY <2>1
    <2>3. \A u \in Worlds : view'[u].poses = <<>>
      BY <1>1 DEF FrameInv
    <2> QED BY <2>2, <2>3 DEF FrameInv
  <1>5. GateInv' /\ InterfaceInv'
    BY <1>1 DEF GateInv, InterfaceInv
  <1> QED BY <1>2, <1>3, <1>4, <1>5

\* Either way the gate writes only the pose triples, before any view is written.
LEMMA GateStep ==
  ASSUME IInv, NEW g \in BOOLEAN, GateCloses(g) \/ GateOpens(g) PROVE IInv'
  <1> USE DEF IInv, GateCloses, GateOpens, ReportRefusal, bootVars, flagVars, hookVars, poseVars
  <1>1. ~wrote /\ pc = "gate"
    BY DEF FrameInv
  <1>2. TypeOK'
    <2>1. active' \in BOOLEAN /\ rotation' \in Rotations \cup {None} /\ lean' \in Leans \cup {None}
      OBVIOUS
    <2>2. refused' \subseteq RefusalKinds /\ pc' \in {"build", "publish"}
      BY DEF TypeOK, RefusalKinds
    <2> QED BY <2>1, <2>2 DEF TypeOK, InsideRender, PreRenderSteps
  <1>3. BootInv'
    BY DEF BootInv, InsideRender, PreRenderSteps
  <1>4. FrameInv'
    <2>1. /\ clean' = Filled(view'[world'].camera) /\ ~wrote'
          /\ pc' \in {"build", "publish"} /\ view' = view /\ world' = world
      BY <1>1 DEF FrameInv
    <2>2. \A u \in Worlds : view'[u].poses = <<>>
      BY <1>1, <2>1 DEF FrameInv
    <2> QED BY <2>1, <2>2 DEF FrameInv
  <1>5. GateInv'
    BY <1>1 DEF GateInv, EvaluateGate
  <1>6. InterfaceInv'
    BY <1>1 DEF InterfaceInv
  <1> QED BY <1>2, <1>3, <1>4, <1>5, <1>6

\* The write and m_wrote change together.
LEMMA BuildStep == IInv /\ Build => IInv'
  <1> SUFFICES ASSUME IInv, Build PROVE IInv'
    OBVIOUS
  <1> DEFINE pose == [rotation |-> rotation, lean |-> lean, worldYaw |-> worldYaw]
             tracked == Tracked(clean, pose)
  <1> USE DEF IInv
  <1>1. /\ pc = "build" /\ pc' = "publish" /\ world \in Worlds /\ ~wrote
        /\ UNCHANGED <<bootVars, flagVars, world, clean, poseVars, hud, offAllFrame>>
    BY DEF Build, ReportRefusal, BootInv, FrameInv, InsideRender, PreRenderSteps
  <1>2. \/ Usable(tracked) /\ view' = [view EXCEPT ![world] = tracked] /\ wrote' = TRUE
           /\ refused' = refused
        \/ refused' = refused \cup {"TrackedView"} /\ view' = view /\ wrote' = wrote
    BY DEF Build, ReportRefusal
  <1>3. pose \in Pose /\ tracked \in View
    BY TrackedType DEF TypeOK, Pose
  <1>4. clean = Filled(view[world].camera) /\ view[world].camera \in Cameras
    BY <1>1 DEF FrameInv, TypeOK, View
  <1>5. tracked.camera = view[world].camera
    BY <1>3, <1>4, TrackedFacts
  <1> HIDE DEF pose, tracked
  <1>6. TypeOK'
    <2>1. view' \in [Worlds -> View]
      BY <1>1, <1>2, <1>3 DEF TypeOK
    <2>2. wrote' \in BOOLEAN /\ refused' \subseteq RefusalKinds
      BY <1>1, <1>2 DEF TypeOK, RefusalKinds
    <2> QED BY <1>1, <2>1, <2>2 DEF TypeOK, InsideRender, PreRenderSteps,
                                    bootVars, flagVars, poseVars
  <1>7. BootInv'
    BY <1>1 DEF BootInv, InsideRender, PreRenderSteps, bootVars
  <1>8. FrameInv'
    <2>1. clean' = Filled(view'[world'].camera)
      BY <1>1, <1>2, <1>4, <1>5 DEF TypeOK
    <2>2. \A u \in Worlds : ~(wrote' /\ u = world') => view'[u].poses = <<>>
      BY <1>1, <1>2 DEF FrameInv, TypeOK
    <2>3. wrote' => TurnedOnce(view'[world'], clean', rotation', lean')
      <3> SUFFICES ASSUME wrote' PROVE TurnedOnce(view'[world'], clean', rotation', lean')
        OBVIOUS
      <3>1. Usable(tracked) /\ view'[world'] = tracked /\ clean' = clean
            /\ rotation' = rotation /\ lean' = lean
        BY <1>1, <1>2 DEF TypeOK, poseVars
      <3>2. \E y \in BOOLEAN :
              tracked = Tracked(clean, [rotation |-> rotation, lean |-> lean, worldYaw |-> y])
        BY DEF tracked, pose, TypeOK
      <3>3. TurnedOnce(tracked, clean, rotation, lean)
        BY <3>1, <3>2 DEF TurnedOnce
      <3> QED BY <3>1, <3>3
    <2> QED BY <1>1, <2>1, <2>2, <2>3 DEF FrameInv
  <1>9. GateInv' /\ InterfaceInv'
    BY <1>1 DEF GateInv, InterfaceInv, flagVars
  <1> QED BY <1>6, <1>7, <1>8, <1>9

\* The interface frame is published before the frame is drawn.
LEMMA PublishStep == IInv /\ Publish => IInv'
  <1> SUFFICES ASSUME IInv, Publish PROVE IInv'
    OBVIOUS
  <1> USE DEF IInv, Publish, bootVars, flagVars, hookVars, poseVars
  <1>1. hud' \in [active : BOOLEAN, pose : Pose]
    BY DEF TypeOK, Pose, NoPose
  <1>2. TypeOK'
    BY <1>1 DEF TypeOK, InsideRender, PreRenderSteps
  <1>3. BootInv'
    BY DEF BootInv, InsideRender, PreRenderSteps
  <1>4. FrameInv'
    <2>1. pc = "publish" /\ pc' = "draw" /\ world' = world /\ view' = view /\ clean' = clean
          /\ wrote' = wrote /\ rotation' = rotation /\ lean' = lean
      OBVIOUS
    <2> QED BY <2>1 DEF FrameInv
  <1>5. GateInv'
    BY DEF GateInv
  <1>6. InterfaceInv'
    BY DEF InterfaceInv, TypeOK
  <1> QED BY <1>2, <1>3, <1>4, <1>5, <1>6

\* Leaving the engine's Render, or unwinding out of PreRender, changes no view.
LEMMA LeaveStep == IInv /\ (FinishDraw \/ Unwind) => IInv'
  <1> SUFFICES ASSUME IInv, FinishDraw \/ Unwind PROVE IInv'
    OBVIOUS
  <1> USE DEF IInv, FinishDraw, Unwind, bootVars, flagVars, hookVars, poseVars
  <1>1. TypeOK'
    BY DEF TypeOK, InsideRender, PreRenderSteps
  <1>2. BootInv'
    BY DEF BootInv, InsideRender, PreRenderSteps
  <1>3. FrameInv'
    <2>1. /\ pc' = "restore" \/ (pc = "stock" /\ pc' = "idle")
          /\ world' = world /\ view' = view /\ clean' = clean
          /\ wrote' = wrote /\ rotation' = rotation /\ lean' = lean
      OBVIOUS
    <2>2. wrote => pc' = "restore"
      BY <2>1 DEF FrameInv
    <2> QED BY <2>1, <2>2 DEF FrameInv
  <1>4. GateInv' /\ InterfaceInv'
    BY DEF GateInv, InterfaceInv
  <1> QED BY <1>1, <1>2, <1>3, <1>4

\* PostRender puts back a view no pose was ever composed onto.
LEMMA RestoreStep == IInv /\ Restore => IInv'
  <1> SUFFICES ASSUME IInv, Restore PROVE IInv'
    OBVIOUS
  <1> USE DEF IInv, Restore, bootVars, flagVars, poseVars
  <1>1. world \in Worlds
    BY DEF BootInv, InsideRender
  <1>2. TypeOK'
    <2>1. view' \in [Worlds -> View]
      BY <1>1 DEF TypeOK
    <2>2. pc' = "idle" /\ wrote' = FALSE
          /\ UNCHANGED <<boot, gameState, compensate, armed, enabled, worldYaw, world, clean,
                         active, rotation, lean, hud, refused, offAllFrame>>
      OBVIOUS
    <2>3. pc' \in InsideRender \cup {"idle", "stock"} /\ wrote' \in BOOLEAN
      BY <2>2
    <2> HIDE DEF Restore
    <2> QED BY <2>1, <2>2, <2>3 DEF TypeOK
  <1>3. BootInv'
    BY DEF BootInv, InsideRender, PreRenderSteps
  <1>4. FrameInv'
    <2>1. wrote => clean.poses = <<>>
      BY <1>1, FilledFacts DEF FrameInv, TypeOK, View
    <2>2. \A u \in Worlds : view'[u].poses = <<>>
      BY <1>1, <2>1 DEF FrameInv, TypeOK
    <2>3. ~wrote' /\ pc' = "idle"
      OBVIOUS
    <2> QED BY <2>2, <2>3 DEF FrameInv
  <1>5. GateInv' /\ InterfaceInv'
    BY DEF GateInv, InterfaceInv
  <1> QED BY <1>2, <1>3, <1>4, <1>5

\* A step that changes nothing keeps it.
LEMMA StutterStep == IInv /\ UNCHANGED vars => IInv'
  <1> SUFFICES ASSUME IInv, UNCHANGED vars PROVE IInv'
    OBVIOUS
  <1> USE DEF IInv, vars
  <1>1. TypeOK' /\ BootInv'
    BY DEF TypeOK, BootInv
  <1>2. FrameInv'
    BY FrameKept
  <1>3. GateInv' /\ InterfaceInv'
    BY DEF GateInv, InterfaceInv
  <1> QED BY <1>1, <1>2, <1>3

\* The invariant is inductive: one lemma above for each thread's steps.
LEMMA NextIInv == IInv /\ [Next]_vars => IInv'
  <1> SUFFICES ASSUME IInv, [Next]_vars PROVE IInv'
    OBVIOUS
  <1>1. CASE Bootstrap \/ Hotkey \/ Engine
    BY <1>1, BootstrapStep, HotkeyStep, RefillStep
  <1>2. CASE \E w \in Worlds \cup {None} : Enter(w)
    BY <1>2, EnterStep
  <1>3. CASE \E g \in BOOLEAN : GateCloses(g) \/ GateOpens(g)
    BY <1>3, GateStep
  <1>4. CASE Snapshot \/ Build \/ Publish \/ FinishDraw \/ Unwind \/ Restore
    BY <1>4, SnapshotStep, BuildStep, PublishStep, LeaveStep, RestoreStep
  <1>5. CASE UNCHANGED vars
    BY <1>5, StutterStep
  <1> QED BY <1>1, <1>2, <1>3, <1>4, <1>5 DEF Next, Render, CallStep

\* The inductive invariant holds of every behaviour.
THEOREM Invariance == Spec => []IInv
  <1>1. Init => IInv
    BY InitIInv
  <1>2. IInv /\ [Next]_vars => IInv'
    BY NextIInv
  <1> QED BY <1>1, <1>2, PTL DEF Spec

--------------------------------------------------------------------------------
(* What the inductive invariant says to a reader. *)

\* A view that was written carries exactly one pose, of the published values.
LEMMA WrittenView ==
  ASSUME IInv, wrote
  PROVE  /\ view[world].poses # <<>> /\ Len(view[world].poses) = 1
         /\ view[world].poses[1].rotation = rotation
         /\ view[world].poses[1].lean = lean
  <1>1. PICK y \in BOOLEAN :
          view[world] = Tracked(clean, [rotation |-> rotation, lean |-> lean, worldYaw |-> y])
    BY DEF IInv, FrameInv, TurnedOnce
  <1>2. [rotation |-> rotation, lean |-> lean, worldYaw |-> y] \in Pose
    BY DEF IInv, TypeOK, Pose
  <1>3. clean = Filled(view[world].camera) /\ view[world].camera \in Cameras
    BY DEF IInv, FrameInv, TypeOK, BootInv, InsideRender, View
  <1> DEFINE p == [rotation |-> rotation, lean |-> lean, worldYaw |-> y]
  <1>4. view[world].poses = <<p>> /\ <<p>> # <<>> /\ Len(<<p>>) = 1 /\ <<p>>[1] = p
    BY <1>1, <1>2, <1>3, TrackedFacts
  <1> QED BY <1>4

\* Every reachable state is well typed.
THEOREM TypeCorrect == Spec => []TypeOK
  <1>1. IInv => TypeOK
    BY DEF IInv
  <1> QED BY <1>1, Invariance, PTL

\* No behaviour, whatever unwinds, leaves a tracked view outside the call that
\* wrote it or composes a second pose onto one (Detour's __finally).
THEOREM NeverCompounds == Spec => []NothingCompounds
  <1>1. IInv => NothingCompounds
    <2> SUFFICES ASSUME IInv, NEW w \in Worlds, view[w].poses # <<>>
                 PROVE  /\ pc \in {"publish", "draw", "restore"} /\ w = world /\ wrote
                        /\ Len(view[w].poses) = 1
      BY DEF NothingCompounds
    <2>1. wrote /\ w = world
      BY DEF IInv, FrameInv
    <2> QED BY <2>1, WrittenView DEF IInv, FrameInv
  <1> QED BY <1>1, Invariance, PTL

\* What PostRender would write back is always the view the game filled.
THEOREM SnapshotIsTheGames == Spec => []CleanIsTheGames
  <1>1. IInv => CleanIsTheGames
    BY DEF IInv, FrameInv, CleanIsTheGames
  <1> QED BY <1>1, Invariance, PTL

\* A call begun with tracking off, and not switched on since, draws the game's view.
THEOREM SwitchedOffIsStock == Spec => []SwitchedOffDrawsStock
  <1>1. IInv => SwitchedOffDrawsStock
    BY DEF IInv, FrameInv, GateInv, BootInv, InsideRender, SwitchedOffDrawsStock
  <1> QED BY <1>1, Invariance, PTL

\* The renderer never gets an unusable view the game did not hand it.
THEOREM NothingMadeUnusable == Spec => []NeverMakesUnusable
  <1>1. IInv => NeverMakesUnusable
    <2> SUFFICES ASSUME IInv, pc = "draw" PROVE view[world] = clean \/ Usable(view[world])
      BY DEF NeverMakesUnusable
    <2>1. CASE wrote
      BY <2>1 DEF IInv, FrameInv, TurnedOnce
    <2>2. CASE ~wrote
      <3>1. world \in Worlds /\ view[world].poses = <<>> /\ view[world] \in View
        BY <2>2 DEF IInv, FrameInv, BootInv, InsideRender, TypeOK
      <3>2. view[world] = Filled(view[world].camera)
        BY <3>1 DEF View, Filled
      <3> QED BY <3>2 DEF IInv, FrameInv
    <2> QED BY <2>1, <2>2
  <1> QED BY <1>1, Invariance, PTL

\* The interface frame in force while a frame is drawn is that frame's own.
THEOREM InterfaceAgrees == Spec => []InterfaceFollowsCamera
  <1>1. IInv => InterfaceFollowsCamera
    <2> SUFFICES ASSUME IInv, pc = "draw", compensate
                 PROVE  /\ hud.active = (view[world].poses # <<>>)
                        /\ hud.active => /\ hud.pose.rotation = view[world].poses[1].rotation
                                         /\ hud.pose.lean = view[world].poses[1].lean
      BY DEF InterfaceFollowsCamera
    <2>1. hud.active = wrote /\ (hud.active => hud.pose.rotation = rotation /\ hud.pose.lean = lean)
      BY DEF IInv, InterfaceInv
    <2>2. CASE wrote
      BY <2>1, <2>2, WrittenView DEF IInv, TypeOK
    <2>3. CASE ~wrote
      BY <2>1, <2>3 DEF IInv, FrameInv, BootInv, InsideRender, TypeOK
    <2> QED BY <2>2, <2>3
  <1> QED BY <1>1, Invariance, PTL

\* An armed detour always has a game state and a live hook object behind it.
THEOREM StateBeforeFrames == Spec => []NoFrameBeforeItsState
  <1>1. IInv => NoFrameBeforeItsState
    BY DEF IInv, BootInv, NoFrameBeforeItsState
  <1> QED BY <1>1, Invariance, PTL

\* What the gate and the guards have settled by the time they are past.
RefusalInv ==
  /\ pc = "build" => Usable(clean)
  /\ pc \in {"publish", "draw"} /\ active /\ ~wrote =>
       \/ ~Usable(clean) /\ "CleanView" \in refused
       \/ Usable(clean) /\ "TrackedView" \in refused

\* The refusal invariant is inductive: only the two guards of PreRender set it up.
LEMMA NextRefusalInv == TypeOK /\ RefusalInv /\ [Next]_vars => RefusalInv'
  <1> SUFFICES ASSUME TypeOK, RefusalInv, [Next]_vars PROVE RefusalInv'
    OBVIOUS
  <1> USE DEF RefusalInv
  <1>1. ASSUME UNCHANGED <<clean, wrote, active, refused>>,
               pc' = pc \/ (pc = "publish" /\ pc' = "draw") \/ pc' \in {"snapshot", "stock", "restore", "idle"}
        PROVE  RefusalInv'
    BY <1>1
  <1>2. CASE Bootstrap \/ Hotkey \/ Engine \/ UNCHANGED vars
    BY <1>1, <1>2 DEF Bootstrap, EnableDetour, RefuseInstall, StartInterface, BuildGameState,
         BootstrapThrows, Arm, StartHotkeys, BootOnly, Hotkey, ToggleEnabled, ToggleYawMode,
         FlagsOnly, Engine, Refill, hookVars, poseVars, vars
  <1>3. CASE (\E w \in Worlds \cup {None} : Enter(w)) \/ Publish \/ FinishDraw \/ Unwind
    BY <1>1, <1>3 DEF Enter, Publish, FinishDraw, Unwind, hookVars, poseVars
  <1>4. CASE Snapshot \/ Restore
    BY <1>4 DEF Snapshot, Restore
  <1>5. CASE \E g \in BOOLEAN : GateCloses(g) \/ GateOpens(g)
    BY <1>5 DEF GateCloses, GateOpens, ReportRefusal, hookVars
  <1>6. CASE Build
    BY <1>6 DEF Build, ReportRefusal, poseVars, TypeOK
  <1> QED BY <1>2, <1>3, <1>4, <1>5, <1>6 DEF Next, Render, CallStep

\* A frame that had a pose to apply and drew without it has logged which guard refused.
THEOREM RefusalsAreReported == Spec => []NoSilentRefusal
  <1>1. Init => RefusalInv
    BY DEF Init, RefusalInv
  <1>2. RefusalInv => NoSilentRefusal
    BY DEF RefusalInv, NoSilentRefusal
  <1> QED BY <1>1, <1>2, NextRefusalInv, TypeCorrect, PTL DEF Spec

--------------------------------------------------------------------------------
(* The detour implements StockRender. *)

\* Outside draw and stock no picture is being taken; a step that leaves the view,
\* the snapshot, the world and m_wrote alone leaves the game's views alone.
LEMMA MapKept ==
  ASSUME UNCHANGED <<view, clean, wrote, world>>
  PROVE  GamesView' = GamesView
  BY DEF GamesView

\* No picture is begun or ended by a step outside the engine's own draw.
LEMMA NoPictureKept ==
  ASSUME pc \notin {"draw", "stock"}, pc' \notin {"draw", "stock"}
  PROVE  Picture' = Picture
  BY DEF Picture

\* The initial states map to initial states.
LEMMA InitRefines == Init => Stock!Init
  <1> SUFFICES ASSUME Init PROVE Stock!Init
    OBVIOUS
  <1>1. GamesView = view
    BY DEF GamesView, Init
  <1>2. Picture = None
    BY DEF Picture, Init
  <1> QED BY <1>1, <1>2 DEF Init, Stock!Init, Stock!Filled, Filled

\* Entering the null branch draws the game's own view; entering PreRender draws
\* nothing yet.
LEMMA EnterRefines ==
  ASSUME IInv, NEW w \in Worlds \cup {None}, Enter(w)
  PROVE  Stock!Next \/ UNCHANGED Stock!vars
  <1>1. GamesView' = GamesView /\ GamesView = view
    BY DEF IInv, FrameInv, Enter, hookVars, GamesView, TypeOK
  <1>2. Picture = None
    BY DEF Enter, Picture
  <1>3. CASE pc' = "stock" /\ w # None
    <2>1. w \in Worlds /\ Picture' = GamesView[w]
      BY <1>1, <1>3 DEF Enter, Picture
    <2> QED BY <1>1, <1>2, <2>1 DEF Stock!Next, Stock!BeginPicture
  <1>4. CASE ~(pc' = "stock" /\ w # None)
    <2>1. Picture' = None
      BY <1>4 DEF Enter, Picture
    <2> QED BY <1>1, <1>2, <2>1 DEF Stock!vars
  <1> QED BY <1>3, <1>4

\* The frame is drawn from the game's view, or from it turned by one pose.
LEMMA PublishRefines ==
  ASSUME IInv, Publish PROVE Stock!Next \/ UNCHANGED Stock!vars
  <1>1. GamesView' = GamesView
    BY MapKept DEF Publish, hookVars
  <1>2. Picture = None /\ world \in Worlds /\ Picture' = view[world]
    BY NoneAssumption DEF IInv, BootInv, InsideRender, PreRenderSteps, Publish, hookVars, Picture
  <1>3. CASE wrote
    <2>1. PICK y \in BOOLEAN :
            view[world] = Tracked(clean, [rotation |-> rotation, lean |-> lean, worldYaw |-> y])
      BY <1>3 DEF IInv, FrameInv, TurnedOnce
    <2>2. [rotation |-> rotation, lean |-> lean, worldYaw |-> y] \in Pose
      BY DEF IInv, TypeOK, Pose
    <2>3. GamesView[world] = clean
      BY <1>2, <1>3 DEF GamesView
    <2>4. \E p \in Pose : Picture' = Stock!Turned(GamesView[world], p)
      BY <1>2, <2>1, <2>2, <2>3 DEF Stock!Turned, Tracked
    <2> QED BY <1>1, <1>2, <2>4 DEF Stock!Next, Stock!BeginPicture
  <1>4. CASE ~wrote
    <2>1. Picture' = GamesView[world]
      BY <1>2, <1>4 DEF GamesView
    <2> QED BY <1>1, <1>2, <2>1 DEF Stock!Next, Stock!BeginPicture
  <1> QED BY <1>3, <1>4

\* The engine's Render returning ends the picture.
LEMMA FinishRefines ==
  ASSUME IInv, FinishDraw PROVE Stock!Next \/ UNCHANGED Stock!vars
  <1>1. GamesView' = GamesView
    BY MapKept DEF FinishDraw, hookVars
  <1>2. Picture' = None
    BY DEF FinishDraw, Picture
  <1>3. CASE world # None
    <2>1. Picture # None
      BY <1>3, NoViewAssumption DEF IInv, TypeOK, FinishDraw, Picture
    <2> QED BY <1>1, <1>2, <2>1 DEF Stock!Next, Stock!EndPicture
  <1>4. CASE world = None
    BY <1>1, <1>2, <1>4 DEF Picture, Stock!vars
  <1> QED BY <1>3, <1>4

\* A refill is the game's own step, of a world whose picture is not being drawn.
LEMMA RefillRefines ==
  ASSUME IInv, NEW w \in Worlds, NEW c \in Cameras, Refill(w, c)
  PROVE  Stock!Next
  <1>1. ~(wrote /\ w = world)
    BY DEF IInv, FrameInv, Refill
  <1>2. GamesView' = [GamesView EXCEPT ![w] = Filled(c)]
    <2>1. wrote' = wrote /\ world' = world /\ clean' = clean
          /\ view' = [view EXCEPT ![w] = Filled(c)] /\ view \in [Worlds -> View]
      BY DEF Refill, hookVars, IInv, TypeOK
    <2> QED BY <1>1, <2>1 DEF GamesView
  <1>3. Picture' = Picture
    BY DEF Refill, Picture, IInv, TypeOK
  <1> QED BY <1>2, <1>3 DEF Stock!Next, Stock!Refill, Stock!Filled, Filled

\* The write happens while no picture is drawn, and hides the view it covers.
LEMMA BuildRefines ==
  ASSUME IInv, Build PROVE UNCHANGED Stock!vars
  <1>1. Picture' = Picture
    BY NoPictureKept DEF Build, ReportRefusal
  <1>2. world \in Worlds /\ ~wrote /\ pc = "build" /\ world' = world /\ clean' = clean
    BY DEF Build, ReportRefusal, IInv, FrameInv, BootInv, InsideRender, PreRenderSteps
  <1>3. clean = view[world]
    <2>1. view[world].poses = <<>> /\ view[world] \in View
      BY <1>2 DEF IInv, FrameInv, TypeOK
    <2> QED BY <1>2, <2>1 DEF IInv, FrameInv, View, Filled
  <1>4. \/ UNCHANGED <<view, wrote>>
        \/ wrote' /\ \A u \in Worlds : u # world => view'[u] = view[u]
    BY <1>2 DEF Build, ReportRefusal, IInv, TypeOK
  <1>5. GamesView' = GamesView
    BY <1>2, <1>3, <1>4 DEF GamesView
  <1> QED BY <1>1, <1>5 DEF Stock!vars

\* PostRender gives back what GamesView said the game would find.
LEMMA RestoreRefines ==
  ASSUME IInv, Restore PROVE UNCHANGED Stock!vars
  <1>1. Picture' = Picture
    BY NoPictureKept DEF Restore
  <1>2. world' = world /\ ~wrote' /\ world \in Worlds /\ view \in [Worlds -> View]
    BY DEF Restore, IInv, TypeOK, BootInv, InsideRender
  <1>3. view' = GamesView
    BY <1>2 DEF Restore, GamesView
  <1>4. GamesView' = view'
    BY <1>2, <1>3 DEF GamesView
  <1> QED BY <1>1, <1>3, <1>4 DEF Stock!vars

\* Every other step of the three threads is invisible to the engine.
LEMMA QuietRefines ==
  ASSUME IInv,
         \/ Bootstrap \/ Hotkey \/ Snapshot \/ Unwind
         \/ \E g \in BOOLEAN : GateCloses(g) \/ GateOpens(g)
  PROVE  UNCHANGED Stock!vars
  <1>1. CASE Bootstrap \/ Hotkey
    <2>1. UNCHANGED <<pc, world, view, clean, wrote>>
      BY <1>1 DEF Bootstrap, EnableDetour, RefuseInstall, StartInterface, BuildGameState,
                  BootstrapThrows, Arm, StartHotkeys, BootOnly, hookVars,
                  Hotkey, ToggleEnabled, ToggleYawMode, FlagsOnly
    <2> QED BY <2>1, MapKept DEF Picture, Stock!vars
  <1>2. CASE Snapshot
    <2>1. ~wrote /\ ~wrote' /\ UNCHANGED <<view, world>>
      BY <1>2 DEF Snapshot, IInv, FrameInv
    <2>2. GamesView' = GamesView
      BY <2>1 DEF GamesView
    <2> QED BY <1>2, <2>2, NoPictureKept DEF Snapshot, Stock!vars
  <1>3. CASE Unwind \/ \E g \in BOOLEAN : GateCloses(g) \/ GateOpens(g)
    <2>1. /\ UNCHANGED <<view, clean, wrote, world>>
          /\ pc \notin {"draw", "stock"} /\ pc' \notin {"draw", "stock"}
      BY <1>3 DEF Unwind, GateCloses, GateOpens, ReportRefusal, PreRenderSteps, hookVars
    <2> QED BY <2>1, MapKept, NoPictureKept DEF Stock!vars
  <1> QED BY <1>1, <1>2, <1>3

\* The detour implements StockRender: the game always finds the view it filled,
\* and every picture is taken from that view or from it turned by one pose.
THEOREM ImplementsStockRender == Spec => StockRenderSpec
  <1>1. Init => Stock!Init
    BY InitRefines
  <1>2. IInv /\ [Next]_vars => [Stock!Next]_(Stock!vars)
    <2> SUFFICES ASSUME IInv, [Next]_vars PROVE Stock!Next \/ UNCHANGED Stock!vars
      OBVIOUS
    <2>1. CASE Engine
      BY <2>1, RefillRefines DEF Engine
    <2>2. CASE \E w \in Worlds \cup {None} : Enter(w)
      BY <2>2, EnterRefines
    <2>3. CASE Publish \/ FinishDraw
      BY <2>3, PublishRefines, FinishRefines
    <2>4. CASE Build \/ Restore
      BY <2>4, BuildRefines, RestoreRefines
    <2>5. CASE \/ Bootstrap \/ Hotkey \/ Snapshot \/ Unwind
               \/ \E g \in BOOLEAN : GateCloses(g) \/ GateOpens(g)
      BY <2>5, QuietRefines
    <2>6. CASE UNCHANGED vars
      <3>1. UNCHANGED <<pc, world, view, clean, wrote>>
        BY <2>6 DEF vars
      <3> QED BY <3>1, MapKept DEF Picture, Stock!vars
    <2> QED BY <2>1, <2>2, <2>3, <2>4, <2>5, <2>6 DEF Next, Render, CallStep
  <1> QED BY <1>1, <1>2, Invariance, PTL DEF Spec, Stock!Spec, StockRenderSpec
================================================================================
