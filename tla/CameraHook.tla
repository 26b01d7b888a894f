------------------------------ MODULE CameraHook -------------------------------
(***************************************************************************)
(* The render detour of src/src/camera_hook.cpp with the frame gate of     *)
(* src/src/headtracking_mod.cpp behind it.                                 *)
(*                                                                         *)
(* Three threads meet here.  The bootstrap thread installs the detour and  *)
(* arms it; the game's render thread runs the detour, one Render call at a *)
(* time, each step between two reads of shared state being an action; the  *)
(* hotkey thread stores the two flags at any moment.  The engine refills a *)
(* view, or does not, between two Render calls, and may unwind out of any  *)
(* of them.                                                                *)
(*                                                                         *)
(* A view is the camera the game filled it with and the head poses         *)
(* composed onto it since, in order.  What the tracker feed and the game   *)
(* state answer is any value they can answer; TrackerFeed and FrameState   *)
(* model how they come to it.                                              *)
(***************************************************************************)
EXTENDS Naturals, Sequences

CONSTANTS
  Worlds,      \* idRenderWorldLocal objects
  Cameras,     \* what the game can fill a view with
  Rotations,   \* rotations the feed can publish
  Leans,       \* position offsets the feed can publish
  Unusable,    \* those of them that are not finite or not orthonormal
  None         \* a null world, an unpublished triple

ASSUME NoneAssumption == None \notin Worlds \cup Rotations \cup Leans
ASSUME UnusableAssumption == Unusable \subseteq Cameras \cup Rotations \cup Leans

VARIABLES
  boot,        \* how far HeadTrackingMod::Initialize has got
  gameState,   \* m_gameState has been built
  compensate,  \* m_compensateWorldMarkers
  armed,       \* g_hook is not null
  enabled,     \* m_enabled
  worldYaw,    \* m_worldSpaceYaw
  pc,          \* where the render thread is
  world,       \* the argument of the Render call in progress
  view,        \* the view inside each render world
  clean,       \* m_cleanOrigin, m_cleanAxis
  wrote,       \* m_wrote
  active,      \* PreRender's local of that name
  rotation,    \* the mod's m_rotation: a value, or None when invalid
  lean,        \* the mod's m_position
  hud,         \* g_frame of hud_view.cpp
  refused,     \* m_refusalLogged
  offAllFrame  \* history: m_enabled has been false since this call began

bootVars == <<boot, gameState, compensate, armed>>
flagVars == <<enabled, worldYaw>>
poseVars == <<rotation, lean, active>>
hookVars == <<clean, wrote, refused>>
vars == <<boot, gameState, compensate, armed, enabled, worldYaw, pc, world, view, clean,
          wrote, active, rotation, lean, hud, refused, offAllFrame>>

Pose == [rotation : Rotations \cup {None}, lean : Leans \cup {None}, worldYaw : BOOLEAN]
View == [camera : Cameras, poses : Seq(Pose)]
\* Defect: a HudFrame whose pose nothing initialises.
NoPoseUninitialised == None

NoPose == [rotation |-> None, lean |-> None, worldYaw |-> TRUE]
RefusalKinds == {"CleanView", "TrackedView"}

Filled(c) == [camera |-> c, poses |-> <<>>]

\* BuildTrackedView: the pose composed onto whatever view it is given.
Tracked(v, p) == [v EXCEPT !.poses = Append(@, p)]

\* IsOrthonormal of the basis and IsFinite3 of the origin.
Usable(v) == /\ v.camera \notin Unusable
             /\ \A i \in 1 .. Len(v.poses) :
                  v.poses[i].rotation \notin Unusable /\ v.poses[i].lean \notin Unusable

ASSUME NoViewAssumption == None \notin View

PreRenderSteps == {"snapshot", "gate", "build", "publish"}
InsideRender == PreRenderSteps \cup {"draw", "restore"}

TypeOK ==
  /\ boot \in {"installing", "hooked", "interface", "state", "armed", "ready", "refused", "failed"}
  /\ gameState \in BOOLEAN /\ compensate \in BOOLEAN /\ armed \in BOOLEAN
  /\ enabled \in BOOLEAN /\ worldYaw \in BOOLEAN
  /\ pc \in InsideRender \cup {"idle", "stock"}
  /\ world \in Worlds \cup {None}
  /\ view \in [Worlds -> View]
  /\ clean \in View
  /\ wrote \in BOOLEAN /\ active \in BOOLEAN
  /\ rotation \in Rotations \cup {None}
  /\ lean \in Leans \cup {None}
  /\ hud \in [active : BOOLEAN, pose : Pose]
  /\ refused \subseteq RefusalKinds
  /\ offAllFrame \in BOOLEAN

Init ==
  /\ boot = "installing"
  /\ gameState = FALSE /\ compensate = FALSE /\ armed = FALSE
  /\ enabled \in BOOLEAN /\ worldYaw \in BOOLEAN   \* LoadSettings has stored both
  /\ pc = "idle"
  /\ world = None
  /\ view \in [Worlds -> {Filled(c) : c \in Cameras}]
  /\ \E c \in Cameras : clean = Filled(c)           \* not read before a snapshot
  /\ wrote = FALSE /\ active = FALSE
  /\ rotation = None /\ lean = None
  /\ hud = [active |-> FALSE, pose |-> NoPose]
  /\ refused = {}
  /\ offAllFrame = FALSE

--------------------------------------------------------------------------------
(* The bootstrap thread: InstallEngineHooks, then the hotkeys. *)

BootOnly == UNCHANGED <<flagVars, pc, world, view, hookVars, poseVars, hud, offAllFrame>>

\* Defect: Install arms the hook it has just enabled.
EnableDetourArmed ==
  /\ boot = "installing"
  /\ boot' = "hooked"
  /\ armed' = TRUE
  /\ UNCHANGED <<gameState, compensate>>
  /\ BootOnly

\* CreateHook and EnableHook both answer Ok: the detour is live, with g_hook null.
EnableDetour ==
  /\ boot = "installing"
  /\ boot' = "hooked"
  /\ UNCHANGED <<gameState, compensate, armed>>
  /\ BootOnly

\* MinHook refuses: Install answers false and m_cameraHook is reset.  Startup goes
\* on, but no frame reaches the mod and the flags are read by nobody.
RefuseInstall ==
  /\ boot = "installing"
  /\ boot' = "refused"
  /\ UNCHANGED <<gameState, compensate, armed>>
  /\ BootOnly

\* UiWorldView::Start, whose answer does not decide Install's.
StartInterface ==
  /\ boot = "hooked"
  /\ boot' = "interface"
  /\ compensate' \in BOOLEAN
  /\ UNCHANGED <<gameState, armed>>
  /\ BootOnly

BuildGameState ==
  /\ boot = "interface"
  /\ boot' = "state"
  /\ gameState' = TRUE
  /\ UNCHANGED <<compensate, armed>>
  /\ BootOnly

\* A std::bad_alloc or std::system_error leaves Initialize with the detour live.
BootstrapThrows ==
  /\ boot \in {"interface", "armed"}
  /\ boot' = "failed"
  /\ UNCHANGED <<gameState, compensate, armed>>
  /\ BootOnly

Arm ==
  /\ boot = "state"
  /\ boot' = "armed"
  /\ armed' = TRUE
  /\ UNCHANGED <<gameState, compensate>>
  /\ BootOnly

StartHotkeys ==
  /\ boot = "armed"
  /\ boot' = "ready"
  /\ UNCHANGED <<gameState, compensate, armed>>
  /\ BootOnly

--------------------------------------------------------------------------------
(* The hotkey thread, the only writer of the two flags. *)

FlagsOnly == UNCHANGED <<bootVars, pc, world, view, hookVars, poseVars, hud>>

ToggleEnabled ==
  /\ boot = "ready"
  /\ enabled' = ~enabled
  /\ offAllFrame' = FALSE
  /\ UNCHANGED worldYaw
  /\ FlagsOnly

ToggleYawMode ==
  /\ boot = "ready"
  /\ worldYaw' = ~worldYaw
  /\ UNCHANGED <<enabled, offAllFrame>>
  /\ FlagsOnly

--------------------------------------------------------------------------------
(* The engine: it fills the view of a world it is not rendering. *)

Refill(w, c) ==
  /\ pc = "idle" \/ world # w
  /\ view' = [view EXCEPT ![w] = Filled(c)]
  /\ UNCHANGED <<bootVars, flagVars, pc, world, hookVars, poseVars, hud, offAllFrame>>

--------------------------------------------------------------------------------
(* The render thread. *)

\* Detour: one load of g_hook decides the branch for the whole call.
Enter(w) ==
  /\ pc = "idle"
  /\ boot \notin {"installing", "refused"}
  /\ pc' = IF armed /\ w # None THEN "snapshot" ELSE "stock"
  /\ world' = w
  /\ offAllFrame' = ~enabled
  /\ UNCHANGED <<bootVars, flagVars, view, hookVars, poseVars, hud>>

\* PreRender up to UpdateForFrame.
Snapshot ==
  /\ pc = "snapshot"
  /\ clean' = view[world]
  /\ wrote' = FALSE
  /\ pc' = "gate"
  /\ UNCHANGED <<bootVars, flagVars, world, view, poseVars, hud, refused, offAllFrame>>

\* Defect: the switch gates the first frame only, not every one.
EvaluateGateUnswitched(gameplay) == IF gameplay THEN "Gameplay" ELSE "NotGameplay"

EvaluateGate(gameplay) == IF ~gameplay THEN "NotGameplay"
                          ELSE IF ~enabled THEN "Disabled"
                          ELSE "Gameplay"

\* UpdateForFrame with the gate closed: the triples are invalidated, PreRender
\* returns early after publishing an inactive interface frame.
GateCloses(gameplay) ==
  /\ pc = "gate"
  /\ EvaluateGate(gameplay) # "Gameplay"
  /\ rotation' = None /\ lean' = None /\ active' = FALSE
  /\ pc' = "publish"
  /\ UNCHANGED <<bootVars, flagVars, world, view, hookVars, hud, offAllFrame>>

\* What has left a line: a latch per kind, which nothing clears.
ReportRefusal(kind) == refused \cup {kind}

\* UpdateForFrame with the gate open: whatever the feed holds is published, and
\* cleanUsable decides whether a tracked view is built.
GateOpens(gameplay) ==
  /\ pc = "gate"
  /\ EvaluateGate(gameplay) = "Gameplay"
  /\ \E r \in Rotations \cup {None}, l \in Leans \cup {None} :
       /\ rotation' = r /\ lean' = l
       /\ active' = (r # None \/ l # None)
  /\ refused' = IF active' /\ ~Usable(clean) THEN ReportRefusal("CleanView") ELSE refused
  /\ pc' = IF active' /\ Usable(clean) THEN "build" ELSE "publish"
  /\ UNCHANGED <<bootVars, flagVars, world, view, clean, wrote, hud, offAllFrame>>

\* Defect: only the view the game handed over is checked.
BuildUnchecked ==
  /\ pc = "build"
  /\ view' = [view EXCEPT ![world] = Tracked(clean, [rotation |-> rotation, lean |-> lean,
                                                     worldYaw |-> worldYaw])]
  /\ wrote' = TRUE
  /\ pc' = "publish"
  /\ UNCHANGED <<bootVars, flagVars, world, clean, refused, poseVars, hud, offAllFrame>>

\* Defect: one latch for both kinds of refusal.
BuildOneLatch ==
  LET tracked == Tracked(clean, [rotation |-> rotation, lean |-> lean, worldYaw |-> worldYaw])
  IN /\ pc = "build"
     /\ view' = IF Usable(tracked) THEN [view EXCEPT ![world] = tracked] ELSE view
     /\ wrote' = Usable(tracked)
     /\ refused' = IF Usable(tracked) \/ refused # {} THEN refused ELSE {"TrackedView"}
     /\ pc' = "publish"
     /\ UNCHANGED <<bootVars, flagVars, world, clean, poseVars, hud, offAllFrame>>

\* BuildTrackedView, which loads m_worldSpaceYaw, and the guard on what it made.
Build ==
  LET pose == [rotation |-> rotation, lean |-> lean, worldYaw |-> worldYaw]
      tracked == Tracked(clean, pose)
  IN /\ pc = "build"
     /\ IF Usable(tracked)
          THEN /\ view' = [view EXCEPT ![world] = tracked]
               /\ wrote' = TRUE
               /\ UNCHANGED refused
          ELSE /\ refused' = ReportRefusal("TrackedView")
               /\ UNCHANGED <<view, wrote>>
     /\ pc' = "publish"
     /\ UNCHANGED <<bootVars, flagVars, world, clean, poseVars, hud, offAllFrame>>

\* Defect: the interface is told of tracked frames only.
PublishTrackedOnly ==
  /\ pc = "publish"
  /\ hud' = IF compensate /\ wrote
              THEN [active |-> TRUE,
                    pose |-> [rotation |-> rotation, lean |-> lean, worldYaw |-> worldYaw]]
              ELSE hud
  /\ pc' = "draw"
  /\ UNCHANGED <<bootVars, flagVars, world, view, hookVars, poseVars, offAllFrame>>

\* UpdateWorldAnchoredInterface and UiWorldView::SetFrame, which reads the two
\* triples back and loads m_worldSpaceYaw a second time.
Publish ==
  /\ pc = "publish"
  /\ hud' = IF ~compensate THEN hud
            ELSE IF wrote
              THEN [active |-> TRUE,
                    pose |-> [rotation |-> rotation, lean |-> lean, worldYaw |-> worldYaw]]
              ELSE [active |-> FALSE, pose |-> NoPose]
  /\ pc' = "draw"
  /\ UNCHANGED <<bootVars, flagVars, world, view, hookVars, poseVars, offAllFrame>>

\* The engine's own Render has returned, or unwound; the null branch has no
\* __finally and nothing to undo.
FinishDraw ==
  /\ pc \in {"draw", "stock"}
  /\ pc' = IF pc = "draw" THEN "restore" ELSE "idle"
  /\ UNCHANGED <<bootVars, flagVars, world, view, hookVars, poseVars, hud, offAllFrame>>

\* Defect: a scope guard where the __finally is, which an SEH unwind skips.
UnwindSkipsRestore ==
  /\ pc \in PreRenderSteps
  /\ pc' = "idle"
  /\ UNCHANGED <<bootVars, flagVars, world, view, hookVars, poseVars, hud, offAllFrame>>

\* A structured exception out of PreRender runs the __finally from where it stood.
Unwind ==
  /\ pc \in PreRenderSteps
  /\ pc' = "restore"
  /\ UNCHANGED <<bootVars, flagVars, world, view, hookVars, poseVars, hud, offAllFrame>>

\* Defect: the view is left as it was drawn, for the engine to refill.
RestoreForgetsTheView ==
  /\ pc = "restore"
  /\ wrote' = FALSE
  /\ pc' = "idle"
  /\ UNCHANGED <<bootVars, flagVars, world, view, clean, refused, poseVars, hud, offAllFrame>>

\* PostRender.
Restore ==
  /\ pc = "restore"
  /\ IF wrote THEN view' = [view EXCEPT ![world] = clean] ELSE UNCHANGED view
  /\ wrote' = FALSE
  /\ pc' = "idle"
  /\ UNCHANGED <<bootVars, flagVars, world, clean, refused, poseVars, hud, offAllFrame>>

--------------------------------------------------------------------------------
Bootstrap == \/ EnableDetour \/ RefuseInstall \/ StartInterface \/ BuildGameState
             \/ BootstrapThrows \/ Arm \/ StartHotkeys
Hotkey == ToggleEnabled \/ ToggleYawMode
Engine == \E w \in Worlds, c \in Cameras : Refill(w, c)
CallStep == \/ Snapshot
            \/ \E gameplay \in BOOLEAN : GateCloses(gameplay) \/ GateOpens(gameplay)
            \/ Build \/ Publish \/ FinishDraw \/ Unwind \/ Restore
Render == (\E w \in Worlds \cup {None} : Enter(w)) \/ CallStep

Next == Bootstrap \/ Hotkey \/ Engine \/ Render

Spec == Init /\ [][Next]_vars

\* A Render call that has begun runs on.  Nothing obliges the engine to begin
\* another or to refill a view, or the player to press a key.
Fairness == WF_vars(CallStep)

FairSpec == Spec /\ Fairness

--------------------------------------------------------------------------------
(* Properties. *)

\* A tracked view exists only inside the call that wrote it, in the world that
\* call was given, and carries one pose: whatever unwound and whether or not the
\* engine refilled, the pose never compounds (Detour's __finally, PostRender).
NothingCompounds ==
  \A w \in Worlds : view[w].poses # <<>> =>
    /\ pc \in {"publish", "draw", "restore"}
    /\ w = world
    /\ wrote
    /\ Len(view[w].poses) = 1

\* What m_cleanOrigin and m_cleanAxis hold when PostRender would write them back
\* is the view the game filled, untouched by any pose (PreRender's snapshot).
CleanIsTheGames ==
  pc \in {"gate", "build", "publish", "draw"} \/ wrote =>
    clean = Filled(view[world].camera)

\* A call that began after the player switched tracking off, with no switch since,
\* draws the game's own view (ToggleEnabled against UpdateForFrame's one load).
SwitchedOffDrawsStock ==
  pc = "draw" /\ offAllFrame => view[world].poses = <<>>

\* The picture is drawn either from the view the game filled or from one both
\* guards of PreRender accepted: the mod never makes a view unusable.
NeverMakesUnusable ==
  pc = "draw" => view[world] = clean \/ Usable(view[world])

\* While the frame is drawn, the interface frame is active exactly when the camera
\* was turned, and names the rotation and lean it was turned by (SetFrame after a
\* refusal, a closed gate and an unwound predecessor).
InterfaceFollowsCamera ==
  pc = "draw" /\ compensate =>
    /\ hud.active = (view[world].poses # <<>>)
    /\ hud.active => /\ hud.pose.rotation = view[world].poses[1].rotation
                     /\ hud.pose.lean = view[world].poses[1].lean

\* What hud_math.h says of SetFrame's pose: it composes exactly as BuildTrackedView
\* did, so the interface is projected through the SAME camera as the picture.
InterfaceSameCamera ==
  pc = "draw" /\ hud.active /\ hud.pose.rotation # None =>
    hud.pose.worldYaw = view[world].poses[1].worldYaw

\* Every refusal of a published pose has left its line: a frame the gate opened
\* and no view was written for is never silent (ReportRefusal's two latches).
NoSilentRefusal ==
  pc = "draw" /\ active /\ ~wrote =>
    \/ ~Usable(clean) /\ "CleanView" \in refused
    \/ Usable(clean) /\ "TrackedView" \in refused

\* No frame runs PreRender before the game state it dereferences is built, nor on
\* a hook object a failed Install destroyed (Arm is InstallEngineHooks' last line).
NoFrameBeforeItsState ==
  pc \in InsideRender => gameState /\ boot # "refused"

\* The engine cannot tell the detour from a Render that was handed a private copy.
GamesView == [w \in Worlds |-> IF wrote /\ w = world THEN clean ELSE view[w]]
Picture == IF pc \in {"draw", "stock"} /\ world # None THEN view[world] ELSE None
Stock == INSTANCE StockRender WITH games <- GamesView, picture <- Picture, Poses <- Pose
StockRenderSpec == Stock!Spec

\* Once tracking stays off, the views all end up, and stay, the game's own.
OffReturnsToStock ==
  (<>[]~enabled) => <>[](\A w \in Worlds : view[w].poses = <<>>)
================================================================================
