------------------------------ MODULE TrackerFeed ------------------------------
(***************************************************************************)
(* The tracker feed of src/src/tracker_feed.cpp: the mode the hotkey thread *)
(* asks for and the render thread applies, the pose held through a gap in  *)
(* the packets, and the frame clock that must not charge a frame for it.   *)
(*                                                                         *)
(* The receiver thread and core's session are outside the repository; they *)
(* are modelled as far as Update uses them: whether a packet is recent,    *)
(* and what a session in some mode answers for the latest packet.  Packets *)
(* are numbered; 0 is a pose nothing moved.                                *)
(***************************************************************************)
EXTENDS Naturals

CONSTANTS
  MaxPacket,   \* bound: packets that arrive in a behaviour
  MaxPresses,  \* bound: presses of the mode key
  None         \* an unpublished triple

ASSUME BoundsAssumption == MaxPacket \in Nat \ {0} /\ MaxPresses \in Nat
ASSUME NoneAssumption == None \notin Nat

\* TrackingMode's values, in the order the static_asserts of tracker_feed.h pin.
RotationAndPosition == 0
RotationOnly == 1
PositionOnly == 2
ModeCount == 3
Modes == 0 .. ModeCount - 1

VARIABLES
  requested,  \* m_requestedMode
  applied,    \* m_appliedMode, which is also the session's mode
  startMode,  \* history: the mode Start decoded from the settings
  presses,    \* history: how often the mode key has been pressed
  packet,     \* the latest packet the receiver holds, 0 before the first
  fresh,      \* it is inside the freshness window: IsReceiving
  gate,       \* gameplay and m_enabled, as the next frame will read them
  pc,         \* where the render thread is in Update
  active,     \* Update's argument
  receiving,  \* Update's local, also m_wasConnected after the frame
  owed,       \* frames since the frame clock last ticked, 2 meaning more
  dt,         \* what the tick answered, in frames
  rotation,   \* m_rotation: the packet it came from, 0 when not turned, or None
  position    \* m_position

modeVars == <<requested, applied, startMode, presses>>
worldVars == <<packet, fresh, gate>>
clockVars == <<owed, dt>>
poseVars == <<rotation, position>>
vars == <<requested, applied, startMode, presses, packet, fresh, gate, pc, active,
          receiving, owed, dt, rotation, position>>

TypeOK ==
  /\ requested \in Modes /\ applied \in Modes /\ startMode \in Modes
  /\ presses \in 0 .. MaxPresses
  /\ packet \in 0 .. MaxPacket /\ fresh \in BOOLEAN /\ gate \in BOOLEAN
  /\ pc \in {"idle", "tick", "publish"}
  /\ active \in BOOLEAN /\ receiving \in BOOLEAN
  /\ owed \in 0 .. 2 /\ dt \in 0 .. 2
  /\ rotation \in 0 .. MaxPacket \cup {None}
  /\ position \in 1 .. MaxPacket \cup {None}

\* After TrackerFeed::Start; FrameClock starts with nothing owed.
Init ==
  /\ startMode \in Modes /\ requested = startMode /\ applied = startMode
  /\ presses = 0
  /\ packet = 0 /\ fresh = FALSE /\ gate \in BOOLEAN
  /\ pc = "idle" /\ active = FALSE /\ receiving = FALSE
  /\ owed = 0 /\ dt = 0
  /\ rotation = None /\ position = None

--------------------------------------------------------------------------------
(* What happens around the feed. *)

Around == UNCHANGED <<modeVars, pc, active, receiving, clockVars, poseVars>>

PacketArrives ==
  /\ packet < MaxPacket
  /\ packet' = packet + 1
  /\ fresh' = TRUE
  /\ UNCHANGED gate
  /\ Around

\* No packet for the length of the freshness window.
PacketsStop ==
  /\ fresh
  /\ fresh' = FALSE
  /\ UNCHANGED <<packet, gate>>
  /\ Around

\* The game pauses, loads or resumes, or the player presses End.
GateChanges ==
  /\ gate' = ~gate
  /\ UNCHANGED <<packet, fresh>>
  /\ Around

\* Defect: the step to the next mode does not wrap.
CycleModeUnwrapped ==
  /\ presses < MaxPresses
  /\ presses' = presses + 1
  /\ requested' = requested + 1
  /\ UNCHANGED <<applied, startMode, worldVars, pc, active, receiving, clockVars, poseVars>>

\* Defect: the step is taken from the mode the render thread applied last.
CycleModeFromApplied ==
  /\ presses < MaxPresses
  /\ presses' = presses + 1
  /\ requested' = (applied + 1) % ModeCount
  /\ UNCHANGED <<applied, startMode, worldVars, pc, active, receiving, clockVars, poseVars>>

\* The hotkey thread.
CycleMode ==
  /\ presses < MaxPresses
  /\ presses' = presses + 1
  /\ requested' = (requested + 1) % ModeCount
  /\ UNCHANGED <<applied, startMode, worldVars, pc, active, receiving, clockVars, poseVars>>

--------------------------------------------------------------------------------
(* The render thread: UpdateForFrame's gate, then the steps of Update between *)
(* two reads of what another thread writes.                                   *)

Later(n) == IF n < 2 THEN n + 1 ELSE n

\* Defect: the request is applied by tracked frames only.
ApplyModeWhenOpen ==
  /\ pc = "idle"
  /\ active' = gate
  /\ applied' = IF gate THEN requested ELSE applied
  /\ owed' = Later(owed)
  /\ pc' = "tick"
  /\ UNCHANGED <<requested, startMode, presses, worldVars, receiving, dt, poseVars>>

\* The request is applied whether or not the frame is tracked.
ApplyMode ==
  /\ pc = "idle"
  /\ active' = gate
  /\ applied' = requested
  /\ owed' = Later(owed)
  /\ pc' = "tick"
  /\ UNCHANGED <<requested, startMode, presses, worldVars, receiving, dt, poseVars>>

\* Defect: the clock ticks after the early returns.
TickAfterReturns ==
  /\ pc = "tick"
  /\ receiving' = fresh
  /\ dt' = IF active /\ fresh THEN owed ELSE dt
  /\ owed' = IF active /\ fresh THEN 0 ELSE owed
  /\ IF active THEN UNCHANGED poseVars ELSE rotation' = None /\ position' = None
  /\ pc' = IF active /\ receiving' THEN "publish" ELSE "idle"
  /\ UNCHANGED <<modeVars, worldVars, active>>

\* Defect: a closed gate invalidates the rotation only.
TickKeepsPosition ==
  /\ pc = "tick"
  /\ receiving' = fresh
  /\ dt' = owed
  /\ owed' = 0
  /\ rotation' = IF active THEN rotation ELSE None
  /\ pc' = IF active /\ receiving' THEN "publish" ELSE "idle"
  /\ UNCHANGED <<modeVars, worldVars, active, position>>

\* Defect: a gap in the packets is treated as a closed gate.
TickDropsOnGap ==
  /\ pc = "tick"
  /\ receiving' = fresh
  /\ dt' = owed
  /\ owed' = 0
  /\ IF active /\ fresh THEN UNCHANGED poseVars ELSE rotation' = None /\ position' = None
  /\ pc' = IF active /\ receiving' THEN "publish" ELSE "idle"
  /\ UNCHANGED <<modeVars, worldVars, active>>

\* IsReceiving, then the tick, then the two early returns.
Tick ==
  /\ pc = "tick"
  /\ receiving' = fresh
  /\ dt' = owed
  /\ owed' = 0
  /\ IF active THEN UNCHANGED poseVars ELSE rotation' = None /\ position' = None
  /\ pc' = IF active /\ receiving' THEN "publish" ELSE "idle"
  /\ UNCHANGED <<modeVars, worldVars, active>>

SessionRotation(m, p) == IF m = PositionOnly THEN 0 ELSE p
SessionPosition(m, p) == IF m = RotationOnly THEN None ELSE p

\* Defect: no else branch, so a session without a position leaves the last one.
PublishKeepsPosition ==
  /\ pc = "publish"
  /\ rotation' = SessionRotation(applied, packet)
  /\ position' = IF applied = RotationOnly THEN position ELSE packet
  /\ pc' = "idle"
  /\ UNCHANGED <<modeVars, worldVars, active, receiving, clockVars>>

\* m_session.Update answers true: both triples are published, or invalidated.
Publish ==
  /\ pc = "publish"
  /\ rotation' = SessionRotation(applied, packet)
  /\ position' = SessionPosition(applied, packet)
  /\ pc' = "idle"
  /\ UNCHANGED <<modeVars, worldVars, active, receiving, clockVars>>

\* It answers false: the published pose is left standing, as through a gap.
SessionDeclines ==
  /\ pc = "publish"
  /\ pc' = "idle"
  /\ UNCHANGED <<modeVars, worldVars, active, receiving, clockVars, poseVars>>

--------------------------------------------------------------------------------
Outside == PacketArrives \/ PacketsStop \/ GateChanges \/ CycleMode
Update == ApplyMode \/ Tick \/ Publish \/ SessionDeclines
Next == Outside \/ Update

Spec == Init /\ [][Next]_vars

\* The game goes on rendering, and a session that goes on being asked about a
\* tracker it receives does not decline for ever.  Packets, pauses and presses are
\* nobody's duty.
FairSpec == Spec /\ WF_vars(Update) /\ SF_vars(Publish)

--------------------------------------------------------------------------------
(* Properties. *)

\* No press is lost, however frames fall between presses and with no frame at all,
\* as at the shell: each one steps from the last request (CycleMode).
NoPressLost == requested = (startMode + presses) % ModeCount

\* The session is never advanced by more than the frame that has just passed: a
\* gap and a closed gate are not handed to the first frame after them (Tick before
\* every early return).
NeverChargedForAGap == pc = "publish" => dt = 1

\* A gap in the packets while the gate stays open never moves the published pose.
HoldsThroughGaps ==
  [][active' /\ active /\ ~receiving' => UNCHANGED poseVars]_vars

\* The frame after a suppressed one starts from nothing: a pose published before
\* the gate closed is never applied once it opens again (Invalidate).
NothingSurvivesSuppression ==
  pc = "idle" /\ ~active => rotation = None /\ position = None

\* However modes, gaps and suppression interleave, the published pose is the whole of
\* what the session in one mode made of one packet, or nothing: never the halves of two
\* packets or of two modes (Update's else branch invalidates the position).
HalvesOfOnePacket ==
  \/ rotation = None /\ position = None
  \/ \E m \in Modes, p \in 1 .. packet :
       rotation = SessionRotation(m, p) /\ position = SessionPosition(m, p)

\* What the README says of Page Up: once the frame has applied the mode, the half
\* of the pose the mode disables is not applied.
DisabledHalfIsStill ==
  pc = "idle" /\ active =>
    /\ applied = RotationOnly => position = None
    /\ applied = PositionOnly => rotation \in {None, 0}

\* The last request is applied, whether or not a tracker is connected and the gate
\* is open.
RequestIsApplied == \A m \in Modes : requested = m ~> (applied = m \/ requested # m)

\* When packets flow again with the gate open, the pose catches up with the last
\* one and stays there.
CatchesUp ==
  \A m \in Modes :
    <>[](gate /\ fresh /\ requested = m) =>
      <>[](rotation = SessionRotation(m, packet) /\ position = SessionPosition(m, packet))
================================================================================
