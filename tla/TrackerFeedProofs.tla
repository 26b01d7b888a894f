--------------------------- MODULE TrackerFeedProofs ---------------------------
(***************************************************************************)
(* Proofs about TrackerFeed, for any number of packets and presses.  The   *)
(* invariants of the component hold together: FrameInv says what each step *)
(* of Update has settled, the clock above all.                             *)
(***************************************************************************)
EXTENDS TrackerFeed, TLAPS

FrameInv ==
  /\ pc = "idle" => owed = 0
  /\ pc = "tick" => owed = 1
  /\ pc = "publish" => owed = 0 /\ dt = 1 /\ active /\ receiving /\ packet # 0
  /\ fresh => packet # 0

IInv == /\ TypeOK /\ FrameInv
        /\ NoPressLost /\ NothingSurvivesSuppression /\ HalvesOfOnePacket

USE BoundsAssumption, NoneAssumption
    DEF RotationOnly, PositionOnly, RotationAndPosition, ModeCount

\* One more press moves the cycle one mode on, from whichever mode it stood at.
LEMMA CycleStep ==
  ASSUME NEW s \in Nat, NEW n \in Nat
  PROVE  (((s + n) % ModeCount) + 1) % ModeCount = (s + (n + 1)) % ModeCount
  OBVIOUS

\* The feed as Start leaves it satisfies the invariant.
LEMMA InitIInv == Init => IInv
  <1> SUFFICES ASSUME Init PROVE IInv
    OBVIOUS
  <1>1. TypeOK
    <2>1. 0 \in 0 .. MaxPresses /\ 0 \in 0 .. MaxPacket /\ 0 \in 0 .. 2
      OBVIOUS
    <2> QED BY <2>1 DEF Init, TypeOK
  <1>4. FrameInv
    BY DEF Init, FrameInv
  <1>2. NoPressLost
    BY DEF Init, NoPressLost, Modes
  <1>3. NothingSurvivesSuppression /\ HalvesOfOnePacket
    BY DEF Init, NothingSurvivesSuppression, HalvesOfOnePacket
  <1> QED BY <1>1, <1>2, <1>3, <1>4 DEF IInv

\* A pose of one packet is of one still, when others have come since.
LEMMA HalvesAreKept ==
  ASSUME HalvesOfOnePacket, UNCHANGED poseVars, 1 .. packet \subseteq 1 .. packet'
  PROVE  HalvesOfOnePacket'
  BY DEF HalvesOfOnePacket, poseVars, SessionRotation, SessionPosition

\* Packets, the gate and time touch neither the mode nor the pose.
LEMMA AroundStep ==
  ASSUME IInv, PacketArrives \/ PacketsStop \/ GateChanges PROVE IInv'
  <1> USE DEF IInv, PacketArrives, PacketsStop, GateChanges, Around,
              modeVars, clockVars, poseVars
  <1>1. TypeOK'
    <2>1. packet' \in 0 .. MaxPacket /\ packet' \in {packet, packet + 1}
      BY DEF TypeOK
    <2>2. fresh' \in BOOLEAN /\ gate' \in BOOLEAN
      BY DEF TypeOK
    <2> QED BY <2>1, <2>2 DEF TypeOK
  <1>2. FrameInv' /\ NoPressLost'
    BY DEF FrameInv, NoPressLost, TypeOK
  <1>3. NothingSurvivesSuppression'
    BY DEF NothingSurvivesSuppression
  <1>4. HalvesOfOnePacket'
    <2>1. packet \in Nat /\ packet' \in {packet, packet + 1}
      BY DEF TypeOK
    <2>2. 1 .. packet \subseteq 1 .. packet'
      BY <2>1
    <2> QED BY <2>2, HalvesAreKept
  <1> QED BY <1>1, <1>2, <1>3, <1>4

\* A press of the mode key, which the render thread may be in the middle of a frame for.
LEMMA CycleModeStep == ASSUME IInv, CycleMode PROVE IInv'
  <1> USE DEF IInv, CycleMode, worldVars, clockVars, poseVars
  <1>1. requested' \in Modes
    BY DEF TypeOK, Modes
  <1>2. TypeOK'
    BY <1>1 DEF TypeOK
  <1>3. NoPressLost'
    <2>1. startMode \in Nat /\ presses \in Nat /\ startMode' = startMode
          /\ presses' = presses + 1 /\ requested' = (requested + 1) % ModeCount
      BY DEF TypeOK, Modes, modeVars
    <2> QED BY <2>1, CycleStep DEF NoPressLost
  <1>4. FrameInv'
    BY DEF FrameInv
  <1>5. NothingSurvivesSuppression' /\ HalvesOfOnePacket'
    BY HalvesAreKept DEF NothingSurvivesSuppression
  <1> QED BY <1>2, <1>3, <1>4, <1>5

\* The three steps of Update, with the early returns.
LEMMA UpdateStep == ASSUME IInv, Update PROVE IInv'
  <1> USE DEF IInv, modeVars, worldVars, clockVars, poseVars
  <1>1. CASE ApplyMode
    <2> USE <1>1 DEF ApplyMode
    <2>1. TypeOK' /\ FrameInv'
      BY DEF TypeOK, FrameInv, Later
    <2>2. NoPressLost' /\ NothingSurvivesSuppression' /\ HalvesOfOnePacket'
      BY HalvesAreKept DEF NoPressLost, NothingSurvivesSuppression
    <2> QED BY <2>1, <2>2
  <1>2. CASE Tick
    <2> USE <1>2 DEF Tick
    <2>1. rotation' \in {rotation, None} /\ position' \in {position, None}
          /\ receiving' \in BOOLEAN /\ dt' = owed /\ owed' = 0
      BY DEF TypeOK
    <2>2. TypeOK'
      BY <2>1 DEF TypeOK
    <2>3. FrameInv'
      BY DEF FrameInv
    <2>4. NothingSurvivesSuppression' /\ NoPressLost'
      BY DEF NothingSurvivesSuppression, NoPressLost
    <2>5. HalvesOfOnePacket'
      <3>1. CASE active
        BY <3>1, HalvesAreKept
      <3>2. CASE ~active
        BY <3>2 DEF HalvesOfOnePacket
      <3> QED BY <3>1, <3>2
    <2> QED BY <2>2, <2>3, <2>4, <2>5
  <1>3. CASE Publish
    <2> USE <1>3 DEF Publish
    <2>1. rotation' \in {0, packet} /\ position' \in {None, packet} /\ active
      BY DEF SessionRotation, SessionPosition, FrameInv
    <2>2. TypeOK'
      <3>1. packet \in 1 .. MaxPacket
        BY DEF TypeOK, FrameInv
      <3>2. rotation' \in 0 .. MaxPacket \cup {None} /\ position' \in 1 .. MaxPacket \cup {None}
        BY <2>1, <3>1
      <3> QED BY <3>2 DEF TypeOK
    <2>3. FrameInv' /\ NoPressLost' /\ NothingSurvivesSuppression'
      BY <2>1 DEF FrameInv, NoPressLost, NothingSurvivesSuppression
    <2>4. HalvesOfOnePacket'
      <3>1. applied \in Modes /\ packet \in 1 .. packet /\ packet' = packet
        BY DEF TypeOK, FrameInv
      <3>2. rotation' = SessionRotation(applied, packet)
            /\ position' = SessionPosition(applied, packet)
        OBVIOUS
      <3> QED BY <3>1, <3>2 DEF HalvesOfOnePacket, SessionRotation, SessionPosition
    <2> QED BY <2>2, <2>3, <2>4
  <1>4. CASE SessionDeclines
    <2> USE <1>4 DEF SessionDeclines
    <2>1. TypeOK' /\ FrameInv'
      BY DEF TypeOK, FrameInv
    <2>2. NoPressLost' /\ NothingSurvivesSuppression' /\ HalvesOfOnePacket'
      BY HalvesAreKept DEF NoPressLost, NothingSurvivesSuppression, FrameInv
    <2> QED BY <2>1, <2>2
  <1> QED BY <1>1, <1>2, <1>3, <1>4 DEF Update

\* The invariant is inductive.
LEMMA NextIInv == IInv /\ [Next]_vars => IInv'
  <1> SUFFICES ASSUME IInv, [Next]_vars PROVE IInv'
    OBVIOUS
  <1>1. CASE Outside
    BY <1>1, AroundStep, CycleModeStep DEF Outside
  <1>2. CASE Update
    BY <1>2, UpdateStep
  <1>3. CASE UNCHANGED vars
    <2>1. TypeOK' /\ FrameInv' /\ NoPressLost'
      BY <1>3 DEF IInv, vars, TypeOK, FrameInv, NoPressLost
    <2>2. NothingSurvivesSuppression' /\ HalvesOfOnePacket'
      BY <1>3, HalvesAreKept DEF IInv, vars, poseVars, NothingSurvivesSuppression
    <2> QED BY <2>1, <2>2 DEF IInv
  <1> QED BY <1>1, <1>2, <1>3 DEF Next

\* Every reachable state of the feed satisfies the invariant.
THEOREM Invariance == Spec => []IInv
  <1> QED BY InitIInv, NextIInv, PTL DEF Spec

\* Every reachable state is well typed.
THEOREM TypeCorrect == Spec => []TypeOK
  <1>1. IInv => TypeOK
    BY DEF IInv
  <1> QED BY <1>1, Invariance, PTL

\* However many presses fall between two frames, none is lost (CycleMode).
THEOREM PressesAreNotLost == Spec => []NoPressLost
  <1>1. IInv => NoPressLost
    BY DEF IInv
  <1> QED BY <1>1, Invariance, PTL

\* The session is only ever advanced by the one frame that has passed.
THEOREM ClockIsPerFrame == Spec => []NeverChargedForAGap
  <1>1. IInv => NeverChargedForAGap
    BY DEF IInv, FrameInv, NeverChargedForAGap
  <1> QED BY <1>1, Invariance, PTL

\* No pose outlives a suppressed frame.
THEOREM SuppressionClears == Spec => []NothingSurvivesSuppression
  <1>1. IInv => NothingSurvivesSuppression
    BY DEF IInv
  <1> QED BY <1>1, Invariance, PTL

\* Rotation and position are never of two packets, nor of two modes (Update).
THEOREM HalvesAgree == Spec => []HalvesOfOnePacket
  <1>1. IInv => HalvesOfOnePacket
    BY DEF IInv
  <1> QED BY <1>1, Invariance, PTL

\* A gap with the gate open leaves the published pose where it stood.
THEOREM GapsHold == Spec => HoldsThroughGaps
  <1>1. IInv /\ [Next]_vars => [active' /\ active /\ ~receiving' => UNCHANGED poseVars]_vars
    <2> SUFFICES ASSUME IInv, Next, active', active, ~receiving'
                 PROVE  UNCHANGED poseVars
      BY DEF vars
    <2>1. CASE Outside
      BY <2>1 DEF Outside, PacketArrives, PacketsStop, GateChanges, Around, CycleMode
    <2>2. CASE ApplyMode \/ SessionDeclines
      BY <2>2 DEF ApplyMode, SessionDeclines
    <2>3. CASE Tick
      BY <2>3 DEF Tick
    <2>4. CASE Publish
      BY <2>4 DEF Publish, IInv, FrameInv
    <2> QED BY <2>1, <2>2, <2>3, <2>4 DEF Next, Update
  <1> QED BY <1>1, Invariance, PTL DEF Spec, HoldsThroughGaps
================================================================================
