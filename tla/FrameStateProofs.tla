---------------------------- MODULE FrameStateProofs ---------------------------
(***************************************************************************)
(* Proofs about FrameState, for any number of places and whatever refusals *)
(* cut the sweeps short.  PointerInv is the heart of it: a worker that     *)
(* sweeps or stores has nothing to overwrite, and a frame that reads has   *)
(* what it reads still published, so neither can undo the other.           *)
(***************************************************************************)
EXTENDS FrameState, FiniteSetTheorems, TLAPS

Reading == {"loading", "advance", "clear"}

PointerInv ==
  /\ worker \in {"sweep", "store"} => object = None
  /\ worker = "store" => cursor \in Addresses
  /\ pc \in Reading => object = parms /\ parms \in Addresses

LogInv ==
  /\ stateKnown /\ lastState \notin Churn => lastLine = LineOf(lastReason, lastState)
  /\ \A r \in Churn : churnLines[r] = IF r \in seen THEN 1 ELSE 0

\* While freed blocks fault, what is published is the block or faults.
FaultInv ==
  ~reused =>
    /\ object # None => memory[object] # "recycled"
    /\ worker = "store" => memory[cursor] # "recycled"

LoadingInv ==
  /\ loadingAll => loading
  /\ ~reused /\ pc = "advance" /\ loadingAll => sawLoading
  /\ ~reused /\ pc = "log" /\ loadingAll => reason # "gameplay"

IInv == TypeOK /\ PointerInv /\ LogInv /\ FaultInv /\ LoadingInv

USE PlacesAssumption, NoneAssumption DEF Addresses

\* The bound on the reasons seen is never reached: there are only two to see.
LEMMA SeenFits == ASSUME NEW S \in SUBSET Churn PROVE Cardinality(S) < kMaxSeenStateReasons
  <1>1. IsFiniteSet({}) /\ Cardinality({}) = 0
    BY FS_EmptySet
  <1>2. /\ IsFiniteSet({"locating"})
        /\ Cardinality({"locating"}) = 1
    BY FS_Singleton
  <1>3. /\ IsFiniteSet({"locating"} \cup {"unreadable"})
        /\ Cardinality({"locating"} \cup {"unreadable"}) = 2
    BY <1>2, FS_AddElement
  <1>4. Churn = {"locating"} \cup {"unreadable"}
    BY DEF Churn
  <1>5. /\ IsFiniteSet(S)
        /\ Cardinality(S) <= 2
    BY <1>3, <1>4, FS_Subset
  <1>6. Cardinality(S) \in Nat
    BY <1>5, FS_CardinalityType
  <1> QED BY <1>5, <1>6 DEF kMaxSeenStateReasons

\* Nothing published, nothing logged, nothing freed.
LEMMA InitIInv == Init => IInv
  <1> SUFFICES ASSUME Init PROVE IInv
    OBVIOUS
  <1>1. TypeOK
    <2>1. 1 \in Addresses \cup {Places + 1}
      OBVIOUS
    <2>2. [r \in Churn |-> 0] \in [Churn -> 0 .. 2]
      OBVIOUS
    <2> QED BY <2>1, <2>2 DEF Init, TypeOK, Freed, Churn, StateReasons, GateReasons
  <1>2. PointerInv /\ FaultInv /\ LoadingInv
    BY DEF Init, PointerInv, FaultInv, LoadingInv, Reading
  <1>3. LogInv
    BY DEF Init, LogInv
  <1> QED BY <1>1, <1>2, <1>3 DEF IInv

\* The engine frees, allocates and sets its flags around a frame and a sweep.
LEMMA EngineStep == ASSUME IInv, Engine PROVE IInv'
  <1> USE DEF IInv, Around, workerVars, frameVars, logVars, engineVars
  <1>1. UNCHANGED <<object, workerVars, pc, frameVars, logVars>>
    BY DEF Engine, FreeBlock, AllocateBlock, SetFlags, RefusalChanges, ToggleEnabled
  <1>2. /\ memory' \in [Addresses -> Freed \cup {"frame"}]
        /\ loading' \in BOOLEAN /\ advance' \in BOOLEAN /\ enabled' \in BOOLEAN
        /\ refusedAt' \in Addresses \cup {None}
        /\ loadingAll' \in BOOLEAN /\ reused' \in BOOLEAN
    BY DEF Engine, FreeBlock, AllocateBlock, SetFlags, RefusalChanges, ToggleEnabled, TypeOK, Freed
  <1>3. ~reused' => /\ ~reused
                    /\ \A b \in Addresses : memory'[b] = "recycled" => memory[b] = "recycled"
    BY DEF Engine, FreeBlock, AllocateBlock, SetFlags, RefusalChanges, ToggleEnabled, TypeOK, Freed
  <1>4. /\ loadingAll' => loadingAll /\ loading'
        /\ UNCHANGED <<pc, sawLoading, reason>>
    BY <1>1 DEF Engine, FreeBlock, AllocateBlock, SetFlags, RefusalChanges, ToggleEnabled, LoadingInv, TypeOK
  <1>5. TypeOK'
    BY <1>1, <1>2 DEF TypeOK
  <1>6. PointerInv' /\ LogInv'
    BY <1>1 DEF PointerInv, LogInv
  <1>7. FaultInv'
    BY <1>1, <1>3 DEF FaultInv, TypeOK, PointerInv
  <1>8. LoadingInv'
    BY <1>3, <1>4 DEF LoadingInv
  <1> QED BY <1>5, <1>6, <1>7, <1>8

\* The worker stores only what it has just probed, and only over nothing.
LEMMA WorkerStep == ASSUME IInv, Worker PROVE IInv'
  <1> USE DEF IInv, WorkerOnly, frameVars, logVars, engineVars
  <1>1. UNCHANGED <<engineVars, enabled, pc, frameVars, logVars, loadingAll, reused>>
    BY DEF Worker, Wake, Probe, LooksLikeFrameParms, CutShort, Store
  <1>2. LogInv' /\ LoadingInv'
    BY <1>1 DEF LogInv, LoadingInv
  <1>3. CASE Wake
    <2>1. TypeOK'
      <3>1. cursor' \in Addresses \cup {Places + 1}
        BY <1>3 DEF Wake
      <3> QED BY <1>1, <1>3, <3>1 DEF TypeOK, Wake
    <2>2. PointerInv' /\ FaultInv'
      BY <1>1, <1>3 DEF Wake, PointerInv, FaultInv
    <2> QED BY <1>2, <2>1, <2>2
  <1>4. CASE Probe
    <2>1. /\ UNCHANGED object
          /\ worker = "sweep" /\ worker' \in {"asleep", "store", "sweep"}
          /\ worker' = "store" => /\ cursor' = cursor /\ cursor \in Addresses
                                  /\ memory[cursor] = "frame"
          /\ cursor' \in Addresses \cup {Places + 1}
      BY <1>4 DEF Probe, LooksLikeFrameParms, TypeOK
    <2>2. TypeOK'
      BY <1>1, <2>1 DEF TypeOK
    <2>3. PointerInv' /\ FaultInv'
      BY <1>1, <2>1 DEF PointerInv, FaultInv
    <2> QED BY <1>2, <2>2, <2>3
  <1>5. CASE CutShort
    <2>1. TypeOK' /\ PointerInv' /\ FaultInv'
      BY <1>1, <1>5 DEF CutShort, TypeOK, PointerInv, FaultInv
    <2> QED BY <1>2, <2>1
  <1>6. CASE Store
    <2>1. object = None /\ cursor \in Addresses /\ pc \notin Reading
      BY <1>6 DEF Store, PointerInv
    <2>2. TypeOK'
      BY <1>1, <1>6, <2>1 DEF Store, TypeOK
    <2>3. PointerInv' /\ FaultInv'
      BY <1>1, <1>6, <2>1 DEF Store, PointerInv, FaultInv
    <2> QED BY <1>2, <2>2, <2>3
  <1> QED BY <1>3, <1>4, <1>5, <1>6 DEF Worker

\* A frame's reads: it holds on to the pointer it loaded, which stays published.
LEMMA ReadStep ==
  ASSUME IInv, Load \/ ReadLoading \/ ReadAdvance \/ ReadFaults \/ Clear
  PROVE  IInv'
  <1> USE DEF IInv, FrameOnly, engineVars, workerVars, logVars
  <1>1. /\ UNCHANGED <<engineVars, enabled, workerVars, logVars, reused>>
        /\ object' \in {object, None}
    BY DEF Load, ReadLoading, ReadAdvance, ReadFaults, Clear
  <1>2. LogInv' /\ FaultInv'
    BY <1>1 DEF LogInv, FaultInv
  <1>3. CASE Load
    <2>1. TypeOK'
      <3>1. loadingAll' \in BOOLEAN /\ pc' \in {"log", "loading"} /\ reason' \in StateReasons
        BY <1>3 DEF Load, TypeOK, StateReasons, Churn
      <3> QED BY <1>1, <1>3, <3>1 DEF Load, TypeOK
    <2>2. PointerInv'
      BY <1>1, <1>3 DEF Load, PointerInv, Reading, TypeOK
    <2>3. LoadingInv'
      BY <1>1, <1>3 DEF Load, LoadingInv, TypeOK
    <2> QED BY <1>2, <2>1, <2>2, <2>3
  <1>4. CASE ReadLoading
    <2>1. object = parms /\ parms \in Addresses /\ UNCHANGED <<object, parms, reason, loadingAll>>
      BY <1>4 DEF ReadLoading, PointerInv, Reading
    <2>2. ~reused => sawLoading' = loading
      <3> SUFFICES ASSUME ~reused PROVE sawLoading' = loading
        OBVIOUS
      <3>1. memory[parms] = "frame"
        BY <1>4, <2>1 DEF ReadLoading, FaultInv, TypeOK, Freed
      <3> QED BY <1>4, <3>1 DEF ReadLoading, Answers
    <2>3. sawLoading' \in BOOLEAN
      BY <1>4 DEF ReadLoading, Answers, TypeOK
    <2>4. TypeOK'
      BY <1>1, <1>4, <2>1, <2>3 DEF ReadLoading, TypeOK
    <2>5. PointerInv'
      BY <1>1, <1>4, <2>1 DEF ReadLoading, PointerInv, Reading
    <2>6. LoadingInv'
      BY <1>1, <1>4, <2>1, <2>2 DEF ReadLoading, LoadingInv
    <2> QED BY <1>2, <2>4, <2>5, <2>6
  <1>5. CASE ReadAdvance
    <2>1. /\ reason' \in StateReasons
          /\ sawLoading => reason' = "loading"
      BY <1>5 DEF ReadAdvance, StateReasons, Churn
    <2>2. TypeOK'
      BY <1>1, <1>5, <2>1 DEF ReadAdvance, TypeOK
    <2>3. PointerInv'
      BY <1>1, <1>5 DEF ReadAdvance, PointerInv, Reading
    <2>4. LoadingInv'
      BY <1>1, <1>5, <2>1 DEF ReadAdvance, LoadingInv
    <2> QED BY <1>2, <2>2, <2>3, <2>4
  <1>6. CASE ReadFaults
    <2>1. TypeOK'
      BY <1>1, <1>6 DEF ReadFaults, TypeOK
    <2>2. PointerInv'
      BY <1>1, <1>6 DEF ReadFaults, PointerInv, Reading
    <2>3. LoadingInv'
      BY <1>1, <1>6 DEF ReadFaults, LoadingInv
    <2> QED BY <1>2, <2>1, <2>2, <2>3
  <1>7. CASE Clear
    <2>1. TypeOK'
      BY <1>1, <1>7 DEF Clear, TypeOK, StateReasons, Churn
    <2>2. PointerInv'
      BY <1>1, <1>7 DEF Clear, PointerInv, Reading
    <2>3. LoadingInv'
      BY <1>1, <1>7 DEF Clear, LoadingInv
    <2> QED BY <1>2, <2>1, <2>2, <2>3
  <1> QED BY <1>3, <1>4, <1>5, <1>6, <1>7

\* The line of a frame: a resolver reason is logged exactly when it is first seen.
LEMMA LogStep == ASSUME IInv, LogVerdictChange PROVE IInv'
  <1> USE DEF IInv, LogVerdictChange
  <1>1. UNCHANGED <<engineVars, enabled, object, workerVars, frameVars, loadingAll, reused>>
        /\ pc = "log" /\ pc' = "idle"
    OBVIOUS
  <1>2. PointerInv' /\ FaultInv' /\ LoadingInv'
    BY <1>1 DEF PointerInv, FaultInv, LoadingInv, Reading, engineVars, workerVars, frameVars
  <1>3. Verdict \in GateReasons
    BY DEF Verdict, GateReasons
  <1>4. CASE Unchanged(Verdict)
    BY <1>1, <1>2, <1>4
       DEF TypeOK, LogInv, logVars, engineVars, workerVars, frameVars
  <1>5. CASE ~Unchanged(Verdict) /\ Latched(reason)
    <2>1. /\ stateKnown' = TRUE /\ lastReason' = Verdict /\ lastState' = reason
          /\ UNCHANGED <<seen, lastLine, churnLines>> /\ reason \in Churn
      BY <1>5 DEF Latched
    <2>2. TypeOK'
      BY <1>1, <1>3, <2>1 DEF TypeOK, engineVars, workerVars, frameVars
    <2>3. LogInv'
      BY <2>1 DEF LogInv
    <2> QED BY <1>2, <2>2, <2>3
  <1>6. CASE ~Unchanged(Verdict) /\ ~Latched(reason)
    <2>1. /\ stateKnown' = TRUE /\ lastReason' = Verdict /\ lastState' = reason
          /\ lastLine' = LineOf(Verdict, reason)
      BY <1>6
    <2>2. /\ seen' = IF reason \in Churn THEN seen \cup {reason} ELSE seen
          /\ reason \in Churn => reason \notin seen
      <3>1. seen \in SUBSET Churn
        BY DEF TypeOK
      <3>2. Cardinality(seen) < kMaxSeenStateReasons
        BY <3>1, SeenFits
      <3> QED BY <1>6, <3>2 DEF Latched
    <2>3. churnLines' = IF reason \in Churn THEN [churnLines EXCEPT ![reason] = 1] ELSE churnLines
      <3>1. CASE reason \in Churn
        <4>1. churnLines[reason] = 0
          BY <3>1, <2>2 DEF LogInv
        <4> QED BY <1>6, <3>1, <4>1
      <3>2. CASE reason \notin Churn
        BY <1>6, <3>2
      <3> QED BY <3>1, <3>2
    <2>4. TypeOK'
      <3>1. seen' \subseteq Churn /\ churnLines' \in [Churn -> 0 .. 2]
        BY <2>2, <2>3 DEF TypeOK
      <3>2. lastLine' \in StateReasons \cup {"off", None}
        BY <2>1 DEF LineOf, TypeOK, StateReasons
      <3> QED BY <1>1, <1>3, <2>1, <3>1, <3>2 DEF TypeOK, engineVars, workerVars, frameVars
    <2>5. LogInv'
      BY <2>1, <2>2, <2>3 DEF LogInv, TypeOK
    <2> QED BY <1>2, <2>4, <2>5
  <1> QED BY <1>4, <1>5, <1>6

\* The invariant is inductive.
LEMMA NextIInv == IInv /\ [Next]_vars => IInv'
  <1> SUFFICES ASSUME IInv, [Next]_vars PROVE IInv'
    OBVIOUS
  <1>1. CASE Engine \/ Worker
    BY <1>1, EngineStep, WorkerStep
  <1>2. CASE Frame
    BY <1>2, ReadStep, LogStep DEF Frame
  <1>3. CASE UNCHANGED vars
    BY <1>3 DEF IInv, vars, TypeOK, PointerInv, LogInv, FaultInv, LoadingInv
  <1> QED BY <1>1, <1>2, <1>3 DEF Next

\* Every reachable state satisfies the invariant.
THEOREM Invariance == Spec => []IInv
  <1> QED BY InitIInv, NextIInv, PTL DEF Spec

\* Every reachable state is well typed.
THEOREM TypeCorrect == Spec => []TypeOK
  <1>1. IInv => TypeOK
    BY DEF IInv
  <1> QED BY <1>1, Invariance, PTL

\* Each of the two resolver reasons has at most one line, however often the frame
\* block goes and comes back (LogVerdictChange).
THEOREM ChurnHasOneLine == Spec => []ChurnIsLoggedOnce
  <1>1. IInv => ChurnIsLoggedOnce
    BY DEF IInv, LogInv, ChurnIsLoggedOnce
  <1> QED BY <1>1, Invariance, PTL

\* The last line of the log is what the last frame decided (LogVerdictChange).
THEOREM LastLineStands == Spec => []LastLineIsCurrent
  <1>1. IInv => LastLineIsCurrent
    BY DEF IInv, LogInv, LastLineIsCurrent
  <1> QED BY <1>1, Invariance, PTL

\* While freed blocks fault, loading always suppresses (IsGameplay).
THEOREM LoadingAlwaysSuppresses == Spec => []LoadingSuppresses
  <1>1. IInv => LoadingSuppresses
    BY DEF IInv, LoadingInv, LoadingSuppresses
  <1> QED BY <1>1, Invariance, PTL

\* Neither the worker's store nor the frame's Clear loses what the other published
\* (ResolverThread::Worker and Clear).
THEOREM PublishesAreKept == Spec => NoPublishIsLost
  <1>1. IInv /\ [Next]_vars =>
          [object' # object => object = None \/ (object' = None /\ object = parms)]_vars
    <2> SUFFICES ASSUME IInv, Next, object' # object
                 PROVE  object = None \/ (object' = None /\ object = parms)
      BY DEF vars
    <2>1. CASE Engine
      BY <2>1 DEF Engine, FreeBlock, AllocateBlock, SetFlags, RefusalChanges, ToggleEnabled, Around
    <2>2. CASE Worker
      BY <2>2 DEF Worker, Wake, Probe, LooksLikeFrameParms, CutShort, Store, WorkerOnly, IInv, PointerInv
    <2>3. CASE Frame
      BY <2>3 DEF Frame, Load, ReadLoading, ReadAdvance, ReadFaults, Clear, LogVerdictChange,
                  FrameOnly, IInv, PointerInv, Reading
    <2> QED BY <2>1, <2>2, <2>3 DEF Next
  <1> QED BY <1>1, Invariance, PTL DEF Spec, NoPublishIsLost
================================================================================
