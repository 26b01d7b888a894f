------------------------------- MODULE FrameState ------------------------------
(***************************************************************************)
(* Whether the player is in control: src/src/game_state.cpp over the       *)
(* resolver of src/src/idtech/resolver_thread.h, and the verdict line of   *)
(* HeadTrackingMod::LogVerdictChange.                                      *)
(*                                                                         *)
(* A worker thread sweeps memory for the engine's frame block while        *)
(* nothing is published; the render thread reads the published block every *)
(* frame through guarded loads and clears the pointer when they fault; the *)
(* engine frees the block and allocates another whenever it likes.  Memory *)
(* is a row of places a block can be at, in the order of the sweep, and    *)
(* VirtualQuery may refuse to answer at one of them, once or for good.     *)
(***************************************************************************)
EXTENDS Naturals, FiniteSets

CONSTANTS
  Places,    \* bound: how many places the sweep visits
  None       \* a null pointer, nothing logged, no address

Addresses == 1 .. Places

ASSUME PlacesAssumption == Places \in Nat
ASSUME NoneAssumption == None \notin Nat \cup STRING

\* What a freed block's memory becomes: it faults, or is given to somebody else.
Freed == {"unmapped", "recycled"}

VARIABLES
  memory,      \* what is at each address: "frame" for the engine's block
  refusedAt,   \* the address VirtualQuery refuses at, if any
  loading,     \* the engine's isLoading
  advance,     \* the engine's advanceTime
  enabled,     \* m_enabled
  object,      \* m_object of the resolver
  worker,      \* where the worker is
  cursor,      \* the address its sweep is at, then the one it found
  pc,          \* where the render thread is in UpdateForFrame
  parms,       \* IsGameplay's local
  sawLoading,  \* IsGameplay's local
  reason,      \* m_reason
  stateKnown,  \* m_stateKnown
  lastReason,  \* m_lastReason
  lastState,   \* m_lastStateReason
  seen,        \* m_seenStateReasons
  lastLine,    \* history: what the last [state] line of the log says
  churnLines,  \* history: lines logged for each resolver reason, 2 meaning more
  loadingAll,  \* history: the engine has been loading since this frame began
  reused       \* history: a freed block's memory has stayed readable

engineVars == <<memory, loading, advance, refusedAt>>
workerVars == <<worker, cursor>>
frameVars == <<parms, sawLoading, reason>>
logVars == <<stateKnown, lastReason, lastState, seen, lastLine, churnLines>>
vars == <<memory, loading, advance, refusedAt, enabled, object, worker, cursor, pc, parms,
          sawLoading, reason, stateKnown, lastReason, lastState, seen, lastLine,
          churnLines, loadingAll, reused>>

Churn == {"locating", "unreadable"}
StateReasons == Churn \cup {"loading", "paused", "gameplay"}
GateReasons == {"Gameplay", "NotGameplay", "Disabled"}
kMaxSeenStateReasons == 4

TypeOK ==
  /\ memory \in [Addresses -> Freed \cup {"frame"}]
  /\ loading \in BOOLEAN /\ advance \in BOOLEAN /\ enabled \in BOOLEAN
  /\ refusedAt \in Addresses \cup {None}
  /\ object \in Addresses \cup {None}
  /\ worker \in {"asleep", "sweep", "store"}
  /\ cursor \in Addresses \cup {Places + 1}
  /\ pc \in {"idle", "loading", "advance", "clear", "log"}
  /\ parms \in Addresses \cup {None}
  /\ sawLoading \in BOOLEAN
  /\ reason \in StateReasons
  /\ stateKnown \in BOOLEAN
  /\ lastReason \in GateReasons /\ lastState \in StateReasons
  /\ seen \subseteq Churn
  /\ lastLine \in StateReasons \cup {"off", None}
  /\ churnLines \in [Churn -> 0 .. 2]
  /\ loadingAll \in BOOLEAN /\ reused \in BOOLEAN

Init ==
  /\ memory \in [Addresses -> Freed \cup {"frame"}]
  /\ Cardinality({a \in Addresses : memory[a] = "frame"}) <= 1
  /\ loading \in BOOLEAN /\ advance \in BOOLEAN /\ enabled \in BOOLEAN
  /\ refusedAt \in Addresses \cup {None}
  /\ object = None
  /\ worker = "asleep" /\ cursor = 1
  /\ pc = "idle" /\ parms = None /\ sawLoading = FALSE /\ reason = "locating"
  /\ stateKnown = FALSE /\ lastReason = "Gameplay" /\ lastState = "locating"
  /\ seen = {} /\ lastLine = None /\ churnLines = [r \in Churn |-> 0]
  /\ loadingAll = FALSE
  /\ reused = FALSE

--------------------------------------------------------------------------------
(* The engine, the system's VirtualQuery, and the player's toggle. *)

Around == UNCHANGED <<object, workerVars, pc, frameVars, logVars>>

FreeBlock(a) ==
  /\ memory[a] = "frame"
  /\ \E f \in Freed : /\ memory' = [memory EXCEPT ![a] = f]
                      /\ reused' = (reused \/ f = "recycled")
  /\ UNCHANGED <<loading, advance, refusedAt, enabled, loadingAll>>
  /\ Around

AllocateBlock(a) ==
  /\ \A b \in Addresses : memory[b] # "frame"
  /\ memory' = [memory EXCEPT ![a] = "frame"]
  /\ UNCHANGED <<loading, advance, refusedAt, enabled, loadingAll, reused>>
  /\ Around

SetFlags ==
  /\ \E l \in BOOLEAN, a \in BOOLEAN : loading' = l /\ advance' = a
  /\ loadingAll' = (loadingAll /\ loading')
  /\ UNCHANGED <<memory, refusedAt, enabled, reused>>
  /\ Around

\* A refusal may pass, or stand for the rest of the session.
RefusalChanges(r) ==
  /\ refusedAt' = r
  /\ UNCHANGED <<memory, loading, advance, enabled, loadingAll, reused>>
  /\ Around

ToggleEnabled ==
  /\ enabled' = ~enabled
  /\ UNCHANGED <<engineVars, loadingAll, reused>>
  /\ Around

--------------------------------------------------------------------------------
(* The resolver's worker: it looks, sweeps address by address, and stores. *)

WorkerOnly == UNCHANGED <<engineVars, enabled, pc, frameVars, logVars, loadingAll, reused>>

\* Defect: the worker sweeps whatever is published.
WakeWhatever ==
  /\ worker = "asleep"
  /\ worker' = "sweep"
  /\ cursor' = 1
  /\ UNCHANGED object
  /\ WorkerOnly

Wake ==
  /\ worker = "asleep"
  /\ object = None
  /\ worker' = "sweep"
  /\ cursor' = 1
  /\ UNCHANGED object
  /\ WorkerOnly

\* The predicate the sweep stops at, taken to know the engine's block from any other
\* memory.
LooksLikeFrameParms(a) == memory[a] = "frame"

\* Defect: a sweep that has come to the end stores where it stopped.
ProbeStoresTheEnd ==
  /\ worker = "sweep" /\ cursor # refusedAt
  /\ IF cursor > Places \/ LooksLikeFrameParms(cursor)
       THEN worker' = "store" /\ UNCHANGED cursor
       ELSE cursor' = cursor + 1 /\ UNCHANGED worker
  /\ UNCHANGED object
  /\ WorkerOnly

Probe ==
  /\ worker = "sweep" /\ cursor # refusedAt
  /\ IF cursor > Places THEN worker' = "asleep" /\ UNCHANGED cursor
     ELSE IF LooksLikeFrameParms(cursor) THEN worker' = "store" /\ UNCHANGED cursor
     ELSE cursor' = cursor + 1 /\ UNCHANGED worker
  /\ UNCHANGED object
  /\ WorkerOnly

\* VirtualQuery refuses: the sweep answers nullptr having covered a prefix, and the
\* next one starts from the beginning again.
CutShort ==
  /\ worker = "sweep" /\ cursor = refusedAt
  /\ worker' = "asleep"
  /\ UNCHANGED <<object, cursor>>
  /\ WorkerOnly

Store ==
  /\ worker = "store"
  /\ object' = cursor
  /\ worker' = "asleep"
  /\ UNCHANGED cursor
  /\ WorkerOnly

--------------------------------------------------------------------------------
(* The render thread: IsGameplay, one shared access a step, then the line. *)

FrameOnly == UNCHANGED <<engineVars, enabled, workerVars, logVars, reused>>

Load ==
  /\ pc = "idle"
  /\ parms' = object
  /\ loadingAll' = loading
  /\ IF object = None
       THEN pc' = "log" /\ reason' = "locating"
       ELSE pc' = "loading" /\ UNCHANGED reason
  /\ UNCHANGED <<object, sawLoading>>
  /\ FrameOnly

\* SafeRead of a byte of the block: the engine's own while the block is live,
\* whatever the allocator left there once it is recycled.
Answers(flag) == IF memory[parms] = "frame" THEN {flag} ELSE BOOLEAN

ReadLoading ==
  /\ pc = "loading"
  /\ memory[parms] # "unmapped"
  /\ sawLoading' \in Answers(loading)
  /\ pc' = "advance"
  /\ UNCHANGED <<object, parms, reason, loadingAll>>
  /\ FrameOnly

\* Defect: the loading byte is read and then not looked at.
ReadAdvanceAlone ==
  /\ pc = "advance"
  /\ memory[parms] # "unmapped"
  /\ \E a \in Answers(advance) : reason' = IF ~a THEN "paused" ELSE "gameplay"
  /\ pc' = "log"
  /\ UNCHANGED <<object, parms, sawLoading, loadingAll>>
  /\ FrameOnly

ReadAdvance ==
  /\ pc = "advance"
  /\ memory[parms] # "unmapped"
  /\ \E a \in Answers(advance) :
       reason' = IF sawLoading THEN "loading" ELSE IF ~a THEN "paused" ELSE "gameplay"
  /\ pc' = "log"
  /\ UNCHANGED <<object, parms, sawLoading, loadingAll>>
  /\ FrameOnly

ReadFaults ==
  /\ pc \in {"loading", "advance"}
  /\ memory[parms] = "unmapped"
  /\ pc' = "clear"
  /\ UNCHANGED <<object, parms, sawLoading, reason, loadingAll>>
  /\ FrameOnly

\* Defect: the fault is answered and the pointer kept.
ClearKeepsThePointer ==
  /\ pc = "clear"
  /\ reason' = "unreadable"
  /\ pc' = "log"
  /\ UNCHANGED <<object, parms, sawLoading, loadingAll>>
  /\ FrameOnly

\* A plain store of nullptr, with no look at what is there.
Clear ==
  /\ pc = "clear"
  /\ object' = None
  /\ reason' = "unreadable"
  /\ pc' = "log"
  /\ UNCHANGED <<parms, sawLoading, loadingAll>>
  /\ FrameOnly

\* EvaluateGate on what IsGameplay answered and on one load of m_enabled.
Verdict == IF reason # "gameplay" THEN "NotGameplay"
           ELSE IF ~enabled THEN "Disabled" ELSE "Gameplay"

LineOf(verdict, state) == IF verdict = "NotGameplay" THEN state
                          ELSE IF verdict = "Disabled" THEN "off" ELSE "gameplay"

Unchanged(verdict) == stateKnown /\ verdict = lastReason /\ reason = lastState

\* Defects: no latch at all; a line only where the gate's own verdict changes.
LatchedNever(state) == FALSE
LatchedByVerdict(state) == stateKnown /\ Verdict = lastReason

\* A resolver reason that has had its line.
Latched(state) == state \in Churn /\ state \in seen

\* The two resolver reasons are logged once each, every other on every change.
LogVerdictChange ==
  /\ pc = "log"
  /\ pc' = "idle"
  /\ IF Unchanged(Verdict) THEN UNCHANGED logVars
     ELSE /\ stateKnown' = TRUE
          /\ lastReason' = Verdict
          /\ lastState' = reason
          /\ IF Latched(reason)
               THEN UNCHANGED <<seen, lastLine, churnLines>>
               ELSE /\ lastLine' = LineOf(Verdict, reason)
                    /\ IF reason \in Churn
                         THEN /\ seen' = IF Cardinality(seen) < kMaxSeenStateReasons
                                           THEN seen \cup {reason} ELSE seen
                              /\ churnLines' = [churnLines EXCEPT ![reason] =
                                                  IF @ < 2 THEN @ + 1 ELSE @]
                         ELSE UNCHANGED <<seen, churnLines>>
  /\ UNCHANGED <<engineVars, enabled, object, workerVars, frameVars, loadingAll, reused>>

--------------------------------------------------------------------------------
Engine ==
  \/ \E a \in Addresses : FreeBlock(a) \/ AllocateBlock(a)
  \/ \E r \in Addresses \cup {None} : RefusalChanges(r)
  \/ SetFlags
  \/ ToggleEnabled
Worker == Wake \/ Probe \/ CutShort \/ Store
Frame == Load \/ ReadLoading \/ ReadAdvance \/ ReadFaults \/ Clear \/ LogVerdictChange
Next == Engine \/ Worker \/ Frame

Spec == Init /\ [][Next]_vars

\* The worker loops for ever and the game goes on rendering.
FairSpec == Spec /\ WF_vars(Worker) /\ WF_vars(Frame)

--------------------------------------------------------------------------------
(* Properties. *)

\* The published pointer only ever goes from nothing to a block the worker found,
\* or from the block this frame read to nothing: neither a store nor a Clear in
\* flight can lose a block the other thread has just published.
NoPublishIsLost ==
  [][object' # object => object = None \/ (object' = None /\ object = parms)]_vars

\* However often the frame block goes and comes back, each of the two reasons the
\* resolver alternates between is logged once (LogVerdictChange).
ChurnIsLoggedOnce == \A r \in Churn : churnLines[r] <= 1

\* Whenever a frame has ended in anything but those two, the last line of the log
\* says what that frame decided: a suspended line is never the last word once
\* tracking has resumed.
LastLineIsCurrent ==
  pc = "idle" /\ stateKnown /\ lastState \notin Churn =>
    lastLine = LineOf(lastReason, lastState)

\* As long as freed blocks have faulted when read, a frame through which the engine
\* was loading is never taken for gameplay, whatever pointer it started on and
\* whatever becomes of the block, freed or freed and replaced, between its two reads.
LoadingSuppresses ==
  ~reused /\ pc = "log" /\ loadingAll => reason # "gameplay"

\* VirtualQuery answers at every address up to a.
AnswersUpTo(a) == refusedAt = None \/ refusedAt > a

\* As long as freed blocks fault, the resolver comes back to the engine's block once
\* it stays put where the sweep can get to it: no stale pointer is kept for ever.  A
\* block at a standing refusal or beyond it is never found, and the gate says "still
\* locating" for the rest of the session (GameState's constructor).
ComesBackToTheBlock ==
  []~reused =>
    \A a \in Addresses : <>[](memory[a] = "frame" /\ AnswersUpTo(a)) => <>[](object = a)
================================================================================
