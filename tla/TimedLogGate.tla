------------------------------ MODULE TimedLogGate -----------------------------
(***************************************************************************)
(* The log gate of the interface hooks: TimedLogGate of                    *)
(* src/src/log_throttle.h.  The hooks run on whichever thread the engine   *)
(* draws an element on, and ShouldLog has three steps a thread can be held *)
(* up between: the clock, the load and the compare-exchange.               *)
(***************************************************************************)
EXTENDS Naturals, Sequences

CONSTANTS
  Threads,      \* the threads that draw the interface
  m_intervalMs,
  kTickRange,   \* how many values a tick count has, 2^64 in the code
  kUptime,      \* what the clock says when the mod starts
  kClockBound   \* bound: where the clock is stopped

VARIABLES
  clock,     \* GetTickCount64, in its own resolution
  m_lastMs,
  pc,        \* where each thread is in ShouldLog
  now,       \* its locals
  previous,
  lines      \* history: the time on each line written, in the order they were allowed

vars == <<clock, m_lastMs, pc, now, previous, lines>>

Init ==
  /\ clock = kUptime
  /\ m_lastMs = 0
  /\ pc = [t \in Threads |-> "idle"]
  /\ now = [t \in Threads |-> 0] /\ previous = [t \in Threads |-> 0]
  /\ lines = <<>>

\* The clock is far from the end of its range.
Tick ==
  /\ clock < kClockBound
  /\ clock' = clock + 1
  /\ UNCHANGED <<m_lastMs, pc, now, previous, lines>>

ReadClock(t) ==
  /\ pc[t] = "idle"
  /\ now' = [now EXCEPT ![t] = clock]
  /\ pc' = [pc EXCEPT ![t] = "load"]
  /\ UNCHANGED <<clock, m_lastMs, previous, lines>>

LoadLast(t) ==
  /\ pc[t] = "load"
  /\ previous' = [previous EXCEPT ![t] = m_lastMs]
  /\ pc' = [pc EXCEPT ![t] = "exchange"]
  /\ UNCHANGED <<clock, m_lastMs, now, lines>>

\* The difference is of two unsigned numbers.
Elapsed(t) == (now[t] - previous[t] + kTickRange) % kTickRange

\* The interval test and, if it passes, the compare-exchange: true is a line.
Exchange(t) ==
  /\ pc[t] = "exchange"
  /\ pc' = [pc EXCEPT ![t] = "idle"]
  /\ IF Elapsed(t) >= m_intervalMs /\ m_lastMs = previous[t]
       THEN m_lastMs' = now[t] /\ lines' = Append(lines, now[t])
       ELSE UNCHANGED <<m_lastMs, lines>>
  /\ UNCHANGED <<clock, now, previous>>

Next == Tick \/ \E t \in Threads : ReadClock(t) \/ LoadLast(t) \/ Exchange(t)
Spec == Init /\ [][Next]_vars

\* The gate is true at most once per interval, whichever threads call it (the comments
\* on TimedLogGate and ShouldLog).
OncePerInterval ==
  \A i, j \in DOMAIN lines : i < j => lines[j] >= lines[i] + m_intervalMs

\* What the compare-exchange does give: a line is an interval later than the one before
\* it, unless its thread read the clock before the thread of that line did.
LaterLinesAreApart ==
  \A i \in DOMAIN lines : i + 1 \in DOMAIN lines =>
    lines[i + 1] < lines[i] \/ lines[i + 1] >= lines[i] + m_intervalMs
================================================================================
