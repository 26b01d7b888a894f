------------------------------ MODULE MemorySweep ------------------------------
(***************************************************************************)
(* One sweep of the process's memory for the engine's frame block:         *)
(* src/src/idtech/singleton_sweep.h, which FrameState's worker runs.       *)
(*                                                                         *)
(* The walk asks VirtualQuery for one region after another, copies a       *)
(* writable one out slice by slice into a staging buffer and offers the    *)
(* positions of the copy to a predicate.  Meanwhile the engine maps, frees *)
(* and writes memory; and the buffer is memory of the process itself.      *)
(*                                                                         *)
(* An address counts four bytes, the step between two positions offered.   *)
(* One sweep is modelled, from any memory: the next starts from another.   *)
(***************************************************************************)
EXTENDS Integers, FiniteSets

CONSTANTS
  Limit,         \* lpMaximumApplicationAddress, the minimum being 0
  Heaps,         \* the allocations a writable page can be of
  Layouts,       \* what the address space may look like
  Blocks,        \* where in it there may be what the predicate accepts, at first
  kSlice,        \* the size of a slice and of the staging buffer
  window,        \* how far a predicate reads
  None,          \* no object
  kChangeBound   \* changes the engine makes during the sweep

Addresses == 0 .. Limit - 1
Accesses == Heaps \cup {"free", "readonly"}

ASSUME SizesAssumption ==
  /\ Limit \in Nat /\ kChangeBound \in Nat
  /\ window \in Nat /\ kSlice \in Nat /\ 0 < window /\ window < kSlice
ASSUME LayoutsAssumption == Layouts \subseteq [Addresses -> Accesses] /\ Blocks \subseteq SUBSET Addresses
ASSUME HeapsAssumption == "free" \notin Heaps /\ "readonly" \notin Heaps
ASSUME NoneIsNoAddress == None \notin Int

VARIABLES
  layout,    \* what each address is of: VirtualQuery's regions are runs of it
  matches,   \* where the bytes are such that the predicate accepts them
  selfLow,   \* where the staging buffer is
  held,      \*   and where in it such bytes are, by offset
  pc,        \* where the sweep is
  address,   \* its locals: the address asked about next
  base,      \*   the region it is in
  size,      \*   and its size
  done,      \*   where in the region the next slice begins
  answer,    \* what it returned
  cutShort,  \* the flag it returned
  changes,   \* changes of the engine so far
  still      \* history: the matches nothing has happened to since the sweep began

memoryVars == <<layout, matches>>
sweepVars == <<selfLow, held, pc, address, base, size, done, answer, cutShort>>
vars == <<layout, matches, selfLow, held, pc, address, base, size, done, answer, cutShort,
          changes, still>>

--------------------------------------------------------------------------------
(* The address space, and what Windows says of it. *)

\* The region of an address: the run of equal pages around it.
RegionOf(a) == {x \in Addresses : \A y \in Addresses :
                  (x <= y /\ y <= a) \/ (a <= y /\ y <= x) => layout[y] = layout[a]}

\* VirtualQuery of an address: the region from there on, by the address after it.
RegionEnd(a) ==
  CHOOSE e \in a + 1 .. Limit :
    /\ \A y \in a .. e - 1 : layout[y] = layout[a]
    /\ e = Limit \/ layout[e] # layout[a]

\* ReadProcessMemory copies as far as the first page it may not read.
Copied(from, want) ==
  Cardinality({n \in 1 .. want : \A y \in from .. from + n - 1 : layout[y] # "free"})

selfHigh == selfLow + kSlice
Own == selfLow .. selfHigh - 1

\* The predicate accepts the bytes at an address: the engine's block, one that was
\* freed with nothing written over it, or, in the staging buffer, a copy of one.
Accepts(a) == a \in matches \/ (a \in Own /\ a - selfLow \in held)

--------------------------------------------------------------------------------
(* The sweep. *)

\* A block the walk owes an answer for: writable, not flush with the end of its region,
\* in a region the staging buffer is not in.
Owed(m) ==
  /\ layout[m] \in Heaps
  /\ m + window \in RegionOf(m)
  /\ RegionOf(m) \cap Own = {}

\* The buffer has been allocated, of an allocation of its own or out of a heap, and
\* zeroed.
Init ==
  /\ layout \in Layouts
  /\ matches \in Blocks /\ \A m \in matches : layout[m] # "free"
  /\ selfLow \in Addresses /\ selfHigh <= Limit
  /\ \E h \in Heaps : \A a \in Own : layout[a] = h
  /\ \A m \in matches : \A a \in Own : a < m \/ m + window <= a
  /\ held = {}
  /\ pc = "query" /\ address = 0
  /\ base = 0 /\ size = 0 /\ done = 0
  /\ answer = None /\ cutShort = FALSE
  /\ changes = 0
  /\ still = {m \in matches : Owed(m)}

\* Defect: a region is the sweep's own only if it begins in the buffer.
IsOwnIfItBeginsThere(next) == selfLow <= address /\ address < selfHigh

\* The region from address to next has some of the buffer in it.
IsOwn(next) == address < selfHigh /\ next > selfLow

\* Whether the walk goes into the region, or past it.
Scans(next) == /\ ~IsOwn(next)
               /\ layout[address] \in Heaps
               /\ next - address > window

Query ==
  /\ pc = "query" /\ address < Limit
  /\ LET next == RegionEnd(address)
     IN IF Scans(next)
          THEN /\ pc' = "slices"
               /\ base' = address /\ size' = next - address /\ done' = 0
               /\ UNCHANGED address
          ELSE /\ address' = next
               /\ UNCHANGED <<pc, base, size, done>>
  /\ UNCHANGED <<memoryVars, selfLow, held, answer, cutShort, changes, still>>

\* VirtualQuery refuses.
Refuse ==
  /\ pc = "query" /\ address < Limit
  /\ cutShort' = TRUE
  /\ pc' = "done"
  /\ UNCHANGED <<memoryVars, selfLow, held, address, base, size, done, answer, changes, still>>

\* Defect: slices do not overlap.
WholeSlice == kSlice

\* How far the next slice begins after this one.
Step == kSlice - window

\* A slice is copied, whatever prefix of it there is, and the copy is looked through.
ReadSlice ==
  /\ pc = "slices" /\ done + window < size
  /\ LET want == IF size - done > kSlice THEN kSlice ELSE size - done
         got == Copied(base + done, want)
         found == {i \in 0 .. got - window - 1 : Accepts(base + done + i)}
     IN /\ held' = {o \in 0 .. got - 1 : Accepts(base + done + o) /\ o + window <= got}
                     \cup {o \in held : o >= got}
        /\ IF found = {}
             THEN done' = done + Step /\ UNCHANGED <<pc, answer>>
             ELSE /\ answer' = base + done + (CHOOSE i \in found : \A j \in found : i <= j)
                  /\ pc' = "done"
                  /\ UNCHANGED done
  /\ UNCHANGED <<memoryVars, selfLow, address, base, size, cutShort, changes, still>>

LeaveRegion ==
  /\ pc = "slices" /\ done + window >= size
  /\ address' = base + size
  /\ pc' = "query"
  /\ UNCHANGED <<memoryVars, selfLow, held, base, size, done, answer, cutShort, changes, still>>

Miss ==
  /\ pc = "query" /\ address >= Limit
  /\ pc' = "done"
  /\ UNCHANGED <<memoryVars, selfLow, held, address, base, size, done, answer, cutShort,
                 changes, still>>

--------------------------------------------------------------------------------
(* The engine, on other threads. *)

EngineChanges ==
  /\ pc # "done" /\ changes < kChangeBound
  /\ changes' = changes + 1
  /\ UNCHANGED sweepVars

\* Memory is mapped, protected and freed, but for the buffer, which is the sweep's.
Remap(new) ==
  /\ EngineChanges
  /\ layout' = new /\ \A a \in Own : new[a] = layout[a]
  /\ matches' = {m \in matches : new[m] # "free"}
  /\ still' = {m \in still \cap matches' : new[m] = layout[m] /\ RegionOf(m)' = RegionOf(m)
                                             /\ \A x \in RegionOf(m) : new[x] = layout[x]}

\* A block is allocated, or the bytes of one come to be there.
Write(m) ==
  /\ EngineChanges
  /\ layout[m] # "free" /\ \A a \in Own : a < m \/ m + window <= a
  /\ matches' = matches \cup {m}
  /\ UNCHANGED <<layout, still>>

Overwrite(m) ==
  /\ EngineChanges
  /\ matches' = matches \ {m}
  /\ still' = still \ {m}
  /\ UNCHANGED layout

Sweep == Query \/ Refuse \/ ReadSlice \/ LeaveRegion \/ Miss
Engine == \/ \E l \in Layouts : Remap(l)
          \/ \E m \in Addresses : Write(m)
          \/ \E m \in matches : Overwrite(m)
Next == Sweep \/ Engine
Spec == Init /\ [][Next]_vars

--------------------------------------------------------------------------------
(* Properties. *)

\* Whatever else the engine does to the address space meanwhile, a block nothing
\* happens to is found, or one before it: no slice's edge and no region that comes or
\* goes hides it, unless VirtualQuery refused ("an object straddling a slice boundary
\* is still seen", "the address of the first it takes").
StillBlockIsFound ==
  pc = "done" /\ ~cutShort => \A m \in still : answer # None /\ answer <= m

\* What is found is never one of the sweep's own copies, in memory that is freed when
\* the sweep returns (the comment on the staging buffer).
AnswerIsNotACopy == answer # None => answer \notin Own
================================================================================
