--------------------------- MODULE MemorySweepProofs ---------------------------
(***************************************************************************)
(* Proofs about MemorySweep, for any address space and slice.              *)
(*                                                                         *)
(* What the walk has passed by decides: while the region of a block that   *)
(* is owed an answer stays as it is, the walk either has it all ahead, or  *)
(* is inside exactly that region with the block not yet offered.           *)
(***************************************************************************)
EXTENDS MemorySweep, FiniteSetTheorems, WellFoundedInduction, TLAPS

SweepTypeOK ==
  /\ layout \in Layouts
  /\ matches \subseteq Addresses
  /\ selfLow \in Nat /\ selfHigh <= Limit
  /\ pc \in {"query", "slices", "done"}
  /\ address \in 0 .. Limit
  /\ base \in Nat /\ size \in Nat /\ done \in Nat
  /\ answer \in Addresses \cup {None}
  /\ pc # "done" => answer = None

\* Region m is ahead of address a.
Ahead(m, a) == \A x \in RegionOf(m) : a <= x

\* The walk is inside the region of m, which is the one it asked about.
Inside(m) == RegionOf(m) = base .. base + size - 1 /\ base + done <= m

Pending(m) ==
  /\ pc = "query" => Ahead(m, address)
  /\ pc = "slices" => Ahead(m, base + size) \/ Inside(m)

\* The region being sliced has none of the staging buffer in it.
Apart == pc = "slices" => base >= selfHigh \/ base + size <= selfLow

IInv ==
  /\ SweepTypeOK
  /\ pc = "slices" => base + size <= Limit
  /\ Apart
  /\ still \subseteq matches /\ \A m \in still : Owed(m) /\ Pending(m)
  /\ StillBlockIsFound
  /\ AnswerIsNotACopy

--------------------------------------------------------------------------------
(* The address space. *)

LEMMA FirstNumber ==
  ASSUME NEW S \in SUBSET Nat, S # {}
  PROVE  \E m \in S : \A j \in S : m <= j
  <1> DEFINE R == OpToRel(<, Nat)
  <1>1. IsWellFoundedOn(R, Nat)
    BY NatLessThanWellFounded
  <1>2. \A x, y \in Nat : y < x => <<y, x>> \in R
    BY DEF OpToRel, R
  <1> HIDE DEF R
  <1>3. PICK x \in S : \A y \in S : <<y, x>> \notin R
    BY <1>1, WFMin
  <1>4. \A j \in S : ~(j < x)
    BY <1>2, <1>3
  <1> QED BY <1>4

LEMMA Sizes ==
  /\ Limit \in Nat /\ window \in Nat /\ kSlice \in Nat /\ 0 < window /\ window < kSlice
  /\ Addresses \subseteq Nat
  BY SizesAssumption DEF Addresses

\* VirtualQuery answers with the rest of the run of equal addresses.
LEMMA RegionEndIs ==
  ASSUME NEW a \in Addresses
  PROVE  /\ RegionEnd(a) \in a + 1 .. Limit
         /\ \A y \in a .. RegionEnd(a) - 1 : layout[y] = layout[a]
         /\ RegionEnd(a) = Limit \/ layout[RegionEnd(a)] # layout[a]
  <1> DEFINE Ends(e) == e = Limit \/ layout[e] # layout[a]
             S == {e \in a + 1 .. Limit : Ends(e)}
             IsEnd(e) == (\A y \in a .. e - 1 : layout[y] = layout[a]) /\ Ends(e)
  <1>1. a \in Nat /\ Limit \in Nat /\ a < Limit
    BY Sizes DEF Addresses
  <1>2. S \in SUBSET Nat /\ Limit \in S
    BY <1>1
  <1>3. PICK e \in S : \A f \in S : e <= f
    BY <1>2, FirstNumber
  <1>4. \A y \in a + 1 .. e - 1 : layout[y] = layout[a]
    BY <1>1, <1>2, <1>3
  <1>5. IsEnd(e) /\ e \in a + 1 .. Limit
    BY <1>1, <1>2, <1>3, <1>4
  <1>6. RegionEnd(a) = CHOOSE f \in a + 1 .. Limit : IsEnd(f)
    BY DEF RegionEnd
  <1> HIDE DEF IsEnd
  <1>7. RegionEnd(a) \in a + 1 .. Limit /\ IsEnd(RegionEnd(a))
    BY <1>5, <1>6
  <1> QED BY <1>7 DEF IsEnd

\* Seen from an address of it a region is what is equal from there to the end.
LEMMA RegionAhead ==
  ASSUME NEW a \in Addresses, NEW m \in Addresses, Ahead(m, a)
  PROVE  IF a \in RegionOf(m) THEN RegionOf(m) = a .. RegionEnd(a) - 1
                              ELSE Ahead(m, RegionEnd(a))
  <1> DEFINE e == RegionEnd(a)
  <1>1. /\ a \in Nat /\ m \in Nat /\ Limit \in Nat /\ e \in a + 1 .. Limit
        /\ Addresses = 0 .. Limit - 1
    BY Sizes, RegionEndIs DEF Addresses
  <1>2. /\ \A y \in a .. e - 1 : layout[y] = layout[a]
        /\ e = Limit \/ layout[e] # layout[a]
    BY RegionEndIs
  <1> HIDE DEF e
  <1>3. \A x \in RegionOf(m) : /\ x \in Addresses /\ a <= x
                               /\ \A y \in Addresses : (x <= y /\ y <= m) \/ (m <= y /\ y <= x)
                                                         => layout[y] = layout[m]
    BY DEF Ahead, RegionOf
  <1>4. m \in RegionOf(m)
    BY <1>1 DEF RegionOf
  <1>5. a <= m
    BY <1>3, <1>4
  <1>6. CASE a \in RegionOf(m)
    <2>1. layout[a] = layout[m]
      BY <1>1, <1>3, <1>5, <1>6
    <2>2. \A y \in a .. m : layout[y] = layout[m]
      BY <1>1, <1>3, <1>6
    <2>3. m < e
      BY <1>1, <1>2, <1>5, <2>1, <2>2
    <2>4. ASSUME NEW x \in RegionOf(m) PROVE x \in a .. e - 1
      <3>1. x \in Nat /\ a <= x /\ x < Limit
        BY <1>1, <1>3
      <3>2. ~(e <= x)
        <4> SUFFICES ASSUME e <= x PROVE FALSE
          OBVIOUS
        <4>1. e \in Addresses /\ m <= e
          BY <1>1, <2>3, <3>1
        <4>2. layout[e] = layout[m]
          BY <1>3, <4>1
        <4> QED BY <1>1, <1>2, <2>1, <3>1, <4>2
      <3> QED BY <1>1, <3>1, <3>2
    <2>5. ASSUME NEW x \in a .. e - 1 PROVE x \in RegionOf(m)
      <3>1. x \in Addresses
        BY <1>1
      <3>2. \A y \in Addresses : (x <= y /\ y <= m) \/ (m <= y /\ y <= x) => y \in a .. e - 1
        BY <1>1, <1>5, <2>3
      <3> QED BY <1>2, <2>1, <3>1, <3>2 DEF RegionOf
    <2> QED BY <1>6, <2>4, <2>5 DEF e
  <1>7. CASE a \notin RegionOf(m)
    <2> SUFFICES ASSUME NEW x \in RegionOf(m), ~(e <= x) PROVE FALSE
      BY <1>7 DEF Ahead, e
    <2>1. x \in Nat /\ a <= x /\ x < e /\ layout[x] = layout[a]
      BY <1>1, <1>2, <1>3
    <2>2. layout[x] = layout[m]
      BY <1>1, <1>3, <2>1
    <2>3. \A y \in Addresses : a <= y /\ y <= m => layout[y] = layout[m]
      <3> SUFFICES ASSUME NEW y \in Addresses, a <= y, y <= m PROVE layout[y] = layout[m]
        OBVIOUS
      <3>1. CASE y <= x
        BY <1>1, <1>2, <2>1, <2>2, <3>1
      <3>2. CASE x <= y
        BY <1>3, <3>2
      <3> QED BY <1>1, <2>1, <3>1, <3>2
    <2>4. a \in RegionOf(m)
      BY <1>1, <1>5, <2>3 DEF RegionOf
    <2> QED BY <1>7, <2>4
  <1> QED BY <1>6, <1>7 DEF e

\* A copy is no longer than asked for, and a readable stretch is copied whole.
LEMMA CopiedIs ==
  ASSUME NEW from \in Nat, NEW want \in Nat
  PROVE  /\ Copied(from, want) \in 0 .. want
         /\ (\A y \in from .. from + want - 1 : layout[y] # "free") => Copied(from, want) = want
  <1> DEFINE S == {n \in 1 .. want : \A y \in from .. from + n - 1 : layout[y] # "free"}
  <1>1. IsFiniteSet(1 .. want) /\ Cardinality(1 .. want) = want
    BY FS_Interval
  <1>2. S \in SUBSET (1 .. want)
    OBVIOUS
  <1>3. IsFiniteSet(S) /\ Cardinality(S) <= want
    BY <1>1, <1>2, FS_Subset
  <1>4. Cardinality(S) \in Nat
    BY <1>3, FS_CardinalityType
  <1>5. (\A y \in from .. from + want - 1 : layout[y] # "free") => S = 1 .. want
    OBVIOUS
  <1>6. Copied(from, want) = Cardinality(S)
    BY DEF Copied
  <1> HIDE DEF S
  <1> QED BY <1>1, <1>3, <1>4, <1>5, <1>6

--------------------------------------------------------------------------------
(* The steps. *)

LEMMA InitIInv == ASSUME Init PROVE IInv
  <1>1. SweepTypeOK
    BY Sizes, LayoutsAssumption DEF Init, SweepTypeOK, Addresses
  <1>2. \A m \in still : Owed(m) /\ Pending(m)
    <2>1. \A m \in still : Ahead(m, 0)
      BY DEF Ahead, RegionOf, Addresses
    <2> QED BY <2>1 DEF Init, Pending
  <1>3. still \subseteq matches
    BY DEF Init
  <1> QED BY <1>1, <1>2, <1>3 DEF Init, IInv, Apart, StillBlockIsFound, AnswerIsNotACopy

\* The layout and the buffer decide what is owed.
LEMMA SameLayout ==
  ASSUME UNCHANGED <<layout, selfLow>>
  PROVE  \A m : RegionOf(m)' = RegionOf(m) /\ (Owed(m)' <=> Owed(m))
  <1>1. \A m : RegionOf(m)' = RegionOf(m)
    BY DEF RegionOf
  <1> QED BY <1>1 DEF Owed, Own, selfHigh

\* A block that is owed an answer is in a region the walk goes into.
LEMMA QueryStep == ASSUME IInv, Query PROVE IInv'
  <1> DEFINE next == RegionEnd(address)
  <1>1. /\ pc = "query" /\ address \in Addresses /\ address \in Nat /\ Limit \in Nat
        /\ UNCHANGED <<layout, matches, selfLow, answer, cutShort, still>>
        /\ SweepTypeOK /\ answer = None
    BY Sizes DEF IInv, SweepTypeOK, Query, memoryVars, Addresses
  <1>2. /\ next \in address + 1 .. Limit
        /\ \A y \in address .. next - 1 : layout[y] = layout[address]
    BY <1>1, RegionEndIs
  <1> HIDE DEF next
  <1>3. /\ Scans(next) => /\ pc' = "slices" /\ base' = address /\ size' = next - address
                          /\ done' = 0 /\ address' = address
        /\ ~Scans(next) => address' = next /\ UNCHANGED <<pc, base, size, done>>
    BY DEF Query, next
  <1>4. SweepTypeOK'
    BY <1>1, <1>2, <1>3 DEF SweepTypeOK, selfHigh
  <1>5. (pc = "slices" => base + size <= Limit)' /\ Apart'
    BY <1>1, <1>2, <1>3, Sizes DEF Apart, Scans, IsOwn, selfHigh, SweepTypeOK
  <1>6. ASSUME NEW m \in still PROVE (Owed(m) /\ Pending(m))'
    <2>1. Owed(m) /\ Ahead(m, address) /\ m \in Addresses
      BY <1>1 DEF IInv, Pending, SweepTypeOK
    <2>2. Owed(m)' /\ RegionOf(m)' = RegionOf(m)
      BY <1>1, <2>1, SameLayout
    <2>3. CASE address \in RegionOf(m)
      <3>1. RegionOf(m) = address .. next - 1
        BY <1>1, <2>1, <2>3, RegionAhead DEF next
      <3>2. m \in Nat /\ m \in RegionOf(m)
        BY <2>1, Sizes DEF RegionOf, Addresses
      <3>3. m + window \in RegionOf(m) /\ RegionOf(m) \cap Own = {} /\ layout[m] \in Heaps
        BY <2>1 DEF Owed
      <3>4. ~IsOwn(next)
        <4> SUFFICES ASSUME address < selfHigh, next > selfLow PROVE FALSE
          BY DEF IsOwn
        <4>1. selfLow \in Nat /\ selfHigh = selfLow + kSlice
          BY <1>1 DEF SweepTypeOK, selfHigh
        <4>2. address \in Own \/ selfLow \in address .. next - 1
          BY <1>1, <1>2, <4>1, Sizes DEF Own
        <4>3. selfLow \in Own /\ address \in address .. next - 1
          BY <1>1, <1>2, <4>1, Sizes DEF Own
        <4> QED BY <3>1, <3>3, <4>2, <4>3
      <3>5. layout[address] \in Heaps
        BY <1>2, <3>1, <3>2, <3>3
      <3>6. next - address > window
        BY <1>1, <1>2, <3>1, <3>2, <3>3, Sizes
      <3>7. Scans(next)
        BY <3>4, <3>5, <3>6 DEF Scans
      <3>8. Inside(m)'
        BY <1>1, <1>2, <1>3, <2>2, <3>1, <3>2, <3>7 DEF Inside
      <3> QED BY <1>3, <2>2, <3>7, <3>8 DEF Pending
    <2>4. CASE address \notin RegionOf(m)
      <3>1. Ahead(m, next)
        BY <1>1, <2>1, <2>4, RegionAhead DEF next
      <3>2. Scans(next) => base' + size' = next
        BY <1>1, <1>2, <1>3
      <3>3. CASE Scans(next)
        BY <1>3, <2>2, <3>1, <3>2, <3>3 DEF Pending, Ahead
      <3>4. CASE ~Scans(next)
        BY <1>1, <1>3, <2>2, <3>1, <3>4 DEF Pending, Ahead
      <3> QED BY <3>3, <3>4
    <2> QED BY <2>3, <2>4
  <1>7. pc' # "done"
    BY <1>1, <1>3
  <1> QED BY <1>1, <1>4, <1>5, <1>6, <1>7 DEF IInv, StillBlockIsFound, AnswerIsNotACopy

LEMMA RefuseStep == ASSUME IInv, Refuse PROVE IInv'
  <1>1. /\ UNCHANGED <<layout, matches, selfLow, address, base, size, done, answer, still>>
        /\ pc' = "done" /\ cutShort' = TRUE
    BY DEF Refuse, memoryVars
  <1>2. SweepTypeOK'
    BY <1>1 DEF IInv, SweepTypeOK, selfHigh
  <1>3. AnswerIsNotACopy'
    BY <1>1 DEF IInv, AnswerIsNotACopy, Own, selfHigh
  <1>4. \A m \in still' : (Owed(m) /\ Pending(m))'
    BY <1>1, SameLayout DEF IInv, Pending
  <1> QED BY <1>1, <1>2, <1>3, <1>4 DEF IInv, Apart, StillBlockIsFound

\* A slice misses no position the next one does not offer.
LEMMA ReadSliceStep == ASSUME IInv, ReadSlice PROVE IInv'
  <1> DEFINE want == IF size - done > kSlice THEN kSlice ELSE size - done
             got == Copied(base + done, want)
             found == {i \in 0 .. got - window - 1 : Accepts(base + done + i)}
             first == CHOOSE i \in found : \A j \in found : i <= j
  <1>1. /\ pc = "slices" /\ done + window < size
        /\ UNCHANGED <<layout, matches, selfLow, address, base, size, cutShort, still>>
        /\ SweepTypeOK /\ base \in Nat /\ size \in Nat /\ done \in Nat /\ base + size <= Limit
        /\ base >= selfHigh \/ base + size <= selfLow
        /\ selfLow \in Nat /\ selfHigh \in Nat
    BY Sizes DEF IInv, SweepTypeOK, ReadSlice, memoryVars, Apart, selfHigh
  <1>2. /\ found = {} => done' = done + Step /\ UNCHANGED <<pc, answer>>
        /\ found # {} => answer' = base + done + first /\ pc' = "done" /\ done' = done
    BY DEF ReadSlice
  <1>3. want \in Nat /\ want <= kSlice /\ want <= size - done
        /\ (want = kSlice \/ want = size - done) /\ window < want
    BY <1>1, Sizes
  <1> HIDE DEF want
  <1>4. /\ got \in 0 .. want
        /\ (\A y \in base + done .. base + done + want - 1 : layout[y] # "free") => got = want
    <2>1. base + done \in Nat
      BY <1>1
    <2> QED BY <1>3, <2>1, CopiedIs
  <1> HIDE DEF got
  <1>5. found # {} => first \in found /\ \A j \in found : first <= j
    <2>1. found \in SUBSET Nat
      BY <1>4, Sizes
    <2> HIDE DEF found
    <2> QED BY <2>1, FirstNumber
  <1> HIDE DEF first
  <1>6. found # {} => /\ first \in Nat /\ first < got - window
                      /\ answer' \in base .. base + size - 1
    BY <1>1, <1>2, <1>3, <1>4, <1>5, Sizes
  <1>7. Step \in Nat
    BY Sizes DEF Step
  <1>8. SweepTypeOK'
    <2>1. CASE found = {}
      BY <1>1, <1>2, <1>7, <2>1 DEF SweepTypeOK, selfHigh
    <2>2. CASE found # {}
      <3>1. answer' \in Addresses
        BY <1>1, <1>6, <2>2, Sizes DEF Addresses
      <3> QED BY <1>1, <1>2, <2>2, <3>1 DEF SweepTypeOK, selfHigh
    <2> QED BY <2>1, <2>2
  <1>9. AnswerIsNotACopy'
    <2>1. CASE found = {}
      BY <1>1, <1>2, <2>1 DEF IInv, AnswerIsNotACopy, Own, selfHigh
    <2>2. CASE found # {}
      BY <1>1, <1>6, <2>2 DEF AnswerIsNotACopy, Own, selfHigh
    <2> QED BY <2>1, <2>2
  <1>10. ASSUME NEW m \in still
         PROVE  /\ Owed(m)'
                /\ found = {} => Ahead(m, base + size) \/ base + done + Step <= m
                /\ found # {} => answer' <= m
                /\ RegionOf(m)' = RegionOf(m)
    <2>1. /\ Owed(m) /\ m \in matches /\ m \in Addresses /\ m \in Nat
          /\ Ahead(m, base + size) \/ Inside(m)
      BY <1>1, Sizes DEF IInv, Pending, SweepTypeOK
    <2>2. Owed(m)' /\ RegionOf(m)' = RegionOf(m)
      BY <1>1, <2>1, SameLayout
    <2>3. CASE Ahead(m, base + size)
      <3>1. m \in RegionOf(m)
        BY <2>1, Sizes DEF RegionOf, Addresses
      <3>2. base + size <= m
        BY <2>3, <3>1 DEF Ahead
      <3> QED BY <1>1, <1>6, <2>1, <2>2, <2>3, <3>2
    <2>4. CASE Inside(m)
      <3>1. /\ RegionOf(m) = base .. base + size - 1 /\ base + done <= m
            /\ m + window < base + size /\ layout[m] \in Heaps
        BY <1>1, <2>1, <2>4, Sizes DEF Inside, Owed
      <3>2. \A y \in RegionOf(m) : layout[y] = layout[m]
        BY <2>1, Sizes DEF RegionOf, Addresses
      <3>3. got = want
        BY <1>1, <1>3, <1>4, <3>1, <3>2, HeapsAssumption
      <3>4. m < base + done + Step => m - (base + done) \in found
        <4> SUFFICES ASSUME m < base + done + Step PROVE m - (base + done) \in found
          OBVIOUS
        <4> DEFINE i == m - (base + done)
        <4>a. i \in Nat /\ i + window < size - done
          BY <1>1, <2>1, <3>1, Sizes
        <4>e. Step = kSlice - window /\ Step \in Nat
          BY <1>7 DEF Step
        <4>f. i < Step
          BY <1>1, <2>1, <4>e
        <4>b. i + window < kSlice
          BY <4>a, <4>e, <4>f, Sizes
        <4> HIDE DEF i
        <4>c. i + window < got
          BY <1>3, <3>3, <4>a, <4>b
        <4>d. i \in 0 .. got - window - 1
          BY <1>3, <3>3, <4>a, <4>c, Sizes
        <4>1. m - (base + done) \in 0 .. got - window - 1
          BY <4>d DEF i
        <4>2. base + done + (m - (base + done)) = m
          BY <1>1, <2>1
        <4> QED BY <2>1, <4>1, <4>2 DEF Accepts
      <3>5. found # {} => base + done + first <= m
        <4> SUFFICES ASSUME found # {} PROVE base + done + first <= m
          OBVIOUS
        <4>1. CASE m < base + done + Step
          BY <1>1, <1>5, <1>6, <2>1, <3>4, <4>1
        <4>2. CASE base + done + Step <= m
          BY <1>1, <1>3, <1>4, <1>6, <2>1, <4>2, Sizes DEF Step
        <4> QED BY <1>1, <1>7, <2>1, <4>1, <4>2
      <3>6. found = {} => base + done + Step <= m
        BY <1>1, <1>7, <2>1, <3>4
      <3> QED BY <1>2, <2>2, <3>5, <3>6
    <2> QED BY <2>1, <2>3, <2>4
  <1> HIDE DEF found
  <1>11. CASE found = {}
    <2>1. ASSUME NEW m \in still PROVE Pending(m)'
      <3>1. Ahead(m, base + size) \/ Inside(m)
        BY <1>1 DEF IInv, Pending
      <3>2. CASE Ahead(m, base + size)
        BY <1>1, <1>2, <1>10, <1>11, <3>2 DEF Pending, Ahead
      <3>3. CASE Inside(m) /\ ~Ahead(m, base + size)
        <4>1. base + done + Step <= m
          BY <1>10, <1>11, <3>3
        <4>2. base' + done' <= m
          BY <1>1, <1>2, <1>7, <1>11, <4>1
        <4> QED BY <1>1, <1>2, <1>10, <1>11, <3>3, <4>2 DEF Pending, Inside
      <3> QED BY <3>1, <3>2, <3>3
    <2> QED BY <1>1, <1>2, <1>8, <1>9, <1>10, <1>11, <2>1
            DEF IInv, Apart, selfHigh, StillBlockIsFound
  <1>12. CASE found # {}
    <2>1. answer' # None
      BY <1>1, <1>6, <1>12, NoneIsNoAddress
    <2> QED BY <1>1, <1>2, <1>8, <1>9, <1>10, <1>12, <2>1
            DEF IInv, Apart, StillBlockIsFound, Pending
  <1> QED BY <1>11, <1>12

LEMMA LeaveRegionStep == ASSUME IInv, LeaveRegion PROVE IInv'
  <1>1. /\ pc = "slices" /\ done + window >= size /\ address' = base + size /\ pc' = "query"
        /\ UNCHANGED <<layout, matches, selfLow, base, size, done, answer, cutShort, still>>
        /\ SweepTypeOK /\ base \in Nat /\ size \in Nat /\ done \in Nat /\ base + size <= Limit
    BY DEF IInv, LeaveRegion, memoryVars, SweepTypeOK
  <1>2. SweepTypeOK'
    BY <1>1, Sizes DEF SweepTypeOK, selfHigh
  <1>3. ASSUME NEW m \in still PROVE (Owed(m) /\ Pending(m))'
    <2>1. Owed(m) /\ m \in Addresses /\ (Ahead(m, base + size) \/ Inside(m))
      BY <1>1 DEF IInv, Pending, SweepTypeOK
    <2>2. ~Inside(m)
      BY <1>1, <2>1, Sizes DEF Inside, Owed
    <2> QED BY <1>1, <2>1, <2>2, SameLayout DEF Pending, Ahead
  <1>4. AnswerIsNotACopy'
    BY <1>1 DEF IInv, AnswerIsNotACopy, Own, selfHigh
  <1> QED BY <1>1, <1>2, <1>3, <1>4 DEF IInv, Apart, StillBlockIsFound

\* At the end of the address space nothing is ahead.
LEMMA MissStep == ASSUME IInv, Miss PROVE IInv'
  <1>1. /\ pc = "query" /\ address >= Limit /\ pc' = "done"
        /\ UNCHANGED <<layout, matches, selfLow, address, base, size, done, answer, cutShort, still>>
        /\ SweepTypeOK
    BY DEF IInv, Miss, memoryVars
  <1>2. still = {}
    <2> SUFFICES ASSUME NEW m \in still PROVE FALSE
      OBVIOUS
    <2>1. m \in Addresses /\ Ahead(m, address)
      BY <1>1 DEF IInv, Pending, SweepTypeOK
    <2>2. m \in RegionOf(m)
      BY <2>1, Sizes DEF RegionOf, Addresses
    <2> QED BY <1>1, <2>1, <2>2, Sizes DEF Ahead, Addresses, SweepTypeOK
  <1>3. SweepTypeOK'
    BY <1>1 DEF SweepTypeOK, selfHigh
  <1>4. AnswerIsNotACopy'
    BY <1>1 DEF IInv, AnswerIsNotACopy, Own, selfHigh
  <1> QED BY <1>1, <1>2, <1>3, <1>4 DEF IInv, Apart, StillBlockIsFound

\* What the engine does takes a block off the list or leaves its region as it is.
LEMMA EngineStep == ASSUME IInv, Engine PROVE IInv'
  <1>1. /\ pc # "done"
        /\ UNCHANGED <<selfLow, pc, address, base, size, done, answer, cutShort>>
        /\ SweepTypeOK
    BY DEF IInv, Engine, Remap, Write, Overwrite, EngineChanges, sweepVars
  <1>2. /\ layout' \in Layouts /\ matches' \subseteq Addresses /\ still' \subseteq matches'
        /\ still' \subseteq still
        /\ \A m \in still' : RegionOf(m)' = RegionOf(m) /\ layout'[m] = layout[m]
    <2>1. still \subseteq matches /\ matches \subseteq Addresses /\ layout \in Layouts
      BY <1>1 DEF IInv, SweepTypeOK
    <2>2. ASSUME NEW l \in Layouts, Remap(l)
          PROVE  /\ layout' \in Layouts /\ matches' \subseteq Addresses /\ still' \subseteq matches'
                 /\ still' \subseteq still
                 /\ \A m \in still' : RegionOf(m)' = RegionOf(m) /\ layout'[m] = layout[m]
      BY <2>1, <2>2 DEF Remap
    <2>3. ASSUME NEW n \in Addresses, Write(n) \/ Overwrite(n)
          PROVE  /\ layout' = layout /\ matches' \subseteq Addresses /\ still' \subseteq matches'
                 /\ still' \subseteq still
      BY <2>1, <2>3 DEF Write, Overwrite
    <2>4. (\E l \in Layouts : Remap(l)) \/ \E n \in Addresses : Write(n) \/ Overwrite(n)
      BY <2>1 DEF Engine
    <2>5. layout' = layout => \A m : RegionOf(m)' = RegionOf(m)
      BY DEF RegionOf
    <2> QED BY <2>1, <2>2, <2>3, <2>4, <2>5
  <1>3. SweepTypeOK'
    BY <1>1, <1>2 DEF SweepTypeOK, selfHigh
  <1>4. ASSUME NEW m \in still' PROVE (Owed(m) /\ Pending(m))'
    <2>1. Owed(m) /\ Pending(m)
      BY <1>2 DEF IInv
    <2> QED BY <1>1, <1>2, <2>1 DEF Owed, Own, selfHigh, Pending, Ahead, Inside
  <1>5. AnswerIsNotACopy'
    BY <1>1 DEF IInv, AnswerIsNotACopy, Own, selfHigh
  <1>6. (pc = "slices" => base + size <= Limit)' /\ Apart'
    BY <1>1 DEF IInv, Apart, selfHigh
  <1> QED BY <1>1, <1>2, <1>3, <1>4, <1>5, <1>6 DEF IInv, StillBlockIsFound

LEMMA StepIInv == IInv /\ [Next]_vars => IInv'
  <1> SUFFICES ASSUME IInv, [Next]_vars PROVE IInv'
    OBVIOUS
  <1>1. CASE Sweep
    BY <1>1, QueryStep, RefuseStep, ReadSliceStep, LeaveRegionStep, MissStep DEF Sweep
  <1>2. CASE Engine
    BY <1>2, EngineStep
  <1>3. CASE UNCHANGED vars
    <2>1. UNCHANGED <<layout, matches, selfLow, pc, address, base, size, done, answer, cutShort, still>>
      BY <1>3 DEF vars
    <2>2. \A m \in still' : (Owed(m) /\ Pending(m))'
      BY <2>1, SameLayout DEF IInv, Pending, Ahead, Inside
    <2> QED BY <2>1, <2>2
            DEF IInv, SweepTypeOK, Apart, StillBlockIsFound, AnswerIsNotACopy, Own, selfHigh
  <1> QED BY <1>1, <1>2, <1>3 DEF Next

--------------------------------------------------------------------------------
(* The theorems. *)

THEOREM Invariance == Spec => []IInv
  BY InitIInv, StepIInv, PTL DEF Spec

\* In an address space of any size and any layout, however often the engine changes
\* it, a block nothing happens to is found by a sweep that is not cut short.
THEOREM NothingStillIsMissed == Spec => []StillBlockIsFound
  <1>1. IInv => StillBlockIsFound
    BY DEF IInv
  <1> QED BY <1>1, Invariance, PTL

\* No sweep answers with an address in its own staging buffer.
THEOREM NoCopyIsAnswered == Spec => []AnswerIsNotACopy
  <1>1. IInv => AnswerIsNotACopy
    BY DEF IInv
  <1> QED BY <1>1, Invariance, PTL
================================================================================
