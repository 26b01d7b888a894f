-------------------------- MODULE LegacyReaderProofs ---------------------------
(***************************************************************************)
(* Proofs about LegacyReader, for files of any length and content.         *)
(*                                                                         *)
(* HeadingsRead and PresentRead carry the first half: after every line the *)
(* scan's locals and g_presentKeys say of the lines so far what the        *)
(* profile API will say of them, though the one remembers a section and a  *)
(* flag and the other looks for the first heading of a name.  Told and     *)
(* Answered carry the second: whatever of those lines the API will never   *)
(* answer with has a line in the log, and what a reader made of an answer  *)
(* is in the Config or has one too.                                        *)
(***************************************************************************)
EXTENDS LegacyReader, WellFoundedInduction, TLAPS

HeadingLine(i) == file.lines[i].is = "heading"

\* Line h is the last heading at or above line i.
Governs(h, i) == h \in 1 .. i /\ HeadingLine(h) /\ \A g \in h + 1 .. i : ~HeadingLine(g)

\* What the scan's locals say of the headings read, a mark on the first or not.
HeadingsRead ==
  /\ \A n \in Names : n \in sections <=>
       n # NoName /\ \E h \in 1 .. at : HeadingLine(h) /\ file.lines[h].name = n
  /\ \A h \in 1 .. at : Governs(h, at) => section = file.lines[h].name
  /\ section # NoName => \E h \in 1 .. at :
       /\ Governs(h, at)
       /\ dead = \E g \in 1 .. h - 1 : HeadingLine(g) /\ file.lines[g].name = section

\* What g_presentKeys says of the entries read.
PresentRead ==
  \A s, k \in Names : <<s, k>> \in present <=>
    s # NoName /\ \E i \in 1 .. at : EntryOf(i, s, k)

ScanInv ==
  /\ stage \notin {"idle", "done"} => file # NoFile
  /\ stage # "idle" /\ file # NoFile =>
       /\ at \in 0 .. Len(file.lines)
       /\ HeadingsRead
       /\ ~MarkOnHeading => PresentRead

IInv == ReaderTypeOK /\ ScanInv

--------------------------------------------------------------------------------
(* What the file holds. *)

LEMMA FileShape ==
  ASSUME ReaderTypeOK, file # NoFile
  PROVE  /\ file.bom \in BOOLEAN /\ file.lines \in Seq(Lines)
         /\ Len(file.lines) \in Nat /\ DOMAIN file.lines = 1 .. Len(file.lines)
         /\ \A i \in 1 .. Len(file.lines) :
              /\ file.lines[i].is \in {"heading", "entry", "other"}
              /\ file.lines[i].name \in Names
              /\ file.lines[i].value \in Values
  <1>1. file \in [bom : BOOLEAN, lines : Seq(Lines)]
    <2>1. file \in Files
      BY DEF ReaderTypeOK
    <2> QED BY <2>1, FilesAssumption DEF AnyFile
  <1>2. file.lines \in Seq(Lines) /\ file.bom \in BOOLEAN
    BY <1>1
  <1>3. \A i \in 1 .. Len(file.lines) : file.lines[i] \in Lines
    BY <1>2
  <1> QED BY <1>2, <1>3 DEF Lines

\* A set of line numbers has a first one.
LEMMA FirstLine ==
  ASSUME NEW S \in SUBSET Nat, S # {}
  PROVE  \E m \in S : \A j \in S : m <= j
  <1> DEFINE R == OpToRel(<, Nat)
  <1>1. IsWellFoundedOn(R, Nat)
    BY NatLessThanWellFounded
  <1>2. \A x, y \in Nat : y < x => <<y, x>> \in R
    BY DEF OpToRel, R
  <1> HIDE DEF R
  <1>3. PICK x \in S : \A y \in S : <<y, x>> \notin R
    BY <1>1, WFMin
  <1>4. \A j \in S : ~(j < x)
    BY <1>2, <1>3
  <1> QED BY <1>4

\* The profile API answers with a value of the file, or with none.
LEMMA ReadStringType ==
  ASSUME ReaderTypeOK, file # NoFile, NEW s, NEW k
  PROVE  ReadString(s, k) \in Values
  <1>1. NoValue \in Values
    BY DEF NoValue, Values, Kinds
  <1>2. EntriesOf(s, k) \subseteq 1 .. Len(file.lines)
    BY FileShape DEF EntriesOf
  <1>3. CASE EntriesOf(s, k) # {}
    <2>1. \E i \in EntriesOf(s, k) : \A j \in EntriesOf(s, k) : i <= j
      <3>1. EntriesOf(s, k) \in SUBSET Nat
        BY <1>2, FileShape
      <3> QED BY <1>3, <3>1, FirstLine
    <2> DEFINE first == CHOOSE i \in EntriesOf(s, k) : \A j \in EntriesOf(s, k) : i <= j
    <2>2. first \in EntriesOf(s, k)
      BY <2>1
    <2>3. ReadString(s, k) = file.lines[first].value
      BY <1>3 DEF ReadString
    <2> QED BY <1>2, <2>2, <2>3, FileShape
  <1> QED BY <1>1, <1>3 DEF ReadString

--------------------------------------------------------------------------------
(* Every reader answers with a value in range. *)

ValidAnswer(k, a) == a.value \in ValidValues(k) /\ a.reports \subseteq Reports

\* A setting is in one section, so its reader is told by it.
LEMMA Sections ==
  /\ \A k \in Settings : k \in Names /\ SectionOf(k) \in Names
  /\ \A k \in Network : k \notin General /\ k \notin Hotkeys /\ k \notin Rotation /\ k \notin Position
  /\ \A k \in General : k \notin Network /\ k \notin Hotkeys /\ k \notin Rotation /\ k \notin Position
  /\ \A k \in Hotkeys : k \notin Network /\ k \notin General /\ k \notin Rotation /\ k \notin Position
  /\ \A k \in Rotation : k \notin Network /\ k \notin General /\ k \notin Hotkeys /\ k \notin Position
  /\ \A k \in Position : k \notin Network /\ k \notin General /\ k \notin Hotkeys /\ k \notin Rotation
  <1> USE DEF Network, General, Hotkeys, NavKeys, ChordKeys, Rotation, Position, Limits
  <1>1. \A k \in Settings : k \in Names /\ SectionOf(k) \in Names
    <2> HIDE DEF Network, General, Hotkeys, NavKeys, ChordKeys, Rotation, Position, Limits
    <2>1. Settings \subseteq Names /\ {"Network", "General", "Hotkeys", "Rotation", "Position"} \subseteq Names
      BY NamesAssumption
    <2>2. \A k \in Settings : SectionOf(k) \in {"Network", "General", "Hotkeys", "Rotation", "Position"}
      BY DEF SectionOf
    <2> QED BY <2>1, <2>2
  <1>2. \A k \in Network : k \notin General /\ k \notin Hotkeys /\ k \notin Rotation /\ k \notin Position
    OBVIOUS
  <1>3. \A k \in General : k \notin Network /\ k \notin Hotkeys /\ k \notin Rotation /\ k \notin Position
    OBVIOUS
  <1>4. \A k \in Hotkeys : k \notin Rotation /\ k \notin Position
    OBVIOUS
  <1>5. \A k \in Rotation : k \notin Position
    OBVIOUS
  <1> HIDE DEF Network, General, Hotkeys, NavKeys, ChordKeys, Rotation, Position, Limits
  <1> QED BY <1>1, <1>2, <1>3, <1>4, <1>5

\* What is valid for a setting depends on what kind it is.
LEMMA PortValues == ASSUME NEW k \in Network PROVE ValidValues(k) = UdpPorts
  BY DEF ValidValues

LEMMA FlagValues == ASSUME NEW k \in Flags PROVE ValidValues(k) = {0, 1}
  <1>1. k \notin Network
    BY Sections DEF Flags, Position
  <1> QED BY <1>1 DEF ValidValues

LEMMA KeyValues == ASSUME NEW k \in Hotkeys PROVE ValidValues(k) = BindableVirtualKeys
  <1>1. k \notin Network /\ k \notin Flags
    BY Sections DEF Flags, Position
  <1> QED BY <1>1 DEF ValidValues

LEMMA SmoothingValues == ASSUME NEW k \in Rotation PROVE ValidValues(k) = 0 .. kMaxSmoothing
  <1>1. k \notin Network /\ k \notin Flags /\ k \notin Hotkeys
    BY Sections DEF Flags, Position
  <1> QED BY <1>1 DEF ValidValues

LEMMA LimitValues == ASSUME NEW k \in Limits PROVE ValidValues(k) = 0 .. kMaxPositionLimit
  <1>1. k \notin Network /\ k \notin Flags /\ k \notin Hotkeys /\ k \notin Rotation
    BY Sections DEF Flags, Position, Limits
  <1> QED BY <1>1 DEF ValidValues

LEMMA ClampInRange ==
  ASSUME NEW n \in Int, NEW hi \in Nat
  PROVE  ClampRange(n, 0, hi) \in 0 .. hi
  BY DEF ClampRange

\* What keeps the setting's value keeps a valid one.
LEMMA KeepingIsValid ==
  ASSUME NEW k \in Settings, out[k] \in ValidValues(k), NEW why \in {"unreadable", "refused"}
  PROVE  ValidAnswer(k, Empty(k)) /\ ValidAnswer(k, Keeps(k, why))
  <1>1. <<"empty", SectionOf(k), k>> \in Reports /\ <<why, SectionOf(k), k>> \in Reports
    BY Sections DEF Reports
  <1> QED BY <1>1 DEF ValidAnswer, Empty, Keeps, Answer

LEMMA FloatIsValid ==
  ASSUME ReaderTypeOK, file # NoFile, NEW k \in Rotation \cup Limits,
         NEW fallback \in Int, NEW hi \in Nat,
         0 .. hi \subseteq ValidValues(k), out[k] \in ValidValues(k)
  PROVE  ValidAnswer(k, ReadFloatValue(k, fallback, hi))
  <1> DEFINE v == ReadString(SectionOf(k), k)
             clean == ClampRange(IF v.kind = "number" THEN v.n ELSE fallback, 0, hi)
             reports == IF v.kind = "number" /\ v.n = clean THEN {}
                        ELSE {<<"refused", SectionOf(k), k>>}
  <1>1. k \in Settings
    BY DEF Settings, Position
  <1>2. v.n \in Int
    BY ReadStringType DEF Values
  <1>3. clean \in 0 .. hi
    BY <1>2, ClampInRange
  <1>4. <<"refused", SectionOf(k), k>> \in Reports
    BY <1>1, Sections DEF Reports
  <1>5. ValidAnswer(k, Answer(clean, reports))
    BY <1>3, <1>4 DEF ValidAnswer, Answer
  <1>6. ReadFloatValue(k, fallback, hi) \in {Empty(k), Keeps(k, "unreadable"), Answer(clean, reports)}
    BY DEF ReadFloatValue
  <1>7. ValidAnswer(k, Empty(k)) /\ ValidAnswer(k, Keeps(k, "unreadable"))
    BY <1>1, KeepingIsValid
  <1> HIDE DEF clean, reports, v
  <1> QED BY <1>5, <1>6, <1>7

LEMMA PortIsValid ==
  ASSUME NEW k \in Network, out[k] \in ValidValues(k)
  PROVE  ValidAnswer(k, ReadPort(k))
  <1> DEFINE v == ReadString("Network", k)
             read == ReadInt(v)
             none == EntriesOf("Network", k) = {}
  <1>1. k \in Settings
    BY DEF Settings
  <1>2. ReadPort(k) = IF none THEN Answer(out[k], {})
                      ELSE IF read \in UdpPorts THEN Answer(read, {})
                      ELSE Keeps(k, IF v.kind = "number" THEN "refused" ELSE "unreadable")
    BY DEF ReadPort
  <1> HIDE DEF v, read, none
  <1>3. ValidValues(k) = UdpPorts
    BY PortValues
  <1>4. CASE none
    BY <1>2, <1>4 DEF ValidAnswer, Answer
  <1>5. CASE ~none /\ read \in UdpPorts
    BY <1>2, <1>3, <1>5 DEF ValidAnswer, Answer
  <1>6. CASE ~none /\ read \notin UdpPorts
    BY <1>1, <1>2, <1>6, KeepingIsValid
  <1> QED BY <1>4, <1>5, <1>6

LEMMA FlagIsValid ==
  ASSUME NEW k \in Flags, k \in Settings, out[k] \in ValidValues(k)
  PROVE  ValidAnswer(k, ReadFlag(k))
  <1> DEFINE v == ReadString(SectionOf(k), k)
             good == v.kind = "number" /\ v.n \in {0, 1} /\ ~v.comment
             blank == v.kind = "blank" /\ ~v.comment
  <1>1. ReadFlag(k) = IF blank THEN Empty(k) ELSE IF good THEN Answer(v.n, {})
                      ELSE Keeps(k, "unreadable")
    BY DEF ReadFlag
  <1>2. good => v.n \in ValidValues(k)
    BY FlagValues
  <1> HIDE DEF v, good, blank
  <1>3. good => ValidAnswer(k, Answer(v.n, {}))
    BY <1>2 DEF ValidAnswer, Answer
  <1>4. ValidAnswer(k, Empty(k)) /\ ValidAnswer(k, Keeps(k, "unreadable"))
    BY KeepingIsValid
  <1> QED BY <1>1, <1>3, <1>4

LEMMA KeyIsValid ==
  ASSUME NEW k \in Hotkeys, out[k] \in ValidValues(k)
  PROVE  ValidAnswer(k, ReadKey(k))
  <1> DEFINE v == ReadString("Hotkeys", k)
             blank == v.kind = "blank" /\ ~v.comment
  <1>1. ReadKey(k) = IF blank THEN Empty(k) ELSE IF v.kind # "number" THEN Keeps(k, "unreadable")
                     ELSE IF v.n \notin BindableVirtualKeys THEN Keeps(k, "refused")
                     ELSE Answer(v.n, {})
    BY DEF ReadKey
  <1>2. k \in Settings
    BY DEF Settings
  <1> HIDE DEF v, blank
  <1>3. v.n \in BindableVirtualKeys => ValidAnswer(k, Answer(v.n, {}))
    BY <1>2, KeyValues DEF ValidAnswer, Answer
  <1>4. /\ ValidAnswer(k, Empty(k)) /\ ValidAnswer(k, Keeps(k, "unreadable"))
        /\ ValidAnswer(k, Keeps(k, "refused"))
    BY <1>2, KeepingIsValid
  <1> QED BY <1>1, <1>3, <1>4

LEMMA ReadSettingValid ==
  ASSUME ReaderTypeOK, file # NoFile, NEW k \in Settings
  PROVE  ValidAnswer(k, ReadSetting(k))
  <1>1. out[k] \in ValidValues(k)
    BY DEF ReaderTypeOK
  <1>2. CASE k \in Network
    BY <1>1, <1>2, PortIsValid DEF ReadSetting
  <1>3. CASE k \in Flags
    <2>1. k \notin Network
      BY <1>3, Sections DEF Flags, Position
    <2> QED BY <1>1, <1>3, <2>1, FlagIsValid DEF ReadSetting
  <1>4. CASE k \in Hotkeys
    <2>1. k \notin Network /\ k \notin Flags
      BY <1>4, Sections DEF Flags, Position
    <2> QED BY <1>1, <1>4, <2>1, KeyIsValid DEF ReadSetting
  <1>5. CASE k \in Rotation
    <2>1. k \notin Network /\ k \notin Flags /\ k \notin Hotkeys
      BY <1>5, Sections DEF Flags, Position
    <2>2. ValidValues(k) = 0 .. kMaxSmoothing
      BY <1>5, SmoothingValues
    <2>3. Shipped[k] \in Int /\ kMaxSmoothing \in Nat
      BY <1>5 DEF Shipped, Rotation, kMaxSmoothing
    <2>4. ValidAnswer(k, ReadFloatValue(k, Shipped[k], kMaxSmoothing))
      BY <1>1, <1>5, <2>2, <2>3, FloatIsValid
    <2> QED BY <1>5, <2>1, <2>4 DEF ReadSetting
  <1>6. CASE k \in Limits
    <2>1. k \notin Network /\ k \notin Flags /\ k \notin Hotkeys /\ k \notin Rotation
      BY <1>6, Sections DEF Flags, Position, Limits, General
    <2>2. ValidValues(k) = 0 .. kMaxPositionLimit
      BY <1>6, LimitValues
    <2>3. out[k] \in Int /\ kMaxPositionLimit \in Nat
      BY <1>1, <2>2 DEF kMaxPositionLimit
    <2>4. ValidAnswer(k, ReadFloatValue(k, out[k], kMaxPositionLimit))
      BY <1>1, <1>6, <2>2, <2>3, FloatIsValid
    <2> QED BY <2>1, <2>4 DEF ReadSetting
  <1> QED BY <1>2, <1>3, <1>4, <1>5, <1>6 DEF Settings, Flags, Position

--------------------------------------------------------------------------------
(* The scan. *)

\* Without a mark on one, a heading is a heading to both parsers.
LEMMA SameHeadings ==
  ASSUME ReaderTypeOK, file # NoFile, ~MarkOnHeading, NEW i \in 1 .. Len(file.lines)
  PROVE  IsHeading(i) <=> HeadingLine(i)
  BY FileShape DEF IsHeading, HeadingLine, MarkOnHeading

\* The next line is an entry the API finds exactly when the scan takes it for present.
LEMMA NextEntry ==
  ASSUME ReaderTypeOK, file # NoFile, ~MarkOnHeading, HeadingsRead,
         at \in 0 .. Len(file.lines) - 1, file.lines[at + 1].is = "entry",
         NEW s \in Names, NEW k \in Names, s # NoName
  PROVE  EntryOf(at + 1, s, k) <=> file.lines[at + 1].name = k /\ section = s /\ ~dead
  <1>a. Len(file.lines) \in Nat
    BY FileShape
  <1>b. at \in Nat
    BY DEF ReaderTypeOK
  <1>1. Len(file.lines) \in Nat /\ at \in Nat /\ at + 1 \in 1 .. Len(file.lines)
    BY <1>a, <1>b
  <1>2. \A i \in 1 .. at : IsHeading(i) <=> HeadingLine(i)
    BY <1>1, SameHeadings
  <1>3. ASSUME EntryOf(at + 1, s, k) PROVE section = s /\ ~dead
    <2>1. PICK h \in 1 .. at : Opens(h, s) /\ \A g \in h + 1 .. at : ~IsHeading(g)
      BY <1>1, <1>3 DEF EntryOf
    <2>2. Governs(h, at)
      BY <1>1, <1>2, <2>1 DEF Opens, Governs
    <2>3. section = s
      BY <2>1, <2>2 DEF HeadingsRead, Opens
    <2>4. PICK h2 \in 1 .. at : /\ Governs(h2, at)
                               /\ dead = \E g \in 1 .. h2 - 1 : HeadingLine(g) /\ file.lines[g].name = section
      BY <2>3 DEF HeadingsRead
    <2>5. h2 = h
      BY <1>1, <2>2, <2>4 DEF Governs
    <2>6. \A g \in 1 .. h - 1 : HeadingLine(g) => file.lines[g].name # s
      BY <1>1, <1>2, <2>1 DEF Opens
    <2> QED BY <2>3, <2>4, <2>5, <2>6
  <1>4. ASSUME file.lines[at + 1].name = k, section = s, ~dead PROVE EntryOf(at + 1, s, k)
    <2>1. PICK h \in 1 .. at : /\ Governs(h, at)
                              /\ dead = \E g \in 1 .. h - 1 : HeadingLine(g) /\ file.lines[g].name = section
      BY <1>4 DEF HeadingsRead
    <2>2. file.lines[h].name = s
      BY <1>4, <2>1 DEF HeadingsRead
    <2>3. Opens(h, s)
      BY <1>1, <1>2, <1>4, <2>1, <2>2 DEF Opens, Governs
    <2>4. \A g \in h + 1 .. at : ~IsHeading(g)
      BY <1>1, <1>2, <2>1 DEF Governs
    <2> QED BY <1>1, <1>4, <2>3, <2>4 DEF EntryOf
  <1>5. EntryOf(at + 1, s, k) => file.lines[at + 1].name = k
    BY DEF EntryOf
  <1> QED BY <1>3, <1>4, <1>5
--------------------------------------------------------------------------------
(* Types. *)

LEMMA ShippedValid == DOMAIN Shipped = Settings /\ \A k \in Settings : Shipped[k] \in ValidValues(k)
  <1>1. DOMAIN Shipped = Settings
    BY DEF Shipped, Settings, Network, General, Hotkeys, NavKeys, ChordKeys, Rotation,
           Position, Limits
  <1>2. \A k \in Network : Shipped[k] \in ValidValues(k)
    <2>1. \A k \in Network : Shipped[k] = 4242
      BY DEF Network, Shipped
    <2>2. 4242 \in UdpPorts
      BY SMT DEF UdpPorts
    <2> QED BY <2>1, <2>2, PortValues
  <1>3. \A k \in Flags : Shipped[k] \in ValidValues(k)
    <2>1. \A k \in Flags : Shipped[k] = 1
      BY DEF Flags, General, Shipped
    <2> QED BY <2>1, FlagValues
  <1>4. \A k \in Hotkeys : Shipped[k] \in ValidValues(k)
    <2>1. \A k \in Hotkeys : Shipped[k] \in BindableVirtualKeys
      BY DEF Hotkeys, NavKeys, ChordKeys, Shipped, BindableVirtualKeys
    <2> QED BY <2>1, KeyValues
  <1>5. \A k \in Rotation : Shipped[k] \in ValidValues(k)
    BY SmoothingValues DEF Rotation, Shipped, kMaxSmoothing
  <1>6. \A k \in Limits : Shipped[k] \in ValidValues(k)
    BY LimitValues DEF Limits, Shipped, kMaxPositionLimit
  <1> QED BY <1>1, <1>2, <1>3, <1>4, <1>5, <1>6 DEF Settings, Position, Flags

LEMMA InitIInv == ReaderInit => IInv
  <1> SUFFICES ASSUME ReaderInit PROVE IInv
    OBVIOUS
  <1>1. ReaderTypeOK
    BY ShippedValid, NamesAssumption DEF ReaderInit, ReaderTypeOK, Stages
  <1>2. ScanInv
    BY DEF ReaderInit, ScanInv
  <1> QED BY <1>1, <1>2 DEF IInv

LEMMA OpenStep ==
  ASSUME IInv, NEW f \in Files \cup {NoFile}, NEW scans \in BOOLEAN, Open(f, scans)
  PROVE  IInv'
  <1>1. log' \subseteq Reports
    <2>1. <<"absent", NoName, NoName>> \in Reports
      BY NamesAssumption DEF Reports
    <2>2. log' = {} \/ log' = {<<"absent", NoName, NoName>>}
      BY DEF Open
    <2> QED BY <2>1, <2>2
  <1>2. ReaderTypeOK'
    BY <1>1, ShippedValid, NamesAssumption DEF IInv, Open, ReaderTypeOK, Stages
  <1>3. CASE f = NoFile
    BY <1>2, <1>3 DEF IInv, Open, ScanInv
  <1>4. CASE f # NoFile
    <2>1. Len(file'.lines) \in Nat
      <3>1. f \in AnyFile
        BY <1>4, FilesAssumption
      <3> QED BY <3>1 DEF AnyFile, Open
    <2>2. HeadingsRead' /\ PresentRead'
      BY NamesAssumption DEF Open, HeadingsRead, PresentRead, Governs
    <2> QED BY <1>2, <1>4, <2>1, <2>2 DEF IInv, Open, ScanInv
  <1> QED BY <1>3, <1>4

\* What is said of the lines alone stays as long as the file does.
LEMMA SameFile ==
  ASSUME file' = file
  PROVE  /\ \A i : HeadingLine(i)' <=> HeadingLine(i)
         /\ \A h, i : Governs(h, i)' <=> Governs(h, i)
         /\ \A i, s, k : EntryOf(i, s, k)' <=> EntryOf(i, s, k)
  <1>1. \A i : HeadingLine(i)' <=> HeadingLine(i)
    BY DEF HeadingLine
  <1>2. \A i : IsHeading(i)' <=> IsHeading(i)
    BY DEF IsHeading
  <1>3. \A h, i : Governs(h, i)' <=> Governs(h, i)
    BY <1>1 DEF Governs
  <1>4. \A h, s : Opens(h, s)' <=> Opens(h, s)
    BY <1>2 DEF Opens
  <1>5. \A i, s, k : EntryOf(i, s, k)' <=> EntryOf(i, s, k)
    BY <1>2, <1>4 DEF EntryOf
  <1> QED BY <1>1, <1>3, <1>5

\* A step that leaves the file, the lines read and what is present alone keeps what was
\* so of the prefix.
LEMMA PrefixUnchanged ==
  ASSUME HeadingsRead, UNCHANGED <<file, at, section, dead, sections, present>>
  PROVE  HeadingsRead' /\ (PresentRead => PresentRead')
  <1>1. /\ \A n \in Names : (n \in sections)' <=>
             n # NoName /\ \E h \in 1 .. at' : HeadingLine(h)' /\ file'.lines[h].name = n
        /\ \A h \in 1 .. at' : Governs(h, at)' => section' = file'.lines[h].name
    BY SameFile DEF HeadingsRead
  <1>2. section' # NoName => \E h \in 1 .. at' :
             /\ Governs(h, at)'
             /\ dead' = \E g \in 1 .. h - 1 : HeadingLine(g)' /\ file'.lines[g].name = section'
    BY SameFile DEF HeadingsRead
  <1>3. ASSUME PresentRead PROVE \A s, k \in Names : (<<s, k>> \in present)' <=>
             s # NoName /\ \E i \in 1 .. at' : EntryOf(i, s, k)'
    BY <1>3, SameFile DEF PresentRead
  <1> QED BY <1>1, <1>2, <1>3 DEF HeadingsRead, PresentRead

LEMMA EndScanStep == ASSUME IInv, EndScan PROVE IInv'
  <1>1. ReaderTypeOK'
    BY DEF IInv, EndScan, ReaderTypeOK, scanVars, Stages
  <1>2. ScanInv'
    <2>1. UNCHANGED <<file, at, section, dead, sections, present>> /\ stage = "scan" /\ stage' = "network"
      BY DEF EndScan, scanVars
    <2>2. MarkOnHeading' = MarkOnHeading
      BY <2>1 DEF MarkOnHeading
    <2>3. file # NoFile /\ at \in 0 .. Len(file.lines) /\ HeadingsRead /\ (~MarkOnHeading => PresentRead)
      BY <2>1 DEF IInv, ScanInv
    <2>4. HeadingsRead' /\ (~MarkOnHeading' => PresentRead')
      BY <2>1, <2>2, <2>3, PrefixUnchanged
    <2>5. at' \in 0 .. Len(file'.lines) /\ file' # NoFile
      BY <2>1, <2>3
    <2> QED BY <2>1, <2>4, <2>5 DEF ScanInv
  <1> QED BY <1>1, <1>2 DEF IInv

\* One section's reader: the scan's findings stay, and out stays valid.
LEMMA ReadSectionStep ==
  ASSUME IInv, NEW from \in Stages \ {"idle", "scan", "done"}, NEW to \in Stages \ {"idle", "scan"},
         NEW settings \in SUBSET Settings, NEW more \in SUBSET Reports,
         ReadSection(from, to, settings, more)
  PROVE  IInv'
  <1>1. UNCHANGED <<file, at, section, dead, sections, keys, present>> /\ stage = from /\ stage' = to
    BY DEF ReadSection, scanVars
  <1>2. ReaderTypeOK /\ file # NoFile
    BY <1>1 DEF IInv, ScanInv
  <1>3. \A k \in Settings : ValidAnswer(k, ReadSetting(k))
    BY <1>2, ReadSettingValid
  <1>4. DOMAIN out' = Settings /\ \A k \in Settings : out'[k] \in ValidValues(k)
    BY <1>2, <1>3 DEF ReadSection, ValidAnswer, ReaderTypeOK
  <1>5. log' \subseteq Reports
    <2>1. \A k \in settings : ReadSetting(k).reports \subseteq Reports
      BY <1>3 DEF ValidAnswer
    <2>2. log' = log \cup more \cup UNION {ReadSetting(k).reports : k \in settings}
      BY DEF ReadSection
    <2>3. log \subseteq Reports
      BY <1>2 DEF ReaderTypeOK
    <2> DEFINE U == UNION {ReadSetting(k).reports : k \in settings}
    <2>4. U \subseteq Reports
      BY <2>1
    <2>5. log' = log \cup more \cup U
      BY <2>2
    <2>6. more \subseteq Reports
      OBVIOUS
    <2> HIDE DEF U
    <2> QED BY <2>3, <2>4, <2>5, <2>6
  <1>6. ReaderTypeOK'
    BY <1>1, <1>2, <1>4, <1>5 DEF ReaderTypeOK
  <1>7. MarkOnHeading' = MarkOnHeading
    BY <1>1 DEF MarkOnHeading
  <1>8. at \in 0 .. Len(file.lines) /\ HeadingsRead /\ (~MarkOnHeading => PresentRead)
    BY <1>1, <1>2 DEF IInv, ScanInv
  <1>9. HeadingsRead' /\ (~MarkOnHeading' => PresentRead')
    BY <1>1, <1>7, <1>8, PrefixUnchanged
  <1> QED BY <1>1, <1>2, <1>6, <1>8, <1>9 DEF IInv, ScanInv

LEMMA ReadSectionsStep == ASSUME IInv, ReadSections PROVE IInv'
  <1>1. /\ Network \in SUBSET Settings /\ General \in SUBSET Settings /\ Hotkeys \in SUBSET Settings
        /\ Rotation \in SUBSET Settings /\ Position \in SUBSET Settings
    BY DEF Settings
  <1>2. RetiredReports \in SUBSET Reports
    <2>1. Retired \subseteq Names \X Names
      BY NamesAssumption DEF Retired
    <2>2. \A x \in RetiredReports : \E r \in Retired : x = <<"retired", r[1], r[2]>>
      BY DEF RetiredReports
    <2>3. \A r \in Retired : <<"retired", r[1], r[2]>> \in Reports
      BY <2>1 DEF Reports
    <2> QED BY <2>2, <2>3
  <1>3. \A group \in SUBSET Settings : Collisions(group) \in SUBSET Reports
    <2> SUFFICES ASSUME NEW group \in SUBSET Settings PROVE Collisions(group) \subseteq Reports
      OBVIOUS
    <2>1. \A x \in Collisions(group) : \E p \in group \X group : x = <<"collides", p[1], p[2]>>
      BY DEF Collisions
    <2>2. \A p \in group \X group : <<"collides", p[1], p[2]>> \in Reports
      BY NamesAssumption DEF Reports
    <2> QED BY <2>1, <2>2
  <1>4. Collisions(NavKeys) \cup Collisions(ChordKeys) \in SUBSET Reports
    BY <1>3 DEF Settings, Hotkeys
  <1>5. {} \in SUBSET Reports
    OBVIOUS
  <1>6. CASE ReadNetworkSection
    BY <1>1, <1>5, <1>6, ReadSectionStep DEF ReadNetworkSection, Stages
  <1>7. CASE ReadGeneralSection
    BY <1>1, <1>5, <1>7, ReadSectionStep DEF ReadGeneralSection, Stages
  <1>8. CASE ReadHotkeysSection
    BY <1>1, <1>4, <1>8, ReadSectionStep DEF ReadHotkeysSection, Stages
  <1>9. CASE ReadRotationSection
    BY <1>1, <1>2, <1>9, ReadSectionStep DEF ReadRotationSection, Stages
  <1>10. CASE ReadPositionSection
    BY <1>1, <1>5, <1>10, ReadSectionStep DEF ReadPositionSection, Stages
  <1> QED BY <1>6, <1>7, <1>8, <1>9, <1>10 DEF ReadSections

--------------------------------------------------------------------------------
(* The scan of one line. *)

\* A line that is read adds to what the prefix says only what it says itself.
LEMMA OtherKeepsPrefix ==
  ASSUME ReaderTypeOK, file # NoFile, HeadingsRead, ScanOther
  PROVE  HeadingsRead' /\ (PresentRead => PresentRead')
  <1>1. /\ at \in Nat /\ Len(file.lines) \in Nat /\ at' = at + 1 /\ file.lines[at + 1].is = "other"
        /\ UNCHANGED <<file, section, dead, sections, present>>
    BY FileShape DEF ReaderTypeOK, ScanOther, Scanning
  <1>2. \A h \in 1 .. at : Governs(h, at + 1) <=> Governs(h, at)
    BY <1>1 DEF Governs, HeadingLine
  <1>3. ~HeadingLine(at + 1) /\ \A s, k : ~EntryOf(at + 1, s, k)
    BY <1>1 DEF HeadingLine, EntryOf
  <1>4. \A h \in 1 .. at + 1 : h \in 1 .. at \/ h = at + 1
    BY <1>1
  <1>5. /\ \A n \in Names : (n \in sections)' <=>
             n # NoName /\ \E h \in 1 .. at' : HeadingLine(h)' /\ file'.lines[h].name = n
        /\ \A h \in 1 .. at' : Governs(h, at)' => section' = file'.lines[h].name
    BY <1>1, <1>2, <1>3, <1>4, SameFile DEF HeadingsRead, Governs
  <1>6. section' # NoName => \E h \in 1 .. at' :
             /\ Governs(h, at)'
             /\ dead' = \E g \in 1 .. h - 1 : HeadingLine(g)' /\ file'.lines[g].name = section'
    <2> SUFFICES ASSUME section # NoName PROVE \E h \in 1 .. at' :
             /\ Governs(h, at)'
             /\ dead' = \E g \in 1 .. h - 1 : HeadingLine(g)' /\ file'.lines[g].name = section'
      BY <1>1
    <2>1. PICK h \in 1 .. at : /\ Governs(h, at)
                              /\ dead = \E g \in 1 .. h - 1 : HeadingLine(g) /\ file.lines[g].name = section
      BY DEF HeadingsRead
    <2>2. h \in 1 .. at' /\ Governs(h, at)'
      BY <1>1, <1>2, <2>1 DEF Governs, HeadingLine
    <2> QED BY <1>1, <2>1, <2>2, SameFile
  <1>7. ASSUME PresentRead PROVE \A s, k \in Names : (<<s, k>> \in present)' <=>
             s # NoName /\ \E i \in 1 .. at' : EntryOf(i, s, k)'
    <2> SUFFICES ASSUME NEW s \in Names, NEW k \in Names
                 PROVE  (<<s, k>> \in present)' <=> s # NoName /\ \E i \in 1 .. at' : EntryOf(i, s, k)'
      OBVIOUS
    <2>1. (\E i \in 1 .. at' : EntryOf(i, s, k)') <=> \E i \in 1 .. at : EntryOf(i, s, k)
      BY <1>1, <1>3, <1>4, SameFile
    <2>2. <<s, k>> \in present <=> s # NoName /\ \E i \in 1 .. at : EntryOf(i, s, k)
      BY <1>7 DEF PresentRead
    <2> QED BY <1>1, <2>1, <2>2
  <1> QED BY <1>5, <1>6, <1>7 DEF HeadingsRead, PresentRead

LEMMA LineScanned ==
  ASSUME ReaderTypeOK, file # NoFile, NEW kind, Scanning(kind)
  PROVE  /\ stage = "scan" /\ at \in Nat /\ Len(file.lines) \in Nat /\ at' = at + 1
         /\ at \in 0 .. Len(file.lines) - 1 /\ at + 1 \in 1 .. Len(file.lines)
         /\ file.lines[at + 1].is = kind
         /\ file.lines[at + 1].name \in Names
  <1>1. /\ stage = "scan" /\ at' = at + 1 /\ file.lines[at + 1].is = kind
        /\ at < Len(file.lines)
    BY DEF Scanning
  <1>2. at \in Nat
    BY DEF ReaderTypeOK
  <1>3. Len(file.lines) \in Nat
    BY FileShape
  <1>4. at \in 0 .. Len(file.lines) - 1 /\ at + 1 \in 1 .. Len(file.lines)
    BY <1>1, <1>2, <1>3
  <1>5. file.lines[at + 1].name \in Names
    BY <1>4, FileShape
  <1> QED BY <1>1, <1>2, <1>3, <1>4, <1>5

\* After a heading the section is the one it names, dead if the name was there before.
LEMMA HeadingKeepsPrefix ==
  ASSUME ReaderTypeOK, file # NoFile, HeadingsRead, ScanHeading
  PROVE  HeadingsRead' /\ (PresentRead => PresentRead')
  <1> DEFINE name == file.lines[at + 1].name
  <1>a. Scanning("heading")
    BY DEF ScanHeading
  <1>b. /\ at \in Nat /\ Len(file.lines) \in Nat /\ at' = at + 1 /\ at + 1 \in 1 .. Len(file.lines)
        /\ HeadingLine(at + 1)
    BY <1>a, LineScanned DEF HeadingLine
  <1>c. /\ UNCHANGED <<file, present>>
        /\ section' = name
        /\ name = NoName => dead' = dead /\ sections' = sections
        /\ name # NoName => dead' = (name \in sections) /\ sections' = sections \cup {name}
    BY DEF ScanHeading
  <1>1. /\ at \in Nat /\ Len(file.lines) \in Nat /\ at' = at + 1 /\ at + 1 \in 1 .. Len(file.lines)
        /\ HeadingLine(at + 1)
        /\ UNCHANGED <<file, present>>
        /\ section' = name
        /\ name = NoName => dead' = dead /\ sections' = sections
        /\ name # NoName => dead' = (name \in sections) /\ sections' = sections \cup {name}
    BY <1>b, <1>c
  <1>2. name \in Names
    BY <1>1, FileShape
  <1>3. \A h \in 1 .. at + 1 : h \in 1 .. at \/ h = at + 1
    BY <1>1
  <1>4. Governs(at + 1, at + 1) /\ \A h \in 1 .. at : ~Governs(h, at + 1)
    BY <1>1 DEF Governs
  <1>5. \A s, k : ~EntryOf(at + 1, s, k)
    BY <1>1 DEF HeadingLine, EntryOf
  <1>6. \A n \in Names : (n \in sections)' <=>
           n # NoName /\ \E h \in 1 .. at' : HeadingLine(h)' /\ file'.lines[h].name = n
    <2> SUFFICES ASSUME NEW n \in Names
                 PROVE  (n \in sections)' <=>
                          n # NoName /\ \E h \in 1 .. at' : HeadingLine(h)' /\ file'.lines[h].name = n
      OBVIOUS
    <2>1. n \in sections <=> n # NoName /\ \E h \in 1 .. at : HeadingLine(h) /\ file.lines[h].name = n
      BY DEF HeadingsRead
    <2>2. (\E h \in 1 .. at' : HeadingLine(h)' /\ file'.lines[h].name = n)
            <=> n = name \/ \E h \in 1 .. at : HeadingLine(h) /\ file.lines[h].name = n
      BY <1>1, <1>3, SameFile
    <2>3. (n \in sections)' <=> n \in sections \/ (n = name /\ name # NoName)
      BY <1>1
    <2> QED BY <2>1, <2>2, <2>3
  <1>7. \A h \in 1 .. at' : Governs(h, at)' => section' = file'.lines[h].name
    BY <1>1, <1>3, <1>4, SameFile DEF Governs, HeadingLine
  <1>8. section' # NoName => \E h \in 1 .. at' :
             /\ Governs(h, at)'
             /\ dead' = \E g \in 1 .. h - 1 : HeadingLine(g)' /\ file'.lines[g].name = section'
    <2> SUFFICES ASSUME name # NoName, NEW h \in 1 .. at', h = at + 1
                 PROVE  /\ Governs(h, at)'
                        /\ dead' = \E g \in 1 .. h - 1 : HeadingLine(g)' /\ file'.lines[g].name = section'
      <3>1. at + 1 \in 1 .. at'
        BY <1>1
      <3> QED BY <1>1, <3>1
    <2>1. h \in 1 .. at' /\ h - 1 = at
      BY <1>1
    <2>2. Governs(h, at)'
      BY <1>1, SameFile DEF Governs, HeadingLine
    <2>3. name \in sections <=> \E g \in 1 .. h - 1 : HeadingLine(g)' /\ file'.lines[g].name = section'
      BY <1>1, <1>2, <2>1, SameFile DEF HeadingsRead
    <2>4. dead' = (name \in sections)
      BY <1>1
    <2> HIDE DEF name
    <2>5. CASE name \in sections
      <3>1. dead' = TRUE
        BY <2>4, <2>5, Zenon
      <3> QED BY <2>1, <2>2, <2>3, <2>5, <3>1
    <2>6. CASE name \notin sections
      <3>a. (name \in sections) = FALSE
        BY <2>6, SMT
      <3>1. dead' = FALSE
        BY <2>4, <3>a, Zenon
      <3> QED BY <2>1, <2>2, <2>3, <2>6, <3>1
    <2> QED BY <2>5, <2>6
  <1>9. ASSUME PresentRead PROVE \A s, k \in Names : (<<s, k>> \in present)' <=>
             s # NoName /\ \E i \in 1 .. at' : EntryOf(i, s, k)'
    <2> SUFFICES ASSUME NEW s \in Names, NEW k \in Names
                 PROVE  (<<s, k>> \in present)' <=> s # NoName /\ \E i \in 1 .. at' : EntryOf(i, s, k)'
      OBVIOUS
    <2>1. (\E i \in 1 .. at' : EntryOf(i, s, k)') <=> \E i \in 1 .. at : EntryOf(i, s, k)
      BY <1>1, <1>3, <1>5, SameFile
    <2>2. <<s, k>> \in present <=> s # NoName /\ \E i \in 1 .. at : EntryOf(i, s, k)
      BY <1>9 DEF PresentRead
    <2> QED BY <1>1, <2>1, <2>2
  <1> QED BY <1>6, <1>7, <1>8, <1>9 DEF HeadingsRead, PresentRead

\* An entry is noted as present when, and only when, the API finds it.
LEMMA EntryKeepsPrefix ==
  ASSUME ReaderTypeOK, file # NoFile, HeadingsRead, ScanEntry
  PROVE  HeadingsRead' /\ (~MarkOnHeading /\ PresentRead => PresentRead')
  <1> DEFINE name == file.lines[at + 1].name
  <1>a. Scanning("entry")
    BY DEF ScanEntry
  <1>b. /\ at \in Nat /\ Len(file.lines) \in Nat /\ at' = at + 1 /\ at \in 0 .. Len(file.lines) - 1
        /\ file.lines[at + 1].is = "entry"
    BY <1>a, LineScanned
  <1>c. /\ UNCHANGED <<file, section, dead, sections>>
        /\ section = NoName => present' = present
        /\ section # NoName => present' = IF dead THEN present ELSE present \cup {<<section, name>>}
    BY DEF ScanEntry
  <1>1. /\ at \in Nat /\ Len(file.lines) \in Nat /\ at' = at + 1 /\ at \in 0 .. Len(file.lines) - 1
        /\ file.lines[at + 1].is = "entry"
        /\ UNCHANGED <<file, section, dead, sections>>
        /\ section = NoName => present' = present
        /\ section # NoName => present' = IF dead THEN present ELSE present \cup {<<section, name>>}
    BY <1>b, <1>c
  <1>2. \A h \in 1 .. at : Governs(h, at + 1) <=> Governs(h, at)
    BY <1>1 DEF Governs, HeadingLine
  <1>3. ~HeadingLine(at + 1)
    BY <1>1 DEF HeadingLine
  <1>4. \A h \in 1 .. at + 1 : h \in 1 .. at \/ h = at + 1
    BY <1>1
  <1>5. /\ \A n \in Names : (n \in sections)' <=>
             n # NoName /\ \E h \in 1 .. at' : HeadingLine(h)' /\ file'.lines[h].name = n
        /\ \A h \in 1 .. at' : Governs(h, at)' => section' = file'.lines[h].name
    BY <1>1, <1>2, <1>3, <1>4, SameFile DEF HeadingsRead, Governs
  <1>6. section' # NoName => \E h \in 1 .. at' :
             /\ Governs(h, at)'
             /\ dead' = \E g \in 1 .. h - 1 : HeadingLine(g)' /\ file'.lines[g].name = section'
    <2> SUFFICES ASSUME section # NoName PROVE \E h \in 1 .. at' :
             /\ Governs(h, at)'
             /\ dead' = \E g \in 1 .. h - 1 : HeadingLine(g)' /\ file'.lines[g].name = section'
      BY <1>1
    <2>1. PICK h \in 1 .. at : /\ Governs(h, at)
                              /\ dead = \E g \in 1 .. h - 1 : HeadingLine(g) /\ file.lines[g].name = section
      BY DEF HeadingsRead
    <2>2. h \in 1 .. at' /\ Governs(h, at)'
      BY <1>1, <1>2, <2>1 DEF Governs, HeadingLine
    <2> QED BY <1>1, <2>1, <2>2, SameFile
  <1>7. ASSUME ~MarkOnHeading, PresentRead PROVE \A s, k \in Names : (<<s, k>> \in present)' <=>
             s # NoName /\ \E i \in 1 .. at' : EntryOf(i, s, k)'
    <2> SUFFICES ASSUME NEW s \in Names, NEW k \in Names
                 PROVE  (<<s, k>> \in present)' <=> s # NoName /\ \E i \in 1 .. at' : EntryOf(i, s, k)'
      OBVIOUS
    <2>1. (\E i \in 1 .. at' : EntryOf(i, s, k)')
            <=> (\E i \in 1 .. at : EntryOf(i, s, k)) \/ EntryOf(at + 1, s, k)
      BY <1>1, <1>4, SameFile
    <2>2. <<s, k>> \in present <=> s # NoName /\ \E i \in 1 .. at : EntryOf(i, s, k)
      BY <1>7 DEF PresentRead
    <2>3. s # NoName => (EntryOf(at + 1, s, k) <=> name = k /\ section = s /\ ~dead)
      BY <1>1, <1>7, NextEntry
    <2>4. (<<s, k>> \in present)'
            <=> <<s, k>> \in present \/ (section # NoName /\ ~dead /\ section = s /\ name = k)
      BY <1>1
    <2> QED BY <2>1, <2>2, <2>3, <2>4
  <1> QED BY <1>5, <1>6, <1>7 DEF HeadingsRead, PresentRead

LEMMA ScanStep == ASSUME IInv, Scan PROVE IInv'
  <1>1. CASE EndScan
    BY <1>1, EndScanStep
  <1>2. CASE ScanOther \/ ScanHeading \/ ScanEntry
    <2>a. \E kind \in {"other", "heading", "entry"} : Scanning(kind)
      BY <1>2 DEF ScanOther, ScanHeading, ScanEntry
    <2>b. stage = "scan"
      BY <2>a DEF Scanning
    <2>c. ReaderTypeOK /\ file # NoFile /\ HeadingsRead /\ (~MarkOnHeading => PresentRead)
      BY <2>b DEF IInv, ScanInv
    <2>d. /\ Len(file.lines) \in Nat /\ at \in 0 .. Len(file.lines) - 1 /\ at' = at + 1
          /\ file.lines[at + 1].name \in Names
      BY <2>a, <2>c, LineScanned
    <2>e. UNCHANGED <<file, stage, out>>
      BY <1>2 DEF ScanOther, ScanHeading, ScanEntry
    <2>1. /\ ReaderTypeOK /\ stage = "scan" /\ file # NoFile /\ Len(file.lines) \in Nat
          /\ at \in 0 .. Len(file.lines) - 1 /\ at' = at + 1
          /\ UNCHANGED <<file, stage, out>>
          /\ HeadingsRead /\ (~MarkOnHeading => PresentRead)
      BY <2>b, <2>c, <2>d, <2>e
    <2>2. file.lines[at + 1].name \in Names /\ NoName \in Names
      BY <2>d, NamesAssumption
    <2>f. section \in Names /\ dead \in BOOLEAN /\ sections \subseteq Names
          /\ keys \subseteq Names \X Names /\ present \subseteq Names \X Names
      BY <2>1 DEF ReaderTypeOK
    <2> DEFINE name == file.lines[at + 1].name
    <2>g. name \in Names
      BY <2>2
    <2>h. ScanHeading => section' = name /\ (dead' = dead \/ dead' = (name \in sections))
            /\ (sections' = sections \/ sections' = sections \cup {name}) /\ UNCHANGED <<keys, present>>
      BY DEF ScanHeading
    <2>i. ScanEntry => /\ keys' = keys \/ keys' = keys \cup {<<section, name>>}
                       /\ present' = present \/ present' = present \cup {<<section, name>>}
                       /\ UNCHANGED <<section, dead, sections>>
      BY DEF ScanEntry
    <2>j. ScanOther => UNCHANGED <<section, dead, sections, keys, present>>
      BY DEF ScanOther
    <2> HIDE DEF name
    <2>k. (name \in sections) \in BOOLEAN
      BY SMT
    <2>l. dead' \in BOOLEAN
      BY <1>2, <2>f, <2>h, <2>i, <2>j, <2>k, Zenon
    <2>3. section' \in Names /\ dead' \in BOOLEAN /\ sections' \subseteq Names
      BY <1>2, <2>f, <2>g, <2>h, <2>i, <2>j, <2>l
    <2>4. keys' \subseteq Names \X Names /\ present' \subseteq Names \X Names
      BY <1>2, <2>f, <2>g, <2>h, <2>i, <2>j
    <2>5. log' \subseteq Reports
      <3>1. \A n, k \in Names : /\ <<"repeated section", n, k>> \in Reports
                                /\ <<"byte order mark", n, k>> \in Reports
                                /\ <<"repeated key", n, k>> \in Reports
        BY DEF Reports
      <3>2. log \subseteq Reports /\ section \in Names
        BY <2>1 DEF ReaderTypeOK
      <3>3. CASE ScanOther
        BY <3>2, <3>3 DEF ScanOther
      <3>4. CASE ScanHeading
        BY <2>2, <3>1, <3>2, <3>4 DEF ScanHeading
      <3>5. CASE ScanEntry
        <4>1. log' = log \/ log' = log \cup {<<"repeated key", section, name>>}
          BY <3>5, Zenon DEF ScanEntry, name
        <4>2. <<"repeated key", section, name>> \in Reports
          BY <2>g, <3>1, <3>2
        <4> QED BY <3>2, <4>1, <4>2
      <3> QED BY <1>2, <3>3, <3>4, <3>5
    <2>6. ReaderTypeOK'
      BY <2>1, <2>3, <2>4, <2>5 DEF ReaderTypeOK
    <2>7. HeadingsRead' /\ (~MarkOnHeading' => PresentRead')
      <3>1. MarkOnHeading' = MarkOnHeading
        BY <2>1 DEF MarkOnHeading
      <3> QED BY <1>2, <2>1, <3>1, OtherKeepsPrefix, HeadingKeepsPrefix, EntryKeepsPrefix
    <2>8. at' \in 0 .. Len(file'.lines)
      BY <2>1
    <2> QED BY <2>1, <2>6, <2>7, <2>8 DEF IInv, ScanInv
  <1> QED BY <1>1, <1>2 DEF Scan

--------------------------------------------------------------------------------
(* The theorems. *)

LEMMA ProcessEndsStep == ASSUME ProcessEnds PROVE IInv'
  <1>1. ReaderTypeOK'
    BY ShippedValid, NamesAssumption DEF ProcessEnds, ReaderTypeOK, Stages
  <1>2. ScanInv'
    BY DEF ProcessEnds, ScanInv
  <1> QED BY <1>1, <1>2 DEF IInv

LEMMA StepIInv == IInv /\ [ReaderNext]_readerVars => IInv'
  <1> SUFFICES ASSUME IInv, [ReaderNext]_readerVars PROVE IInv'
    OBVIOUS
  <1>1. CASE Reading
    BY <1>1, ScanStep, ReadSectionsStep DEF Reading
  <1>2. CASE ProcessEnds
    BY <1>2, ProcessEndsStep
  <1>3. CASE \E f \in Files \cup {NoFile}, scans \in BOOLEAN : Open(f, scans)
    BY <1>3, OpenStep
  <1>4. CASE UNCHANGED readerVars
    <2>1. ReaderTypeOK' /\ UNCHANGED <<file, at, section, dead, sections, present, stage>>
      BY <1>4 DEF IInv, ReaderTypeOK, readerVars
    <2>2. MarkOnHeading' = MarkOnHeading
      BY <2>1 DEF MarkOnHeading
    <2>3. HeadingsRead => HeadingsRead' /\ (PresentRead => PresentRead')
      BY <2>1, PrefixUnchanged
    <2> QED BY <2>1, <2>2, <2>3 DEF IInv, ScanInv
  <1> QED BY <1>1, <1>2, <1>3, <1>4 DEF ReaderNext

THEOREM ReaderInvariance == ReaderSpec => []IInv
  BY InitIInv, StepIInv, PTL DEF ReaderSpec

\* Whatever a file of any length holds, every setting read from it is in range.
THEOREM ReaderTypeCorrect == ReaderSpec => []ReaderTypeOK
  <1>1. IInv => ReaderTypeOK
    BY DEF IInv
  <1> QED BY <1>1, ReaderInvariance, PTL

\* The scan takes a setting to be there exactly when the profile API finds it, in
\* every file it could open whose first heading has no byte order mark on it.
THEOREM ParsersAgree == ReaderSpec => []ScanSeesWhatIsRead
  <1>1. IInv => ScanSeesWhatIsRead
    <2> SUFFICES ASSUME IInv, Scanned, ~MarkOnHeading, NEW k \in Settings
                 PROVE  <<SectionOf(k), k>> \in present <=> EntriesOf(SectionOf(k), k) # {}
      BY DEF ScanSeesWhatIsRead
    <2>1. ReaderTypeOK /\ file # NoFile /\ at = Len(file.lines) /\ PresentRead
      BY DEF IInv, ScanInv, Scanned
    <2>2. k \in Names /\ SectionOf(k) \in Names /\ SectionOf(k) # NoName
      BY NamesAssumption, Sections
    <2>3. <<SectionOf(k), k>> \in present <=> \E i \in 1 .. at : EntryOf(i, SectionOf(k), k)
      BY <2>1, <2>2 DEF PresentRead
    <2>4. DOMAIN file.lines = 1 .. at
      BY <2>1, FileShape
    <2> QED BY <2>3, <2>4 DEF EntriesOf
  <1> QED BY <1>1, ReaderInvariance, PTL

--------------------------------------------------------------------------------
(* Nothing is ignored silently. *)

NameOf(i) == file.lines[i].name

\* A heading above h has its name.
Repeats(h) == \E g \in 1 .. h - 1 : HeadingLine(g) /\ NameOf(g) = NameOf(h)

\* Line i is an entry under heading h, which names a section.
EntryUnder(h, i) == Governs(h, i) /\ file.lines[i].is = "entry" /\ NameOf(h) # NoName

EntriesTold ==
  \A i \in 1 .. at : \A h \in 1 .. i : EntryUnder(h, i) =>
    /\ <<NameOf(h), NameOf(i)>> \in keys
    /\ Repeats(h) \/ <<NameOf(h), NameOf(i)>> \in present
    /\ \A j \in 1 .. i - 1 : \A g \in 1 .. j :
         EntryUnder(g, j) /\ NameOf(g) = NameOf(h) /\ NameOf(j) = NameOf(i) =>
           <<"repeated key", NameOf(h), NameOf(i)>> \in log

HeadingsTold ==
  /\ \A h \in 1 .. at : HeadingLine(h) /\ NameOf(h) # NoName /\ Repeats(h) =>
       <<"repeated section", NameOf(h), NoName>> \in log
  /\ MarkOnHeading /\ at > 0 => <<"byte order mark", NameOf(1), NoName>> \in log

Told == EntriesTold /\ HeadingsTold

\* What the readers are done with at each stage.
SettingsRead ==
  IF stage = "general" THEN Network
  ELSE IF stage = "hotkeys" THEN Network \cup General
  ELSE IF stage = "rotation" THEN Network \cup General \cup Hotkeys
  ELSE IF stage = "position" THEN Network \cup General \cup Hotkeys \cup Rotation
  ELSE IF stage = "done" THEN Settings ELSE {}

\* The value is the one the API answers with, or the reports say why it is not.
AccountsFor(k, value, reports) ==
  \/ \E why \in {"empty", "unreadable", "refused"} : <<why, SectionOf(k), k>> \in reports
  \/ /\ \/ ReadString(SectionOf(k), k).kind = "number"
        \/ k \in Network /\ ReadString(SectionOf(k), k).kind # "blank"
     /\ value = ReadString(SectionOf(k), k).n

There(k) == <<SectionOf(k), k>> \in present /\ EntriesOf(SectionOf(k), k) # {}

Answered ==
  /\ \A k \in SettingsRead : There(k) => AccountsFor(k, out[k], log)
  /\ stage \in {"position", "done"} => RetiredReports \subseteq log

ToldInv == stage # "idle" /\ file # NoFile => Told /\ Answered

\* A set of line numbers of a file has a last one.
LEMMA LastLine ==
  ASSUME NEW n \in Nat, NEW S \in SUBSET (1 .. n), S # {}
  PROVE  \E m \in S : \A j \in S : j <= m
  <1> DEFINE T == {n - j : j \in S}
  <1>1. T \in SUBSET Nat /\ T # {}
    <2>1. \A j \in S : n - j \in Nat
      OBVIOUS
    <2>2. PICK j \in S : TRUE
      OBVIOUS
    <2>3. n - j \in T
      BY <2>2
    <2> QED BY <2>1, <2>3
  <1>2. PICK t \in T : \A u \in T : t <= u
    BY <1>1, FirstLine
  <1>3. PICK m \in S : t = n - m
    BY <1>2
  <1>4. \A j \in S : n - m <= n - j
    BY <1>2, <1>3
  <1>5. \A j \in S : j <= m
    BY <1>4
  <1> QED BY <1>5

LEMMA SameNames ==
  ASSUME file' = file
  PROVE  /\ \A i : NameOf(i)' = NameOf(i)
         /\ \A h : Repeats(h)' <=> Repeats(h)
         /\ \A h, i : EntryUnder(h, i)' <=> EntryUnder(h, i)
         /\ MarkOnHeading' <=> MarkOnHeading
         /\ \A s, k : EntriesOf(s, k)' = EntriesOf(s, k)
         /\ \A s, k : ReadString(s, k)' = ReadString(s, k)
  <1>1. \A i : NameOf(i)' = NameOf(i)
    BY DEF NameOf
  <1>2. \A h : Repeats(h)' <=> Repeats(h)
    BY <1>1, SameFile DEF Repeats
  <1>3. \A h, i : EntryUnder(h, i)' <=> EntryUnder(h, i)
    BY <1>1, SameFile DEF EntryUnder
  <1>4. MarkOnHeading' <=> MarkOnHeading
    BY DEF MarkOnHeading
  <1>5. \A s, k : EntriesOf(s, k)' = EntriesOf(s, k)
    BY SameFile DEF EntriesOf
  <1>6. \A s, k : ReadString(s, k)' = ReadString(s, k)
    <2> DEFINE Of(f, E) == IF E = {} THEN NoValue
                           ELSE f.lines[CHOOSE i \in E : \A j \in E : i <= j].value
    <2>1. \A s, k : ReadString(s, k) = Of(file, EntriesOf(s, k))
      BY DEF ReadString
    <2>2. \A s, k : ReadString(s, k)' = Of(file', EntriesOf(s, k)')
      BY DEF ReadString, NoValue
    <2> HIDE DEF Of
    <2> QED BY <1>5, <2>1, <2>2
  <1> QED BY <1>1, <1>2, <1>3, <1>4, <1>5, <1>6

\* The scan of a line forgets nothing.
LEMMA ScanGrows ==
  ASSUME ReaderTypeOK, file # NoFile, ScanOther \/ ScanHeading \/ ScanEntry
  PROVE  /\ file' = file /\ at' = at + 1 /\ at \in Nat /\ stage = "scan" /\ stage' = "scan"
         /\ keys \subseteq keys' /\ present \subseteq present' /\ log \subseteq log'
  <1>1. \E kind \in {"other", "heading", "entry"} : Scanning(kind)
    BY DEF ScanOther, ScanHeading, ScanEntry
  <1>2. at' = at + 1 /\ at \in Nat /\ stage = "scan"
    BY <1>1, LineScanned
  <1>3. file' = file /\ stage' = stage
    BY DEF ScanOther, ScanHeading, ScanEntry
  <1>4. keys \subseteq keys' /\ present \subseteq present' /\ log \subseteq log'
    BY DEF ScanOther, ScanHeading, ScanEntry
  <1> QED BY <1>2, <1>3, <1>4

\* The entry read is in the section of its heading, and has been noted and spoken of.
LEMMA EntryNoted ==
  ASSUME ReaderTypeOK, file # NoFile, HeadingsRead, ScanEntry,
         NEW h \in 1 .. at + 1, EntryUnder(h, at + 1)
  PROVE  /\ <<NameOf(h), NameOf(at + 1)>> \in keys'
         /\ Repeats(h) \/ <<NameOf(h), NameOf(at + 1)>> \in present'
         /\ <<NameOf(h), NameOf(at + 1)>> \in keys =>
              <<"repeated key", NameOf(h), NameOf(at + 1)>> \in log'
  <1>1. /\ at \in Nat /\ file.lines[at + 1].is = "entry"
    BY LineScanned DEF ScanEntry
  <1>2. h \in 1 .. at /\ Governs(h, at)
    <2>1. ~HeadingLine(at + 1) /\ Governs(h, at + 1)
      BY <1>1 DEF HeadingLine, EntryUnder
    <2> QED BY <1>1, <2>1 DEF Governs
  <1>3. section = NameOf(h) /\ section # NoName
    BY <1>2 DEF HeadingsRead, NameOf, EntryUnder
  <1>4. dead => Repeats(h)
    <2>1. PICK h2 \in 1 .. at : /\ Governs(h2, at)
                               /\ dead = \E g \in 1 .. h2 - 1 : HeadingLine(g) /\ file.lines[g].name = section
      BY <1>3 DEF HeadingsRead
    <2>2. h2 = h
      BY <1>1, <1>2, <2>1 DEF Governs
    <2> QED BY <1>3, <2>1, <2>2 DEF Repeats, NameOf
  <1>5. /\ present' = IF dead THEN present ELSE present \cup {<<section, file.lines[at + 1].name>>}
        /\ log' = IF <<section, file.lines[at + 1].name>> \in keys
                    THEN log \cup {<<"repeated key", section, file.lines[at + 1].name>>} ELSE log
        /\ keys' = keys \cup {<<section, file.lines[at + 1].name>>}
    BY <1>3 DEF ScanEntry
  <1> QED BY <1>3, <1>4, <1>5 DEF NameOf

\* The heading read has been spoken of, if its name was there before or a mark is on it.
LEMMA HeadingNoted ==
  ASSUME ReaderTypeOK, file # NoFile, HeadingsRead, ScanHeading
  PROVE  /\ NameOf(at + 1) # NoName /\ Repeats(at + 1) =>
              <<"repeated section", NameOf(at + 1), NoName>> \in log'
         /\ MarkOnHeading /\ at = 0 => <<"byte order mark", NameOf(1), NoName>> \in log'
  <1>1. at \in Nat /\ file.lines[at + 1].name \in Names
    BY LineScanned DEF ScanHeading
  <1>2. NameOf(at + 1) # NoName /\ Repeats(at + 1) => NameOf(at + 1) \in sections
    BY <1>1 DEF HeadingsRead, Repeats, NameOf
  <1>3. /\ NameOf(at + 1) \in sections => <<"repeated section", NameOf(at + 1), NoName>> \in log'
        /\ file.bom /\ at = 0 => <<"byte order mark", NameOf(at + 1), NoName>> \in log'
    BY DEF ScanHeading, NameOf
  <1>4. at = 0 => NameOf(at + 1) = NameOf(1)
    BY DEF NameOf
  <1> QED BY <1>2, <1>3, <1>4 DEF MarkOnHeading

\* What is told of the lines of a file that stays, in terms of the lines as they are.
LEMMA EntriesToldNext ==
  ASSUME file' = file,
         \A i \in 1 .. at' : \A h \in 1 .. i : EntryUnder(h, i) =>
           /\ <<NameOf(h), NameOf(i)>> \in keys'
           /\ Repeats(h) \/ <<NameOf(h), NameOf(i)>> \in present'
           /\ \A j \in 1 .. i - 1 : \A g \in 1 .. j :
                EntryUnder(g, j) /\ NameOf(g) = NameOf(h) /\ NameOf(j) = NameOf(i) =>
                  <<"repeated key", NameOf(h), NameOf(i)>> \in log'
  PROVE  EntriesTold'
  <1>1. /\ \A i : NameOf(i)' = NameOf(i)
        /\ \A h : Repeats(h)' <=> Repeats(h)
        /\ \A h, i : EntryUnder(h, i)' <=> EntryUnder(h, i)
    BY SameNames
  <1> SUFFICES ASSUME NEW i \in 1 .. at', NEW h \in 1 .. i, EntryUnder(h, i)'
               PROVE  /\ (<<NameOf(h), NameOf(i)>> \in keys)'
                      /\ Repeats(h)' \/ (<<NameOf(h), NameOf(i)>> \in present)'
                      /\ \A j \in 1 .. i - 1 : \A g \in 1 .. j :
                           EntryUnder(g, j)' /\ (NameOf(g) = NameOf(h))' /\ (NameOf(j) = NameOf(i))' =>
                             (<<"repeated key", NameOf(h), NameOf(i)>> \in log)'
    BY DEF EntriesTold
  <1>2. EntryUnder(h, i)
    BY <1>1
  <1>3. (<<NameOf(h), NameOf(i)>> \in keys)'
    BY <1>1, <1>2
  <1>4. Repeats(h)' \/ (<<NameOf(h), NameOf(i)>> \in present)'
    BY <1>1, <1>2
  <1>5. ASSUME NEW j \in 1 .. i - 1, NEW g \in 1 .. j,
               EntryUnder(g, j)', (NameOf(g) = NameOf(h))', (NameOf(j) = NameOf(i))'
        PROVE  (<<"repeated key", NameOf(h), NameOf(i)>> \in log)'
    <2>1. EntryUnder(g, j) /\ NameOf(g) = NameOf(h) /\ NameOf(j) = NameOf(i)
      BY <1>1, <1>5
    <2>2. <<"repeated key", NameOf(h), NameOf(i)>> \in log'
      BY <1>2, <2>1
    <2> QED BY <1>1, <2>2
  <1> QED BY <1>3, <1>4, <1>5

LEMMA ScanKeepsTold ==
  ASSUME ReaderTypeOK, file # NoFile, HeadingsRead, Told, ScanOther \/ ScanHeading \/ ScanEntry
  PROVE  Told'
  <1>1. /\ file' = file /\ at' = at + 1 /\ at \in Nat
        /\ keys \subseteq keys' /\ present \subseteq present' /\ log \subseteq log'
    BY ScanGrows
  <1>2. \A i \in 1 .. at' : i \in 1 .. at \/ i = at + 1
    BY <1>1
  <1>3. /\ ScanEntry => file.lines[at + 1].is = "entry"
        /\ ScanHeading => HeadingLine(at + 1)
        /\ ScanOther => file.lines[at + 1].is = "other"
    BY LineScanned DEF ScanEntry, ScanHeading, ScanOther, HeadingLine
  <1>4. ASSUME NEW i \in 1 .. at', NEW h \in 1 .. i, EntryUnder(h, i)
        PROVE  /\ <<NameOf(h), NameOf(i)>> \in keys'
               /\ Repeats(h) \/ <<NameOf(h), NameOf(i)>> \in present'
               /\ \A j \in 1 .. i - 1 : \A g \in 1 .. j :
                    EntryUnder(g, j) /\ NameOf(g) = NameOf(h) /\ NameOf(j) = NameOf(i) =>
                      <<"repeated key", NameOf(h), NameOf(i)>> \in log'
    <2>1. CASE i \in 1 .. at
      <3>1. /\ <<NameOf(h), NameOf(i)>> \in keys
            /\ Repeats(h) \/ <<NameOf(h), NameOf(i)>> \in present
            /\ \A j \in 1 .. i - 1 : \A g \in 1 .. j :
                 EntryUnder(g, j) /\ NameOf(g) = NameOf(h) /\ NameOf(j) = NameOf(i) =>
                   <<"repeated key", NameOf(h), NameOf(i)>> \in log
        BY <1>4, <2>1 DEF Told, EntriesTold
      <3> QED BY <1>1, <3>1
    <2>2. CASE i = at + 1
      <3>1. ScanEntry
        BY <1>3, <1>4, <2>2 DEF EntryUnder, HeadingLine
      <3>2. EntryUnder(h, at + 1) /\ h \in 1 .. at + 1
        BY <1>4, <2>2
      <3>3. /\ <<NameOf(h), NameOf(at + 1)>> \in keys'
            /\ Repeats(h) \/ <<NameOf(h), NameOf(at + 1)>> \in present'
            /\ <<NameOf(h), NameOf(at + 1)>> \in keys =>
                 <<"repeated key", NameOf(h), NameOf(at + 1)>> \in log'
        BY <3>1, <3>2, EntryNoted
      <3>4. ASSUME NEW j \in 1 .. i - 1, NEW g \in 1 .. j, EntryUnder(g, j),
                   NameOf(g) = NameOf(h), NameOf(j) = NameOf(i)
            PROVE  <<"repeated key", NameOf(h), NameOf(i)>> \in log'
        <4>1. j \in 1 .. at
          BY <1>1, <2>2
        <4>2. <<NameOf(g), NameOf(j)>> \in keys
          BY <3>4, <4>1 DEF Told, EntriesTold
        <4> QED BY <2>2, <3>3, <3>4, <4>2
      <3> QED BY <2>2, <3>3, <3>4
    <2> QED BY <1>2, <2>1, <2>2
  <1>5. ASSUME NEW h \in 1 .. at', HeadingLine(h), NameOf(h) # NoName, Repeats(h)
        PROVE  <<"repeated section", NameOf(h), NoName>> \in log'
    <2>1. CASE h \in 1 .. at
      BY <1>1, <1>5, <2>1 DEF Told, HeadingsTold
    <2>2. CASE h = at + 1
      <3>1. ScanHeading
        BY <1>3, <1>5, <2>2 DEF HeadingLine
      <3> QED BY <1>5, <2>2, <3>1, HeadingNoted
    <2> QED BY <1>2, <2>1, <2>2
  <1>6. MarkOnHeading => <<"byte order mark", NameOf(1), NoName>> \in log'
    <2>1. CASE at > 0
      BY <1>1, <2>1 DEF Told, HeadingsTold
    <2>2. CASE at = 0
      <3> SUFFICES ASSUME MarkOnHeading PROVE <<"byte order mark", NameOf(1), NoName>> \in log'
        OBVIOUS
      <3>1. file.lines[at + 1].is = "heading"
        BY <2>2 DEF MarkOnHeading
      <3>2. ScanHeading
        BY <1>3, <3>1
      <3> QED BY <2>2, <3>2, HeadingNoted
    <2>3. at > 0 \/ at = 0
      BY <1>1
    <2> QED BY <2>1, <2>2, <2>3
  <1>7. EntriesTold'
    BY <1>1, <1>4, EntriesToldNext
  <1>8. HeadingsTold'
    BY <1>1, <1>5, <1>6, SameNames, SameFile DEF HeadingsTold
  <1> QED BY <1>7, <1>8 DEF Told

\* A step that leaves the file, the lines read and the scan's sets alone forgets nothing.
LEMMA ToldUnchanged ==
  ASSUME Told, UNCHANGED <<file, at, keys, present>>, log \subseteq log'
  PROVE  Told'
  <1>1. EntriesTold'
    <2> SUFFICES ASSUME NEW i \in 1 .. at, NEW h \in 1 .. i, EntryUnder(h, i)
                 PROVE  /\ <<NameOf(h), NameOf(i)>> \in keys'
                        /\ Repeats(h) \/ <<NameOf(h), NameOf(i)>> \in present'
                        /\ \A j \in 1 .. i - 1 : \A g \in 1 .. j :
                             EntryUnder(g, j) /\ NameOf(g) = NameOf(h) /\ NameOf(j) = NameOf(i) =>
                               <<"repeated key", NameOf(h), NameOf(i)>> \in log'
      BY EntriesToldNext
    <2> QED BY DEF Told, EntriesTold
  <1>2. HeadingsTold'
    BY SameNames, SameFile DEF Told, HeadingsTold
  <1> QED BY <1>1, <1>2 DEF Told

--------------------------------------------------------------------------------
(* Each reader answers with what the API found, or says why not. *)

LEMMA EmptyAccounts ==
  ASSUME NEW k, <<SectionOf(k), k>> \in present
  PROVE  AccountsFor(k, Empty(k).value, Empty(k).reports)
  BY DEF Empty, Answer, AccountsFor

LEMMA KeepingAccounts ==
  ASSUME NEW k, NEW why \in {"unreadable", "refused"}
  PROVE  AccountsFor(k, Keeps(k, why).value, Keeps(k, why).reports)
  BY DEF Keeps, Answer, AccountsFor

LEMMA PortAccounts ==
  ASSUME NEW k \in Network, There(k)
  PROVE  AccountsFor(k, ReadPort(k).value, ReadPort(k).reports)
  <1> DEFINE v == ReadString("Network", k)
             read == ReadInt(v)
             none == EntriesOf("Network", k) = {}
  <1>1. SectionOf(k) = "Network"
    BY DEF SectionOf
  <1>2. ~none
    BY <1>1 DEF There
  <1>3. ReadPort(k) = IF none THEN Answer(out[k], {})
                      ELSE IF read \in UdpPorts THEN Answer(read, {})
                      ELSE Keeps(k, IF v.kind = "number" THEN "refused" ELSE "unreadable")
    BY DEF ReadPort
  <1>4. read \in UdpPorts => v.kind # "blank"
    <2>1. 0 \notin UdpPorts
      BY SMT DEF UdpPorts
    <2> QED BY <2>1 DEF ReadInt
  <1>5. v.kind # "blank" => read = v.n
    BY DEF ReadInt
  <1>6. v.kind # "blank" => AccountsFor(k, v.n, {})
    BY <1>1 DEF AccountsFor
  <1> HIDE DEF v, read, none
  <1>7. CASE read \in UdpPorts
    BY <1>2, <1>3, <1>4, <1>5, <1>6, <1>7 DEF Answer
  <1>8. CASE read \notin UdpPorts
    BY <1>2, <1>3, <1>8, KeepingAccounts
  <1> QED BY <1>7, <1>8

LEMMA FlagAccounts ==
  ASSUME NEW k \in Flags, There(k)
  PROVE  AccountsFor(k, ReadFlag(k).value, ReadFlag(k).reports)
  <1> DEFINE v == ReadString(SectionOf(k), k)
             good == v.kind = "number" /\ v.n \in {0, 1} /\ ~v.comment
             blank == v.kind = "blank" /\ ~v.comment
  <1>1. ReadFlag(k) = IF blank THEN Empty(k) ELSE IF good THEN Answer(v.n, {})
                      ELSE Keeps(k, "unreadable")
    BY DEF ReadFlag
  <1>2. good => AccountsFor(k, Answer(v.n, {}).value, Answer(v.n, {}).reports)
    BY DEF AccountsFor, Answer
  <1>3. AccountsFor(k, Empty(k).value, Empty(k).reports)
    BY EmptyAccounts DEF There
  <1>4. AccountsFor(k, Keeps(k, "unreadable").value, Keeps(k, "unreadable").reports)
    BY KeepingAccounts
  <1> HIDE DEF v, good, blank
  <1> QED BY <1>1, <1>2, <1>3, <1>4

LEMMA KeyAccounts ==
  ASSUME NEW k \in Hotkeys, There(k)
  PROVE  AccountsFor(k, ReadKey(k).value, ReadKey(k).reports)
  <1> DEFINE v == ReadString("Hotkeys", k)
             blank == v.kind = "blank" /\ ~v.comment
  <1>1. ReadKey(k) = IF blank THEN Empty(k) ELSE IF v.kind # "number" THEN Keeps(k, "unreadable")
                     ELSE IF v.n \notin BindableVirtualKeys THEN Keeps(k, "refused")
                     ELSE Answer(v.n, {})
    BY DEF ReadKey
  <1>2. SectionOf(k) = "Hotkeys"
    BY Sections DEF SectionOf
  <1>3. v.kind = "number" => AccountsFor(k, Answer(v.n, {}).value, Answer(v.n, {}).reports)
    BY <1>2 DEF AccountsFor, Answer
  <1>4. AccountsFor(k, Empty(k).value, Empty(k).reports)
    BY EmptyAccounts DEF There
  <1>5. /\ AccountsFor(k, Keeps(k, "unreadable").value, Keeps(k, "unreadable").reports)
        /\ AccountsFor(k, Keeps(k, "refused").value, Keeps(k, "refused").reports)
    BY KeepingAccounts
  <1> HIDE DEF v, blank
  <1> QED BY <1>1, <1>3, <1>4, <1>5

LEMMA FloatAccounts ==
  ASSUME NEW k, There(k), NEW fallback, NEW hi
  PROVE  AccountsFor(k, ReadFloatValue(k, fallback, hi).value, ReadFloatValue(k, fallback, hi).reports)
  <1> DEFINE v == ReadString(SectionOf(k), k)
             clean == ClampRange(IF v.kind = "number" THEN v.n ELSE fallback, 0, hi)
             kept == v.kind = "number" /\ v.n = clean
             answer == Answer(clean, IF kept THEN {} ELSE {<<"refused", SectionOf(k), k>>})
  <1>1. ReadFloatValue(k, fallback, hi) =
          IF v.kind = "blank" THEN Empty(k) ELSE IF v.kind = "text" THEN Keeps(k, "unreadable")
          ELSE answer
    BY DEF ReadFloatValue
  <1>2. AccountsFor(k, answer.value, answer.reports)
    <2>1. answer.value = clean
          /\ (kept => v.kind = "number" /\ clean = v.n)
          /\ (~kept => <<"refused", SectionOf(k), k>> \in answer.reports)
      BY DEF Answer
    <2> HIDE DEF answer, clean, kept
    <2> QED BY <2>1 DEF AccountsFor
  <1>3. AccountsFor(k, Empty(k).value, Empty(k).reports)
    BY EmptyAccounts DEF There
  <1>4. AccountsFor(k, Keeps(k, "unreadable").value, Keeps(k, "unreadable").reports)
    BY KeepingAccounts
  <1> HIDE DEF v, answer
  <1> QED BY <1>1, <1>2, <1>3, <1>4

LEMMA SettingAccounts ==
  ASSUME NEW k \in Settings, There(k)
  PROVE  AccountsFor(k, ReadSetting(k).value, ReadSetting(k).reports)
  <1>1. CASE k \in Network
    BY <1>1, PortAccounts DEF ReadSetting
  <1>2. CASE k \notin Network /\ k \in Flags
    BY <1>2, FlagAccounts DEF ReadSetting
  <1>3. CASE k \notin Network /\ k \notin Flags /\ k \in Hotkeys
    BY <1>3, KeyAccounts DEF ReadSetting
  <1>4. CASE k \notin Network /\ k \notin Flags /\ k \notin Hotkeys
    <2>1. ReadSetting(k) = ReadFloatValue(k, Shipped[k], kMaxSmoothing)
          \/ ReadSetting(k) = ReadFloatValue(k, out[k], kMaxPositionLimit)
      BY <1>4 DEF ReadSetting
    <2> QED BY <2>1, FloatAccounts
  <1> QED BY <1>1, <1>2, <1>3, <1>4

\* A reader answers for the settings of its section, and changes nothing of the others.
LEMMA SectionKeepsAnswered ==
  ASSUME NEW from, NEW to, NEW settings \in SUBSET Settings, NEW more,
         ReadSection(from, to, settings, more),
         \A k \in SettingsRead : There(k) => AccountsFor(k, out[k], log),
         SettingsRead' \subseteq SettingsRead \cup settings, SettingsRead \subseteq Settings
  PROVE  \A k \in SettingsRead' : There(k)' => AccountsFor(k, out[k], log)'
  <1>1. /\ file' = file /\ present' = present /\ log \subseteq log' /\ more \subseteq log'
        /\ \A k \in settings : ReadSetting(k).reports \subseteq log'
        /\ out' = [k \in Settings |-> IF k \in settings THEN ReadSetting(k).value ELSE out[k]]
    BY DEF ReadSection, scanVars
  <1>2. \A k : There(k)' <=> There(k)
    BY <1>1, SameNames DEF There
  <1>3. \A k : AccountsFor(k, out'[k], log') => AccountsFor(k, out[k], log)'
    BY <1>1, SameNames DEF AccountsFor
  <1> SUFFICES ASSUME NEW k \in SettingsRead', There(k) PROVE AccountsFor(k, out'[k], log')
    BY <1>2, <1>3
  <1>4. CASE k \in settings
    <2>1. AccountsFor(k, ReadSetting(k).value, ReadSetting(k).reports)
      BY <1>4, SettingAccounts
    <2>2. out'[k] = ReadSetting(k).value /\ ReadSetting(k).reports \subseteq log'
      BY <1>1, <1>4
    <2> QED BY <2>1, <2>2 DEF AccountsFor
  <1>5. CASE k \notin settings
    <2>1. k \in SettingsRead /\ AccountsFor(k, out[k], log)
      BY <1>5
    <2>2. out'[k] = out[k]
      BY <1>1, <1>5, <2>1
    <2> QED BY <1>1, <2>1, <2>2 DEF AccountsFor
  <1> QED BY <1>4, <1>5

LEMMA ReadersKeepTold ==
  ASSUME IInv, ToldInv, ReadSections
  PROVE  ToldInv'
  <1>1. PICK from, to, settings, more :
          /\ ReadSection(from, to, settings, more)
          /\ settings \in SUBSET Settings
          /\ from \in {"network", "general", "hotkeys", "rotation", "position"}
          /\ <<from, to, settings, more>> \in
               {<<"network", "general", Network, {}>>, <<"general", "hotkeys", General, {}>>,
                <<"hotkeys", "rotation", Hotkeys, Collisions(NavKeys) \cup Collisions(ChordKeys)>>,
                <<"rotation", "position", Rotation, RetiredReports>>,
                <<"position", "done", Position, {}>>}
    <2>1. /\ Network \subseteq Settings /\ General \subseteq Settings /\ Hotkeys \subseteq Settings
          /\ Rotation \subseteq Settings /\ Position \subseteq Settings
      BY DEF Settings
    <2> QED BY <2>1 DEF ReadSections, ReadNetworkSection, ReadGeneralSection, ReadHotkeysSection,
                        ReadRotationSection, ReadPositionSection
  <1>2. /\ stage = from /\ stage' = to /\ UNCHANGED <<file, at, keys, present>>
        /\ log \subseteq log' /\ more \subseteq log'
    BY <1>1 DEF ReadSection, scanVars
  <1>3. file # NoFile /\ Told /\ Answered
    BY <1>1, <1>2 DEF IInv, ScanInv, ToldInv
  <1>4. Told'
    BY <1>2, <1>3, ToldUnchanged
  <1>5. SettingsRead' \subseteq SettingsRead \cup settings /\ SettingsRead \subseteq Settings
    BY <1>1, <1>2 DEF SettingsRead, Settings
  <1>6. \A k \in SettingsRead' : There(k)' => AccountsFor(k, out[k], log)'
    BY <1>1, <1>3, <1>5, SectionKeepsAnswered DEF Answered
  <1>7. stage' \in {"position", "done"} => RetiredReports' \subseteq log'
    <2>1. RetiredReports' = RetiredReports
      BY <1>2, SameNames DEF RetiredReports, Retired
    <2>2. stage' = "position" => more = RetiredReports
      BY <1>1, <1>2
    <2>3. stage' = "done" => stage = "position"
      BY <1>1, <1>2
    <2>4. stage = "position" => RetiredReports \subseteq log
      BY <1>3 DEF Answered
    <2> QED BY <1>2, <2>1, <2>2, <2>3, <2>4
  <1>8. Answered'
    BY <1>6, <1>7 DEF Answered
  <1> QED BY <1>4, <1>8 DEF ToldInv

LEMMA OpenTells == ASSUME NEW f, NEW scans \in BOOLEAN, Open(f, scans) PROVE ToldInv'
  <1>1. at' = 0
    BY DEF Open
  <1>2. Told'
    BY <1>1 DEF Told, EntriesTold, HeadingsTold
  <1>3. f # NoFile => stage' \in {"scan", "network"}
    BY DEF Open
  <1>4. f # NoFile => Answered'
    BY <1>3 DEF Answered, SettingsRead
  <1> QED BY <1>2, <1>4 DEF Open, ToldInv

LEMMA StepToldInv ==
  ASSUME IInv, ToldInv, [ReaderNext]_readerVars
  PROVE  ToldInv'
  <1>1. CASE EndScan
    <2>1. /\ stage = "scan" /\ stage' = "network" /\ UNCHANGED <<file, at, keys, present, log>>
      BY <1>1 DEF EndScan, scanVars
    <2>2. Told
      BY <2>1 DEF IInv, ScanInv, ToldInv
    <2>3. Told'
      BY <2>1, <2>2, ToldUnchanged
    <2>4. Answered'
      BY <2>1 DEF Answered, SettingsRead
    <2> QED BY <2>3, <2>4 DEF ToldInv
  <1>2. CASE ScanOther \/ ScanHeading \/ ScanEntry
    <2>1. stage = "scan"
      BY <1>2 DEF ScanOther, ScanHeading, ScanEntry, Scanning
    <2>2. ReaderTypeOK /\ file # NoFile /\ HeadingsRead /\ Told
      BY <2>1 DEF IInv, ScanInv, ToldInv
    <2>3. Told' /\ stage' = "scan"
      BY <1>2, <2>2, ScanKeepsTold, ScanGrows
    <2>4. Answered'
      BY <2>3 DEF Answered, SettingsRead
    <2> QED BY <2>3, <2>4 DEF ToldInv
  <1>3. CASE ReadSections
    BY <1>3, ReadersKeepTold
  <1>4. CASE ProcessEnds
    BY <1>4 DEF ProcessEnds, ToldInv
  <1>5. CASE \E f \in Files \cup {NoFile}, scans \in BOOLEAN : Open(f, scans)
    BY <1>5, OpenTells
  <1>6. CASE UNCHANGED readerVars
    <2>1. UNCHANGED <<file, stage, at, keys, present, out, log>>
      BY <1>6 DEF readerVars
    <2>2. Told => Told'
      BY <2>1, ToldUnchanged
    <2>3. Answered => Answered'
      <3>1. SettingsRead' = SettingsRead /\ RetiredReports' = RetiredReports
        BY <2>1, SameNames DEF SettingsRead, RetiredReports, Retired
      <3>2. \A k : /\ There(k)' <=> There(k)
                   /\ AccountsFor(k, out[k], log) => AccountsFor(k, out[k], log)'
        BY <2>1, SameNames DEF There, AccountsFor
      <3> QED BY <2>1, <3>1, <3>2 DEF Answered
    <2> QED BY <2>1, <2>2, <2>3 DEF ToldInv
  <1> QED BY <1>1, <1>2, <1>3, <1>4, <1>5, <1>6 DEF ReaderNext, Reading, Scan

--------------------------------------------------------------------------------
(* What a line of the file comes to. *)

LEMMA SectionAtIs ==
  ASSUME ReaderTypeOK, file # NoFile, NEW i \in 1 .. Len(file.lines), SectionAt(i) # NoName
  PROVE  \E h \in 1 .. i : Governs(h, i) /\ NameOf(h) = SectionAt(i)
  <1> DEFINE headings == {h \in 1 .. i : file.lines[h].is = "heading"}
             last == CHOOSE h \in headings : \A g \in headings : g <= h
  <1>1. i \in Nat
    BY FileShape
  <1>2. headings # {} /\ SectionAt(i) = file.lines[last].name
    BY DEF SectionAt
  <1>3. headings \in SUBSET (1 .. i)
    OBVIOUS
  <1>4. last \in headings /\ \A g \in headings : g <= last
    <2>1. \E h \in headings : \A g \in headings : g <= h
      BY <1>1, <1>2, <1>3, LastLine
    <2> QED BY <2>1
  <1>5. last \in 1 .. i /\ HeadingLine(last) /\ \A g \in 1 .. i : HeadingLine(g) => g <= last
    BY <1>4 DEF HeadingLine
  <1> HIDE DEF headings, last
  <1>6. Governs(last, i)
    BY <1>1, <1>5 DEF Governs
  <1> QED BY <1>2, <1>5, <1>6 DEF NameOf

\* The API answers with the first entry of a key.
LEMMA ReadStringIs ==
  ASSUME ReaderTypeOK, file # NoFile, NEW s, NEW k, EntriesOf(s, k) # {}
  PROVE  \E j \in EntriesOf(s, k) : /\ \A i \in EntriesOf(s, k) : j <= i
                                    /\ ReadString(s, k) = file.lines[j].value
  <1>1. EntriesOf(s, k) \in SUBSET Nat
    BY FileShape DEF EntriesOf
  <1>2. \E j \in EntriesOf(s, k) : \A i \in EntriesOf(s, k) : j <= i
    BY <1>1, FirstLine
  <1> QED BY <1>2 DEF ReadString

\* An entry under a heading is what the API answers with, or the log names its section
\* or it.
LEMMA EntryIsRead ==
  ASSUME ReaderTypeOK, file # NoFile, Told, at = Len(file.lines),
         NEW i \in 1 .. Len(file.lines), file.lines[i].is = "entry", SectionAt(i) # NoName,
         NEW s, s = SectionAt(i), NEW k, k = NameOf(i), ~Explained(s, k)
  PROVE  /\ <<s, k>> \in present
         /\ EntriesOf(s, k) # {}
         /\ ReadString(s, k) = file.lines[i].value
  <1>a. DOMAIN file.lines = 1 .. Len(file.lines)
    BY FileShape
  <1>1. Len(file.lines) \in Nat /\ i \in Nat
    <2>1. Len(file.lines) \in Nat
      BY FileShape
    <2> QED BY <2>1
  <1>2. PICK h \in 1 .. i : Governs(h, i) /\ NameOf(h) = s
    BY SectionAtIs
  <1>3. EntryUnder(h, i)
    BY <1>2 DEF EntryUnder
  <1>4. HeadingLine(h) /\ h \in 1 .. i - 1 /\ h \in 1 .. Len(file.lines)
    <2>1. HeadingLine(h) /\ ~HeadingLine(i)
      BY <1>2 DEF Governs, HeadingLine
    <2> QED BY <1>1, <2>1
  <1>5. ~Repeats(h)
    BY <1>2, <1>4 DEF Told, HeadingsTold, Explained
  <1>6. <<s, k>> \in present
    BY <1>2, <1>3, <1>5 DEF Told, EntriesTold
  <1>7. IsHeading(h)
    <2>1. h = 1 => ~MarkOnHeading
      <3>1. at > 0
        BY <1>1
      <3>2. h = 1 => NameOf(1) = s
        BY <1>2
      <3>3. <<"byte order mark", s, NoName>> \notin log
        BY DEF Explained
      <3> QED BY <3>1, <3>2, <3>3 DEF Told, HeadingsTold
    <2>2. file.bom /\ h = 1 => MarkOnHeading
      BY <1>1, <1>4 DEF MarkOnHeading, HeadingLine
    <2> QED BY <1>4, <2>1, <2>2 DEF IsHeading, HeadingLine
  <1>8. Opens(h, s)
    <2>1. \A g \in 1 .. h - 1 : IsHeading(g) => file.lines[g].name # s
      BY <1>2, <1>5 DEF Repeats, NameOf, IsHeading, HeadingLine
    <2> QED BY <1>2, <1>7, <2>1 DEF Opens, NameOf
  <1>9. EntryOf(i, s, k)
    <2>1. \A g \in h + 1 .. i - 1 : ~IsHeading(g)
      BY <1>1, <1>2 DEF Governs, IsHeading, HeadingLine
    <2> QED BY <1>4, <1>8, <2>1 DEF EntryOf, NameOf
  <1>10. i \in EntriesOf(s, k)
    BY <1>a, <1>9 DEF EntriesOf
  <1>11. PICK j \in EntriesOf(s, k) : /\ \A l \in EntriesOf(s, k) : j <= l
                                      /\ ReadString(s, k) = file.lines[j].value
    BY <1>10, ReadStringIs
  <1>12. j \in 1 .. Len(file.lines) /\ EntryOf(j, s, k) /\ j <= i
    BY <1>a, <1>10, <1>11 DEF EntriesOf
  <1>13. ASSUME j < i PROVE FALSE
    <2>1. PICK g \in 1 .. j - 1 : Opens(g, s) /\ \A l \in g + 1 .. j - 1 : ~IsHeading(l)
      BY <1>12 DEF EntryOf
    <2>2. HeadingLine(g) /\ NameOf(g) = s
      BY <2>1 DEF Opens, IsHeading, HeadingLine, NameOf
    <2>3. ~HeadingLine(j)
      BY <1>12 DEF EntryOf, HeadingLine
    <2>4. \A l \in g + 1 .. j : l = j \/ (l \in g + 1 .. j - 1 /\ l # 1)
      BY <1>1, <1>12
    <2>5. \A l \in g + 1 .. j : ~HeadingLine(l)
      BY <2>1, <2>3, <2>4 DEF IsHeading, HeadingLine
    <2>6. Governs(g, j)
      BY <1>1, <1>12, <2>2, <2>5 DEF Governs
    <2>7. EntryUnder(g, j) /\ NameOf(j) = k
      BY <1>12, <2>2, <2>6 DEF EntryUnder, EntryOf, NameOf
    <2>8. j \in 1 .. i - 1 /\ g \in 1 .. j
      BY <1>1, <1>12, <1>13
    <2> QED BY <1>2, <1>3, <2>2, <2>7, <2>8 DEF Told, EntriesTold, Explained
  <1>14. j = i
    BY <1>1, <1>12, <1>13
  <1> QED BY <1>6, <1>10, <1>11, <1>14

LEMMA ToldNothingIgnored == IInv /\ ToldInv => NothingIgnoredSilently
  <1> SUFFICES ASSUME IInv, ToldInv, stage = "done", Scanned,
                      NEW i \in DOMAIN file.lines, file.lines[i].is = "entry",
                      NEW s, s = SectionAt(i), NEW k, k = NameOf(i), ~Explained(s, k)
               PROVE  /\ k \in Settings /\ s = SectionOf(k) =>
                           /\ out[k] = file.lines[i].value.n
                           /\ \/ file.lines[i].value.kind = "number"
                              \/ k \in Network /\ file.lines[i].value.kind # "blank"
                      /\ <<s, k>> \in Retired /\ file.lines[i].value.kind # "blank" =>
                           <<"retired", s, k>> \in log
    BY DEF NothingIgnoredSilently, NameOf
  <1>1. ReaderTypeOK /\ file # NoFile /\ at = Len(file.lines) /\ Told /\ Answered
    BY DEF IInv, ScanInv, ToldInv, Scanned
  <1>2. i \in 1 .. Len(file.lines)
    BY <1>1, FileShape
  <1>3. \A why \in {"empty", "unreadable", "refused"} : <<why, s, k>> \notin log
    BY DEF Explained
  <1>4. s # NoName => /\ <<s, k>> \in present /\ EntriesOf(s, k) # {}
                      /\ ReadString(s, k) = file.lines[i].value
    BY <1>1, <1>2, EntryIsRead
  <1>5. ASSUME k \in Settings, s = SectionOf(k)
        PROVE  /\ out[k] = file.lines[i].value.n
               /\ \/ file.lines[i].value.kind = "number"
                  \/ k \in Network /\ file.lines[i].value.kind # "blank"
    <2>1. s # NoName
      BY <1>5, NamesAssumption
    <2>2. There(k)
      BY <1>4, <1>5, <2>1 DEF There
    <2>3. AccountsFor(k, out[k], log)
      BY <1>1, <1>5, <2>2 DEF Answered, SettingsRead
    <2> QED BY <1>3, <1>4, <1>5, <2>1, <2>3 DEF AccountsFor
  <1>6. ASSUME <<s, k>> \in Retired, file.lines[i].value.kind # "blank"
        PROVE  <<"retired", s, k>> \in log
    <2>1. s # NoName
      <3>1. "LocalSmoothing" \in Settings /\ SectionOf("LocalSmoothing") = "Rotation"
        BY DEF Settings, Network, General, Hotkeys, NavKeys, ChordKeys, Rotation, SectionOf
      <3>2. "Enabled" \in Settings /\ SectionOf("Enabled") = "Position"
        BY DEF Settings, Network, General, Hotkeys, NavKeys, ChordKeys, Rotation, Position, SectionOf
      <3>3. s \in {"Rotation", "Position"}
        BY <1>6 DEF Retired
      <3> QED BY <3>1, <3>2, <3>3, NamesAssumption
    <2>2. RetiredReports \subseteq log
      BY <1>1 DEF Answered
    <2>3. <<"retired", s, k>> \in RetiredReports
      BY <1>4, <1>6, <2>1 DEF RetiredReports
    <2> QED BY <2>2, <2>3
  <1> QED BY <1>5, <1>6

\* Whatever the file holds, of any length: once it has been scanned and read, every
\* entry of it is what the Config holds, or a line of the log names it or its section;
\* but for what stands behind the digits of a port, which is ignored and not spoken of.
THEOREM NothingIsIgnored == ReaderSpec => []NothingIgnoredSilently
  <1>1. ReaderInit => ToldInv
    BY DEF ReaderInit, ToldInv
  <1> QED BY <1>1, ReaderInvariance, StepToldInv, ToldNothingIgnored, PTL DEF ReaderSpec
================================================================================
