------------------------------ MODULE LegacyReader -----------------------------
(***************************************************************************)
(* The reader of HeadTracking.ini, the settings file of every earlier      *)
(* build: src/src/legacy_config/legacy_config.cpp.                         *)
(*                                                                         *)
(* Two parsers look at the file.  WarnAboutDuplicateEntries scans it line  *)
(* by line to say what nobody will read, and to note which keys are there  *)
(* at all; then the readers of the five sections ask the profile API of    *)
(* Windows for one key at a time.  The API is external: ReadString says    *)
(* what it answers, which is the first entry of a key in the first section *)
(* of a name.                                                              *)
(*                                                                         *)
(* A line is a heading, an entry or something else.  Names are compared    *)
(* without regard to case, so a name here is a folded one.  A value is     *)
(* blank, a number, a float that is not finite, or a text no reader parses *)
(* whole, and may have a comment behind it.  Its n is the number it is, or *)
(* the whole number a value of another kind begins with, 0 where there is  *)
(* none.  Numbers are whole and fit an int: limits and smoothing are in    *)
(* hundredths.                                                             *)
(***************************************************************************)
EXTENDS Integers, Sequences

CONSTANTS
  Files,    \* what the player's HeadTracking.ini may hold
  NoFile,   \* there is none
  Names,    \* what a section or a key may be called
  NoName    \* what a heading with nothing in it is called, and no section at all

Kinds == {"blank", "number", "infinite", "text"}
Values == [kind : Kinds, n : Int, comment : BOOLEAN]
Lines == [is : {"heading", "entry", "other"}, name : Names, value : Values]

\* bom: a UTF-8 byte order mark in front of the first line.
AnyFile == [bom : BOOLEAN, lines : Seq(Lines)]

--------------------------------------------------------------------------------
(* The settings, and what they hold when the file says nothing. *)

NavKeys == {"ToggleKey", "CycleModeKey", "YawModeKey"}
ChordKeys == {"ChordToggleKey", "ChordCycleModeKey", "ChordYawModeKey"}

Network == {"UdpPort"}
General == {"EnableOnStartup", "WorldSpaceYaw", "CompensateWorldMarkers"}
Hotkeys == NavKeys \cup ChordKeys
Rotation == {"LocalSmoothing", "RemoteSmoothing"}
Limits == {"LimitX", "LimitY", "LimitZ", "LimitZBack"}
Position == {"Enabled"} \cup Limits
Retired == {<<"Rotation", "Smoothing">>, <<"Position", "Smoothing">>}

Settings == Network \cup General \cup Hotkeys \cup Rotation \cup Position

Flags == General \cup {"Enabled"}

SectionOf(k) == IF k \in Network THEN "Network" ELSE IF k \in General THEN "General"
                ELSE IF k \in Hotkeys THEN "Hotkeys"
                ELSE IF k \in Rotation THEN "Rotation" ELSE "Position"

\* A default-constructed Config, of the file's settings and no others.
Shipped == [UdpPort |-> 4242,
            EnableOnStartup |-> 1, WorldSpaceYaw |-> 1, CompensateWorldMarkers |-> 1,
            ToggleKey |-> 35, CycleModeKey |-> 33, YawModeKey |-> 34,
            ChordToggleKey |-> 89, ChordCycleModeKey |-> 71, ChordYawModeKey |-> 72,
            LocalSmoothing |-> 0, RemoteSmoothing |-> 15,
            Enabled |-> 1, LimitX |-> 30, LimitY |-> 20, LimitZ |-> 40, LimitZBack |-> 10]

UdpPorts == 1024 .. 65535
kMaxPositionLimit == 50
kMaxSmoothing == 100

ASSUME FilesAssumption == Files \subseteq AnyFile /\ NoFile \notin AnyFile
ASSUME NamesAssumption ==
  /\ Settings \cup {"Network", "General", "Hotkeys", "Rotation", "Position", "Smoothing"} \subseteq Names
  /\ NoName \in Names /\ \A k \in Settings : SectionOf(k) # NoName

--------------------------------------------------------------------------------
VARIABLES
  file,      \* the HeadTracking.ini being read
  stage,     \* where Read is
  at,        \* lines the scan has been over
  section,   \* the scan's locals: the section it is in, or NoName
  dead,      \*   it is one that was there before
  sections,  \*   the sections so far
  keys,      \*   the entries so far
  present,   \* g_presentKeys
  out,       \* the Config being filled
  log        \* the lines logged: what about, the section and the key

scanVars == <<at, section, dead, sections, keys, present>>
readerVars == <<file, stage, at, section, dead, sections, keys, present, out, log>>

\* A process that has read nothing yet.
ReaderInit ==
  /\ file = NoFile /\ stage = "idle"
  /\ at = 0 /\ section = NoName /\ dead = FALSE
  /\ sections = {} /\ keys = {} /\ present = {}
  /\ out = Shipped /\ log = {}

--------------------------------------------------------------------------------
(* The profile API of Windows. *)

\* A byte order mark is three characters of the line it is on.
IsHeading(i) == file.lines[i].is = "heading" /\ ~(file.bom /\ i = 1)

\* Line h opens the block the API reads a section from.
Opens(h, s) ==
  /\ IsHeading(h)
  /\ file.lines[h].name = s
  /\ \A g \in 1 .. h - 1 : IsHeading(g) => file.lines[g].name # s

\* Line i is an entry of that block.
EntryOf(i, s, k) ==
  /\ file.lines[i].is = "entry"
  /\ file.lines[i].name = k
  /\ \E h \in 1 .. i - 1 : Opens(h, s) /\ \A g \in h + 1 .. i - 1 : ~IsHeading(g)

EntriesOf(s, k) == {i \in DOMAIN file.lines : EntryOf(i, s, k)}

NoValue == [kind |-> "blank", n |-> 0, comment |-> FALSE]

\* ReadString with an empty default, which answers an absent key and a blank one alike.
ReadString(s, k) ==
  IF EntriesOf(s, k) = {} THEN NoValue
  ELSE file.lines[CHOOSE i \in EntriesOf(s, k) : \A j \in EntriesOf(s, k) : i <= j].value

--------------------------------------------------------------------------------
(* Read, up to the readers: the file is opened, and scanned a line at a time. *)

\* RunImport starts it on a Config of the defaults; a file that is not there leaves
\* them alone.  scans: the scan, which opens the file once more, can.  When it cannot
\* it says nothing, and the readers go ahead with nothing noted as present.
Open(f, scans) ==
  /\ stage \in {"idle", "done"}
  /\ file' = f
  /\ out' = Shipped
  /\ at' = 0 /\ section' = NoName /\ dead' = FALSE
  /\ sections' = {} /\ keys' = {} /\ present' = {}
  /\ stage' = IF f = NoFile THEN "done" ELSE IF scans THEN "scan" ELSE "network"
  /\ log' = IF f = NoFile THEN {<<"absent", NoName, NoName>>} ELSE {}

Scanning(kind) ==
  /\ stage = "scan"
  /\ at < Len(file.lines)
  /\ file.lines[at + 1].is = kind
  /\ at' = at + 1

\* A blank line, a comment, or one with no "=" or nothing before it.
ScanOther ==
  /\ Scanning("other")
  /\ UNCHANGED <<file, stage, section, dead, sections, keys, present, out, log>>

\* Defect: a section that was there before is not marked.
ScanHeadingUnmarked ==
  LET name == file.lines[at + 1].name
  IN /\ Scanning("heading")
     /\ section' = name
     /\ sections' = sections \cup ({name} \ {NoName})
     /\ log' = log \cup (IF name \in sections THEN {<<"repeated section", name, NoName>>} ELSE {})
                   \cup (IF file.bom /\ at = 0 THEN {<<"byte order mark", name, NoName>>} ELSE {})
     /\ UNCHANGED <<file, stage, dead, keys, present, out>>

\* A heading, closed or not.  The mark is taken off before the line is looked at.
ScanHeading ==
  LET name == file.lines[at + 1].name
  IN /\ Scanning("heading")
     /\ section' = name
     /\ IF name = NoName THEN UNCHANGED <<dead, sections>>
        ELSE dead' = (name \in sections) /\ sections' = sections \cup {name}
     /\ log' = log \cup (IF name \in sections THEN {<<"repeated section", name, NoName>>} ELSE {})
                   \cup (IF file.bom /\ at = 0 THEN {<<"byte order mark", name, NoName>>} ELSE {})
     /\ UNCHANGED <<file, stage, keys, present, out>>

\* An entry.  One above every heading is nobody's; one of a repeated section is not
\* present, for no reader sees it.
ScanEntry ==
  LET entry == <<section, file.lines[at + 1].name>>
  IN /\ Scanning("entry")
     /\ IF section = NoName THEN UNCHANGED <<keys, present, log>>
        ELSE /\ present' = IF dead THEN present ELSE present \cup {entry}
             /\ log' = IF entry \in keys
                         THEN log \cup {<<"repeated key", entry[1], entry[2]>>} ELSE log
             /\ keys' = keys \cup {entry}
     /\ UNCHANGED <<file, stage, section, dead, sections, out>>

EndScan ==
  /\ stage = "scan"
  /\ at = Len(file.lines)
  /\ stage' = "network"
  /\ UNCHANGED <<file, scanVars, out, log>>

--------------------------------------------------------------------------------
(* The readers.  Each answers with a value for the Config and what it has logged. *)

Answer(value, reports) == [value |-> value, reports |-> reports]

\* ReportEmptyValue: a blanked key keeps its default and says so, one never written
\* says nothing.
Empty(k) == LET s == SectionOf(k)
            IN Answer(out[k], IF <<s, k>> \in present THEN {<<"empty", s, k>>} ELSE {})

Keeps(k, why) == Answer(out[k], {<<why, SectionOf(k), k>>})

\* GetPrivateProfileInt answers with the number a value begins with, whatever comes
\* after it; only a port that is refused is parsed again, as a whole.
ReadInt(v) == IF v.kind = "blank" THEN 0 ELSE v.n

ReadPort(k) ==
  LET v == ReadString("Network", k)
  IN IF EntriesOf("Network", k) = {} THEN Answer(out[k], {})
     ELSE IF ReadInt(v) \in UdpPorts THEN Answer(ReadInt(v), {})
     ELSE Keeps(k, IF v.kind = "number" THEN "refused" ELSE "unreadable")

\* The value is matched whole, so a comment behind it spoils it.
ReadFlag(k) ==
  LET v == ReadString(SectionOf(k), k)
  IN IF v.kind = "blank" /\ ~v.comment THEN Empty(k)
     ELSE IF v.kind = "number" /\ v.n \in {0, 1} /\ ~v.comment THEN Answer(v.n, {})
     ELSE Keeps(k, "unreadable")

\* Shift, Control and Alt are not bindable, nor are their left and right halves.
BindableVirtualKeys == 1 .. 254 \ (16 .. 18 \cup 160 .. 165)

ReadKey(k) ==
  LET v == ReadString("Hotkeys", k)
  IN IF v.kind = "blank" /\ ~v.comment THEN Empty(k)
     ELSE IF v.kind # "number" THEN Keeps(k, "unreadable")
     ELSE IF v.n \notin BindableVirtualKeys THEN Keeps(k, "refused")
     ELSE Answer(v.n, {})

ClampRange(n, lo, hi) == IF n < lo THEN lo ELSE IF n > hi THEN hi ELSE n

\* Defect: a number put in range is not spoken of.
ReadFloatQuietly(k, fallback, hi) ==
  LET v == ReadString(SectionOf(k), k)
  IN IF v.kind = "blank" THEN Empty(k)
     ELSE IF v.kind = "text" THEN Keeps(k, "unreadable")
     ELSE IF v.kind = "number" THEN Answer(ClampRange(v.n, 0, hi), {})
     ELSE Answer(ClampRange(fallback, 0, hi), {<<"refused", SectionOf(k), k>>})

\* A comment is taken off first.  What parses is put in range, and what is not finite
\* becomes the fallback.
ReadFloatValue(k, fallback, hi) ==
  LET v == ReadString(SectionOf(k), k)
      clean == ClampRange(IF v.kind = "number" THEN v.n ELSE fallback, 0, hi)
  IN IF v.kind = "blank" THEN Empty(k)
     ELSE IF v.kind = "text" THEN Keeps(k, "unreadable")
     ELSE Answer(clean, IF v.kind = "number" /\ v.n = clean THEN {}
                        ELSE {<<"refused", SectionOf(k), k>>})

\* Both smoothing keys fall back to a default of their own, a limit to what it holds.
ReadSetting(k) ==
  IF k \in Network THEN ReadPort(k)
  ELSE IF k \in Flags THEN ReadFlag(k)
  ELSE IF k \in Hotkeys THEN ReadKey(k)
  ELSE IF k \in Rotation THEN ReadFloatValue(k, Shipped[k], kMaxSmoothing)
  ELSE ReadFloatValue(k, out[k], kMaxPositionLimit)

\* WarnRetiredSmoothingKey.
RetiredReports == {<<"retired", r[1], r[2]>> : r \in
                     {r \in Retired : LET v == ReadString(r[1], r[2])
                                      IN v.kind # "blank" \/ v.comment}}

\* WarnAboutCollidingHotkeys, of the codes read: within the keys of a kind only.
Collisions(group) ==
  {<<"collides", p[1], p[2]>> : p \in
     {q \in group \X group : q[1] # q[2] /\ ReadSetting(q[1]).value = ReadSetting(q[2]).value}}

\* One section's reader: its settings are read over the Config, and more may be logged.
ReadSection(from, to, settings, more) ==
  /\ stage = from
  /\ stage' = to
  /\ out' = [k \in Settings |-> IF k \in settings THEN ReadSetting(k).value ELSE out[k]]
  /\ log' = log \cup more \cup UNION {ReadSetting(k).reports : k \in settings}
  /\ UNCHANGED <<file, scanVars>>

ReadNetworkSection == ReadSection("network", "general", Network, {})
ReadGeneralSection == ReadSection("general", "hotkeys", General, {})
ReadHotkeysSection == ReadSection("hotkeys", "rotation", Hotkeys,
                                  Collisions(NavKeys) \cup Collisions(ChordKeys))
ReadRotationSection == ReadSection("rotation", "position", Rotation, RetiredReports)
ReadPositionSection == ReadSection("position", "done", Position, {})

--------------------------------------------------------------------------------
\* The game ends, and g_presentKeys and the rest with it.
ProcessEnds ==
  /\ file' = NoFile /\ stage' = "idle"
  /\ at' = 0 /\ section' = NoName /\ dead' = FALSE
  /\ sections' = {} /\ keys' = {} /\ present' = {}
  /\ out' = Shipped /\ log' = {}

Scan == ScanOther \/ ScanHeading \/ ScanEntry \/ EndScan
ReadSections == \/ ReadNetworkSection \/ ReadGeneralSection \/ ReadHotkeysSection
                \/ ReadRotationSection \/ ReadPositionSection
Reading == Scan \/ ReadSections
ReaderNext == \/ Reading \/ ProcessEnds
              \/ \E f \in Files \cup {NoFile}, scans \in BOOLEAN : Open(f, scans)
ReaderSpec == ReaderInit /\ [][ReaderNext]_readerVars

--------------------------------------------------------------------------------
(* Properties. *)

ValidValues(k) ==
  IF k \in Network THEN UdpPorts
  ELSE IF k \in Flags THEN {0, 1}
  ELSE IF k \in Hotkeys THEN BindableVirtualKeys
  ELSE IF k \in Rotation THEN 0 .. kMaxSmoothing ELSE 0 .. kMaxPositionLimit

Reports == {"absent", "byte order mark", "repeated section", "repeated key", "empty",
            "unreadable", "refused", "retired", "collides"} \X Names \X Names

Stages == {"idle", "scan", "network", "general", "hotkeys", "rotation", "position", "done"}

\* Types; and whatever the file holds, no setting leaves the range the rest of the
\* mod relies on (config_sanitize.h, NormalizeUdpPort, IsBindableVirtualKey).
ReaderTypeOK ==
  /\ file \in Files \cup {NoFile}
  /\ stage \in Stages
  /\ at \in Nat
  /\ section \in Names /\ dead \in BOOLEAN /\ sections \subseteq Names
  /\ keys \subseteq Names \X Names /\ present \subseteq Names \X Names
  /\ log \subseteq Reports
  /\ DOMAIN out = Settings /\ \A k \in Settings : out[k] \in ValidValues(k)

\* The scan has been over the whole file, which it could open.
Scanned == stage \notin {"idle", "scan"} /\ file # NoFile /\ at = Len(file.lines)

\* The byte order mark is on a heading, which the profile API then does not see.
MarkOnHeading == file.bom /\ Len(file.lines) > 0 /\ file.lines[1].is = "heading"

\* Two parsers of one file agree, when both can open it: WarnAboutDuplicateEntries takes
\* a setting to be there exactly when the profile API finds an entry of it.
\* ReportEmptyValue rests on it: "set but has no value" is never said of a key with a
\* good value on it.  Not so under a heading with a byte order mark on it, which the
\* scan reads and the API does not.
ScanSeesWhatIsRead ==
  Scanned /\ ~MarkOnHeading =>
    \A k \in Settings : <<SectionOf(k), k>> \in present <=> EntriesOf(SectionOf(k), k) # {}

\* The section a reader of the file takes line i to be in, NoName above every heading.
SectionAt(i) ==
  LET headings == {h \in 1 .. i : file.lines[h].is = "heading"}
  IN IF headings = {} THEN NoName
     ELSE file.lines[CHOOSE h \in headings : \A g \in headings : g <= h].name

Explained(s, k) ==
  {<<"byte order mark", s, NoName>>, <<"repeated section", s, NoName>>, <<"repeated key", s, k>>,
   <<"empty", s, k>>, <<"unreadable", s, k>>, <<"refused", s, k>>} \cap log # {}

\* No setting is ignored without a line in the log that names it or its section: what
\* the player wrote is what the Config holds, or the log says why not; a retired key
\* with something in it is always spoken of (the comments on ParsedBool,
\* ReportEmptyValue, WarnAboutDuplicateEntries and WarnRetiredSmoothingKey).  Of a file
\* the scan could open, that is: what nobody reads is only ever said by it.  And there
\* is one trap left: a port with something behind its digits is taken by them, and the
\* rest of it is ignored without a line (UdpPort=5555abc, ReadNetworkSection).
NothingIgnoredSilently ==
  stage = "done" /\ Scanned =>
    \A i \in DOMAIN file.lines :
      LET s == SectionAt(i)
          k == file.lines[i].name
          v == file.lines[i].value
      IN file.lines[i].is = "entry" =>
           /\ k \in Settings /\ s = SectionOf(k) =>
                \/ Explained(s, k)
                \/ out[k] = v.n /\ (v.kind = "number" \/ (k \in Network /\ v.kind # "blank"))
           /\ <<s, k>> \in Retired /\ v.kind # "blank" =>
                Explained(s, k) \/ <<"retired", s, k>> \in log
================================================================================
