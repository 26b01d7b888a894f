------------------------------- MODULE MCSettings ------------------------------
(***************************************************************************)
(* Settings for TLC: small HeadTracking.ini files of each hard shape.      *)
(***************************************************************************)
EXTENDS Settings

Blank == [kind |-> "blank", n |-> 0, comment |-> FALSE]
Commented == [kind |-> "blank", n |-> 0, comment |-> TRUE]
Text == [kind |-> "text", n |-> 0, comment |-> FALSE]
\* A whole number with something else behind it.
Prefixed(n) == [kind |-> "text", n |-> n, comment |-> FALSE]
Infinite == [kind |-> "infinite", n |-> 0, comment |-> FALSE]
Number(n) == [kind |-> "number", n |-> n, comment |-> FALSE]
Spoiled(n) == [kind |-> "number", n |-> n, comment |-> TRUE]

Heading(name) == [is |-> "heading", name |-> name, value |-> Blank]
Entry(name, value) == [is |-> "entry", name |-> name, value |-> value]
Comment == [is |-> "other", name |-> NoName, value |-> Blank]

UpTo(n, S) == UNION {[1 .. m -> S] : m \in 0 .. n}
Under(name, n, S) == {<<Heading(name)>> \o body : body \in UpTo(n, S)}

\* Headings repeated, nameless and marked, above and below blank and repeated keys.
Shapes == [bom : BOOLEAN,
           lines : UpTo(4, {Heading("Position"), Heading(NoName), Entry("LimitX", Number(25)),
                            Entry("LimitX", Blank)})]

\* Values good, out of range, spoiled, blank and unreadable, in every section.
Contents == [bom : {FALSE}, lines :
  Under("Position", 2, {Entry("Enabled", Number(0)), Entry("Enabled", Spoiled(0)),
                        Entry("LimitY", Number(35)), Entry("LimitY", Number(60)),
                        Entry("LimitZ", Infinite), Entry("LimitX", Commented),
                        Entry("Smoothing", Number(20)), Comment})
  \cup Under("Hotkeys", 3, {Entry("ToggleKey", Number(34)), Entry("ChordToggleKey", Number(74)),
                            Entry("CycleModeKey", Number(17)), Entry("YawModeKey", Text)})
  \cup Under("Network", 1, {Entry("UdpPort", v) : v \in {Number(5555), Number(80), Spoiled(5555),
                                                         Prefixed(5555), Prefixed(80),
                                                         Blank, Text}})
  \cup Under("General", 2, {Entry("WorldSpaceYaw", Number(0)), Entry("EnableOnStartup", Number(0)),
                            Entry("CompensateWorldMarkers", Number(0))})
  \cup Under("Rotation", 2, {Entry("RemoteSmoothing", Infinite), Entry("LocalSmoothing", Number(120)),
                             Entry("RemoteSmoothing", Number(30)), Entry("Smoothing", Spoiled(20))})]

MCNames == Settings \cup {SectionOf(k) : k \in Settings} \cup {"Smoothing", NoName}

MCFiles == Shapes \cup Contents

MCDefaultsFiles ==
  {Builtin, [Builtin EXCEPT !.PositionEnabled = 0, !.WorldSpaceYaw = 0, !.PositionLimitX = 25,
                            !.ToggleKey = <<34, 89>>]}

MCEdits == {[RotationEnabled |-> 0, PositionEnabled |-> 0], [PositionEnabled |-> 1],
            [WorldSpaceYaw |-> 0]}
================================================================================
