-------------------------------- MODULE Settings -------------------------------
(***************************************************************************)
(* The settings of the mod from one start of the game to the next:         *)
(* src/src/config.cpp, the toggles of headtracking_mod.cpp, and the reader *)
(* of LegacyReader, which the first start runs.                            *)
(*                                                                         *)
(* Three files.  HeadTracking.ini is what an earlier build left, and is    *)
(* only ever read.  CameraUnlock.ini is the mod's own: a row of it holds a *)
(* value, or says "default" and follows Defaults.ini, which all games of   *)
(* the player share.  While there is no CameraUnlock.ini a start makes one *)
(* from HeadTracking.ini.  The owner of the file is cameraunlock-core's,   *)
(* which is not in this repository: what it writes is taken from the tests *)
(* of it here (src/tests/config_tests.cpp).                                *)
(*                                                                         *)
(* The game can end between any two steps.                                 *)
(***************************************************************************)
EXTENDS LegacyReader

CONSTANTS
  DefaultsFiles,  \* what Defaults.ini may hold
  Edits,          \* what the player may write into CameraUnlock.ini: rows with values
  kEditBound,     \* how often they do
  kToggleBound    \* presses of the toggles, in all

ASSUME BoundsAssumption == kEditBound \in Nat /\ kToggleBound \in Nat

--------------------------------------------------------------------------------
(* The table of the file. *)

ModeRows == {"RotationEnabled", "PositionEnabled"}
HotkeyRows == {"ToggleKey", "CycleTrackingModeKey", "YawModeKey"}
LimitRows == {"PositionLimitX", "PositionLimitY", "PositionLimitYDown", "PositionLimitZ",
              "PositionLimitZBack"}
FlagRows == ModeRows \cup {"EnableOnStartup", "WorldSpaceYaw"}
Rows == {"UdpPort", "LocalSmoothing", "RemoteSmoothing"}
          \cup FlagRows \cup LimitRows \cup HotkeyRows

\* The modes in the order of the cycle, as the pair of channels each enables.
kTrackingModeCount == 3
Modes == 0 .. kTrackingModeCount - 1
EncodeTrackingMode(m) == [RotationEnabled |-> IF m = 2 THEN 0 ELSE 1,
                          PositionEnabled |-> IF m = 1 THEN 0 ELSE 1]

ModesOf(c) == {m \in Modes : \A r \in ModeRows : EncodeTrackingMode(m)[r] = c[r]}

\* A hotkey row lists an action's nav key and its chord.
HotkeyOf == [ToggleKey |-> <<"ToggleKey", "ChordToggleKey">>,
             CycleTrackingModeKey |-> <<"CycleModeKey", "ChordCycleModeKey">>,
             YawModeKey |-> <<"YawModeKey", "ChordYawModeKey">>]

LimitOf == [PositionLimitX |-> "LimitX", PositionLimitY |-> "LimitY",
            PositionLimitYDown |-> "LimitY", PositionLimitZ |-> "LimitZ",
            PositionLimitZBack |-> "LimitZBack"]

\* The key of the old file a row of the new one is made from, but for a hotkey's two.
LegacyKey(r) == IF r \in ModeRows THEN "Enabled" ELSE IF r \in LimitRows THEN LimitOf[r] ELSE r

LegacyKeys(r) == IF r \in HotkeyRows THEN {HotkeyOf[r][1], HotkeyOf[r][2]} ELSE {LegacyKey(r)}

\* What a row is read as.
RowValues(r) == IF r \in HotkeyRows THEN Nat \X Nat
                ELSE IF r \in FlagRows THEN {0, 1} ELSE Nat

ASSUME DefaultsAssumption ==
  \A d \in DefaultsFiles : DOMAIN d = Rows /\ \A r \in Rows : d[r] \in RowValues(r)
ASSUME EditsAssumption ==
  \A e \in Edits : DOMAIN e \subseteq Rows /\ \A r \in DOMAIN e : e[r] \in RowValues(r)

--------------------------------------------------------------------------------
VARIABLES
  legacy,     \* the HeadTracking.ini on disk
  lossy,      \* the folder's name has no ANSI form
  defaults,   \* Defaults.ini
  exists,     \* there is a CameraUnlock.ini
  rows,       \*   its rows that hold a value
  mod,        \* "off", "importing" or "running"
  config,     \* m_config: what LoadSettings returned
  how,        \* the status of the load
  dropped,    \* what the import said it does not carry
  enabled, yaw, mode,  \* m_enabled, m_worldSpaceYaw, the feed's requested mode
  pending,    \* the hotkey thread is about to save this setting
  unsaved,    \* settings whose last save failed
  edits, toggles       \* how many so far

diskVars == <<legacy, lossy, defaults, exists, rows>>
sessionVars == <<mod, config, how, dropped, enabled, yaw, mode, pending, unsaved>>
vars == <<readerVars, diskVars, sessionVars, edits, toggles>>

\* RunImport's values.  Rotation was always on at the start of the old build, and
\* LimitY bounded the lean down as well as up.
Imported(read) == [r \in Rows |->
  IF r \in HotkeyRows THEN <<read[HotkeyOf[r][1]], read[HotkeyOf[r][2]]>>
  ELSE IF r = "RotationEnabled" THEN 1
  ELSE read[LegacyKey(r)]]

\* The table's own defaults are those the old build shipped with.
Builtin == Imported(Shipped)

Init ==
  /\ ReaderInit
  /\ legacy \in Files \cup {NoFile} /\ lossy \in BOOLEAN
  /\ defaults \in DefaultsFiles
  /\ exists = FALSE /\ rows = <<>>
  /\ mod = "off" /\ config = Builtin /\ how = "none" /\ dropped = {}
  /\ enabled = TRUE /\ yaw = TRUE /\ mode = 0
  /\ pending = "none" /\ unsaved = {}
  /\ edits = 0 /\ toggles = 0

--------------------------------------------------------------------------------
(* The import. *)

\* Defect: a hotkey follows Defaults.ini when its nav key was left alone.
FollowsByNavKey(read) ==
  {r \in Rows : IF r \in HotkeyRows THEN read[HotkeyOf[r][1]] = Shipped[HotkeyOf[r][1]]
                ELSE \A k \in LegacyKeys(r) : read[k] = Shipped[k]}

\* A row follows Defaults.ini when the player never changed what it is made from.
Follows(read) == {r \in Rows : \A k \in LegacyKeys(r) : read[k] = Shipped[k]}

\* CompensateWorldMarkers is the one setting the new file has no row for; every bindable
\* key has a name in the lists of the new file.
Dropped(read) == IF read.CompensateWorldMarkers = 0 THEN {"CompensateWorldMarkers"} ELSE {}

--------------------------------------------------------------------------------
(* The owner of CameraUnlock.ini. *)

\* What a row is worth, one saying "default" being worth what Defaults.ini has.
Worth(r) == IF r \in DOMAIN rows THEN rows[r] ELSE defaults[r]

\* The rows of one over those of another.
Over(new, old) == [r \in DOMAIN new \cup DOMAIN old |->
                     IF r \in DOMAIN new THEN new[r] ELSE old[r]]

\* The table reads a pair that names no mode as its defaults.
Decoded(c) == IF ModesOf(c) # {} THEN c
              ELSE [r \in Rows |-> IF r \in ModeRows THEN Builtin[r] ELSE c[r]]

\* The rows an import writes a value into: where the player's own differs from what
\* Defaults.ini has.  The mode is one setting in two rows.
OwnRows(values, follows) ==
  LET differs == {r \in Rows \ follows : values[r] # defaults[r]}
  IN differs \cup (IF differs \cap ModeRows # {} THEN ModeRows ELSE {})

--------------------------------------------------------------------------------
(* The bootstrap thread: LoadSettings, and what Initialize takes from it. *)

\* m_enabled and m_worldSpaceYaw from the Config, and the mode TrackerFeed::Start decodes.
Begin(c) ==
  /\ mod' = "running"
  /\ config' = c
  /\ enabled' = (c.EnableOnStartup = 1)
  /\ yaw' = (c.WorldSpaceYaw = 1)
  /\ mode' \in ModesOf(c)
  /\ UNCHANGED <<pending, unsaved>>

\* There is a CameraUnlock.ini, and nothing else is read.
LoadCanonical ==
  /\ mod = "off" /\ exists
  /\ Begin(Decoded([r \in Rows |-> Worth(r)]))
  /\ how' = "canonical"
  /\ UNCHANGED <<readerVars, diskVars, dropped, edits, toggles>>

\* A game folder with no ANSI form has nothing the old build could have read.
LoadWithoutReading ==
  /\ mod = "off" /\ ~exists /\ lossy
  /\ exists' = TRUE
  /\ Begin(Decoded([r \in Rows |-> Worth(r)]))
  /\ how' = "created" /\ dropped' = {}
  /\ UNCHANGED <<readerVars, legacy, lossy, defaults, rows, edits, toggles>>

StartImport ==
  /\ mod = "off" /\ ~exists /\ ~lossy
  /\ mod' = "importing"
  /\ \E scans \in BOOLEAN : Open(legacy, scans)
  /\ UNCHANGED <<diskVars, config, how, dropped, enabled, yaw, mode, pending, unsaved,
                 edits, toggles>>

\* A step of legacy::Read.
ReadOn ==
  /\ mod = "importing"
  /\ Reading
  /\ UNCHANGED <<diskVars, sessionVars, edits, toggles>>

\* The rest of RunImport, and the owner writes the file.
FinishImport ==
  LET own == OwnRows(Imported(out), Follows(out))
      values == [r \in Rows |-> IF r \in own THEN Imported(out)[r] ELSE defaults[r]]
  IN /\ mod = "importing" /\ stage = "done"
     /\ exists' = TRUE
     /\ rows' = [r \in own |-> values[r]]
     /\ Begin(Decoded(values))
     /\ how' = IF file = NoFile THEN "created" ELSE "migrated"
     /\ dropped' = Dropped(out)
     /\ UNCHANGED <<readerVars, legacy, lossy, defaults, edits, toggles>>

--------------------------------------------------------------------------------
(* The hotkey thread: each toggle applies first and saves after. *)

Pressed ==
  /\ mod = "running" /\ pending = "none" /\ toggles < kToggleBound
  /\ toggles' = toggles + 1
  /\ UNCHANGED <<readerVars, diskVars, mod, config, how, dropped, unsaved, edits>>

\* End changes the session only.
ToggleEnabled ==
  /\ Pressed
  /\ enabled' = ~enabled
  /\ UNCHANGED <<yaw, mode, pending>>

ToggleYawMode ==
  /\ Pressed
  /\ yaw' = ~yaw
  /\ pending' = "yaw"
  /\ UNCHANGED <<enabled, mode>>

\* Defect: the last mode is followed by none.
CycleTrackingModeUnwrapped ==
  /\ Pressed
  /\ mode' = mode + 1
  /\ pending' = "mode"
  /\ UNCHANGED <<enabled, yaw>>

CycleTrackingMode ==
  /\ Pressed
  /\ mode' = (mode + 1) % kTrackingModeCount
  /\ pending' = "mode"
  /\ UNCHANGED <<enabled, yaw>>

\* Defect: the mode's save writes the half of the pair the first press changes.
ChangeOfOneHalf(setting) ==
  IF setting = "yaw" THEN [WorldSpaceYaw |-> IF yaw THEN 1 ELSE 0]
  ELSE [PositionEnabled |-> EncodeTrackingMode(mode).PositionEnabled]

\* The rows each toggle's change is of.
Change(setting) ==
  IF setting = "yaw" THEN [WorldSpaceYaw |-> IF yaw THEN 1 ELSE 0]
  ELSE EncodeTrackingMode(mode)

\* config::Save: the rows of the change take the place of what they said, "default"
\* too; a save that fails is logged, and the session runs on.
Save(saved) ==
  /\ mod = "running" /\ pending # "none"
  /\ rows' = IF saved THEN Over(Change(pending), rows) ELSE rows
  /\ unsaved' = IF saved THEN unsaved \ {pending} ELSE unsaved \cup {pending}
  /\ pending' = "none"
  /\ UNCHANGED <<readerVars, legacy, lossy, defaults, exists,
                 mod, config, how, dropped, enabled, yaw, mode, edits, toggles>>

--------------------------------------------------------------------------------
(* The game and the player. *)

\* The game ends, whatever the mod was about to write.
Quit ==
  /\ mod # "off"
  /\ ProcessEnds
  /\ mod' = "off" /\ config' = Builtin /\ how' = "none" /\ dropped' = {}
  /\ enabled' = TRUE /\ yaw' = TRUE /\ mode' = 0
  /\ pending' = "none" /\ unsaved' = {}
  /\ UNCHANGED <<diskVars, edits, toggles>>

Edited ==
  /\ mod = "off" /\ edits < kEditBound
  /\ edits' = edits + 1
  /\ UNCHANGED <<readerVars, legacy, lossy, sessionVars, toggles>>

\* Between two sessions the player writes values into CameraUnlock.ini, or has rows of
\* it follow Defaults.ini again.
EditRows(values) ==
  /\ Edited /\ exists
  /\ \/ rows' = Over(values, rows)
     \/ rows' = [r \in DOMAIN rows \ DOMAIN values |-> rows[r]]
  /\ UNCHANGED <<exists, defaults>>

DeleteFile ==
  /\ Edited /\ exists
  /\ exists' = FALSE /\ rows' = <<>>
  /\ UNCHANGED defaults

EditDefaults(d) ==
  /\ Edited /\ d # defaults
  /\ defaults' = d
  /\ UNCHANGED <<exists, rows>>

--------------------------------------------------------------------------------
Load == LoadCanonical \/ LoadWithoutReading \/ StartImport \/ ReadOn \/ FinishImport
Hotkey == ToggleEnabled \/ ToggleYawMode \/ CycleTrackingMode \/ \E ok \in BOOLEAN : Save(ok)
Player == \/ Quit \/ DeleteFile
          \/ \E values \in Edits : EditRows(values)
          \/ \E d \in DefaultsFiles : EditDefaults(d)
Next == Load \/ Hotkey \/ Player
Spec == Init /\ [][Next]_vars

--------------------------------------------------------------------------------
(* Properties. *)

\* Types; and the Config of a session always names a mode, so that TrackerFeed::Start's
\* DecodeTrackingMode(...).value() has one (tracker_feed.cpp:31).
TypeOK ==
  /\ ReaderTypeOK
  /\ legacy \in Files \cup {NoFile} /\ lossy \in BOOLEAN /\ defaults \in DefaultsFiles
  /\ exists \in BOOLEAN
  /\ DOMAIN rows \subseteq Rows /\ \A r \in DOMAIN rows : rows[r] \in RowValues(r)
  /\ mod \in {"off", "importing", "running"}
  /\ DOMAIN config = Rows /\ \A r \in Rows : config[r] \in RowValues(r)
  /\ ModesOf(config) # {}
  /\ how \in {"none", "created", "migrated", "canonical"} /\ dropped \subseteq Settings
  /\ enabled \in BOOLEAN /\ yaw \in BOOLEAN /\ mode \in Modes
  /\ pending \in {"none", "yaw", "mode"} /\ unsaved \subseteq {"yaw", "mode"}

\* The update loses none of the player's choices: a setting of HeadTracking.ini that
\* was changed is carried into every row made from it, whatever Defaults.ini says, or
\* named as not carried; and what was never changed follows Defaults.ini (RunImport).
ImportKeepsChoices ==
  how = "migrated" =>
    /\ \A k \in Settings : out[k] # Shipped[k] =>
         \/ k \in dropped
         \/ /\ \E r \in Rows : k \in LegacyKeys(r)
            /\ \A r \in Rows : k \in LegacyKeys(r) => config[r] = Imported(out)[r]
    /\ \A r \in Rows :
         (\A k \in LegacyKeys(r) : out[k] = Shipped[k]) => config[r] = Decoded(defaults)[r]

\* The next start finds what this session runs on, every row of it, unless the save of
\* the setting failed or is still to come: however the toggles were pressed, and
\* whatever else an import, a hand edit or an earlier failed save left in the file
\* ("so the choice survives a restart", headtracking_mod.cpp:222).
FileKeepsUp ==
  mod = "running" =>
    LET next == Decoded([r \in Rows |-> Worth(r)])
        behind == unsaved \cup {pending}
    IN /\ "yaw" \notin behind => next.WorldSpaceYaw = (IF yaw THEN 1 ELSE 0)
       /\ "mode" \notin behind => ModesOf(next) = {mode}
       /\ \A r \in Rows \ (ModeRows \cup {"WorldSpaceYaw"}) : next[r] = config[r]
================================================================================
