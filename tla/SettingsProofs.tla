---------------------------- MODULE SettingsProofs -----------------------------
(***************************************************************************)
(* Proofs about Settings, for any files, edits and number of presses.      *)
(*                                                                         *)
(* The reader inside a session takes the steps of ReaderSpec, so what is   *)
(* proved of it there holds here.  What a session runs on is worth what    *)
(* the next start will read, because every load and every save leaves the  *)
(* two equal row by row; PhaseInv is what an action may rely on of the     *)
(* order the phases come in.                                               *)
(***************************************************************************)
EXTENDS Settings, LegacyReaderProofs

PhaseInv ==
  /\ mod # "running" => how = "none"
  /\ mod = "running" => exists

SettingsInv == ReaderTypeOK /\ TypeOK /\ PhaseInv /\ ImportKeepsChoices /\ FileKeepsUp

--------------------------------------------------------------------------------
(* The table. *)

\* The rows fall into kinds that have nothing in common.
LEMMA RowKinds ==
  /\ \A r \in HotkeyRows : r \in Rows /\ r \notin FlagRows /\ r \notin ModeRows /\ r \notin LimitRows
  /\ \A r \in FlagRows : r \in Rows /\ r \notin HotkeyRows /\ r \notin LimitRows
  /\ \A r \in LimitRows : r \in Rows /\ r \notin HotkeyRows /\ r \notin FlagRows /\ r \notin ModeRows
  /\ "WorldSpaceYaw" \in FlagRows \ ModeRows /\ ModeRows \subseteq FlagRows
  BY DEF Rows, HotkeyRows, FlagRows, ModeRows, LimitRows

LEMMA FlagRowValues == \A r \in FlagRows : RowValues(r) = {0, 1}
  BY RowKinds DEF RowValues

LEMMA HotkeyKeys ==
  ASSUME NEW r \in HotkeyRows
  PROVE  HotkeyOf[r][1] \in Hotkeys /\ HotkeyOf[r][2] \in Hotkeys
  BY DEF HotkeyRows, HotkeyOf, Hotkeys, NavKeys, ChordKeys

LEMMA OtherKeys ==
  ASSUME NEW r \in Rows \ HotkeyRows
  PROVE  /\ LegacyKeys(r) = {LegacyKey(r)}
         /\ r \in FlagRows => LegacyKey(r) \in Flags
         /\ r \notin FlagRows => LegacyKey(r) \in Network \cup Rotation \cup Limits
  <1>1. LegacyKeys(r) = {LegacyKey(r)}
    BY DEF LegacyKeys
  <1>2. r \in FlagRows => LegacyKey(r) \in Flags
    BY DEF FlagRows, ModeRows, LimitRows, LegacyKey, Flags, General
  <1>3. r \in LimitRows => LegacyKey(r) \in Limits
    BY DEF LimitRows, ModeRows, LegacyKey, LimitOf, Limits
  <1>4. r \notin FlagRows /\ r \notin LimitRows => LegacyKey(r) \in Network \cup Rotation
    BY DEF Rows, FlagRows, ModeRows, LimitRows, HotkeyRows, LegacyKey, Network, Rotation
  <1> QED BY <1>1, <1>2, <1>3, <1>4

\* A Config of valid settings imports as valid rows.
LEMMA ImportedValid ==
  ASSUME NEW read, \A k \in Settings : read[k] \in ValidValues(k), NEW r \in Rows
  PROVE  /\ DOMAIN Imported(read) = Rows
         /\ Imported(read)[r] \in RowValues(r)
         /\ Imported(read)[r] = IF r \in HotkeyRows THEN <<read[HotkeyOf[r][1]], read[HotkeyOf[r][2]]>>
                                ELSE IF r = "RotationEnabled" THEN 1 ELSE read[LegacyKey(r)]
  <1>1. /\ DOMAIN Imported(read) = Rows
        /\ Imported(read)[r] = IF r \in HotkeyRows THEN <<read[HotkeyOf[r][1]], read[HotkeyOf[r][2]]>>
                                ELSE IF r = "RotationEnabled" THEN 1 ELSE read[LegacyKey(r)]
    BY DEF Imported
  <1>2. CASE r \in HotkeyRows
    <2>1. \A k \in Hotkeys : read[k] \in Nat
      <3>1. \A k \in Hotkeys : k \in Settings /\ ValidValues(k) = BindableVirtualKeys
        BY KeyValues DEF Settings
      <3>2. BindableVirtualKeys \subseteq Nat
        BY DEF BindableVirtualKeys
      <3> QED BY <3>1, <3>2
    <2>2. read[HotkeyOf[r][1]] \in Nat /\ read[HotkeyOf[r][2]] \in Nat
      BY <1>2, <2>1, HotkeyKeys
    <2> QED BY <1>1, <1>2, <2>2 DEF RowValues
  <1>3. CASE r \in FlagRows
    <2>1. r \notin HotkeyRows /\ RowValues(r) = {0, 1}
      BY <1>3, RowKinds, FlagRowValues
    <2>2. LegacyKey(r) \in Flags
      BY <1>3, <2>1, OtherKeys
    <2>3. \A k \in Flags : k \in Settings /\ ValidValues(k) = {0, 1}
      BY FlagValues DEF Settings, Flags, Position
    <2>4. read[LegacyKey(r)] \in {0, 1}
      BY <2>2, <2>3
    <2> QED BY <1>1, <2>1, <2>4
  <1>4. CASE r \notin HotkeyRows /\ r \notin FlagRows
    <2>1. RowValues(r) = Nat
      BY <1>4 DEF RowValues
    <2>2. LegacyKey(r) \in Network \cup Rotation \cup Limits /\ r # "RotationEnabled"
      BY <1>4, OtherKeys DEF FlagRows, ModeRows
    <2>3. \A k \in Network : k \in Settings /\ ValidValues(k) \subseteq Nat
      <3>1. UdpPorts \subseteq Nat
        BY SMT DEF UdpPorts
      <3> QED BY <3>1, PortValues DEF Settings
    <2>4. \A k \in Rotation : k \in Settings /\ ValidValues(k) \subseteq Nat
      BY SmoothingValues DEF Settings, kMaxSmoothing
    <2>5. \A k \in Limits : k \in Settings /\ ValidValues(k) \subseteq Nat
      BY LimitValues DEF Settings, Position, kMaxPositionLimit
    <2>6. read[LegacyKey(r)] \in Nat
      BY <2>2, <2>3, <2>4, <2>5
    <2> QED BY <1>1, <1>4, <2>1, <2>2, <2>6
  <1> QED BY <1>1, <1>2, <1>3, <1>4

LEMMA BuiltinValid == DOMAIN Builtin = Rows /\ \A r \in Rows : Builtin[r] \in RowValues(r)
  <1>1. \A k \in Settings : Shipped[k] \in ValidValues(k)
    BY ShippedValid
  <1>2. Rows # {}
    BY DEF Rows
  <1> QED BY <1>1, <1>2, ImportedValid DEF Builtin

--------------------------------------------------------------------------------
(* The tracking mode, one setting in two rows. *)

LEMMA ModeIsPair ==
  /\ \A m \in Modes : DOMAIN EncodeTrackingMode(m) = ModeRows
                      /\ \A r \in ModeRows : EncodeTrackingMode(m)[r] \in {0, 1}
  /\ \A m, n \in Modes : (\A r \in ModeRows : EncodeTrackingMode(m)[r] = EncodeTrackingMode(n)[r])
                           => m = n
  BY DEF Modes, kTrackingModeCount, ModeRows, EncodeTrackingMode

LEMMA OneMode == ASSUME NEW c, NEW m \in ModesOf(c) PROVE ModesOf(c) = {m}
  BY ModeIsPair DEF ModesOf

LEMMA SameModes ==
  ASSUME NEW c, NEW d, \A r \in ModeRows : c[r] = d[r]
  PROVE  ModesOf(c) = ModesOf(d)
  BY DEF ModesOf

\* A pair that turns the rotation on names a mode.
LEMMA RotationIsAMode ==
  ASSUME NEW c, c["RotationEnabled"] = 1, c["PositionEnabled"] \in {0, 1}
  PROVE  ModesOf(c) # {}
  <1>1. \A r \in ModeRows : r = "RotationEnabled" \/ r = "PositionEnabled"
    BY DEF ModeRows
  <1>2. CASE c["PositionEnabled"] = 1
    <2>1. 0 \in Modes /\ EncodeTrackingMode(0)["RotationEnabled"] = 1
          /\ EncodeTrackingMode(0)["PositionEnabled"] = 1
      BY DEF Modes, kTrackingModeCount, EncodeTrackingMode
    <2> QED BY <1>1, <1>2, <2>1 DEF ModesOf
  <1>3. CASE c["PositionEnabled"] = 0
    <2>1. 1 \in Modes /\ EncodeTrackingMode(1)["RotationEnabled"] = 1
          /\ EncodeTrackingMode(1)["PositionEnabled"] = 0
      BY DEF Modes, kTrackingModeCount, EncodeTrackingMode
    <2> QED BY <1>1, <1>3, <2>1 DEF ModesOf
  <1> QED BY <1>2, <1>3

LEMMA BuiltinMode == ModesOf(Builtin) # {}
  <1>1. "RotationEnabled" \in Rows /\ "PositionEnabled" \in Rows
    BY DEF Rows, FlagRows, ModeRows
  <1>2. \A k \in Settings : Shipped[k] \in ValidValues(k)
    BY ShippedValid
  <1>3. Builtin["RotationEnabled"] = 1
    BY <1>1, <1>2, ImportedValid DEF Builtin, HotkeyRows
  <1>4. Builtin["PositionEnabled"] \in {0, 1}
    BY <1>1, BuiltinValid, FlagRowValues DEF FlagRows, ModeRows
  <1> QED BY <1>3, <1>4, RotationIsAMode

\* What the table decodes names a mode, and differs from what it was given in the two
\* rows of the mode only.
LEMMA DecodedIs ==
  ASSUME NEW c, DOMAIN c = Rows, \A r \in Rows : c[r] \in RowValues(r)
  PROVE  /\ DOMAIN Decoded(c) = Rows
         /\ \A r \in Rows : Decoded(c)[r] \in RowValues(r)
         /\ \A r \in Rows \ ModeRows : Decoded(c)[r] = c[r]
         /\ ModesOf(c) # {} => Decoded(c) = c
         /\ ModesOf(c) = {} => \A r \in ModeRows : Decoded(c)[r] = Builtin[r]
         /\ ModesOf(Decoded(c)) # {}
  <1>1. CASE ModesOf(c) # {}
    BY <1>1 DEF Decoded
  <1>2. CASE ModesOf(c) = {}
    <2>1. Decoded(c) = [r \in Rows |-> IF r \in ModeRows THEN Builtin[r] ELSE c[r]]
      BY <1>2 DEF Decoded
    <2>2. \A r \in ModeRows : r \in Rows
      BY RowKinds
    <2>3. \A r \in ModeRows : Decoded(c)[r] = Builtin[r]
      BY <2>1, <2>2
    <2>4. ModesOf(Decoded(c)) # {}
      BY <2>3, SameModes, BuiltinMode
    <2> QED BY <1>2, <2>1, <2>3, <2>4, BuiltinValid
  <1> QED BY <1>1, <1>2

\* Row by row, what is decoded depends on what was given.
LEMMA DecodedSame ==
  ASSUME NEW c, NEW d, DOMAIN c = Rows, DOMAIN d = Rows,
         \A r \in Rows : c[r] \in RowValues(r) /\ d[r] \in RowValues(r)
  PROVE  /\ \A r \in Rows \ ModeRows : c[r] = d[r] => Decoded(c)[r] = Decoded(d)[r]
         /\ (\A r \in ModeRows : c[r] = d[r]) =>
              \A r \in ModeRows : Decoded(c)[r] = Decoded(d)[r]
  <1>1. \A r \in Rows \ ModeRows : Decoded(c)[r] = c[r] /\ Decoded(d)[r] = d[r]
    BY DecodedIs
  <1>2. ASSUME \A r \in ModeRows : c[r] = d[r], NEW r \in ModeRows
        PROVE  Decoded(c)[r] = Decoded(d)[r]
    <2>1. ModesOf(c) = ModesOf(d)
      BY <1>2, SameModes
    <2> QED BY <1>2, <2>1, DecodedIs
  <1> QED BY <1>1, <1>2

--------------------------------------------------------------------------------
(* The reader in a session. *)

\* Every step takes one of the reader, or leaves it alone.
LEMMA ReaderSteps ==
  ASSUME TypeOK, [Next]_vars
  PROVE  [ReaderNext]_readerVars
  <1>1. CASE StartImport
    <2>1. legacy \in Files \cup {NoFile}
      BY DEF TypeOK
    <2> QED BY <1>1, <2>1 DEF StartImport, ReaderNext
  <1>2. CASE ReadOn
    BY <1>2 DEF ReadOn, ReaderNext
  <1>3. CASE Quit
    BY <1>3 DEF Quit, ReaderNext
  <1>4. CASE LoadCanonical \/ LoadWithoutReading \/ FinishImport
    BY <1>4 DEF LoadCanonical, LoadWithoutReading, FinishImport
  <1>5. CASE Hotkey
    BY <1>5 DEF Hotkey, ToggleEnabled, ToggleYawMode, CycleTrackingMode, Save, Pressed
  <1>6. CASE DeleteFile \/ (\E e \in Edits : EditRows(e)) \/ (\E d \in DefaultsFiles : EditDefaults(d))
    BY <1>6 DEF DeleteFile, EditRows, EditDefaults, Edited
  <1>7. CASE UNCHANGED vars
    BY <1>7 DEF vars
  <1> QED BY <1>1, <1>2, <1>3, <1>4, <1>5, <1>6, <1>7 DEF Next, Load, Player

--------------------------------------------------------------------------------
(* The loads. *)

\* What a start would find.
NextStart == Decoded([r \in Rows |-> Worth(r)])

\* A row's worth is of the row's type.
LEMMA WorthValid ==
  ASSUME TypeOK
  PROVE  /\ DOMAIN [r \in Rows |-> Worth(r)] = Rows
         /\ \A r \in Rows : [x \in Rows |-> Worth(x)][r] = Worth(r) /\ Worth(r) \in RowValues(r)
  <1>1. \A r \in Rows : defaults[r] \in RowValues(r)
    BY DefaultsAssumption DEF TypeOK
  <1>2. \A r \in DOMAIN rows : rows[r] \in RowValues(r)
    BY DEF TypeOK
  <1> QED BY <1>1, <1>2 DEF Worth

LEMMA WorthValidNext ==
  ASSUME TypeOK'
  PROVE  \A r \in Rows : Worth(r)' \in RowValues(r)
  <1>1. \A r \in Rows : defaults'[r] \in RowValues(r)
    BY DefaultsAssumption DEF TypeOK
  <1>2. \A r \in DOMAIN rows' : rows'[r] \in RowValues(r)
    BY DEF TypeOK
  <1> QED BY <1>1, <1>2 DEF Worth

\* A session begins on a Config with the mode and the yaw it says.
LEMMA BeginIs ==
  ASSUME NEW c, DOMAIN c = Rows, \A r \in Rows : c[r] \in RowValues(r), Begin(Decoded(c))
  PROVE  /\ mod' = "running" /\ config' = Decoded(c)
         /\ DOMAIN config' = Rows /\ \A r \in Rows : config'[r] \in RowValues(r)
         /\ ModesOf(config') = {mode'} /\ mode' \in Modes
         /\ enabled' \in BOOLEAN /\ yaw' \in BOOLEAN
         /\ config'["WorldSpaceYaw"] = (IF yaw' THEN 1 ELSE 0)
         /\ UNCHANGED <<pending, unsaved>>
  <1>1. /\ mod' = "running" /\ config' = Decoded(c) /\ mode' \in ModesOf(Decoded(c))
        /\ enabled' = (Decoded(c).EnableOnStartup = 1) /\ yaw' = (Decoded(c).WorldSpaceYaw = 1)
        /\ UNCHANGED <<pending, unsaved>>
    BY DEF Begin
  <1>2. /\ DOMAIN Decoded(c) = Rows /\ \A r \in Rows : Decoded(c)[r] \in RowValues(r)
    BY DecodedIs
  <1>3. ModesOf(config') = {mode'} /\ mode' \in Modes
    BY <1>1, OneMode DEF ModesOf
  <1>4. Decoded(c).WorldSpaceYaw \in {0, 1}
    BY <1>2, RowKinds, FlagRowValues
  <1>5. yaw' \in BOOLEAN /\ enabled' \in BOOLEAN
    BY <1>1
  <1>6. config'["WorldSpaceYaw"] = (IF yaw' THEN 1 ELSE 0)
    BY <1>1, <1>4
  <1> QED BY <1>1, <1>2, <1>3, <1>5, <1>6

\* A load leaves nothing for the next start to find otherwise.
LEMMA LoadKeepsUp ==
  ASSUME TypeOK', NEW c, c = [r \in Rows |-> c[r]], \A r \in Rows : c[r] \in RowValues(r),
         Begin(Decoded(c)), \A r \in Rows : Worth(r)' = c[r]
  PROVE  FileKeepsUp'
  <1>1. NextStart' = Decoded(c)
    <2>1. [r \in Rows |-> Worth(r)]' = c
      <3>1. [r \in Rows |-> Worth(r)]' = [r \in Rows |-> Worth(r)']
        OBVIOUS
      <3> HIDE DEF Worth
      <3>2. [r \in Rows |-> Worth(r)'] = [r \in Rows |-> c[r]]
        OBVIOUS
      <3> QED BY <3>1, <3>2
    <2>2. NextStart' = Decoded([r \in Rows |-> Worth(r)]')
      BY DEF NextStart, Decoded, ModesOf, Builtin, EncodeTrackingMode
    <2> QED BY <2>1, <2>2
  <1>2. /\ config' = Decoded(c) /\ ModesOf(config') = {mode'}
        /\ config'["WorldSpaceYaw"] = (IF yaw' THEN 1 ELSE 0)
    BY BeginIs
  <1> QED BY <1>1, <1>2 DEF FileKeepsUp, NextStart

--------------------------------------------------------------------------------
(* What an import makes of the player's settings. *)

ImportedRows == [r \in Rows |-> IF r \in OwnRows(Imported(out), Follows(out))
                                THEN Imported(out)[r] ELSE defaults[r]]

\* A row that follows is worth what Defaults.ini has, any other the player's own, and
\* the two rows of the mode follow together.
LEMMA ImportedRowsAre ==
  ASSUME TypeOK
  PROVE  /\ DOMAIN ImportedRows = Rows /\ ImportedRows = [r \in Rows |-> ImportedRows[r]]
         /\ \A r \in Rows : ImportedRows[r] \in RowValues(r)
         /\ OwnRows(Imported(out), Follows(out)) \subseteq Rows
         /\ \A r \in Rows \ Follows(out) : ImportedRows[r] = Imported(out)[r]
         /\ \A r \in Follows(out) : ImportedRows[r] = defaults[r]
         /\ (\A r \in ModeRows : r \in Follows(out)) \/ (\A r \in ModeRows : r \notin Follows(out))
  <1> DEFINE I == Imported(out)
             F == Follows(out)
             own == OwnRows(I, F)
             differs == {r \in Rows \ F : I[r] # defaults[r]}
  <1>1. own = differs \cup (IF differs \cap ModeRows # {} THEN ModeRows ELSE {})
    BY DEF OwnRows
  <1>2. ModeRows \subseteq Rows
    BY RowKinds
  <1>3. own \subseteq Rows
    BY <1>1, <1>2
  <1>4. (\A r \in ModeRows : r \in F) \/ (\A r \in ModeRows : r \notin F)
    <2>1. \A r \in ModeRows : LegacyKeys(r) = {"Enabled"}
      BY DEF LegacyKeys, LegacyKey, ModeRows, HotkeyRows
    <2>2. \A r \in ModeRows : r \in F <=> out["Enabled"] = Shipped["Enabled"]
      BY <1>2, <2>1 DEF Follows
    <2> QED BY <2>2
  <1>5. \A r \in Rows : I[r] \in RowValues(r) /\ defaults[r] \in RowValues(r)
    <2>1. \A k \in Settings : out[k] \in ValidValues(k)
      BY DEF TypeOK, ReaderTypeOK
    <2>2. defaults \in DefaultsFiles
      BY DEF TypeOK
    <2> QED BY <2>1, <2>2, ImportedValid, DefaultsAssumption
  <1>6. \A r \in Rows : ImportedRows[r] = IF r \in own THEN I[r] ELSE defaults[r]
    BY DEF ImportedRows
  <1>7. ImportedRows = [r \in Rows |-> ImportedRows[r]] /\ DOMAIN ImportedRows = Rows
    BY DEF ImportedRows
  <1> HIDE DEF I, F, own
  <1>8. \A r \in Rows \ F : ImportedRows[r] = I[r]
    BY <1>1, <1>6
  <1>9. \A r \in Rows : r \in F => ImportedRows[r] = defaults[r]
    BY <1>1, <1>2, <1>4, <1>6
  <1>10. F \subseteq Rows
    BY DEF F, Follows
  <1>11. \A r \in Rows : ImportedRows[r] \in RowValues(r)
    BY <1>5, <1>6
  <1> QED BY <1>3, <1>4, <1>7, <1>8, <1>9, <1>10, <1>11 DEF I, F, own

\* The import leaves the file worth what the session runs on.
LEMMA ImportedWorth ==
  ASSUME TypeOK, FinishImport
  PROVE  /\ Begin(Decoded(ImportedRows))
         /\ rows' = [r \in OwnRows(Imported(out), Follows(out)) |-> ImportedRows[r]]
         /\ \A r \in Rows : Worth(r)' = ImportedRows[r]
  <1>1. /\ Begin(Decoded(ImportedRows)) /\ defaults' = defaults
        /\ rows' = [r \in OwnRows(Imported(out), Follows(out)) |-> ImportedRows[r]]
    BY DEF FinishImport, ImportedRows
  <1>2. \A r \in Rows : ImportedRows[r] =
          IF r \in OwnRows(Imported(out), Follows(out)) THEN Imported(out)[r] ELSE defaults[r]
    BY DEF ImportedRows
  <1> QED BY <1>1, <1>2 DEF Worth

--------------------------------------------------------------------------------
(* The types. *)

LEMMA LoadTypes ==
  ASSUME TypeOK, ReaderTypeOK', LoadCanonical \/ LoadWithoutReading \/ FinishImport
  PROVE  TypeOK' /\ PhaseInv'
  <1>1. \E c : /\ DOMAIN c = Rows /\ \A r \in Rows : c[r] \in RowValues(r)
              /\ Begin(Decoded(c))
    <2>1. CASE FinishImport
      BY <2>1, ImportedRowsAre, ImportedWorth
    <2>2. CASE LoadCanonical \/ LoadWithoutReading
      BY <2>2, WorthValid DEF LoadCanonical, LoadWithoutReading
    <2> QED BY <2>1, <2>2
  <1>2. /\ mod' = "running" /\ DOMAIN config' = Rows /\ \A r \in Rows : config'[r] \in RowValues(r)
        /\ ModesOf(config') # {} /\ mode' \in Modes /\ enabled' \in BOOLEAN /\ yaw' \in BOOLEAN
        /\ UNCHANGED <<pending, unsaved>>
    <2>1. PICK c : /\ DOMAIN c = Rows /\ \A r \in Rows : c[r] \in RowValues(r)
                   /\ Begin(Decoded(c))
      BY <1>1
    <2> QED BY <2>1, BeginIs
  <1>3. /\ DOMAIN rows' \subseteq Rows /\ \A r \in DOMAIN rows' : rows'[r] \in RowValues(r)
    <2>1. CASE FinishImport
      BY <2>1, ImportedRowsAre, ImportedWorth
    <2>2. CASE LoadCanonical \/ LoadWithoutReading
      BY <2>2 DEF LoadCanonical, LoadWithoutReading, diskVars, TypeOK
    <2> QED BY <2>1, <2>2
  <1>4. /\ exists' = TRUE /\ UNCHANGED <<legacy, lossy, defaults>>
        /\ how' \in {"created", "migrated", "canonical"} /\ dropped' \subseteq Settings
    BY DEF LoadCanonical, LoadWithoutReading, FinishImport, diskVars, TypeOK, Dropped, Settings, General
  <1> QED BY <1>2, <1>3, <1>4 DEF TypeOK, PhaseInv

LEMMA ImportTypes ==
  ASSUME TypeOK, PhaseInv, ReaderTypeOK', StartImport \/ ReadOn
  PROVE  TypeOK' /\ PhaseInv'
  BY DEF StartImport, ReadOn, diskVars, sessionVars, TypeOK, PhaseInv

LEMMA ToggleTypes ==
  ASSUME TypeOK, PhaseInv, ReaderTypeOK', ToggleEnabled \/ ToggleYawMode \/ CycleTrackingMode
  PROVE  TypeOK' /\ PhaseInv'
  <1>1. UNCHANGED <<diskVars, mod, config, how, dropped, unsaved>>
    BY DEF ToggleEnabled, ToggleYawMode, CycleTrackingMode, Pressed
  <1>2. mode' \in Modes
    BY DEF ToggleEnabled, ToggleYawMode, CycleTrackingMode, Modes, kTrackingModeCount, TypeOK
  <1>3. pending' \in {"none", "yaw", "mode"}
    BY DEF ToggleEnabled, ToggleYawMode, CycleTrackingMode, TypeOK
  <1>4. enabled' \in BOOLEAN /\ yaw' \in BOOLEAN
    BY DEF ToggleEnabled, ToggleYawMode, CycleTrackingMode, TypeOK
  <1> QED BY <1>1, <1>2, <1>3, <1>4 DEF TypeOK, PhaseInv, diskVars

\* The rows a toggle writes.
LEMMA ChangeIs ==
  ASSUME TypeOK, pending # "none"
  PROVE  /\ DOMAIN Change(pending) = IF pending = "yaw" THEN {"WorldSpaceYaw"} ELSE ModeRows
         /\ pending = "yaw" => Change(pending)["WorldSpaceYaw"] = (IF yaw THEN 1 ELSE 0)
         /\ pending = "mode" => \A r \in ModeRows : Change(pending)[r] = EncodeTrackingMode(mode)[r]
         /\ DOMAIN Change(pending) \subseteq Rows
         /\ \A r \in DOMAIN Change(pending) : Change(pending)[r] \in RowValues(r)
  <1>1. pending \in {"yaw", "mode"} /\ mode \in Modes /\ yaw \in BOOLEAN
    BY DEF TypeOK
  <1>2. CASE pending = "yaw"
    <2>1. Change(pending) = [WorldSpaceYaw |-> IF yaw THEN 1 ELSE 0]
      BY <1>2 DEF Change
    <2>2. RowValues("WorldSpaceYaw") = {0, 1} /\ "WorldSpaceYaw" \in Rows
      BY RowKinds, FlagRowValues
    <2> QED BY <1>2, <2>1, <2>2
  <1>3. CASE pending = "mode"
    <2>1. Change(pending) = EncodeTrackingMode(mode)
      BY <1>3 DEF Change
    <2>2. \A r \in ModeRows : RowValues(r) = {0, 1} /\ r \in Rows
      BY RowKinds, FlagRowValues
    <2> QED BY <1>1, <1>3, <2>1, <2>2, ModeIsPair
  <1> QED BY <1>1, <1>2, <1>3

\* Rows of their types over rows of theirs.
LEMMA OverValid ==
  ASSUME NEW new, NEW old, DOMAIN new \subseteq Rows, DOMAIN old \subseteq Rows,
         \A r \in DOMAIN new : new[r] \in RowValues(r),
         \A r \in DOMAIN old : old[r] \in RowValues(r)
  PROVE  /\ DOMAIN Over(new, old) \subseteq Rows
         /\ \A r \in DOMAIN Over(new, old) : Over(new, old)[r] \in RowValues(r)
  BY DEF Over

LEMMA SaveTypes ==
  ASSUME TypeOK, PhaseInv, ReaderTypeOK', NEW ok \in BOOLEAN, Save(ok)
  PROVE  TypeOK' /\ PhaseInv'
  <1>1. /\ UNCHANGED <<legacy, lossy, defaults, exists, mod, config, how, dropped, enabled, yaw, mode>>
        /\ pending' = "none" /\ pending # "none"
        /\ rows' = (IF ok THEN Over(Change(pending), rows) ELSE rows)
        /\ unsaved' = (IF ok THEN unsaved \ {pending} ELSE unsaved \cup {pending})
    BY DEF Save
  <1>2. /\ DOMAIN rows' \subseteq Rows /\ \A r \in DOMAIN rows' : rows'[r] \in RowValues(r)
    BY <1>1, ChangeIs, OverValid DEF TypeOK
  <1>3. unsaved' \subseteq {"yaw", "mode"}
    BY <1>1 DEF TypeOK
  <1> QED BY <1>1, <1>2, <1>3 DEF TypeOK, PhaseInv

LEMMA QuitTypes ==
  ASSUME TypeOK, ReaderTypeOK', Quit
  PROVE  TypeOK' /\ PhaseInv'
  <1>1. 0 \in Modes
    BY DEF Modes, kTrackingModeCount
  <1> QED BY <1>1, BuiltinValid, BuiltinMode DEF Quit, diskVars, TypeOK, PhaseInv

LEMMA EditTypes ==
  ASSUME TypeOK, PhaseInv, ReaderTypeOK',
         \/ DeleteFile
         \/ \E e \in Edits : EditRows(e)
         \/ \E d \in DefaultsFiles : EditDefaults(d)
  PROVE  TypeOK' /\ PhaseInv'
  <1>1. /\ mod = "off" /\ UNCHANGED <<legacy, lossy, mod, config, how, dropped, enabled, yaw, mode,
                                    pending, unsaved>>
    BY DEF DeleteFile, EditRows, EditDefaults, Edited, sessionVars
  <1>2. defaults' \in DefaultsFiles /\ exists' \in BOOLEAN
    BY DEF DeleteFile, EditRows, EditDefaults, TypeOK
  <1>3. /\ DOMAIN rows' \subseteq Rows /\ \A r \in DOMAIN rows' : rows'[r] \in RowValues(r)
    <2>1. CASE DeleteFile
      BY <2>1 DEF DeleteFile
    <2>2. ASSUME NEW e \in Edits, EditRows(e)
          PROVE  DOMAIN rows' \subseteq Rows /\ \A r \in DOMAIN rows' : rows'[r] \in RowValues(r)
      <3>1. rows' = Over(e, rows) \/ rows' = [r \in DOMAIN rows \ DOMAIN e |-> rows[r]]
        BY <2>2 DEF EditRows
      <3>2. DOMAIN e \subseteq Rows /\ \A r \in DOMAIN e : e[r] \in RowValues(r)
        BY EditsAssumption
      <3> QED BY <3>1, <3>2, OverValid DEF TypeOK
    <2>3. CASE \E d \in DefaultsFiles : EditDefaults(d)
      BY <2>3 DEF EditDefaults, TypeOK
    <2> QED BY <2>1, <2>2, <2>3
  <1> QED BY <1>1, <1>2, <1>3 DEF TypeOK, PhaseInv

--------------------------------------------------------------------------------
(* The next start. *)

\* The mode the next start finds hangs on the two rows of the mode.
LEMMA NextStartChanges ==
  ASSUME TypeOK, TypeOK'
  PROVE  /\ \A r \in Rows \ ModeRows : Worth(r)' = Worth(r) => NextStart'[r] = NextStart[r]
         /\ (\A r \in ModeRows : Worth(r)' = Worth(r)) => ModesOf(NextStart') = ModesOf(NextStart)
  <1> DEFINE c == [r \in Rows |-> Worth(r)]
             d == [r \in Rows |-> Worth(r)']
  <1>1. /\ DOMAIN c = Rows /\ \A r \in Rows : c[r] = Worth(r) /\ c[r] \in RowValues(r)
    BY WorthValid
  <1>2. /\ DOMAIN d = Rows /\ \A r \in Rows : d[r] = Worth(r)' /\ d[r] \in RowValues(r)
    <2> HIDE DEF Worth
    <2> QED BY WorthValidNext
  <1>3. NextStart = Decoded(c) /\ NextStart' = Decoded(d)
    BY DEF NextStart, Decoded, ModesOf, Builtin, EncodeTrackingMode
  <1> HIDE DEF c, d
  <1>4. /\ \A r \in Rows \ ModeRows : c[r] = d[r] => Decoded(c)[r] = Decoded(d)[r]
        /\ (\A r \in ModeRows : c[r] = d[r]) => \A r \in ModeRows : Decoded(c)[r] = Decoded(d)[r]
    BY <1>1, <1>2, DecodedSame
  <1>5. (\A r \in ModeRows : c[r] = d[r]) => ModesOf(Decoded(c)) = ModesOf(Decoded(d))
    BY <1>4, SameModes
  <1>6. \A r \in ModeRows : r \in Rows
    BY RowKinds
  <1> QED BY <1>1, <1>2, <1>3, <1>4, <1>5, <1>6

\* What the next start finds after a step, from what the rows are then worth.
LEMMA NextStartIsPrimed ==
  ASSUME TypeOK'
  PROVE  /\ \A r \in Rows \ ModeRows : NextStart'[r] = Worth(r)'
         /\ \A m \in Modes : (\A r \in ModeRows : Worth(r)' = EncodeTrackingMode(m)[r])
                                => ModesOf(NextStart') = {m}
  <1> DEFINE d == [r \in Rows |-> Worth(r)']
  <1>1. DOMAIN d = Rows /\ \A r \in Rows : d[r] = Worth(r)' /\ d[r] \in RowValues(r)
    <2> HIDE DEF Worth
    <2> QED BY WorthValidNext
  <1>2. NextStart' = Decoded(d)
    BY DEF NextStart, Decoded, ModesOf, Builtin, EncodeTrackingMode
  <1> HIDE DEF d
  <1>3. \A r \in Rows \ ModeRows : NextStart'[r] = Worth(r)'
    BY <1>1, <1>2, DecodedIs
  <1>4. ASSUME NEW m \in Modes, \A r \in ModeRows : Worth(r)' = EncodeTrackingMode(m)[r]
        PROVE  ModesOf(NextStart') = {m}
    <2>1. \A r \in ModeRows : d[r] = EncodeTrackingMode(m)[r]
      BY <1>1, <1>4, RowKinds
    <2>2. m \in ModesOf(d)
      BY <2>1 DEF ModesOf
    <2>3. Decoded(d) = d
      BY <1>1, <2>2, DecodedIs
    <2> QED BY <1>2, <2>2, <2>3, OneMode
  <1> QED BY <1>3, <1>4

LEMMA LoadsKeepUp ==
  ASSUME TypeOK, TypeOK', LoadCanonical \/ LoadWithoutReading \/ FinishImport
  PROVE  FileKeepsUp'
  <1>1. CASE FinishImport
    BY <1>1, ImportedRowsAre, ImportedWorth, LoadKeepsUp
  <1>2. CASE LoadCanonical \/ LoadWithoutReading
    <2> DEFINE c == [r \in Rows |-> Worth(r)]
    <2>1. DOMAIN c = Rows /\ \A r \in Rows : c[r] = Worth(r) /\ c[r] \in RowValues(r)
      BY WorthValid
    <2>2. rows' = rows /\ defaults' = defaults /\ Begin(Decoded(c))
      BY <1>2 DEF LoadCanonical, LoadWithoutReading, diskVars
    <2>3. \A r \in Rows : Worth(r)' = c[r]
      BY <2>1, <2>2 DEF Worth
    <2>4. c = [r \in Rows |-> c[r]]
      OBVIOUS
    <2> HIDE DEF c
    <2> QED BY <2>1, <2>2, <2>3, <2>4, LoadKeepsUp
  <1> QED BY <1>1, <1>2

\* A toggle leaves the file as it is, and from then on its setting is behind.
LEMMA TogglesKeepUp ==
  ASSUME TypeOK, TypeOK', FileKeepsUp, ToggleEnabled \/ ToggleYawMode \/ CycleTrackingMode
  PROVE  FileKeepsUp'
  <1>1. UNCHANGED <<rows, defaults, mod, config, unsaved>> /\ mod = "running" /\ pending = "none"
    BY DEF ToggleEnabled, ToggleYawMode, CycleTrackingMode, Pressed, diskVars
  <1>2. \A r \in Rows : Worth(r)' = Worth(r)
    BY <1>1 DEF Worth
  <1>3. /\ \A r \in Rows \ ModeRows : NextStart'[r] = NextStart[r]
        /\ ModesOf(NextStart') = ModesOf(NextStart)
    BY <1>2, NextStartChanges, RowKinds
  <1>4. /\ yaw' = yaw \/ pending' = "yaw"
        /\ mode' = mode \/ pending' = "mode"
    BY DEF ToggleEnabled, ToggleYawMode, CycleTrackingMode
  <1>5. /\ "yaw" \notin unsaved => NextStart["WorldSpaceYaw"] = (IF yaw THEN 1 ELSE 0)
        /\ "mode" \notin unsaved => ModesOf(NextStart) = {mode}
        /\ \A r \in Rows \ (ModeRows \cup {"WorldSpaceYaw"}) : NextStart[r] = config[r]
    BY <1>1 DEF FileKeepsUp, NextStart
  <1>6. "WorldSpaceYaw" \in Rows \ ModeRows
    BY RowKinds
  <1>7. /\ "yaw" \notin unsaved \cup {pending'} => NextStart'["WorldSpaceYaw"] = (IF yaw' THEN 1 ELSE 0)
        /\ "mode" \notin unsaved \cup {pending'} => ModesOf(NextStart') = {mode'}
        /\ \A r \in Rows \ (ModeRows \cup {"WorldSpaceYaw"}) : NextStart'[r] = config[r]
    BY <1>3, <1>4, <1>5, <1>6
  <1> QED BY <1>1, <1>7 DEF FileKeepsUp, NextStart

\* A save that succeeds brings its setting level and moves no other.
LEMMA SaveKeepsUp ==
  ASSUME TypeOK, TypeOK', FileKeepsUp, NEW ok \in BOOLEAN, Save(ok)
  PROVE  FileKeepsUp'
  <1>1. /\ UNCHANGED <<defaults, mod, config, yaw, mode>> /\ mod = "running"
        /\ pending' = "none" /\ pending \in {"yaw", "mode"}
        /\ rows' = (IF ok THEN Over(Change(pending), rows) ELSE rows)
        /\ unsaved' = (IF ok THEN unsaved \ {pending} ELSE unsaved \cup {pending})
    BY DEF Save, TypeOK
  <1>2. /\ "yaw" \notin unsaved \cup {pending} => NextStart["WorldSpaceYaw"] = (IF yaw THEN 1 ELSE 0)
        /\ "mode" \notin unsaved \cup {pending} => ModesOf(NextStart) = {mode}
        /\ \A r \in Rows \ (ModeRows \cup {"WorldSpaceYaw"}) : NextStart[r] = config[r]
    BY <1>1 DEF FileKeepsUp, NextStart
  <1>3. "WorldSpaceYaw" \in Rows \ ModeRows
    BY RowKinds
  <1>4. ok => \A r \in Rows : Worth(r)' = IF r \in DOMAIN Change(pending) THEN Change(pending)[r]
                                         ELSE Worth(r)
    BY <1>1 DEF Worth, Over
  <1>5. /\ "yaw" \notin unsaved' => NextStart'["WorldSpaceYaw"] = (IF yaw THEN 1 ELSE 0)
        /\ "mode" \notin unsaved' => ModesOf(NextStart') = {mode}
        /\ \A r \in Rows \ (ModeRows \cup {"WorldSpaceYaw"}) : NextStart'[r] = config[r]
    <2>1. CASE ~ok
      <3>1. \A r \in Rows : Worth(r)' = Worth(r)
        BY <1>1, <2>1 DEF Worth
      <3>2. /\ \A r \in Rows \ ModeRows : NextStart'[r] = NextStart[r]
            /\ ModesOf(NextStart') = ModesOf(NextStart)
        BY <3>1, NextStartChanges, RowKinds
      <3> QED BY <1>1, <1>2, <1>3, <2>1, <3>2
    <2>2. CASE ok /\ pending = "yaw"
      <3>1. /\ DOMAIN Change(pending) = {"WorldSpaceYaw"}
            /\ Change(pending)["WorldSpaceYaw"] = (IF yaw THEN 1 ELSE 0)
        BY <2>2, ChangeIs
      <3>2. /\ Worth("WorldSpaceYaw")' = (IF yaw THEN 1 ELSE 0)
            /\ \A r \in Rows \ {"WorldSpaceYaw"} : Worth(r)' = Worth(r)
        BY <1>3, <1>4, <2>2, <3>1
      <3>3. NextStart'["WorldSpaceYaw"] = (IF yaw THEN 1 ELSE 0)
        BY <1>3, <3>2, NextStartIsPrimed
      <3>4. /\ \A r \in Rows \ (ModeRows \cup {"WorldSpaceYaw"}) : NextStart'[r] = NextStart[r]
            /\ ModesOf(NextStart') = ModesOf(NextStart)
        BY <1>3, <3>2, NextStartChanges, RowKinds
      <3> QED BY <1>1, <1>2, <2>2, <3>3, <3>4
    <2>3. CASE ok /\ pending = "mode"
      <3>1. /\ DOMAIN Change(pending) = ModeRows
            /\ \A r \in ModeRows : Change(pending)[r] = EncodeTrackingMode(mode)[r]
        BY <2>3, ChangeIs
      <3>2. /\ \A r \in ModeRows : Worth(r)' = EncodeTrackingMode(mode)[r]
            /\ \A r \in Rows \ ModeRows : Worth(r)' = Worth(r)
        BY <1>4, <2>3, <3>1, RowKinds
      <3>3. ModesOf(NextStart') = {mode}
        BY <3>2, NextStartIsPrimed DEF TypeOK
      <3>4. \A r \in Rows \ ModeRows : NextStart'[r] = NextStart[r]
        BY <3>2, NextStartChanges
      <3> QED BY <1>1, <1>2, <1>3, <2>3, <3>3, <3>4
    <2> QED BY <1>1, <2>1, <2>2, <2>3
  <1> QED BY <1>1, <1>5 DEF FileKeepsUp, NextStart

--------------------------------------------------------------------------------
(* The import. *)

\* Every setting of the old file but one is in the new one.
LEMMA CarriedSettings ==
  ASSUME NEW k \in Settings, k # "CompensateWorldMarkers"
  PROVE  \E r \in Rows : k \in LegacyKeys(r)
  <1> USE DEF Rows, FlagRows, ModeRows, LimitRows, HotkeyRows, LegacyKeys
  <1>1. CASE k \in Hotkeys
    <2>1. k \in {"ToggleKey", "ChordToggleKey"} => k \in LegacyKeys("ToggleKey")
      BY DEF HotkeyOf
    <2>2. k \in {"CycleModeKey", "ChordCycleModeKey"} => k \in LegacyKeys("CycleTrackingModeKey")
      BY DEF HotkeyOf
    <2>3. k \in {"YawModeKey", "ChordYawModeKey"} => k \in LegacyKeys("YawModeKey")
      BY DEF HotkeyOf
    <2>4. HotkeyRows \subseteq Rows
      OBVIOUS
    <2> QED BY <1>1, <2>1, <2>2, <2>3, <2>4 DEF Hotkeys, NavKeys, ChordKeys
  <1>2. CASE k \in Limits
    <2>1. /\ LegacyKeys("PositionLimitX") = {"LimitX"} /\ LegacyKeys("PositionLimitY") = {"LimitY"}
          /\ LegacyKeys("PositionLimitZ") = {"LimitZ"}
          /\ LegacyKeys("PositionLimitZBack") = {"LimitZBack"}
      BY DEF LegacyKey, LimitOf
    <2>2. LimitRows \subseteq Rows
      OBVIOUS
    <2> QED BY <1>2, <2>1, <2>2 DEF Limits
  <1>3. CASE k = "Enabled"
    <2>1. LegacyKeys("PositionEnabled") = {"Enabled"} /\ "PositionEnabled" \in Rows
      BY DEF LegacyKey
    <2> QED BY <1>3, <2>1
  <1>4. CASE k \in Network \cup Rotation \cup {"EnableOnStartup", "WorldSpaceYaw"}
    <2>1. k \in Rows /\ LegacyKeys(k) = {k}
      BY <1>4 DEF Network, Rotation, LegacyKey
    <2> QED BY <2>1
  <1> QED BY <1>1, <1>2, <1>3, <1>4 DEF Settings, General, Position

\* What a migration leaves of the player's settings, in the Config it begins on.
LEMMA ImportChooses ==
  ASSUME TypeOK
  PROVE  /\ \A r \in Rows \ Follows(out) : Decoded(ImportedRows)[r] = Imported(out)[r]
         /\ \A r \in Follows(out) : Decoded(ImportedRows)[r] = Decoded(defaults)[r]
  <1>1. /\ DOMAIN ImportedRows = Rows /\ \A r \in Rows : ImportedRows[r] \in RowValues(r)
        /\ DOMAIN defaults = Rows /\ \A r \in Rows : defaults[r] \in RowValues(r)
    BY ImportedRowsAre, DefaultsAssumption DEF TypeOK
  <1>2. /\ \A r \in Rows \ ModeRows : Decoded(ImportedRows)[r] = ImportedRows[r]
        /\ \A r \in Rows \ ModeRows : Decoded(defaults)[r] = defaults[r]
    BY <1>1, DecodedIs
  <1>3. /\ \A r \in Rows \ Follows(out) : ImportedRows[r] = Imported(out)[r]
        /\ \A r \in Follows(out) : ImportedRows[r] = defaults[r]
        /\ Follows(out) \subseteq Rows
    BY ImportedRowsAre DEF Follows
  <1>4. CASE \A r \in ModeRows : r \in Follows(out)
    <2>1. \A r \in ModeRows : Decoded(ImportedRows)[r] = Decoded(defaults)[r]
      BY <1>1, <1>3, <1>4, DecodedSame
    <2> QED BY <1>2, <1>3, <1>4, <2>1
  <1>5. CASE \A r \in ModeRows : r \notin Follows(out)
    <2>1. \A k \in Settings : out[k] \in ValidValues(k)
      BY DEF TypeOK, ReaderTypeOK
    <2>2. "RotationEnabled" \in ModeRows /\ "PositionEnabled" \in ModeRows /\ ModeRows \subseteq Rows
          /\ "RotationEnabled" \notin HotkeyRows
      BY RowKinds DEF ModeRows, HotkeyRows
    <2>3. Imported(out)["RotationEnabled"] = 1
      BY <2>1, <2>2, ImportedValid
    <2>4. Imported(out)["PositionEnabled"] \in {0, 1}
      <3>1. Imported(out)["PositionEnabled"] \in RowValues("PositionEnabled")
        BY <2>1, <2>2, ImportedValid
      <3> QED BY <2>2, <3>1, RowKinds, FlagRowValues
    <2>5. ImportedRows["RotationEnabled"] = 1 /\ ImportedRows["PositionEnabled"] \in {0, 1}
      BY <1>3, <1>5, <2>2, <2>3, <2>4
    <2>6. Decoded(ImportedRows) = ImportedRows
      BY <1>1, <2>5, RotationIsAMode, DecodedIs
    <2> QED BY <1>2, <1>3, <1>5, <2>6
  <1>6. (\A r \in ModeRows : r \in Follows(out)) \/ (\A r \in ModeRows : r \notin Follows(out))
    BY ImportedRowsAre
  <1> QED BY <1>4, <1>5, <1>6

LEMMA FinishKeepsChoices ==
  ASSUME TypeOK, FinishImport
  PROVE  ImportKeepsChoices'
  <1>1. /\ out' = out /\ defaults' = defaults /\ dropped' = Dropped(out)
        /\ config' = Decoded(ImportedRows)
    BY ImportedWorth DEF FinishImport, readerVars, Begin
  <1>2. ASSUME NEW k \in Settings, out[k] # Shipped[k]
        PROVE  \/ k \in Dropped(out)
               \/ /\ \E r \in Rows : k \in LegacyKeys(r)
                  /\ \A r \in Rows : k \in LegacyKeys(r) => config'[r] = Imported(out)[r]
    <2>1. CASE k = "CompensateWorldMarkers"
      <3>1. out["CompensateWorldMarkers"] \in {0, 1}
        <4>1. "CompensateWorldMarkers" \in Flags
          BY DEF Flags, General
        <4>2. out["CompensateWorldMarkers"] \in ValidValues("CompensateWorldMarkers")
          BY <2>1 DEF TypeOK, ReaderTypeOK
        <4> QED BY <4>1, <4>2, FlagValues
      <3>2. Shipped["CompensateWorldMarkers"] = 1
        BY DEF Shipped
      <3> QED BY <1>2, <2>1, <3>1, <3>2 DEF Dropped
    <2>2. CASE k # "CompensateWorldMarkers"
      <3>1. \A r \in Rows : k \in LegacyKeys(r) => r \in Rows \ Follows(out)
        BY <1>2 DEF Follows
      <3> QED BY <1>1, <2>2, <3>1, CarriedSettings, ImportChooses
    <2> QED BY <2>1, <2>2
  <1>3. ASSUME NEW r \in Rows, \A k \in LegacyKeys(r) : out[k] = Shipped[k]
        PROVE  config'[r] = Decoded(defaults)[r]
    <2>1. r \in Follows(out)
      BY <1>3 DEF Follows
    <2> QED BY <1>1, <2>1, ImportChooses
  <1>4. Decoded(defaults)' = Decoded(defaults) /\ Imported(out)' = Imported(out)
    BY <1>1 DEF Decoded, ModesOf, Builtin, EncodeTrackingMode, Imported
  <1> QED BY <1>1, <1>2, <1>3, <1>4 DEF ImportKeepsChoices

\* Nothing but a load says how the session was loaded, and nothing in a session
\* touches what it was loaded from.
LEMMA ChoicesStayKept ==
  ASSUME TypeOK, PhaseInv, ImportKeepsChoices, [Next]_vars
  PROVE  ImportKeepsChoices'
  <1>1. CASE FinishImport
    BY <1>1, FinishKeepsChoices
  <1>2. CASE how' # "migrated"
    BY <1>2 DEF ImportKeepsChoices
  <1>3. CASE UNCHANGED <<how, config, out, dropped, defaults>>
    <2>1. Decoded(defaults)' = Decoded(defaults) /\ Imported(out)' = Imported(out)
      BY <1>3 DEF Decoded, ModesOf, Builtin, EncodeTrackingMode, Imported
    <2> QED BY <1>3, <2>1 DEF ImportKeepsChoices
  <1>4. CASE LoadCanonical \/ LoadWithoutReading \/ Quit
    BY <1>2, <1>4 DEF LoadCanonical, LoadWithoutReading, Quit
  <1>5. CASE StartImport \/ ReadOn
    <2>1. mod # "running" /\ how' = how
      BY <1>5 DEF StartImport, ReadOn, sessionVars
    <2> QED BY <1>2, <2>1 DEF PhaseInv
  <1>6. CASE Hotkey
    BY <1>3, <1>6 DEF Hotkey, ToggleEnabled, ToggleYawMode, CycleTrackingMode, Save, Pressed,
                      readerVars, diskVars
  <1>7. CASE DeleteFile \/ (\E e \in Edits : EditRows(e)) \/ (\E d \in DefaultsFiles : EditDefaults(d))
    <2>1. mod = "off" /\ how' = how
      BY <1>7 DEF DeleteFile, EditRows, EditDefaults, Edited, sessionVars
    <2> QED BY <1>2, <2>1 DEF PhaseInv
  <1>8. CASE UNCHANGED vars
    BY <1>3, <1>8 DEF vars, readerVars, diskVars, sessionVars
  <1> QED BY <1>1, <1>4, <1>5, <1>6, <1>7, <1>8 DEF Next, Load, Player

--------------------------------------------------------------------------------
(* The invariant, and the theorems. *)

LEMMA StepTypes ==
  ASSUME TypeOK, PhaseInv, ReaderTypeOK', [Next]_vars
  PROVE  TypeOK' /\ PhaseInv'
  <1>1. CASE UNCHANGED vars
    BY <1>1 DEF vars, diskVars, sessionVars, TypeOK, PhaseInv
  <1>2. CASE \E ok \in BOOLEAN : Save(ok)
    BY <1>2, SaveTypes
  <1> QED BY <1>1, <1>2, LoadTypes, ImportTypes, ToggleTypes, QuitTypes, EditTypes
          DEF Next, Load, Hotkey, Player

LEMMA StepKeepsUp ==
  ASSUME TypeOK, TypeOK', FileKeepsUp, [Next]_vars
  PROVE  FileKeepsUp'
  <1>1. CASE mod' # "running"
    BY <1>1 DEF FileKeepsUp
  <1>2. CASE StartImport \/ ReadOn \/ Player
    <2>1. mod' # "running"
      BY <1>2 DEF StartImport, ReadOn, Player, Quit, DeleteFile, EditRows, EditDefaults, Edited, sessionVars
    <2> QED BY <1>1, <2>1
  <1>3. CASE \E ok \in BOOLEAN : Save(ok)
    BY <1>3, SaveKeepsUp
  <1>4. CASE UNCHANGED vars
    <2>1. UNCHANGED <<mod, rows, defaults, config, yaw, mode, pending, unsaved>>
      BY <1>4 DEF vars, diskVars, sessionVars
    <2>2. \A r \in Rows : Worth(r)' = Worth(r)
      BY <2>1 DEF Worth
    <2>3. /\ \A r \in Rows \ ModeRows : NextStart'[r] = NextStart[r]
          /\ ModesOf(NextStart') = ModesOf(NextStart)
      BY <2>2, NextStartChanges, RowKinds
    <2> QED BY <2>1, <2>3, RowKinds DEF FileKeepsUp, NextStart
  <1> QED BY <1>2, <1>3, <1>4, LoadsKeepUp, TogglesKeepUp DEF Next, Load, Hotkey

LEMMA InitSettingsInv == ASSUME Init PROVE SettingsInv /\ IInv
  <1>1. IInv
    BY InitIInv DEF Init
  <1>2. ReaderTypeOK
    BY <1>1 DEF IInv
  <1>3. TypeOK
    <2>1. 0 \in Modes
      BY DEF Modes, kTrackingModeCount
    <2>2. rows = <<>> /\ DOMAIN rows = {}
      BY DEF Init
    <2>3. DOMAIN config = Rows /\ \A r \in Rows : config[r] \in RowValues(r)
      BY BuiltinValid DEF Init
    <2>4. ModesOf(config) # {}
      BY BuiltinMode DEF Init
    <2>5. DOMAIN rows \subseteq Rows /\ \A r \in DOMAIN rows : rows[r] \in RowValues(r)
      BY <2>2
    <2>6. /\ legacy \in Files \cup {NoFile} /\ lossy \in BOOLEAN /\ defaults \in DefaultsFiles
          /\ exists \in BOOLEAN /\ enabled \in BOOLEAN /\ yaw \in BOOLEAN /\ mode \in Modes
      BY <2>1 DEF Init
    <2>7. /\ mod \in {"off", "importing", "running"}
          /\ how \in {"none", "created", "migrated", "canonical"} /\ dropped \subseteq Settings
          /\ pending \in {"none", "yaw", "mode"} /\ unsaved \subseteq {"yaw", "mode"}
      BY DEF Init
    <2> QED BY <1>2, <2>3, <2>4, <2>5, <2>6, <2>7 DEF TypeOK
  <1> QED BY <1>1, <1>2, <1>3 DEF Init, SettingsInv, PhaseInv, ImportKeepsChoices, FileKeepsUp

LEMMA StepSettingsInv ==
  ASSUME SettingsInv, IInv, [Next]_vars
  PROVE  SettingsInv' /\ IInv'
  <1>1. TypeOK /\ PhaseInv /\ ImportKeepsChoices /\ FileKeepsUp
    BY DEF SettingsInv
  <1>2. IInv'
    BY <1>1, ReaderSteps, StepIInv
  <1>3. ReaderTypeOK'
    BY <1>2 DEF IInv
  <1>4. TypeOK' /\ PhaseInv'
    BY <1>1, <1>3, StepTypes
  <1> QED BY <1>1, <1>2, <1>3, <1>4, StepKeepsUp, ChoicesStayKept DEF SettingsInv

\* The invariant of every session, with the reader's own.
THEOREM SettingsInvariance == Spec => [](SettingsInv /\ IInv)
  BY InitSettingsInv, StepSettingsInv, PTL DEF Spec

\* Types, for whatever the three files hold: every setting of a session is in range
\* and names a tracking mode.
THEOREM SettingsTypeCorrect == Spec => []TypeOK
  <1>1. SettingsInv => TypeOK
    BY DEF SettingsInv
  <1> QED BY <1>1, SettingsInvariance, PTL

\* A session reads HeadTracking.ini as ReaderSpec does: what is proved of the reader by
\* itself holds of it between loads, toggles, saves and restarts.
THEOREM ImplementsReader == Spec => ReaderSpec
  <1>1. Init => ReaderInit
    BY DEF Init
  <1>2. SettingsInv /\ [Next]_vars => [ReaderNext]_readerVars
    BY ReaderSteps DEF SettingsInv
  <1> QED BY <1>1, <1>2, SettingsInvariance, PTL DEF Spec, ReaderSpec

\* The two parsers of HeadTracking.ini agree in every session (ScanSeesWhatIsRead).
THEOREM SessionParsersAgree == Spec => []ScanSeesWhatIsRead
  BY ImplementsReader, ParsersAgree, PTL

\* No session ignores a setting of a HeadTracking.ini it could scan without a line in the
\* log that says so, but for what stands behind the digits of a port
\* (NothingIgnoredSilently).
THEOREM SessionIgnoresNothing == Spec => []NothingIgnoredSilently
  BY ImplementsReader, NothingIsIgnored, PTL

\* The update to this build loses none of the player's choices (config.cpp RunImport).
THEOREM ChoicesAreKept == Spec => []ImportKeepsChoices
  <1>1. SettingsInv => ImportKeepsChoices
    BY DEF SettingsInv
  <1> QED BY <1>1, SettingsInvariance, PTL

\* The next start finds what the session runs on (headtracking_mod.cpp ToggleYawMode and
\* CycleTrackingMode, config.cpp Save).
THEOREM ChoicesSurviveARestart == Spec => []FileKeepsUp
  <1>1. SettingsInv => FileKeepsUp
    BY DEF SettingsInv
  <1> QED BY <1>1, SettingsInvariance, PTL
================================================================================
