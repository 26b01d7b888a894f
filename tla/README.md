# Verification of the Great Circle head tracking mod

The mod is a DLL in the process of *Indiana Jones and the Great Circle*. It turns
the camera the renderer draws with by the pose a head tracker sends over UDP, and
leaves everything else in the game as it was. What makes that hard to get right
is not the mathematics but the company it keeps: its code runs inside detours on
the game's own threads, over memory the engine fills, frees and reuses, next to a
receiver thread, a hotkey thread, a memory-sweeping worker and its own bootstrap
thread. These modules model that: the control of each component, every other
thread free to act between any two accesses to shared state, and the data
abstracted to what the properties tell apart.

Contents: [inventory](#inventory), [modules](#the-modules),
[runs](#what-the-runs-check), [bounds](#bounds), [fairness](#fairness),
[proofs](#what-is-proved), [disagreements](#where-the-code-and-its-documents-disagree),
[assumptions](#assumptions), [what is left out](#what-is-not-modelled), [plan](#plan).

## Inventory

| Component | Source (under `src/src`) | State | Operations |
|---|---|---|---|
| Camera hook | `camera_hook.*` | `g_hook`, `m_cleanOrigin`/`m_cleanAxis`, `m_wrote`, `m_refusalLogged` | `Install`, `Arm`, `Detour` (`PreRender`, the game's `Render`, `PostRender`) |
| Mod and gate | `headtracking_mod.*`, `tracking_gate.h` | `m_enabled`, `m_worldSpaceYaw`, `m_rotation`, `m_position`, the verdict latches | `Initialize`, `UpdateForFrame`, `BuildTrackedView`, the three toggles, `LogVerdictChange` |
| Tracker feed | `tracker_feed.*`, `published_triple.h` | `m_requestedMode`, `m_appliedMode`, the frame clock, two triples | `Start`, `CycleMode`, `Update` |
| Game state | `game_state.*`, `idtech/resolver_thread.h` | the published block, `m_reason` | `IsGameplay`, the resolver's `Worker`, `Clear` |
| Memory sweep | `idtech/singleton_sweep.h` | a staging buffer, the walk's locals | `SweepCommittedMemory` |
| Interface hooks | `hud_view.*`, `hud_math.h` | `g_enabled`, `g_frame`, `g_crosshair`, `g_shiftedSprite`, four thread-local latches | `Start`, `SetFrame`, `MarkerView`, `CrosshairUpdate`, `CrosshairDestroy`, `SpriteDraw` |
| Window centring | `window_centering.*`, `window_placement.h` | the interposed `SetWindowPos`; the settle counters | `StartWindowCentering`, `HookedSetWindowPos`, `CenterWindowWhenReady` |
| Hotkeys | `hotkeys.*` | the poller | three callbacks |
| Bootstrap | `dllmain.cpp` | none | `BootstrapThread`, `PinSelf` |
| Build registry | `builds/*` | constants | `ResolveRunningBuild` |
| Settings | `config.*`, `legacy_config/*` | `g_owner`, `g_presentKeys`, three files | `Load`, `Save`, `RunImport`, `legacy::Read` |
| Log throttles, logging | `log_throttle.h`, `logging.*` | counters, the last tick | `ShouldLog`, `OpenLogFile` |
| Zoom and id Tech mathematics | `zoom_scale.h`, `angle_units.h`, `idtech/idtech_math.h` | none | pure functions |

How they interact. The bootstrap thread runs `Initialize`: it loads the settings,
recognises the build, starts the feed, installs the render detour, then the
interface hooks, builds the game state (whose worker starts sweeping), arms the
detour, starts the hotkeys, interposes `SetWindowPos` and last of all waits for
the window. From `EnableHook` on, the render thread enters `Detour` every frame;
once armed, it snapshots the view, asks the mod for the frame's verdict
(`GameState::IsGameplay` and `m_enabled`) and the feed for a pose, writes the
turned view, publishes the interface frame, lets the engine draw, and puts the
game's view back on every way out. Whichever threads draw the interface run the
other four detours. The hotkey thread stores two flags and one request. The
receiver thread is core's; the feed asks it whether a packet is recent.

What is hard in each, and what makes it correct:

* **Camera hook**: unwinding out of any step, frames without a refill, several
  render worlds, toggles in mid-frame, a detour that is live before anything
  behind it is. Correct when a pose never compounds, the game always finds its
  own view, off means off, nothing unusable is written and no refusal is silent.
* **Tracker feed**: presses between frames, gaps, suppression. Correct when no
  press is lost, a gap holds and is not charged to the clock, a suppression
  clears, and the two halves of the pose are of one packet.
* **Game state**: a block freed and reallocated under an unsynchronised reader and
  a sweeping writer. Correct when no publish is lost, loading suppresses, the
  block is found again where the system lets the sweep look, and the log's last word
  is true.
* **Interface hooks**: one captured pointer and one latch shared by all threads,
  elements destroyed while they are captured, draws that unwind. Correct when no
  freed element is touched, no visibility the engine gives outside a draw is lost,
  the reticle stands where its markers' pose aims and returns when tracking stops.
* **Memory sweep**: memory that is mapped, freed and written while it is read, and a
  buffer that is part of it. Correct when a block that stays put is found and a
  copy never is.
* **Settings**: a file the player writes by hand, read by two parsers; another the
  player and the mod both write, one setting of it in two rows; a process that ends
  at any moment. Correct when nothing is ignored without a line, the update loses no
  choice and the next start finds what the session runs on.
* **Log gate**: two threads between three accesses. Correct when one interval has
  one line.
* **Window centring**: a window that the game, the player and the mod all move.
  Correct when what the game places is centred, for the size it is placed with, or too
  large, the mod's move needs no second one, and the wait ends.

## The modules

`StockRender` is the promise of the camera hook to the engine, in three actions:
the game fills a view, a picture is drawn from that view or from it turned by one
pose, and whatever is drawn the game's view is the one it filled.

`CameraHook` is the detour with the frame gate behind it. `boot` is how far
`Initialize` has got, `armed` is `g_hook`, and `pc` the place in
`Detour`/`PreRender`/`PostRender`; a step ends where another thread's access could
fall (`Enter`: the load of `g_hook`; `Snapshot`; `GateCloses`/`GateOpens`: the
load of `m_enabled` and the published triples; `Build`: the load of
`m_worldSpaceYaw`, the guard and the write; `Publish`: `SetFrame` with its second
load; `FinishDraw`; `Unwind`; `Restore`). A view is the camera the game filled it
with and the sequence of poses composed onto it since, so compounding is a
sequence of length two. Its refinement mapping to `StockRender` reads the game's
view as the snapshot while `m_wrote` is set, and as the view itself otherwise.

`TrackerFeed` is `Update` in the steps between its reads of other threads' data
(`ApplyMode`, `Tick`, `Publish` or `SessionDeclines`) and `CycleMode` on the hotkey
thread. Packets are numbered, so a pose names the packet it came from.

`FrameState` is the resolver's worker (`Wake`, `Probe`, `CutShort`, `Store`),
`IsGameplay` one shared access a step (`Load`, `ReadLoading`, `ReadAdvance`,
`ReadFaults`, `Clear`), the engine that frees and allocates the block, and
`LogVerdictChange`. A freed block's memory faults or stays readable with somebody
else's bytes in it; the history variable `reused` records that the second has
happened, which nothing in the code can detect. `refusedAt` is the place at which
`VirtualQuery` refuses to answer, if any: a sweep that gets there ends (`CutShort`), and
the refusal may pass, move or stand for the rest of the session (`RefusalChanges`).

`HudView` is `UiWorldView::Start` with its unwind, `SetFrame`, and the four detours
on any number of threads. `SpriteDraw` is four steps: `Place` moves the sprite, `Latch`
stores `g_shiftedSprite` and puts the visibility byte on record, `Suppress` writes the
byte for the engine's draw, and `EndDraw` puts the recorded one back. Between any two of
them another thread can see the difference, and the engine can write the byte itself
(`SetVisible`): its controller and its draw need not be on one thread. What it writes
while the byte is on record is undone by the write-back, and the history variable `kept`
leaves it out. `StockInterface` is the promise to the engine: a draw is of an element that
exists, in one place for as long as it lasts, begun as visible as the engine has made it
or left out, and nothing else happens to any element; of a change the engine makes to an
element while it is drawn (`ToggleWhileDrawn`) it promises the rest of that one picture
and no more. The refinement mapping takes an element's visibility from `wasVisible` while
a draw has it on record, and its picture from the byte and the sprite as the engine's
draw finds them.

`MemorySweep` is `SweepCommittedMemory`, a region (`Query`, `Refuse`, `LeaveRegion`,
`Miss`) or a slice (`ReadSlice`) a step, while the engine maps, frees and writes
memory between any two. What Windows answers is derived from one function from
addresses to what each is of: a region is a run of equal ones, a read copies up to
the first page that is free. The staging buffer is an interval of that memory, on its
own or inside a heap's region, and remembers which of its positions hold a copy the
predicate would take. `FrameState` has the same sweep with places for addresses.

`LegacyReader` is `legacy::Read`: the scan of `HeadTracking.ini` a line a step
(`ScanHeading`, `ScanEntry`, `ScanOther`), which fills `g_presentKeys` and warns, and
then the five section readers, each key of which asks the profile API. A file is a
sequence of lines, each a heading, an entry or something else; a value is blank, a
number, not finite, or unreadable, with a comment behind it or not; an unreadable one may
begin with a number, which is what the profile API's integer reader takes of it
(`ReadInt`). The scan opens the file for itself and may fail to, in which case the readers
go ahead with nothing noted as present (`Open`). What the profile API answers is external, and stated over the whole file (`Opens`, `EntryOf`): the first
entry in the first section of a name. The scan, line by line, is the code's.

`Settings` extends it by what surrounds a read: `LoadSettings` on the bootstrap thread
in its three ways (`LoadCanonical`, `LoadWithoutReading`, `StartImport` to
`FinishImport`, which is `RunImport`), the toggles, which apply first (`ToggleYawMode`,
`CycleTrackingMode`) and save in a step of their own that can fail (`Save`), the end of
the process between any two steps (`Quit`), and the player's edits of the two files
between sessions. A row of `CameraUnlock.ini` holds a value or follows `Defaults.ini`;
the tracking mode is one setting in two rows.

`TimedLogGate` is the gate of the interface hooks' log lines: clock, load and
compare-exchange are three steps of each thread.

`WindowCentering` is the poll of `WaitForSettledWindow`, `CenterUnlessAlready` split
at its `SetWindowPos`, the game's calls through `HookedSetWindowPos`, those that place
the window (`GamePlaces`) and those that leave its position alone and so pass through as
they are (`GameResizes`), and the player.
The geometry is the code's own, division towards zero included, on coordinates
small enough to enumerate.

The `MC` modules give the constants their values, and the `...Proofs` modules hold
the theorems. Definitions whose comment begins with "Defect" are the plausible
mistakes each property has been shown to catch; no action uses them.

## What the runs check

| Run | Shows |
|---|---|
| `CameraHook` | No interleaving of frames, unwinds, missed refills, toggles and bootstrap compounds a pose (`NothingCompounds`), dirties the snapshot (`CleanIsTheGames`), tracks a frame begun while off (`SwitchedOffDrawsStock`), writes an unusable view (`NeverMakesUnusable`), leaves the interface with another frame's pose (`InterfaceFollowsCamera`), refuses silently (`NoSilentRefusal`) or runs ahead of the game state (`NoFrameBeforeItsState`); the engine sees `StockRender` (`StockRenderSpec`), and once tracking stays off all views are the game's again (`OffReturnsToStock`) |
| `CameraHookYaw` | `InterfaceSameCamera` is violated, see below |
| `TrackerFeed` | `NoPressLost`, `NeverChargedForAGap`, `NothingSurvivesSuppression`, `HalvesOfOnePacket`, `HoldsThroughGaps`; under fairness every last request is applied (`RequestIsApplied`) and the pose catches up with the tracker (`CatchesUp`) |
| `TrackerFeedGap` | `DisabledHalfIsStill` is violated |
| `FrameState` | `ChurnIsLoggedOnce`, `LastLineIsCurrent`, `LoadingSuppresses`, `NoPublishIsLost`, and under fairness `ComesBackToTheBlock`: a block that stays put is found if the sweep's queries are answered up to it |
| `HudView` | `CapturedIsLive`, `DrawnWhereItAims`, `OneReticleComesBack`; while no draw has an element's visibility on record it is what the engine last gave it while none had (`VisibilityIsTheEngines`); to the engine each draw is one step of one thread, which a change made meanwhile does not outlast (`StockInterfaceSpec`) |
| `HudViewWayBack` | `OffReticleComesBack` is violated |
| `WindowCentering` | Where the game last placed its window is centred for the size it had in that call, or the size does not fit (`GameLandsCentered`); `MoveCentersIt`, and under fairness `BootstrapEnds` |
| `WindowLeftAlone` | `LeftWhereItIs` is violated |
| `Settings` | Through any order of starts, an import, toggles, failed saves, hand edits and ends of the process: the scan and the profile API agree on which settings are there (`ScanSeesWhatIsRead`), no setting of a file the scan could open is ignored without a line naming it or its section, but for what follows the digits of a port (`NothingIgnoredSilently`), the import carries every changed setting or says it does not and lets the others follow `Defaults.ini` (`ImportKeepsChoices`), and the next start finds what the session runs on (`FileKeepsUp`) |
| `MemorySweep` | From every small address space, with the engine changing it during the sweep: a block nothing happens to is found, or one before it (`StillBlockIsFound`), and no copy in the staging buffer is (`AnswerIsNotACopy`) |
| `LogGate` | `OncePerInterval` is violated |

Each passing run has the type invariant of its module, but for `HudView`, whose is a
theorem, and `MemorySweep`, whose own (`SweepTypeOK`) is part of the proof. Deadlock is checked except in `MemorySweep`, where
a sweep ends, and `LogGate`, whose clock is stopped by its bound.

## Bounds

* `CameraHook`: two worlds (one call can restore into the other's view), a usable
  and a broken camera, a finite and a broken rotation, one lean. Together they take
  every branch of both guards. Frames are not counted: the run is unbounded in time.
* `TrackerFeed`: three packets (one published, one missed, one after) and four
  presses, once round the cycle and one further. A third owed frame is no different
  from a second, so the clock counts to two.
* `FrameState`: two places, so that a block can move from before the sweep's cursor
  to behind it and back; sweeps are cut short at either of them, any number of times,
  or at none. Lines counted to two.
* `HudView`: two threads and two elements, symmetric, one view and one pose in the
  picture and one out of it. Two threads are what it takes for a latch to be
  overwritten, two elements for an address to be captured while another lives. Whether a
  marker has a canvas is left open only where a draw will ask for it.
* `WindowCentering`: one monitor of 40 by 30 with a work area of 40 by 22, so that
  the two centres differ by more than the tolerance; a window of odd extents that
  fits and one that fills the screen; the corner and the monitor's own centre as
  places; four polls of which two settle (240 and 12 in the code).

* `Settings`: all files of up to four lines of two headings and two entries of one
  key, with and without a byte order mark (repeated, nameless and marked headings,
  entries above all of them, blank before good and good before blank), and files of
  one section with up to three entries for the values (good, out of range, not
  finite, spoiled by a comment, blank, unreadable, a port with something behind it, a retired key, a chord changed
  without its nav key). Two `Defaults.ini`, one hand edit, two presses: a save that
  fails followed by one of another setting takes two.
* `MemorySweep`: four pages of four addresses, each free, read-only or of one of two
  heaps; a slice is six addresses and a predicate reads two, so that a region of two
  pages beside the buffer takes two slices and a block can straddle them, and the buffer
  can begin inside a page or at its edge. Two changes of the engine: one to free a page,
  one to map it again. An address counts four bytes, the step between two positions
  offered.
* `LogGate`: two threads, an interval of three ticks, a counter of 64 values in place of
  2^64; the clock stays far below the end of it.

Beyond the bounds, the theorems below hold for any value of the constants.

## Fairness

`CameraHook` is fair to a call that has begun (`WF_vars(CallStep)`): nothing obliges
the engine to render again. `TrackerFeed` and `FrameState` assume that the game goes
on rendering, and `FrameState` that the worker's loop goes on, which it does for the
life of the process. `TrackerFeed` also assumes that a session asked again and
again about a tracker that is being received does not decline for ever
(`SF_vars(Publish)`). Nothing is assumed of `VirtualQuery`: what it refuses at an address
it may refuse for the session, of which the constructor of `GameState` says that the gate
then goes on reading "still locating" (`game_state.cpp:92-101`). So `ComesBackToTheBlock`
promises a block that stays put only if, from some time on, the queries up to it are
answered; at a standing refusal or beyond, it is never found. `WindowCentering` assumes only that `Sleep` returns. No
fairness is assumed of the player, the tracker or the engine's allocations.

## What is proved

TLAPS checks every leaf, for arbitrary sets of worlds, poses, threads and elements
and sweeps of any length, from the `ASSUME`s of the modules (`None` is none of the
values it stands next to; the unusable cameras and poses are among the cameras and
poses; bounds are natural numbers).

* `CameraHookProofs`: `TypeCorrect`, the seven safety invariants, and
  `ImplementsStockRender`. Neither "nothing compounds" nor "the snapshot is clean"
  is inductive by itself: that the next snapshot is clean follows from what
  `Restore` put back, which follows from what the write left in `m_wrote` and in the
  view together. `FrameInv` states that chain: outside the world being written every
  view carries no pose; from the snapshot on `clean` is the game's view; and a
  written view is `clean` turned once by a usable pose. `BootInv` is what an armed
  detour may rely on, `GateInv` ties the history of the switch to the gate,
  `InterfaceInv` says what has been published by the time of the draw. The
  refinement maps `Enter` on an unarmed hook and the step into `draw` to
  `BeginPicture`, leaving the draw to `EndPicture`, `Refill` to `Refill`, and the
  rest to stutters.
* `TrackerFeedProofs`: `TypeCorrect`, `PressesAreNotLost`, `ClockIsPerFrame`,
  `SuppressionClears`, `HalvesAgree` and the action property `GapsHold`. `FrameInv`
  says what each step of `Update` has settled about the clock; that one press more
  is one step round the cycle is the lemma `CycleStep`.
* `FrameStateProofs`: `TypeCorrect`, `ChurnHasOneLine`, `LastLineStands`,
  `LoadingAlwaysSuppresses` (whatever becomes of the block between the two reads) and the
  action property `PublishesAreKept`. The pointer
  invariant is that while the worker is between its look and its store nothing is
  published, so the store never overwrites and a `Clear` never meets a newer block.
* `HudViewProofs`: `TypeCorrect`, `CaptureIsLive`, `VisibilityRestored`,
  `ReticleIsWhereItAims` and `TheOneReticleComesBack`. The invariant is a
  conjunction of parts: who is at work on which element (`OwnerInv`), what the
  visibility byte and the one on record hold meanwhile (`VisibleInv`), what `Place` settled about the
  sprite it moved (`PlaceInv`), what the latch names (`LatchInv`) and why one moved
  sprite always finds its way back (`BackInv`). `ImplementsStockInterface` rests on the
  first two: `AfterIsKept` says that what a draw has on record, and the byte of an
  element no draw has on record, are both what the engine last gave it outside one, so
  `Suppress` is `BeginDraw`, `EndDraw` is `EndDraw`, `SetVisible` is `Toggle`, or
  `ToggleWhileDrawn`, or a stutter between the record and the draw, and the rest of a
  draw is a stutter.
  `OnlyHeldThreadsCrowdTheLog` is about the gate of the same hooks' log lines
  (`TimedLogGate`): `OncePerInterval` does not hold, and this is the one way it fails.

* `WindowCenteringProofs`: `TypeCorrect`, `GamePlacementsLand` and `MoveIsFinal`, for any
  monitor, work area and extents, and however often the game resizes its window without
  moving it: what `GamePlacementsLand` says is of the size of the call that placed it.
  `MovedInv` says that while the mod's placement stands
  the rectangle is at the origin computed for the size settled on; that such a
  rectangle counts as centred and has no edge off the work area is arithmetic on the
  truncating division (`OriginIsCentered`, `OriginIsInside`).
* `MemorySweepProofs`: `NothingStillIsMissed` and `NoCopyIsAnswered`, for any address
  space, slice and window. `Pending` is the induction: as long as the region of a
  block stays as it is, the walk either has all of it ahead, or is inside exactly that
  region with the block at or beyond the slice's beginning. `Apart` says the region
  being read has none of the buffer in it.
* `LegacyReaderProofs`: `ReaderTypeCorrect`, `ParsersAgree` and `NothingIsIgnored`, for
  files of any length and content; the last two of files the scan could open.
  `HeadingsRead` and `PresentRead` relate what the scan
  remembers after each line (a section, a flag and the sections so far) to what the
  profile API will say of the lines so far, which looks for the first heading of a name.
  `NothingIsIgnored` has two halves. `Told` is about the scan: of the lines so far, every
  one the API will never answer with has its line in the log, as a repeated section, a
  repeated key or a mark on the heading. `Answered` is about the five readers: whatever
  the API does answer for a key already read is in the `Config`, or reported, or is a port
  taken by its digits. The two
  meet at `EntryIsRead`: an entry nothing was said about is the one the API answers with.
* `SettingsProofs`: `ImplementsReader` shows that a session takes the steps of
  `ReaderSpec`, which brings `SessionParsersAgree` and `SessionIgnoresNothing`; `SettingsTypeCorrect`, with it that
  the mode a start decodes exists; `ChoicesSurviveARestart`, by what each load and each
  save leaves a row worth (`Worth`, `NextStartChanges`); and `ChoicesAreKept`, by what
  `RunImport` makes of each row (`ImportedRowsAre`, `ImportChooses`): the two rows of the
  mode follow `Defaults.ini` together or not at all, and the pair an import writes
  always names a mode.

Only model-checked: the liveness properties (`OffReturnsToStock`, `RequestIsApplied`,
`CatchesUp`, `ComesBackToTheBlock`, `BootstrapEnds`), which the prover cannot reach. Every
safety property of the passing runs is proved.

## Where the code and its documents disagree

* `InterfaceSameCamera` (`hud_math.h:26-29`): the interface is to be projected
  through the same camera as the picture. `BuildTrackedView` and `SetFrame` load
  `m_worldSpaceYaw` separately (`headtracking_mod.cpp:190`, `hud_view.cpp:418`), so
  for the one frame in which Page Down falls between them it is not.
* `DisabledHalfIsStill` (`README.md:161-166`): a mode switched during a tracker gap
  does not reach the pose that is held until packets resume (`tracker_feed.cpp:159`).
* `OffReticleComesBack` (`hud_view.cpp:271-279`): with tracking off the way back is
  to run at the next draw. It does for one sprite (`OneReticleComesBack`), but
  `g_shiftedSprite` is one latch: when a second reticle element has been displaced
  after the first, the first stays displaced.
* `LeftWhereItIs` (`README.md:285-288`, `window_centering.h:19-20` and `26-28`): the one
  move is made with the rect of the last poll, so a window that has just become
  screen-filling is moved by the arithmetic of the smaller one; and a window dragged
  during startup settles like any other and is centred.
* `OncePerInterval` (`log_throttle.h:74-84`): a thread reads the clock, another with a
  later tick writes its line, and the first loads `m_lastMs` only then. The unsigned
  difference passes the test, the compare-exchange succeeds, a second line is written
  in the same interval and `m_lastMs` goes back. That is the one way: a line that is
  early is older than the one before it (`LaterLinesAreApart`, proved for any number of
  threads as `OnlyHeldThreadsCrowdTheLog`).

Four more have no run of their own, because a property states each as its exception:

* `ScanSeesWhatIsRead`: the scan takes a byte order mark off before it reads the first
  heading and the profile API does not (`legacy_config.cpp:292-308`, which says so), so a
  setting with a good value under such a heading is reported as set without one
  (`ReportEmptyValue`), next to the line about the mark. For a repeated heading the scan
  avoids just that (`legacy_config.cpp:350-356`).
* `NothingIgnoredSilently`: the port is read by `GetPrivateProfileInt`, which stops at the
  first character it cannot use, so `UdpPort=5555abc` is taken for 5555 without a line
  (`legacy_config.cpp:401-405`); the raw text is parsed as a whole only when the number
  has been refused. That a prefix parse reports nothing is the trap the float reader is
  written against (`legacy_config.cpp:136-142`).
* `VisibilityIsTheEngines`: the suppressed byte is put straight back "so nothing outside
  this call sees the flag changed" (`hud_view.cpp:335-337`), but what is put back is the
  recorded byte, over whatever the engine has made of it in between (`hud_view.cpp:345`).
* `GameLandsCentered`: a call of the game's with `SWP_NOMOVE` passes through
  (`window_centering.cpp:97`), so a window it resizes without moving keeps the corner it
  had and is no longer centred, until the game next places it.

## Assumptions

Taken from the code's own comments or from how it is used, and not checked: one
render thread, whose `Render` is not re-entered; the engine does not refill a view
inside the `Render` that draws it; an interface element is not drawn on two threads
at once nor drawn while it is destroyed, and its controller is not updated while it is
destroyed; each element has one sprite; an address freed may be used again at once.
When the engine shows or hides an element is left open. The numbers of a settings file
fit an int. Of the configuration owner, from
`tests/config_tests.cpp`: an import writes a value into a row only where the player's
own differs from `Defaults.ini`, the mode's two rows together; a save replaces the rows
it changes; a pair of rows that names no mode reads as the defaults; every bindable key
has a name in the new file's lists. The files do not change while the game runs: the
owner's handling of that is its own. Of Windows: `ReadProcessMemory` copies a prefix,
and a free page ends it. One sweep is modelled from any memory; copies left in a buffer
an earlier sweep has freed are not excluded by the code and not by the model either.
Values shared through atomics are read and written
in one step; `PublishedTriple` is written and read by the render thread alone, as
its header requires, so its three floats are one value here.

## What is not modelled

Floating-point arithmetic (zoom, rotations, projection): the poses are named, and
which of them are unusable or turn the aim out of the picture is a constant. The
diagnostics whose text no property is about (`NoteView`, `LogFrame`, connection
lines, file output). `cameraunlock-core`, an empty submodule here: the receiver, the
tracking session, MinHook and the configuration owner appear as what the code asks
of them. Scripts, packaging and tests. The build registry is a comparison with a
constant. `LogThrottle` is a frame counter of one thread on which nothing depends.
Old settings files in UTF-16, which the profile API reads and the scan does not. The
camera hook's zoom reading, whose value the models leave open.

## Plan

Done, in the order of importance they had: the camera hook and its refinement, the
tracker feed, the game state, the interface hooks, the window, the memory sweep, the
settings with the reader of the old file, the log gate; and the safety of each of them
proved, but for the log gate's, which does not hold.

Left:

1. `HeadTracking`: `TrackerFeed` and `FrameState` composed behind `CameraHook`'s gate in
   place of its nondeterministic answers, with the refinement of `CameraHook`.
2. `Startup`: `Initialize` as a whole, dormant on an unknown build, with `Settings`,
   `CameraHook` and `WindowCentering` as its stages.
3. The gate of the log with the clock read after the load, and that it then keeps to its
   interval.
