---------------------------- MODULE WindowCentering ----------------------------
(***************************************************************************)
(* The window centring of src/src/window_centering.cpp and the geometry of *)
(* src/src/window_placement.h.                                             *)
(*                                                                         *)
(* The game places its window through SetWindowPos, which the mod          *)
(* interposes; the player drags and minimises it; and the bootstrap thread *)
(* polls it until its rect has held still, then moves it once, with the    *)
(* arguments it computed from the rect it settled on.  Every geometric     *)
(* question is asked of both axes alike, so a point is a function on Axes. *)
(* One monitor is modelled, and a window drawn or moved without a change   *)
(* of its placement is no step.                                            *)
(***************************************************************************)
EXTENDS Integers

CONSTANTS
  Axes,            \* the axes of the desktop
  Work, Monitor,   \* rcWork and rcMonitor
  Points,          \* bound: where the game and the player put the window
  Extents,         \* bound: the sizes the game gives it
  Placeholder,     \* the rect the shell reports of a minimised window
  kPollAttempts, kSettlePolls,
  None             \* no rect, no handle

Rects == [at : [Axes -> Int], size : [Axes -> Nat]]

ASSUME AreasAssumption == Work \in Rects /\ Monitor \in Rects /\ Placeholder \in Rects
ASSUME PlacesAssumption == Points \subseteq [Axes -> Int] /\ Extents \subseteq [Axes -> Nat]
ASSUME PollsAssumption == kPollAttempts \in Nat /\ kSettlePolls \in Nat \ {0}
ASSUME NoneAssumption == None \notin Rects

--------------------------------------------------------------------------------
(* The geometry. *)

\* Division as C++ does it, towards zero.
Half(n) == IF n >= 0 THEN n \div 2 ELSE -((-n) \div 2)

CenteredOrigin(area, size) ==
  [d \in Axes |-> area.at[d] + Half(area.size[d] - size[d])]

kTolerance == 2

IsCenteredOn(rect, area) ==
  \A d \in Axes : rect.at[d] - CenteredOrigin(area, rect.size)[d] \in -kTolerance .. kTolerance

IsCentered(rect) == IsCenteredOn(rect, Work) \/ IsCenteredOn(rect, Monitor)

TooLarge(rect) == \E d \in Axes : rect.size[d] >= Work.size[d]

DecidePlacement(rect) == IF IsCentered(rect) THEN "AlreadyCentered"
                         ELSE IF TooLarge(rect) THEN "TooLargeForWorkArea"
                         ELSE "Center"

--------------------------------------------------------------------------------
VARIABLES
  hook,       \* how StartWindowCentering stands
  window,     \* the render window: absent, hidden, minimised or open
  rect,       \* where it is, or comes back to when it is minimised
  poll,       \* where the bootstrap thread is in CenterWindowWhenReady
  attempt,    \* WaitForSettledWindow's counter
  handle,     \* its cached HWND: None, the window's, or a window's that is gone
  previous,   \* the rect of the poll before, or None
  stable,     \* stablePolls
  settled,    \* the rect it settled on, or None
  placer,     \* history: who placed the window last, "unread" when the hook could not
  placed      \* history: the size it had when the game last made or placed it

windowVars == <<window, rect, placer, placed>>
pollVars == <<poll, attempt, handle, previous, stable, settled>>
vars == <<hook, window, rect, poll, attempt, handle, previous, stable, settled, placer,
          placed>>

TypeOK ==
  /\ hook \in {"starting", "live", "refused"}
  /\ window \in {"absent", "hidden", "minimised", "open"}
  /\ rect \in Rects
  /\ poll \in {"starting", "waiting", "settled", "moving", "done"}
  /\ attempt \in 0 .. kPollAttempts
  /\ handle \in {None, "window", "gone"}
  /\ previous \in Rects \cup {None}
  /\ stable \in 0 .. kSettlePolls
  /\ settled \in Rects \cup {None}
  /\ placer \in {"nobody", "created", "game", "unread", "player", "mod"}
  /\ placed \in [Axes -> Nat]

Init ==
  /\ hook = "starting"
  /\ window = "absent" /\ rect = Placeholder
  /\ poll = "starting" /\ attempt = 0 /\ handle = None /\ previous = None
  /\ stable = 0 /\ settled = None
  /\ placer = "nobody" /\ placed = Placeholder.size

--------------------------------------------------------------------------------
(* The bootstrap thread. *)

\* StartWindowCentering, whose refusals are all the same to the window: the
\* polling goes ahead either way.
StartWindowCentering ==
  /\ hook = "starting"
  /\ hook' \in {"live", "refused"}
  /\ poll' = "waiting"
  /\ UNCHANGED <<windowVars, attempt, handle, previous, stable, settled>>

\* FindRenderWindow sees a window that is visible, minimised or not.
Found == IF handle # None THEN handle
         ELSE IF window \in {"minimised", "open"} THEN "window" ELSE None

CanPoll == Found = "window" /\ window = "open"

\* Defect: a poll that found no window does not count.
PollUncounted ==
  /\ poll = "waiting"
  /\ attempt < kPollAttempts
  /\ ~CanPoll
  /\ handle' = None /\ previous' = None /\ stable' = 0
  /\ UNCHANGED <<hook, windowVars, poll, attempt, settled>>

\* A poll that cannot use the window drops the handle and starts again.
PollNothing ==
  /\ poll = "waiting"
  /\ attempt < kPollAttempts
  /\ ~CanPoll
  /\ attempt' = attempt + 1
  /\ handle' = None /\ previous' = None /\ stable' = 0
  /\ UNCHANGED <<hook, windowVars, poll, settled>>

\* Defect: one poll more than the loop allows.
PollPastTheEnd ==
  /\ poll = "waiting"
  /\ attempt <= kPollAttempts
  /\ CanPoll
  /\ attempt' = attempt + 1
  /\ handle' = Found /\ previous' = rect
  /\ stable' = IF previous = rect THEN stable + 1 ELSE 0
  /\ poll' = IF stable' = kSettlePolls THEN "settled" ELSE "waiting"
  /\ settled' = IF stable' = kSettlePolls THEN rect ELSE settled
  /\ UNCHANGED <<hook, windowVars>>

PollWindow ==
  /\ poll = "waiting"
  /\ attempt < kPollAttempts
  /\ CanPoll
  /\ attempt' = attempt + 1
  /\ handle' = Found /\ previous' = rect
  /\ stable' = IF previous = rect THEN stable + 1 ELSE 0
  /\ poll' = IF stable' = kSettlePolls THEN "settled" ELSE "waiting"
  /\ settled' = IF stable' = kSettlePolls THEN rect ELSE settled
  /\ UNCHANGED <<hook, windowVars>>

GiveUp ==
  /\ poll = "waiting"
  /\ attempt = kPollAttempts
  /\ poll' = "done"
  /\ UNCHANGED <<hook, windowVars, attempt, handle, previous, stable, settled>>

\* CenterUnlessAlready up to its call, which GetMonitorInfo may refuse.
Decide(readable) ==
  /\ poll = "settled"
  /\ poll' = IF readable /\ DecidePlacement(settled) = "Center" THEN "moving" ELSE "done"
  /\ UNCHANGED <<hook, windowVars, attempt, handle, previous, stable, settled>>

\* Defect: the top left corner is put in the middle.
MoveToTheMiddle ==
  /\ poll = "moving"
  /\ poll' = "done"
  /\ IF window # "absent" /\ handle = "window"
       THEN /\ rect' = [rect EXCEPT !.at = CenteredOrigin(Work, [d \in Axes |-> 0])]
            /\ placer' = "mod"
       ELSE UNCHANGED <<rect, placer>>
  /\ UNCHANGED <<hook, window, attempt, handle, previous, stable, settled, placed>>

\* Its SetWindowPos takes effect when the thread that owns the window pumps it; the
\* interposer lets it through, for it does not come from the game's module.
Move ==
  /\ poll = "moving"
  /\ poll' = "done"
  /\ IF window # "absent" /\ handle = "window"
       THEN /\ rect' = [rect EXCEPT !.at = CenteredOrigin(Work, settled.size)]
            /\ placer' = "mod"
       ELSE UNCHANGED <<rect, placer>>
  /\ UNCHANGED <<hook, window, attempt, handle, previous, stable, settled, placed>>

--------------------------------------------------------------------------------
(* The game, through HookedSetWindowPos. *)

\* The position CreateWindowEx is given never passes through the hook.
CreateWindow(at, size) ==
  /\ window = "absent"
  /\ window' = "open"
  /\ rect' = [at |-> at, size |-> size]
  /\ placer' = "created" /\ placed' = size
  /\ UNCHANGED <<hook, pollVars>>

DestroyWindow ==
  /\ window # "absent"
  /\ window' = "absent"
  /\ handle' = IF handle = None THEN None ELSE "gone"
  /\ UNCHANGED <<hook, rect, poll, attempt, previous, stable, settled, placer, placed>>

\* What GetWindowRect says of the size: the shell's placeholder while minimised.
\* Asked whatever the window's state, it is the defect KeptSize is written against.
LiveSize == IF window = "minimised" THEN Placeholder.size ELSE rect.size

\* The size of a window that keeps its own: rcNormalPosition's while it is minimised.
KeptSize == IF window = "minimised" THEN rect.size ELSE LiveSize

\* Where a placement the game has asked for ends up.
Placement(at, size) ==
  LET requested == [at |-> at, size |-> size]
  IN IF DecidePlacement(requested) = "Center" THEN CenteredOrigin(Work, size) ELSE at

\* readable: neither the window's rect, where it is needed, nor the monitor's is
\* refused.
GamePlaces(at, size, keepsSize, readable) ==
  LET used == IF keepsSize THEN KeptSize ELSE size
  IN /\ window # "absent"
     /\ rect' = [at |-> IF hook = "live" /\ readable THEN Placement(at, used) ELSE at,
                 size |-> IF keepsSize THEN rect.size ELSE size]
     /\ placer' = IF hook = "live" /\ readable THEN "game" ELSE "unread"
     /\ placed' = rect'.size
     /\ UNCHANGED <<hook, window, pollVars>>

\* A call that leaves the position alone (SWP_NOMOVE) goes to the original as it is,
\* whoever makes it: the window keeps its corner and changes its size.
GameResizes(size) ==
  /\ window # "absent"
  /\ rect' = [rect EXCEPT !.size = size]
  /\ UNCHANGED <<hook, window, placer, placed, pollVars>>

--------------------------------------------------------------------------------
(* The player, whose moves come from outside the game's module. *)

PlayerDrags(at) ==
  /\ window = "open"
  /\ rect' = [rect EXCEPT !.at = at]
  /\ placer' = "player"
  /\ UNCHANGED <<hook, window, placed, pollVars>>

ChangeState(s) ==
  /\ window \notin {"absent", s}
  /\ window' = s
  /\ UNCHANGED <<hook, rect, placer, placed, pollVars>>

--------------------------------------------------------------------------------
Bootstrap == \/ StartWindowCentering \/ PollNothing \/ PollWindow \/ GiveUp
             \/ \E readable \in BOOLEAN : Decide(readable)
             \/ Move
Game == \/ \E at \in Points, size \in Extents : CreateWindow(at, size)
        \/ DestroyWindow
        \/ \E at \in Points, size \in Extents, keepsSize \in BOOLEAN, readable \in BOOLEAN :
             GamePlaces(at, size, keepsSize, readable)
        \/ \E size \in Extents : GameResizes(size)
Player == \/ \E at \in Points : PlayerDrags(at)
          \/ \E s \in {"hidden", "minimised", "open"} : ChangeState(s)
Next == Bootstrap \/ Game \/ Player

Spec == Init /\ [][Next]_vars

\* Sleep returns and the thread runs on; nothing obliges the game or the player.
FairSpec == Spec /\ WF_vars(Bootstrap)

--------------------------------------------------------------------------------
(* Properties. *)

\* Where the game asked for its window last, through a live hook that could read the
\* geometry, is centred for the size the window had in that call, or that size does
\* not fit the work area: minimised or not, with its own size or a new one
\* (HookedSetWindowPos).  Not for the size it may have been given since: a resize
\* without a move goes through untouched, and leaves the window off the middle until
\* the game next places it.
GameLandsCentered ==
  LET landed == [rect EXCEPT !.size = placed]
  IN placer = "game" => IsCentered(landed) \/ TooLarge(landed)

Inside(r, area) ==
  \A d \in Axes : /\ area.at[d] <= r.at[d]
                  /\ r.at[d] + r.size[d] <= area.at[d] + area.size[d]

\* The mod's one move centres the window it settled on, however that window was
\* sized, never needs making again and leaves no edge of it off the work area, where
\* the player could not drag it back from (CenterUnlessAlready, DecidePlacement).
MoveCentersIt ==
  placer = "mod" /\ rect.size = settled.size =>
    DecidePlacement(rect) = "AlreadyCentered" /\ Inside(rect, Work)

\* Whatever the window does, the wait is over at last and the bootstrap thread ends
\* (WaitForSettledWindow's attempts).
BootstrapEnds == <>(poll = "done")

\* What the README says of the windows the mod leaves where they are: one the player
\* moved stays where they put it until the game places it again, and one too large to
\* fit is not moved.
LeftWhereItIs ==
  [][placer # "mod" /\ placer' = "mod" => placer # "player" /\ ~TooLarge(rect)]_vars
================================================================================
