------------------------- MODULE WindowCenteringProofs -------------------------
(***************************************************************************)
(* Proofs about WindowCentering, for any desktop, any places and sizes and *)
(* any number of polls.  MovedInv carries the argument: the mod moves the   *)
(* window only once, when the polling is over, so what it settled on still *)
(* says where it put the window as long as nobody has placed it since.     *)
(***************************************************************************)
EXTENDS WindowCentering, TLAPS

MovedInv ==
  /\ poll \in {"settled", "moving"} => settled \in Rects
  /\ poll = "moving" => ~TooLarge(settled)
  /\ placer = "mod" => /\ poll = "done"
                       /\ settled \in Rects /\ ~TooLarge(settled)
                       /\ rect.at = CenteredOrigin(Work, settled.size)

\* The polling starts once, and its count of still polls reaches the end only by
\* ending the wait.
PollInv ==
  /\ hook = "starting" => poll = "starting"
  /\ poll \in {"starting", "waiting"} => stable < kSettlePolls

IInv == TypeOK /\ MovedInv /\ PollInv /\ GameLandsCentered

USE AreasAssumption, PlacesAssumption, PollsAssumption, NoneAssumption

\* Half a distance is a distance, the C++ way too.
LEMMA HalfIsInt == ASSUME NEW n \in Int PROVE Half(n) \in Int
  BY DEF Half

\* An area has a place for a window of any size.
LEMMA OriginIsPlace ==
  ASSUME NEW area \in Rects, NEW size \in [Axes -> Nat]
  PROVE  CenteredOrigin(area, size) \in [Axes -> Int]
  <1>1. ASSUME NEW d \in Axes PROVE area.at[d] + Half(area.size[d] - size[d]) \in Int
    <2>1. area.at[d] \in Int /\ area.size[d] - size[d] \in Int
      BY DEF Rects
    <2> QED BY <2>1, HalfIsInt
  <1> QED BY <1>1 DEF CenteredOrigin

\* A window put at the origin computed for its size is centred on the work area.
LEMMA OriginIsCentered ==
  ASSUME NEW r \in Rects, r.at = CenteredOrigin(Work, r.size)
  PROVE  IsCentered(r)
  <1>1. r.size \in [Axes -> Nat] /\ CenteredOrigin(Work, r.size) \in [Axes -> Int]
    BY OriginIsPlace DEF Rects
  <1>2. ASSUME NEW d \in Axes
        PROVE  r.at[d] - CenteredOrigin(Work, r.size)[d] \in -kTolerance .. kTolerance
    <2>1. CenteredOrigin(Work, r.size)[d] \in Int
      BY <1>1
    <2>2. r.at[d] = CenteredOrigin(Work, r.size)[d]
      OBVIOUS
    <2> QED BY <2>1, <2>2 DEF kTolerance
  <1> QED BY <1>2 DEF IsCentered, IsCenteredOn

\* There a window that is not too large fits, rounding included.
LEMMA OriginIsInside ==
  ASSUME NEW r \in Rects, r.at = CenteredOrigin(Work, r.size), ~TooLarge(r)
  PROVE  Inside(r, Work)
  <1>1. ASSUME NEW d \in Axes
        PROVE  /\ Work.at[d] <= r.at[d]
               /\ r.at[d] + r.size[d] <= Work.at[d] + Work.size[d]
    <2>1. r.at[d] = Work.at[d] + Half(Work.size[d] - r.size[d])
      BY DEF CenteredOrigin
    <2>2. Work.at[d] \in Int /\ Work.size[d] \in Nat /\ r.size[d] \in Nat
      BY DEF Rects
    <2>3. r.size[d] < Work.size[d]
      BY <2>2 DEF TooLarge
    <2>4. Half(Work.size[d] - r.size[d]) \in 0 .. Work.size[d] - r.size[d]
      BY <2>2, <2>3 DEF Half
    <2> QED BY <2>1, <2>2, <2>4
  <1> QED BY <1>1 DEF Inside

\* Where the interposer puts a window the game places: centred, or too large to be.
LEMMA PlacementLands ==
  ASSUME NEW at \in [Axes -> Int], NEW size \in [Axes -> Nat]
  PROVE  LET r == [at |-> Placement(at, size), size |-> size]
         IN r \in Rects /\ (IsCentered(r) \/ TooLarge(r))
  <1> DEFINE requested == [at |-> at, size |-> size]
             r == [at |-> Placement(at, size), size |-> size]
  <1>1. CenteredOrigin(Work, size) \in [Axes -> Int]
    BY OriginIsPlace
  <1>2. CASE DecidePlacement(requested) = "Center"
    <2>1. r = [at |-> CenteredOrigin(Work, size), size |-> size]
      BY <1>2 DEF Placement
    <2>2. r \in Rects /\ r.at = CenteredOrigin(Work, r.size)
      BY <1>1, <2>1 DEF Rects
    <2> QED BY <2>2, OriginIsCentered
  <1>3. CASE DecidePlacement(requested) # "Center"
    <2>1. r = requested
      BY <1>3 DEF Placement
    <2>2. IsCentered(requested) \/ TooLarge(requested)
      BY <1>3 DEF DecidePlacement
    <2>3. requested \in Rects
      BY DEF Rects
    <2> QED BY <2>1, <2>2, <2>3
  <1> QED BY <1>2, <1>3

\* No window yet, and nobody has placed it.
LEMMA InitIInv == Init => IInv
  <1> SUFFICES ASSUME Init PROVE IInv
    OBVIOUS
  <1>1. Placeholder \in Rects /\ placed \in [Axes -> Nat]
    BY DEF Init, Rects
  <1> QED BY <1>1 DEF Init, IInv, TypeOK, MovedInv, PollInv, GameLandsCentered

\* The bootstrap thread settles on a rect, and moves the window to the middle for it.
LEMMA BootstrapStep == ASSUME IInv, Bootstrap PROVE IInv'
  <1> USE DEF IInv, TypeOK, MovedInv, PollInv, GameLandsCentered, windowVars
  <1>1. CASE StartWindowCentering
    BY <1>1 DEF StartWindowCentering, IsCentered, IsCenteredOn, TooLarge
  <1>2. CASE PollNothing
    BY <1>2 DEF PollNothing, IsCentered, IsCenteredOn, TooLarge
  <1>3. CASE PollWindow
    <2>1. attempt' \in 0 .. kPollAttempts /\ stable' \in 0 .. kSettlePolls
      BY <1>3 DEF PollWindow
    <2> QED BY <1>3, <2>1 DEF PollWindow, Found, CanPoll, IsCentered, IsCenteredOn, TooLarge
  <1>4. CASE GiveUp
    BY <1>4 DEF GiveUp, IsCentered, IsCenteredOn, TooLarge
  <1>5. CASE \E readable \in BOOLEAN : Decide(readable)
    <2>1. poll' = "moving" => ~TooLarge(settled)
      BY <1>5 DEF Decide, DecidePlacement
    <2> QED BY <1>5, <2>1 DEF Decide, IsCentered, IsCenteredOn, TooLarge
  <1>6. CASE Move
    <2>1. settled \in Rects /\ settled.size \in [Axes -> Nat]
      BY <1>6 DEF Move, Rects
    <2>2. CenteredOrigin(Work, settled.size) \in [Axes -> Int]
      BY <2>1, OriginIsPlace
    <2>3. [rect EXCEPT !.at = CenteredOrigin(Work, settled.size)] \in Rects
      BY <2>2 DEF Rects
    <2>4. [rect EXCEPT !.at = CenteredOrigin(Work, settled.size)].at
            = CenteredOrigin(Work, settled.size)
      BY DEF Rects
    <2>5. CASE placer' = "mod"
      BY <1>6, <2>1, <2>3, <2>4, <2>5 DEF Move
    <2>6. CASE placer' # "mod"
      BY <1>6, <2>6 DEF Move, IsCentered, IsCenteredOn, TooLarge
    <2> QED BY <2>5, <2>6
  <1> QED BY <1>1, <1>2, <1>3, <1>4, <1>5, <1>6 DEF Bootstrap

\* The game's own size, kept or new, is the size its window ends up with.
LEMMA GamePlacesStep ==
  ASSUME IInv,
         NEW at \in Points, NEW size \in Extents, NEW keepsSize \in BOOLEAN,
         NEW readable \in BOOLEAN, GamePlaces(at, size, keepsSize, readable)
  PROVE  IInv'
  <1> DEFINE used == IF keepsSize THEN KeptSize ELSE size
  <1>1. /\ UNCHANGED <<hook, window, pollVars>>
        /\ rect' = [at |-> rect'.at, size |-> used] /\ placed' = used
    BY DEF GamePlaces, KeptSize, LiveSize
  <1>2. at \in [Axes -> Int] /\ used \in [Axes -> Nat]
    BY DEF IInv, TypeOK, Rects, KeptSize, LiveSize
  <1>3. CASE hook = "live" /\ readable
    <2>1. rect' = [at |-> Placement(at, used), size |-> used] /\ placer' = "game"
      BY <1>1, <1>3 DEF GamePlaces
    <2>2. rect' \in Rects /\ (IsCentered(rect') \/ TooLarge(rect'))
      BY <1>2, <2>1, PlacementLands
    <2>3. [rect EXCEPT !.size = placed]' = rect'
      BY <1>1
    <2>4. GameLandsCentered'
      BY <2>2, <2>3 DEF GameLandsCentered, IsCentered, IsCenteredOn, TooLarge
    <2> QED BY <1>1, <1>2, <2>1, <2>2, <2>4 DEF IInv, TypeOK, MovedInv, PollInv, pollVars
  <1>4. CASE ~(hook = "live" /\ readable)
    <2>1. rect' = [at |-> at, size |-> used] /\ placer' = "unread"
      BY <1>1, <1>4 DEF GamePlaces
    <2>2. rect' \in Rects
      BY <1>2, <2>1 DEF Rects
    <2> QED BY <1>1, <1>2, <2>1, <2>2
            DEF IInv, TypeOK, MovedInv, PollInv, GameLandsCentered, pollVars
  <1> QED BY <1>3, <1>4

\* A resize without a move leaves the corner, and so what the last placement landed on.
LEMMA GameResizesStep ==
  ASSUME IInv, NEW size \in Extents, GameResizes(size)
  PROVE  IInv'
  <1>1. rect' = [rect EXCEPT !.size = size] /\ rect \in Rects
    BY DEF GameResizes, IInv, TypeOK
  <1>2. rect' \in Rects /\ rect'.at = rect.at
    BY <1>1 DEF Rects
  <1>3. UNCHANGED <<hook, window, placer, placed, pollVars>>
    BY DEF GameResizes
  <1>4. [rect EXCEPT !.size = placed]' = [rect EXCEPT !.size = placed]
    BY <1>1, <1>3 DEF Rects
  <1>5. GameLandsCentered'
    BY <1>3, <1>4 DEF IInv, GameLandsCentered, IsCentered, IsCenteredOn, TooLarge
  <1> QED BY <1>2, <1>3, <1>5 DEF IInv, TypeOK, MovedInv, PollInv, pollVars

LEMMA GameStep == ASSUME IInv, Game PROVE IInv'
  <1>1. CASE \E at \in Points, size \in Extents : CreateWindow(at, size)
    <2>1. PICK at \in Points, size \in Extents : CreateWindow(at, size)
      BY <1>1
    <2>2. rect' \in Rects /\ placer' = "created" /\ placed' \in [Axes -> Nat]
          /\ window' = "open" /\ UNCHANGED <<hook, pollVars>>
      BY <2>1 DEF CreateWindow, Rects
    <2> QED BY <2>2 DEF IInv, TypeOK, MovedInv, PollInv, GameLandsCentered, pollVars
  <1>2. CASE DestroyWindow
    BY <1>2 DEF DestroyWindow, IInv, TypeOK, MovedInv, PollInv, GameLandsCentered,
                IsCentered, IsCenteredOn, TooLarge
  <1>3. CASE \E at \in Points, size \in Extents, keepsSize \in BOOLEAN, readable \in BOOLEAN :
               GamePlaces(at, size, keepsSize, readable)
    BY <1>3, GamePlacesStep
  <1>4. CASE \E size \in Extents : GameResizes(size)
    BY <1>4, GameResizesStep
  <1> QED BY <1>1, <1>2, <1>3, <1>4 DEF Game

LEMMA PlayerStep == ASSUME IInv, Player PROVE IInv'
  <1> USE DEF IInv, TypeOK, MovedInv, PollInv, GameLandsCentered, pollVars
  <1>1. CASE \E at \in Points : PlayerDrags(at)
    <2>1. PICK at \in Points : PlayerDrags(at)
      BY <1>1
    <2>2. [rect EXCEPT !.at = at] \in Rects
      BY DEF Rects
    <2> QED BY <2>1, <2>2 DEF PlayerDrags
  <1>2. CASE \E s \in {"hidden", "minimised", "open"} : ChangeState(s)
    BY <1>2 DEF ChangeState, IsCentered, IsCenteredOn, TooLarge
  <1> QED BY <1>1, <1>2 DEF Player

LEMMA StepIInv == ASSUME IInv, [Next]_vars PROVE IInv'
  <1>1. CASE UNCHANGED vars
    BY <1>1 DEF vars, IInv, TypeOK, MovedInv, PollInv, GameLandsCentered,
                IsCentered, IsCenteredOn, TooLarge
  <1> QED BY <1>1, BootstrapStep, GameStep, PlayerStep DEF Next

THEOREM Invariance == Spec => []IInv
  BY InitIInv, StepIInv, PTL DEF Spec

\* The desktop and the thread keep their types, whatever is polled and whoever places
\* the window.
THEOREM TypeCorrect == Spec => []TypeOK
  <1>1. IInv => TypeOK
    BY DEF IInv
  <1> QED BY Invariance, <1>1, PTL

\* Wherever the game puts its window through a live, readable hook is centred for the
\* size it then has or too large to be, on any desktop, and stays so while the game
\* only resizes it (HookedSetWindowPos).
THEOREM GamePlacementsLand == Spec => []GameLandsCentered
  <1>1. IInv => GameLandsCentered
    BY DEF IInv
  <1> QED BY Invariance, <1>1, PTL

\* The mod's move never needs making again and keeps the window on the work area, on
\* any desktop (CenterUnlessAlready).
THEOREM MoveIsFinal == Spec => []MoveCentersIt
  <1>1. IInv => MoveCentersIt
    <2> SUFFICES ASSUME IInv, placer = "mod", rect.size = settled.size
                 PROVE  DecidePlacement(rect) = "AlreadyCentered" /\ Inside(rect, Work)
      BY DEF MoveCentersIt
    <2>1. rect \in Rects /\ rect.at = CenteredOrigin(Work, rect.size)
      BY DEF IInv, TypeOK, MovedInv
    <2>2. ~TooLarge(rect)
      BY DEF IInv, MovedInv, TooLarge
    <2> QED BY <2>1, <2>2, OriginIsCentered, OriginIsInside DEF DecidePlacement
  <1> QED BY Invariance, <1>1, PTL
================================================================================
