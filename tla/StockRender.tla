------------------------------ MODULE StockRender ------------------------------
(***************************************************************************)
(* What the camera hook promises the engine.  The game fills the view of a *)
(* render world, the renderer draws a picture from it, and whatever is     *)
(* drawn, the view the game filled is the view the game finds afterwards:  *)
(* the mod only decides whether the picture is taken from that view or     *)
(* from that view turned by one head pose.                                 *)
(***************************************************************************)
EXTENDS Sequences

CONSTANTS
  Worlds,    \* the idRenderWorldLocal objects that reach Render
  Cameras,   \* what the game can fill a view with
  Poses,     \* what one composition of the head pose can be
  None       \* no picture is being drawn

VARIABLES
  games,     \* the view the game finds in each render world
  picture    \* the view the picture being drawn is taken from

vars == <<games, picture>>

Filled(c) == [camera |-> c, poses |-> <<>>]
Turned(v, p) == [v EXCEPT !.poses = Append(@, p)]

Init == /\ games \in [Worlds -> {Filled(c) : c \in Cameras}]
        /\ picture = None

\* The game fills a view from its own camera.
Refill(w, c) == /\ games' = [games EXCEPT ![w] = Filled(c)]
                /\ UNCHANGED picture

\* Render starts on the game's own view, or on one pose composed onto it.
BeginPicture(w) == /\ picture = None
                   /\ \/ picture' = games[w]
                      \/ \E p \in Poses : picture' = Turned(games[w], p)
                   /\ UNCHANGED games

EndPicture == /\ picture # None
              /\ picture' = None
              /\ UNCHANGED games

Next == \/ \E w \in Worlds, c \in Cameras : Refill(w, c)
        \/ \E w \in Worlds : BeginPicture(w)
        \/ EndPicture

Spec == Init /\ [][Next]_vars
================================================================================
