----------------------------- MODULE MCFrameState ------------------------------
(* The instance of FrameState that TLC checks. *)
EXTENDS FrameState

\* Two places: the block can go from before the sweep's cursor to after it and the
\* other way round, so a sweep can miss it or find it twice.
MCPlaces == 2
================================================================================
