------------------------------ MODULE MCHudView --------------------------------
(* Small instances of HudView for TLC. *)
EXTENDS HudView, TLC

\* Two threads race for the latches and two elements for the address; neither
\* kind is told apart.
ThreadAndElementSymmetry == Permutations(Threads) \cup Permutations(Elements)
================================================================================
