----------------------------- MODULE MCTrackerFeed -----------------------------
(* The instance of TrackerFeed that TLC checks. *)
EXTENDS TrackerFeed

\* Three packets: one published, one missed in a gap, one after it.  Four presses
\* take the mode once around and one further.
MCMaxPacket == 3
MCMaxPresses == 4
================================================================================
