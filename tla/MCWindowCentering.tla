--------------------------- MODULE MCWindowCentering ---------------------------
(* The instance of WindowCentering that TLC checks. *)
EXTENDS WindowCentering

At(x, y) == [x |-> x, y |-> y]
MCAxes == {"x", "y"}
\* A taskbar along the bottom, so that centred on the work area and centred on the
\* monitor are further apart than the tolerance.
MCMonitor == [at |-> At(0, 0), size |-> At(40, 30)]
MCWork == [at |-> At(0, 0), size |-> At(40, 22)]
MCPlaceholder == [at |-> At(-90, -90), size |-> At(8, 2)]
\* A window with odd extents that fits, and one that fills the screen.
MCExtents == {At(21, 13), At(40, 30)}
\* The corner, and the monitor's own centre for the window that fits.
MCPoints == {At(0, 0), At(10, 8)}
MCPollAttempts == 4
MCSettlePolls == 2
================================================================================
