--------------------------- MODULE MCWebDevice ---------------------------
(* Instances of WebDevice: two callers, and what the runs let them ask.   *)
EXTENDS WebDevice

CONSTANTS r1, r2

TwoCallers == {r1, r2}
TwoFreqs == {1, 2}
AllOps == {"open", "close", "rx", "set"}
StateOps == {"open", "rx", "set"}
==========================================================================
