-------------------------------- MODULE MCSpool --------------------------------
(***************************************************************************)
(* Instances of AtellaSpool for TLC: two reports, one of them perhaps to a  *)
(* channel the configuration lacks, and at most one crash.                 *)
(***************************************************************************)
EXTENDS AtellaSpool

CONSTANTS r1, r2

Pair     == {r1, r2}
First    == {r1}
Second   == {r2}
NoReport == {}

AllFaults == FaultKinds
Racing    == {"race"}
Truthful  == {"race", "die", "hang"}

=============================================================================
