------------------------------- MODULE MCControl -------------------------------
(***************************************************************************)
(* Instances of AtellaControl for TLC: three pids, for the daemon of the   *)
(* unit, one started by hand and another program, and two masters.         *)
(***************************************************************************)
EXTENDS AtellaControl

CONSTANTS p1, p2, p3

ThreePids == {p1, p2, p3}

=============================================================================
