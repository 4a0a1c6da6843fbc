-------------------------------- MODULE MCDaemon --------------------------------
(***************************************************************************)
(* Instances of AtellaDaemon for TLC: one neighbour, and files that name   *)
(* no master or two, or make the agent the one master.                      *)
(***************************************************************************)
EXTENDS AtellaDaemon

CONSTANTS n1

OneNeighbour == {n1}
Sometimes    == BOOLEAN
Files ==
  {[hosts |-> 0, master |-> FALSE], [hosts |-> 2, master |-> FALSE], [hosts |-> 1, master |-> TRUE]}

=============================================================================
