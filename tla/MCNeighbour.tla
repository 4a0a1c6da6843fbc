------------------------------ MODULE MCNeighbour ------------------------------
(***************************************************************************)
(* Instance of AtellaNeighbour for TLC: one routine, one neighbour, two    *)
(* security codes, and the limit of empty lines the code has.              *)
(***************************************************************************)
EXTENDS AtellaNeighbour

MCPeerCodes == {"c1", "c2"}
OneCode     == {"c1"}
AllFaults   == FaultKinds
ExitFault   == {"exit"}

=============================================================================
