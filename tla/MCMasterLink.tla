------------------------------ MODULE MCMasterLink ------------------------------
(***************************************************************************)
(* Instances of AtellaMasterLink for TLC: two or three masters, small      *)
(* socket buffers, and a vector that changes once.                         *)
(***************************************************************************)
EXTENDS AtellaMasterLink

AllFaults == FaultKinds
NoFault   == {}

=============================================================================
