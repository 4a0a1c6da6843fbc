-------------------------------- MODULE MCServer --------------------------------
(***************************************************************************)
(* Instances of AtellaServer for TLC: two connections of one host, the old *)
(* one and the new, with at most one change of its status vector; or one   *)
(* connection with every command and a stop.                               *)
(***************************************************************************)
EXTENDS AtellaServer

CONSTANTS s1, s2, h1

TwoSessions == {s1, s2}
OneSession  == {s1}
OneHost     == {h1}
HostAndMe   == {h1, Me}
ExportOnly  == {"export"}
AllCommands == CommandKinds

=============================================================================
