---------------------------- MODULE AtellaProtocol ----------------------------
(***************************************************************************)
(* The line protocol between two Atella daemons (TCP port 5223).  A line   *)
(* is the sequence of its space-separated words, which is what both sides  *)
(* work on (msgMap in OnNewMessage and in runNeighbour).  Only the         *)
(* commands a daemon sends to another daemon are here: auth, get hostname, *)
(* set host and set vector.                                                *)
(***************************************************************************)
EXTENDS Naturals, Sequences

Ok  == "+OK"
Err == "-ERR"

(***************************************************************************)
(* Requests: runNeighbour sends the first three, sendVectorToMaster the    *)
(* first and the last.                                                     *)
(***************************************************************************)
AuthLine(code)            == <<"auth", code>>
GetHostnameLine           == <<"get", "hostname">>
SetHostLine(name)         == <<"set", "host", name>>
SetVectorLine(name, vect) == <<"set", "vector", name, vect>>

(***************************************************************************)
(* Replies of OnNewMessage, one operator per command.  code and hostname   *)
(* are Security.Code and Agent.Hostname of the daemon that answers.  A     *)
(* daemon always names a code: for the word auth alone there is no reply,  *)
(* OnNewMessage panics (see ReadBare in AtellaServer).                     *)
(***************************************************************************)
AuthReply(code, line) ==
  IF line[2] = code
  THEN <<Ok, "ack", "auth">>
  ELSE <<Err, "auth">>

GetReply(hostname) == <<Ok, "ack", "hostname", hostname>>

SetHostReply(line) ==
  IF Len(line) > 2
  THEN <<Ok, "ack", "host", line[3]>>
  ELSE <<Err, "set", "host">>

SetVectorReply(line) ==
  IF Len(line) > 3
  THEN <<Ok, "ack", "set">>
  ELSE <<Err, "set", "vector">>

Reply(code, hostname, line) ==
  IF line[1] = "auth" THEN AuthReply(code, line)
  ELSE IF line[1] = "get" THEN GetReply(hostname)
  ELSE IF line[2] = "host" THEN SetHostReply(line)
  ELSE SetVectorReply(line)

=============================================================================
