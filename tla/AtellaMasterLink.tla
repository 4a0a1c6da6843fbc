--------------------------- MODULE AtellaMasterLink ---------------------------
(***************************************************************************)
(* The master routine of a client that is not itself a master              *)
(* (runMasterClient and sendVectorToMaster in AtellaClient.go), the        *)
(* goroutine that stops it, its TCP connection, and the sessions of the    *)
(* masters (listen and OnNewMessage in AtellaServer.go).                   *)
(*                                                                         *)
(* Every interval the routine writes two lines to one of the masters, auth *)
(* and set vector; when the connection breaks it goes round the list of    *)
(* masters until one answers.  It never reads the replies.                 *)
(***************************************************************************)
EXTENDS AtellaProtocol, Integers

CONSTANTS
  N,            \* number of masters in MasterServers.Hosts
  Me,           \* Agent.Hostname
  Code,         \* Security.Code
  MaxVersion,   \* bound on the changes of the status vector
  Capacity,     \* lines a master may leave unread before a write blocks
  AckCapacity,  \* replies this side may leave unread before a master blocks
  AcksFill,     \* whether unread replies take up room for ever
  Faults        \* which faults of masters and network may happen

FaultKinds == {"exit", "vanish", "drop"}

ASSUME CountAssumption    == N \in Nat
ASSUME VersionAssumption  == MaxVersion \in Nat
ASSUME CapacityAssumption == Capacity \in Nat /\ Capacity >= 2 /\ AckCapacity \in Nat
ASSUME ModeAssumption     == AcksFill \in BOOLEAN /\ Faults \subseteq FaultKinds

Masters  == 0 .. N - 1
Versions == 0 .. MaxVersion

VARIABLES
  pc,        \* where the routine stands; "done" is stopReply = true
  cur,       \* configuration.CurrentMasterServerIndex
  msi,       \* masterServerIndex
  connErr,   \* c.master.connError
  conn,      \* c.master.conn: "nil", "open" or "closed" by this side
  query,     \* version of the vector in the argument of sendVectorToMaster
  vect,      \* version of configuration.Vector
  stopReq, stopper, exit,   \* as in AtellaNeighbour
  link,      \* the connection behind conn: see below
  peer,      \* the master it leads to
  lines,     \* lines written that the master has not read
  acks,      \* replies the master has written that nobody has read
  up,        \* which masters run
  stored,    \* version of this client's vector in MasterVector of each master
  tried,     \* history: masters dialled in vain in the present sweep
  warned,    \* history: the last dial logged "Could not connect to any"
  linked     \* history: some dial has succeeded

routineVars == <<pc, cur, msi, query, tried, warned, linked>>
stopVars    == <<stopReq, stopper, exit>>
netVars     == <<link, peer, lines, acks>>
masterVars  == <<up, stored>>
vars == <<routineVars, connErr, conn, vect, stopVars, netVars, masterVars>>

(***************************************************************************)
(* States of the connection: "up"; "fin" closed by the master, still       *)
(* writable; "half" written to after that, a reset is on its way; "dead"   *)
(* the host has gone without a word; "reset"; "none".                      *)
(***************************************************************************)
LinkStates == {"none", "up", "fin", "half", "dead", "reset"}

(***************************************************************************)
(* Init: init has drawn masterServerIndex, Run has started the routine.    *)
(* Without masters the routine has returned at once and left stopReply     *)
(* false.                                                                  *)
(***************************************************************************)
Init ==
  /\ pc = IF N = 0 THEN "returned" ELSE "loop"
  /\ cur = IF N = 0 THEN -1 ELSE 0
  /\ msi \in IF N = 0 THEN {0} ELSE Masters
  /\ connErr = TRUE /\ conn = "nil" /\ query = 0 /\ vect = 0
  /\ stopReq = FALSE /\ stopper = "wait" /\ exit = FALSE
  /\ link = "none" /\ peer = 0 /\ lines = <<>> /\ acks = 0
  /\ up \in [Masters -> BOOLEAN]
  /\ stored = [m \in Masters |-> -1]
  /\ tried = {} /\ warned = FALSE /\ linked = FALSE

-----------------------------------------------------------------------------
(***************************************************************************)
(* Head of the outer loop, then Pause and the test of connError.  The      *)
(* vector is marshalled before the call that writes auth.                  *)
(***************************************************************************)
LoopHead ==
  /\ pc = "loop"
  /\ pc' = IF exit THEN "done" ELSE "wake"
  /\ UNCHANGED <<cur, msi, query, tried, warned, linked, connErr, conn, vect,
                 stopVars, netVars, masterVars>>

Wake ==
  /\ pc = "wake"
  /\ IF connErr
     THEN pc' = (IF exit THEN "done" ELSE "dial") /\ UNCHANGED query
     ELSE pc' = "auth" /\ query' = vect
  /\ UNCHANGED <<cur, msi, tried, warned, linked, connErr, conn, vect, stopVars,
                 netVars, masterVars>>

\* Head of the dial loop: when told to stop it falls through to the send.
DialHeadTold(stop) ==
  /\ pc = "dial"
  /\ IF stop THEN pc' = "auth" /\ query' = vect
             ELSE pc' = "dialling" /\ UNCHANGED query
  /\ UNCHANGED <<cur, msi, tried, warned, linked, connErr, conn, vect, stopVars,
                 netVars, masterVars>>

\* Variant: the dial loop does not look at the stop flag.
DialHeadDeaf == DialHeadTold(FALSE)

DialHead == DialHeadTold(exit)

DialOkTo(m, start, next) ==
  /\ pc = "dialling" /\ m = cur /\ up[m]
  /\ conn' = "open" /\ connErr' = FALSE
  /\ link' = "up" /\ peer' = m /\ lines' = <<>> /\ acks' = 0
  /\ msi' = start /\ cur' = next
  /\ query' = vect
  /\ tried' = {} /\ warned' = FALSE /\ linked' = TRUE
  /\ pc' = "auth"
  /\ UNCHANGED <<vect, stopVars, masterVars>>

\* Variants: masterServerIndex is not moved to the master that answered; the
\* index moves on after a dial that succeeded.
DialOkKeepsIndex(m) == DialOkTo(m, msi, cur)
DialOkMovesOn(m)    == DialOkTo(m, cur, (cur + 1) % N)

DialOk(m) == DialOkTo(m, cur, cur)

\* The next master of the list; the sweep is complete when the index is back
\* at masterServerIndex.
DialFailTo(next) ==
  /\ pc = "dialling"
  /\ conn' = "nil" /\ connErr' = TRUE
  /\ link' = "none" /\ lines' = <<>> /\ acks' = 0
  /\ cur' = next
  /\ warned' = (cur' = msi)
  /\ tried' = (IF warned THEN {} ELSE tried) \cup {cur}
  /\ pc' = "dial"
  /\ UNCHANGED <<msi, query, linked, vect, stopVars, peer, masterVars>>

\* Variant: the index stays where it is.
DialFailStays == DialFailTo(cur)

DialFail == DialFailTo((cur + 1) % N)

(***************************************************************************)
(* conn.Write: blocks while the buffers are full, fails on a connection    *)
(* that is closed or reset, and succeeds, in vain, on one the master has   *)
(* left.                                                                   *)
(***************************************************************************)
WriteFails == conn = "closed" \/ (conn = "open" /\ link = "reset")

WriteDone(line) ==
  /\ conn = "open" /\ link \in {"up", "fin", "half", "dead"}
  /\ link \in {"up", "dead"} => Len(lines) < Capacity
  /\ lines' = IF link \in {"up", "dead"} THEN Append(lines, line) ELSE lines
  /\ link' = IF link = "fin" THEN "half" ELSE link

Send(from, line, to) ==
  /\ pc = from
  /\ \/ WriteDone(line) /\ pc' = to /\ UNCHANGED connErr
     \/ WriteFails /\ connErr' = TRUE /\ pc' = "loop" /\ UNCHANGED <<lines, link>>
  /\ UNCHANGED <<cur, msi, query, tried, warned, linked, conn, vect, stopVars,
                 peer, acks, masterVars>>

SendAuth   == Send("auth", AuthLine(Code), "vector")
SendVector == Send("vector", SetVectorLine(Me, query), "loop")

\* A stop in the middle of a failing sweep leaves c.master.conn nil: the
\* write panics and takes the whole daemon with it.
SendPanic ==
  /\ pc = "auth" /\ conn = "nil"
  /\ pc' = "panic"
  /\ UNCHANGED <<cur, msi, query, tried, warned, linked, connErr, conn, vect,
                 stopVars, netVars, masterVars>>

Routine == LoopHead \/ Wake \/ DialHead \/ (\E m \in Masters : DialOk(m)) \/ DialFail
             \/ SendAuth \/ SendVector \/ SendPanic

-----------------------------------------------------------------------------
(***************************************************************************)
(* Stop and the goroutine waiting for it, step by step.                    *)
(***************************************************************************)
RequestStop ==
  /\ ~stopReq
  /\ stopReq' = TRUE
  /\ UNCHANGED <<routineVars, connErr, conn, vect, stopper, exit, netVars, masterVars>>

\* The goroutine exists only if the routine did not return at once.
StopperExit ==
  /\ stopper = "wait" /\ stopReq /\ N > 0
  /\ exit' = TRUE
  /\ stopper' = "mark"
  /\ UNCHANGED <<routineVars, connErr, conn, vect, stopReq, netVars, masterVars>>

StopperMark ==
  /\ stopper = "mark"
  /\ connErr' = TRUE
  /\ stopper' = "test"
  /\ UNCHANGED <<routineVars, conn, vect, stopReq, exit, netVars, masterVars>>

StopperTest ==
  /\ stopper = "test"
  /\ stopper' = IF conn # "nil" THEN "close" ELSE "end"
  /\ UNCHANGED <<routineVars, connErr, conn, vect, stopReq, exit, netVars, masterVars>>

StopperClose ==
  /\ stopper = "close" /\ conn # "nil"
  /\ conn' = "closed"
  /\ link' = "none" /\ lines' = <<>> /\ acks' = 0
  /\ stopper' = "end"
  /\ UNCHANGED <<routineVars, connErr, vect, stopReq, exit, peer, masterVars>>

StopperPanic ==
  /\ stopper = "close" /\ conn = "nil"
  /\ pc' = "panic"
  /\ stopper' = "end"
  /\ UNCHANGED <<cur, msi, query, tried, warned, linked, connErr, conn, vect,
                 stopReq, exit, netVars, masterVars>>

Stopper == StopperExit \/ StopperMark \/ StopperTest \/ StopperClose \/ StopperPanic

-----------------------------------------------------------------------------
(***************************************************************************)
(* The session of the master: a line is read and handled, then its reply   *)
(* is written.  With AckCapacity replies unread that last write blocks and *)
(* no further line is read.                                                *)
(***************************************************************************)
MasterReads ==
  /\ link = "up" /\ lines # <<>>
  /\ acks <= AckCapacity
  /\ lines' = Tail(lines)
  /\ acks' = IF AcksFill THEN acks + 1 ELSE acks
  /\ stored' = IF Head(lines)[1] = "set"
               THEN [stored EXCEPT ![peer] = Head(lines)[4]]
               ELSE stored
  /\ UNCHANGED <<routineVars, connErr, conn, vect, stopVars, link, peer, up>>

\* Neighbour routines write the status vector.
VectorChanges ==
  /\ vect < MaxVersion
  /\ vect' = vect + 1
  /\ UNCHANGED <<routineVars, connErr, conn, stopVars, netVars, masterVars>>

\* What becomes of the link if it leads to master m.
Lose(m, how) ==
  IF link = "up" /\ peer = m
  THEN link' = how /\ lines' = <<>> /\ UNCHANGED <<peer, acks>>
  ELSE UNCHANGED netVars

\* A master's MasterVector lives in memory and goes with the daemon.
MasterDown(m) ==
  /\ up[m]
  /\ up' = [up EXCEPT ![m] = FALSE]
  /\ stored' = [stored EXCEPT ![m] = -1]
  /\ \E how \in {"fin", "reset", "dead"} :
       /\ how = "dead" => "vanish" \in Faults
       /\ how # "dead" => "exit" \in Faults
       /\ Lose(m, how)
  /\ UNCHANGED <<routineVars, connErr, conn, vect, stopVars>>

MasterUp(m) ==
  /\ ~up[m]
  /\ up' = [up EXCEPT ![m] = TRUE]
  /\ UNCHANGED <<routineVars, connErr, conn, vect, stopVars, netVars, stored>>

LinkDrop ==
  /\ "drop" \in Faults /\ link = "up"
  /\ Lose(peer, "reset")
  /\ UNCHANGED <<routineVars, connErr, conn, vect, stopVars, masterVars>>

\* The reset caused by a late write arrives, or retransmission gives up.
ResetArrives ==
  /\ link \in {"half", "dead"}
  /\ link' = "reset" /\ lines' = <<>>
  /\ UNCHANGED <<routineVars, connErr, conn, vect, stopVars, peer, acks, masterVars>>

World == MasterReads \/ VectorChanges \/ LinkDrop \/ ResetArrives
           \/ (\E m \in Masters : MasterDown(m) \/ MasterUp(m))

Next == Routine \/ RequestStop \/ Stopper \/ World

Spec == Init /\ [][Next]_vars

(***************************************************************************)
(* Goroutines are scheduled, a session reads what it is sent, resets       *)
(* arrive, and a running master that is dialled again and again answers.   *)
(***************************************************************************)
Fairness ==
  /\ WF_vars(Routine)
  /\ \A m \in Masters : SF_vars(DialOk(m))
  /\ WF_vars(Stopper)
  /\ WF_vars(MasterReads) /\ WF_vars(ResetArrives)

FairSpec == Spec /\ Fairness

-----------------------------------------------------------------------------
(***************************************************************************)
(* Properties.                                                             *)
(***************************************************************************)

\* Every variable keeps to its values, and the lines under way are those the
\* routine writes.
TypeOK ==
  /\ pc \in {"loop", "wake", "dial", "dialling", "auth", "vector", "done", "returned",
             "panic"}
  /\ cur \in Masters \cup {-1} /\ msi \in Masters \cup {0}
  /\ connErr \in BOOLEAN /\ conn \in {"nil", "open", "closed"}
  /\ query \in Versions /\ vect \in Versions
  /\ stopReq \in BOOLEAN /\ exit \in BOOLEAN
  /\ stopper \in {"wait", "mark", "test", "close", "end"}
  /\ link \in LinkStates /\ peer \in Masters \cup {0}
  /\ lines \in Seq({AuthLine(Code)} \cup {SetVectorLine(Me, v) : v \in Versions})
  /\ acks \in 0 .. AckCapacity + 1
  /\ up \in [Masters -> BOOLEAN] /\ stored \in [Masters -> Versions \cup {-1}]
  /\ tried \subseteq Masters /\ warned \in BOOLEAN /\ linked \in BOOLEAN

\* A connection believed to be good leads to the master the current index
\* names, the one the rest of the daemon takes for its master.
ConnectedToCurrent == ~connErr => conn # "nil" /\ peer = cur

\* Once a connection has been made, the log "Could not connect to any of
\* masters" comes exactly when all of them have been tried since the last
\* connection or the last such log.
SweepIsComplete == linked => (warned <=> tried = Masters)

\* Before it hears anything of the old one, the routine changes master only
\* after a dial of the old one that failed.
ChangesOnlyAfterFailure == [][cur' # cur => cur \in tried' /\ connErr']_vars

\* If every master ends up running or stopped for good, one of them runs and
\* the network stops breaking connections, the vector the client has for good
\* is stored by the master it is connected to.
Settled(m) == <>[]up[m] \/ <>[]~up[m]

VectorArrives ==
  /\ \A m \in Masters : Settled(m)
  /\ \E m \in Masters : <>[]up[m]
  /\ []~stopReq /\ <>[][~LinkDrop]_vars
  => <>[](conn = "open" /\ stored[cur] = vect)

\* Stop and Reload wait for stopReply of the master routine: it comes.
StopHonoured == stopReq ~> pc \in {"done", "panic"}

=============================================================================
