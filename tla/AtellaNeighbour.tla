---------------------------- MODULE AtellaNeighbour ----------------------------
(***************************************************************************)
(* One neighbour routine of the client (runNeighbour in AtellaClient.go),  *)
(* the goroutine that stops it, the slot of the status vector it writes,   *)
(* the TCP connection, and the daemon at the other end (listen and         *)
(* OnNewMessage in AtellaServer.go).                                       *)
(*                                                                         *)
(* The routine dials the neighbour, runs the exchange                      *)
(*     auth - ack - get hostname - ack - set host - ack                    *)
(* and publishes the verdict in configuration.Vector[vectorIndex].         *)
(***************************************************************************)
EXTENDS AtellaProtocol

CONSTANTS
  Me,          \* Agent.Hostname of the daemon that runs the routine
  Peer,        \* Agent.Hostname of the neighbour
  Unknown,     \* the hostname a slot holds before the first exchange
  Code,        \* Security.Code of the daemon that runs the routine
  PeerCodes,   \* the values Security.Code of the neighbour may take
  EmptyLimit,  \* empty lines tolerated in a row (5 in the code)
  Faults       \* which faults of neighbour and network may happen

FaultKinds == {"exit", "reset", "vanish", "drop", "recode"}

ASSUME NamesAssumption == Peer # Unknown
ASSUME LimitAssumption == EmptyLimit \in Nat
ASSUME FaultAssumption == Faults \subseteq FaultKinds

VARIABLES
  pc,          \* where the routine stands; "done" is stopReply = true,
               \* "panic" a daemon brought down
  connErr,     \* c.connError
  conn,        \* c.conn: "nil", "open" or "closed" by this side
  emptyCnt,    \* c.emptyMessageCnt
  status,      \* local variable status, survives a reconnection
  hostname,    \* local variable hostname, survives a reconnection
  slot,        \* configuration.Vector[vectorIndex]: Status and Hostname
  stopReq,     \* the channel stopRequest is closed
  stopper,     \* where the goroutine waiting on stopRequest stands
  exit,        \* local variable exit, set by that goroutine
  link,        \* the TCP connection behind conn, as this side will find it
  outbox,      \* request lines the neighbour has not read
  inbox,       \* reply lines the routine has not read
  peerUp,      \* the neighbour's daemon runs
  peerCode,    \* its Security.Code
  acked        \* history: acks processed on the present connection

routineVars == <<pc, emptyCnt, status, hostname, slot, acked>>
stopVars    == <<stopReq, stopper, exit>>
netVars     == <<link, outbox, inbox>>
peerVars    == <<peerUp, peerCode>>
vars == <<routineVars, connErr, conn, stopVars, netVars, peerVars>>

RequestLines == {AuthLine(Code), GetHostnameLine, SetHostLine(Me)}
ReplyLines   == {Reply(c, Peer, l) : c \in PeerCodes \cup {Code}, l \in RequestLines}

(***************************************************************************)
(* Init: runNeighbour as Run starts it on a neighbour AddHost has made.    *)
(***************************************************************************)
Init ==
  /\ pc = "check" /\ connErr = TRUE /\ conn = "nil" /\ emptyCnt = 0
  /\ status = FALSE /\ hostname = Unknown
  /\ slot = [status |-> FALSE, hostname |-> Unknown]
  /\ stopReq = FALSE /\ stopper = "wait" /\ exit = FALSE
  /\ link = "none" /\ outbox = <<>> /\ inbox = <<>>
  /\ peerUp \in BOOLEAN /\ peerCode \in PeerCodes
  /\ acked = {}

-----------------------------------------------------------------------------
(***************************************************************************)
(* The connection.  A write on a connection that was reset or closed fails;*)
(* one to a neighbour that has gone is accepted by the kernel and lost.    *)
(***************************************************************************)
Writable == conn = "open" /\ link \in {"up", "eof", "dead"}
Sent(line) == IF link = "up" THEN Append(outbox, line) ELSE outbox

(***************************************************************************)
(* fin = true: the loop commits the slot, leaves the exchange and starts   *)
(* over.                                                                   *)
(***************************************************************************)
Finish(verdict, name) ==
  /\ slot' = [status |-> verdict, hostname |-> name]
  /\ connErr' = TRUE
  /\ pc' = "check"

(***************************************************************************)
(* Loop head: Pause, then test connError and exit.                         *)
(***************************************************************************)
CheckTold(stop) ==
  /\ pc = "check"
  /\ pc' = IF ~connErr THEN "auth" ELSE IF stop THEN "done" ELSE "dial"
  /\ UNCHANGED <<emptyCnt, status, hostname, slot, acked, connErr, conn,
                 stopVars, netVars, peerVars>>

\* Variant: the stop flag is not looked at.
CheckWithoutExit == CheckTold(FALSE)

Check == CheckTold(exit)

DialOkLeaving(error) ==
  /\ pc = "dial" /\ peerUp
  /\ conn' = "open" /\ connErr' = error
  /\ link' = "up" /\ outbox' = <<>> /\ inbox' = <<>>
  /\ acked' = {}
  /\ pc' = "check"
  /\ UNCHANGED <<emptyCnt, status, hostname, slot, stopVars, peerVars>>

\* Variant: connError is not cleared.
DialOkStaysWrong == DialOkLeaving(connErr)

DialOk == DialOkLeaving(FALSE)

\* Refused, unreachable or timed out: DialTimeout returns a nil connection.
DialFail ==
  /\ pc = "dial"
  /\ conn' = "nil" /\ connErr' = TRUE
  /\ link' = "none" /\ outbox' = <<>> /\ inbox' = <<>>
  /\ acked' = {}
  /\ pc' = "check"
  /\ UNCHANGED <<emptyCnt, status, hostname, slot, stopVars, peerVars>>

SendAuth ==
  /\ pc = "auth" /\ Writable
  /\ outbox' = Sent(AuthLine(Code))
  /\ pc' = "read"
  /\ UNCHANGED <<emptyCnt, status, hostname, slot, acked, connErr, conn,
                 stopVars, link, inbox, peerVars>>

\* A failed auth starts the loop over without committing the slot.
SendAuthFails ==
  /\ pc = "auth" /\ ~Writable
  /\ status' = FALSE /\ connErr' = TRUE
  /\ pc' = "check"
  /\ UNCHANGED <<emptyCnt, hostname, slot, acked, conn, stopVars, netVars,
                 peerVars>>

-----------------------------------------------------------------------------
(***************************************************************************)
(* One turn of the inner loop: ReadString returns the next line.           *)
(***************************************************************************)
Line == Head(inbox)

Receive ==
  /\ pc = "read" /\ conn = "open" /\ inbox # <<>>
  /\ inbox' = Tail(inbox)
  /\ emptyCnt' = 0

IsAck(what) == Line[1] = Ok /\ Line[2] = "ack" /\ Line[3] = what

(***************************************************************************)
(* An acknowledged request is followed by the next one; if that cannot be  *)
(* written the verdict is "down".                                          *)
(***************************************************************************)
SendNextAs(written) ==
  /\ Writable
  /\ outbox' = written
  /\ UNCHANGED <<pc, connErr, status, slot>>

\* Variant: the request is written a second time.
SendNextTwice(line) == SendNextAs(Sent(line) \o <<line>>)

SendNext(line) == SendNextAs(Sent(line))

SendNextFails(name) ==
  /\ ~Writable
  /\ status' = FALSE
  /\ Finish(FALSE, name)
  /\ UNCHANGED outbox

ReadAckAuth ==
  /\ Receive /\ IsAck("auth")
  /\ acked' = acked \cup {"auth"}
  /\ SendNext(GetHostnameLine) \/ SendNextFails(hostname)
  /\ UNCHANGED <<hostname, conn, stopVars, link, peerVars>>

\* Variant: the next request is not sent.
ReadAckHostnameStops ==
  /\ Receive /\ IsAck("hostname")
  /\ hostname' = Line[4]
  /\ acked' = acked \cup {"hostname"}
  /\ UNCHANGED <<pc, connErr, status, slot, outbox, conn, stopVars, link, peerVars>>

ReadAckHostname ==
  /\ Receive /\ IsAck("hostname")
  /\ hostname' = Line[4]
  /\ acked' = acked \cup {"hostname"}
  /\ SendNext(SetHostLine(Me)) \/ SendNextFails(Line[4])
  /\ UNCHANGED <<conn, stopVars, link, peerVars>>

\* The slot is committed, but fin stays false: the loop reads on.
ReadAckHost ==
  /\ Receive /\ IsAck("host")
  /\ acked' = acked \cup {"host"}
  /\ status' = (Line[4] = Me)
  /\ slot' = [status |-> Line[4] = Me, hostname |-> hostname]
  /\ UNCHANGED <<pc, connErr, conn, hostname, stopVars, link, outbox, peerVars>>

\* Variant: the exchange goes on after a refusal.
ReadRefusalIgnored ==
  /\ Receive /\ Line[1] # Ok
  /\ SendNext(GetHostnameLine) \/ SendNextFails(hostname)
  /\ UNCHANGED <<hostname, acked, conn, stopVars, link, peerVars>>

\* Anything but "+OK" is logged and the loop reads on.
ReadRefusal ==
  /\ Receive /\ Line[1] # Ok
  /\ UNCHANGED <<pc, connErr, conn, status, hostname, slot, acked, stopVars, link,
                 outbox, peerVars>>

\* ReadString returns "" and io.EOF, which is taken for an empty line.
ReadEmptyCounting(count) ==
  /\ pc = "read" /\ conn = "open" /\ link = "eof" /\ inbox = <<>>
  /\ emptyCnt <= EmptyLimit
  /\ emptyCnt' = count
  /\ UNCHANGED <<pc, connErr, conn, status, hostname, slot, acked, stopVars,
                 netVars, peerVars>>

\* Variant: the count starts over.
ReadEmptyForgets == ReadEmptyCounting(0)

ReadEmpty == ReadEmptyCounting(emptyCnt + 1)

\* Too many empty lines: fin with the status of the last exchange.
ForceClose ==
  /\ pc = "read" /\ conn = "open" /\ link = "eof" /\ inbox = <<>>
  /\ emptyCnt > EmptyLimit
  /\ Finish(status, hostname)
  /\ UNCHANGED <<emptyCnt, status, hostname, acked, conn, stopVars, netVars,
                 peerVars>>

\* Variant: the slot is left as it was.
ReadErrorKeepsSlot ==
  /\ pc = "read"
  /\ conn = "closed" \/ (link = "reset" /\ inbox = <<>>)
  /\ status' = FALSE /\ connErr' = TRUE
  /\ pc' = "check"
  /\ UNCHANGED <<emptyCnt, hostname, slot, acked, conn, stopVars, netVars, peerVars>>

\* Any other error of ReadString.
ReadError ==
  /\ pc = "read"
  /\ conn = "closed" \/ (link = "reset" /\ inbox = <<>>)
  /\ status' = FALSE
  /\ Finish(FALSE, hostname)
  /\ UNCHANGED <<emptyCnt, hostname, acked, conn, stopVars, netVars, peerVars>>

Dial    == DialOk \/ DialFail
Auth    == SendAuth \/ SendAuthFails
Read    == ReadAckAuth \/ ReadAckHostname \/ ReadAckHost \/ ReadRefusal
             \/ ReadEmpty \/ ForceClose \/ ReadError
Routine == Check \/ Dial \/ Auth \/ Read

-----------------------------------------------------------------------------
(***************************************************************************)
(* Stop and Reload close the channel; the goroutine started by the routine *)
(* then takes its four steps, in any interleaving with the routine: exit,  *)
(* connError, the test of c.conn, and c.conn.Close().                      *)
(***************************************************************************)
RequestStop ==
  /\ ~stopReq
  /\ stopReq' = TRUE
  /\ UNCHANGED <<routineVars, connErr, conn, stopper, exit, netVars, peerVars>>

StopperExit ==
  /\ stopper = "wait" /\ stopReq
  /\ exit' = TRUE
  /\ stopper' = "mark"
  /\ UNCHANGED <<routineVars, connErr, conn, stopReq, netVars, peerVars>>

StopperMark ==
  /\ stopper = "mark"
  /\ connErr' = TRUE
  /\ stopper' = "test"
  /\ UNCHANGED <<routineVars, conn, stopReq, exit, netVars, peerVars>>

StopperTest ==
  /\ stopper = "test"
  /\ stopper' = IF conn # "nil" THEN "close" ELSE "end"
  /\ UNCHANGED <<routineVars, connErr, conn, stopReq, exit, netVars, peerVars>>

StopperClose ==
  /\ stopper = "close" /\ conn # "nil"
  /\ conn' = "closed"
  /\ link' = "none" /\ outbox' = <<>> /\ inbox' = <<>>
  /\ stopper' = "end"
  /\ UNCHANGED <<routineVars, connErr, stopReq, exit, peerVars>>

\* A dial that failed after the test has left c.conn nil: the call panics
\* and takes the whole daemon with it.
StopperPanic ==
  /\ stopper = "close" /\ conn = "nil"
  /\ pc' = "panic"
  /\ stopper' = "end"
  /\ UNCHANGED <<emptyCnt, status, hostname, slot, acked, connErr, conn, stopReq,
                 exit, netVars, peerVars>>

Stopper == StopperExit \/ StopperMark \/ StopperTest \/ StopperClose
             \/ StopperPanic

-----------------------------------------------------------------------------
(***************************************************************************)
(* The neighbour's daemon: listen reads a line, OnNewMessage answers it.   *)
(***************************************************************************)
PeerReply ==
  /\ peerUp /\ link = "up" /\ outbox # <<>>
  /\ inbox' = Append(inbox, Reply(peerCode, Peer, Head(outbox)))
  /\ outbox' = Tail(outbox)
  /\ UNCHANGED <<routineVars, connErr, conn, stopVars, link, peerVars>>

PeerStart ==
  /\ ~peerUp
  /\ peerUp' = TRUE
  /\ UNCHANGED <<routineVars, connErr, conn, stopVars, netVars, peerCode>>

\* The link is lost in the way it is; what was not delivered is gone.
Lose(how) ==
  /\ outbox' = <<>>
  /\ IF link = "up"
     THEN link' = how /\ inbox' \in (IF how = "reset" THEN {inbox, <<>>} ELSE {inbox})
     ELSE UNCHANGED <<link, inbox>>

\* The daemon stops or is killed: the kernel sends FIN, or RST if lines of
\* this side were still unread.
PeerExit ==
  /\ peerUp
  /\ \E how \in {"eof", "reset"} :
       /\ how = "eof"   => "exit" \in Faults
       /\ how = "reset" => "reset" \in Faults
       /\ Lose(how)
  /\ peerUp' = FALSE
  /\ UNCHANGED <<routineVars, connErr, conn, stopVars, peerCode>>

\* The host loses power: nothing is sent, until keepalive probes time out.
PeerVanish ==
  /\ "vanish" \in Faults /\ peerUp
  /\ Lose("dead")
  /\ peerUp' = FALSE
  /\ UNCHANGED <<routineVars, connErr, conn, stopVars, peerCode>>

Keepalive ==
  /\ link = "dead"
  /\ link' = "reset"
  /\ UNCHANGED <<routineVars, connErr, conn, stopVars, outbox, inbox, peerVars>>

\* The network drops the connection between two running daemons.
LinkDrop ==
  /\ "drop" \in Faults /\ link = "up"
  /\ Lose("reset")
  /\ UNCHANGED <<routineVars, connErr, conn, stopVars, peerVars>>

\* The neighbour reloads a configuration with another Security.Code; its
\* open connections stay open.
PeerReconfigure ==
  /\ "recode" \in Faults
  /\ peerCode' \in PeerCodes \ {peerCode}
  /\ UNCHANGED <<routineVars, connErr, conn, stopVars, netVars, peerUp>>

PeerStep == PeerReply \/ PeerStart \/ PeerExit \/ PeerVanish \/ PeerReconfigure
Network  == Keepalive \/ LinkDrop

Next == Routine \/ RequestStop \/ Stopper \/ PeerStep \/ Network

Spec == Init /\ [][Next]_vars

(***************************************************************************)
(* Goroutines are scheduled, the neighbour answers what it has read, and a *)
(* dial that is repeated for ever while the neighbour runs succeeds.       *)
(* Nothing is assumed of stops, faults and restarts.                       *)
(***************************************************************************)
Fairness ==
  /\ WF_vars(Check) /\ WF_vars(Dial) /\ WF_vars(Auth) /\ WF_vars(Read)
  /\ WF_vars(Stopper)
  /\ SF_vars(DialOk)
  /\ WF_vars(PeerReply)
  /\ WF_vars(Keepalive)

FairSpec == Spec /\ Fairness

-----------------------------------------------------------------------------
(***************************************************************************)
(* Properties.                                                             *)
(***************************************************************************)
Exchange == {"auth", "hostname", "host"}

Slots == [status : BOOLEAN, hostname : {Unknown, Peer}]

\* Every variable of the routine, its stopper, the connection and the
\* neighbour keeps to its values; channels hold only lines of the protocol.
TypeOK ==
  /\ pc \in {"check", "dial", "auth", "read", "done", "panic"}
  /\ connErr \in BOOLEAN /\ conn \in {"nil", "open", "closed"}
  /\ emptyCnt \in 0 .. EmptyLimit + 1
  /\ status \in BOOLEAN /\ hostname \in {Unknown, Peer} /\ slot \in Slots
  /\ stopReq \in BOOLEAN /\ exit \in BOOLEAN
  /\ stopper \in {"wait", "mark", "test", "close", "end"}
  /\ link \in {"none", "up", "eof", "dead", "reset"}
  /\ outbox \in Seq(RequestLines) /\ inbox \in Seq(ReplyLines)
  /\ peerUp \in BOOLEAN /\ peerCode \in PeerCodes
  /\ acked \subseteq Exchange

\* The exchange is stop-and-wait: at most one line is under way, in either
\* direction, so a reply always belongs to the last request (runNeighbour
\* matches replies to requests by nothing but their order).
StopAndWait == Len(outbox) + Len(inbox) <= 1

\* As long as the neighbour never closes a connection in an orderly way, the
\* slot says "up" only while the routine reads on the connection that has just
\* carried the whole exchange: every other way of losing it takes the verdict
\* back.
NoOrderlyClose   == link # "eof"
UpMeansHandshake == slot.status => pc = "read" /\ acked = Exchange
UpIsCurrent      == []NoOrderlyClose => []UpMeansHandshake

\* An "up" verdict comes with the hostname the neighbour gave of itself,
\* also when it outlives the connection that brought it.
UpHasName == slot.status => slot.hostname = Peer

\* The exchange never stalls half-way: once the first request is accepted,
\* a live connection with nothing under way has carried all of it.
ExchangeNeverStalls ==
  pc = "read" /\ conn = "open" /\ link = "up" /\ outbox = <<>> /\ inbox = <<>>
    => acked \in {{}, Exchange}

\* A neighbour that stays down for good ends up reported down, and stays so.
DownIsReported == <>[]~peerUp => <>[]~slot.status

\* ... which is so unless it has closed a connection in an orderly way.
LossIsReported == []NoOrderlyClose => DownIsReported

\* A neighbour that accepts the code and ends up running ends up reported up,
\* unless this side is stopped or the network goes on breaking connections.
UpIsReported ==
  [](peerCode = Code) /\ []~stopReq /\ <>[]peerUp /\ <>[][~LinkDrop]_vars
    => <>[]slot.status

\* A connection lost in any way makes the routine leave its reading loop, by
\* the read error or by the count of empty lines.
LossIsNoticed ==
  pc = "read" /\ conn = "open" /\ link \in {"eof", "dead", "reset"} ~> pc # "read"

\* Once its stopper has run and left no open connection behind, a routine
\* that is not in the middle of a dial confirms the stop.
StopAnsweredOutsideDial ==
  stopper = "end" /\ conn # "open" /\ pc # "dial" ~> pc \in {"done", "panic"}

(***************************************************************************)
(* The promise of the routine, AtellaWatch: a request is granted once its  *)
(* ack is on the way back, and a verdict is stale once the routine has     *)
(* left the connection that brought it.                                    *)
(***************************************************************************)
Granted == acked \cup {inbox[k][3] : k \in {m \in DOMAIN inbox : inbox[m][1] = Ok}}
Verdict == IF ~slot.status THEN "down"
           ELSE IF pc = "read" /\ acked = Exchange THEN "up" ELSE "stale"

Watch == INSTANCE AtellaWatch WITH
  answered <- Granted, parted <- link = "eof", verdict <- Verdict

\* Whatever the faults and whenever the stop, a slot is raised only by a neighbour
\* that has granted the whole exchange, code included, on the present connection,
\* and stays up without it only after an orderly close.
KeepsWatch == Watch!Spec

=============================================================================
