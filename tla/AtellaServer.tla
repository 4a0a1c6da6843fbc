----------------------------- MODULE AtellaServer -----------------------------
(***************************************************************************)
(* The server of a daemon (AtellaServer.go, AtellaMaster.go): the accept   *)
(* loop, one session per connection with the goroutine that stops it, the  *)
(* master routine, Stop, and MasterVector, which the sessions share with   *)
(* the client of the same daemon.                                          *)
(*                                                                         *)
(* The other daemons appear as what they write: their master routine       *)
(* (AtellaMasterLink) sends the status vector again and again, over one    *)
(* connection after the other.  Of a command this module keeps its effect  *)
(* on the session and on MasterVector; AtellaProtocol has what is answered.*)
(***************************************************************************)
EXTENDS Naturals, Sequences

CONSTANTS
  Sessions,    \* connections that may be made
  Hosts,       \* the other daemons
  Me,          \* Agent.Hostname of this daemon
  NoSession,   \* no connection
  IsMaster,    \* Agent.Master
  HasMasters,  \* whether the configuration lists masters (CurrentMasterServerIndex)
  MaxVersion,  \* bound on the changes of each status vector
  Changing,    \* bound: the daemons whose status vector changes
  Capacity,    \* bound on the lines under way on a connection
  EmptyLimit,  \* empty lines tolerated in a row (5 in the code)
  Stops,       \* whether the daemon may be told to stop
  Commands     \* what is sent beside vectors: see Line

ASSUME NamesAssumption == Me \notin Hosts /\ NoSession \notin Sessions
ASSUME BoundAssumption ==
  /\ MaxVersion \in Nat /\ Capacity \in Nat \ {0} /\ EmptyLimit \in Nat
  /\ IsMaster \in BOOLEAN /\ HasMasters \in BOOLEAN /\ Stops \in BOOLEAN

Versions == 0 .. MaxVersion
Missing  == MaxVersion + 1      \* no entry in MasterVector
Names    == Hosts \cup {Me}

ASSUME ChangingAssumption == Changing \subseteq Names

(***************************************************************************)
(* A line is a command with the version of a vector: "vector" for set      *)
(* vector, "export" for export master, "quit", "empty", "bare" for get, set*)
(* or auth alone on a line, and "other" for the commands that only reply or*)
(* set variables of the session nobody reads (auth with a code, get and set*)
(* host with theirs, help, and unknown ones).                              *)
(***************************************************************************)
CommandKinds == {"export", "quit", "empty", "bare", "other"}
Line == [cmd : {"vector"} \cup CommandKinds, version : Versions]
NoLine == [cmd |-> "other", version |-> 0]

ASSUME CommandAssumption == Commands \subseteq CommandKinds

VARIABLES
  listener,    \* where Listen stands: "select", "accept", "done"; "dead" after a panic
  master,      \* where MasterServer stands: "start", "init", "run", "done"; "dead"
  interrupt,   \* local variable interrupt of MasterServer
  closeReplyServer, closeReplyMaster,
  stopReq,     \* the channel stopRequest is closed
  pc,          \* where each session stands, from "free" to "ended"
  exit,        \* its local variable exit
  stopper,     \* its goroutine waiting for stopRequest
  closed,      \* its connection is closed by this side
  eof,         \* ... or by the other
  inbox,       \* lines it has not read
  emptyCnt,    \* params.emptyMessageCnt
  line,        \* the line being processed, else NoLine
  mutexW, mutexR,  \* MasterVectorMutex: its writer and its readers
  masterVector,    \* version of each host's entry in MasterVector
  owner,       \* which host opened a session
  current,     \* the connection each host writes to
  latest       \* version of the status vector of each host

serverVars  == <<listener, master, interrupt, closeReplyServer, closeReplyMaster, stopReq>>
sessionVars == <<pc, exit, stopper, closed, emptyCnt, line>>
wireVars    == <<eof, inbox, owner, current, latest>>
mapVars     == <<mutexW, mutexR, masterVector>>
vars == <<serverVars, sessionVars, wireVars, mapVars>>

(***************************************************************************)
(* Init: New has made the server, main has started Listen, MasterServer    *)
(* and the client.                                                         *)
(***************************************************************************)
Init ==
  /\ listener = "select" /\ master = "start" /\ interrupt = FALSE
  /\ closeReplyServer = FALSE /\ closeReplyMaster = FALSE /\ stopReq = FALSE
  /\ pc = [s \in Sessions |-> "free"]
  /\ exit = [s \in Sessions |-> FALSE]
  /\ stopper = [s \in Sessions |-> "none"]
  /\ closed = [s \in Sessions |-> FALSE] /\ eof = [s \in Sessions |-> FALSE]
  /\ inbox = [s \in Sessions |-> <<>>]
  /\ emptyCnt = [s \in Sessions |-> 0]
  /\ line = [s \in Sessions |-> NoLine]
  /\ mutexW = NoSession /\ mutexR = {}
  /\ masterVector = [h \in Names |-> Missing]
  /\ owner \in [Sessions -> Hosts]
  /\ current = [h \in Hosts |-> NoSession]
  /\ latest = [h \in Names |-> 0]

-----------------------------------------------------------------------------
(***************************************************************************)
(* Listen: look at stopRequest, then Accept for at most a second.          *)
(***************************************************************************)
ListenTold(stop) ==
  /\ listener = "select"
  /\ listener' = IF stop THEN "done" ELSE "accept"
  /\ closeReplyServer' = stop
  /\ UNCHANGED <<master, interrupt, closeReplyMaster, stopReq, sessionVars,
                 wireVars, mapVars>>

\* Variant: the accept loop does not look at stopRequest.
ListenDeaf == ListenTold(FALSE)

Listen == ListenTold(stopReq)

Accept(s) ==
  /\ listener = "accept" /\ pc[s] = "waiting"
  /\ pc' = [pc EXCEPT ![s] = "new"]
  /\ listener' = "select"
  /\ UNCHANGED <<master, interrupt, closeReplyServer, closeReplyMaster, stopReq,
                 exit, stopper, closed, emptyCnt, line, wireVars, mapVars>>

\* The deadline passes, or accepting fails.
AcceptNothing ==
  /\ listener = "accept"
  /\ listener' = "select"
  /\ UNCHANGED <<master, interrupt, closeReplyServer, closeReplyMaster, stopReq,
                 sessionVars, wireVars, mapVars>>

-----------------------------------------------------------------------------
(***************************************************************************)
(* MasterServer.  It makes a new MasterVector when it starts, which may be *)
(* after the first sessions, then waits to be stopped.                     *)
(***************************************************************************)
MasterStart ==
  /\ master = "start"
  /\ master' = IF IsMaster THEN "init" ELSE "done"
  /\ closeReplyMaster' = ~IsMaster
  /\ UNCHANGED <<listener, interrupt, closeReplyServer, stopReq, sessionVars,
                 wireVars, mapVars>>

MasterInit ==
  /\ master = "init" /\ mutexW = NoSession /\ mutexR = {}
  /\ masterVector' = [h \in Names |-> Missing]
  /\ master' = "run"
  /\ UNCHANGED <<listener, interrupt, closeReplyServer, closeReplyMaster, stopReq,
                 sessionVars, wireVars, mutexW, mutexR>>

MasterInterrupt ==
  /\ master \in {"init", "run"} /\ stopReq /\ ~interrupt
  /\ interrupt' = TRUE
  /\ UNCHANGED <<listener, master, closeReplyServer, closeReplyMaster, stopReq,
                 sessionVars, wireVars, mapVars>>

MasterEnd ==
  /\ master = "run" /\ interrupt
  /\ master' = "done" /\ closeReplyMaster' = TRUE
  /\ UNCHANGED <<listener, interrupt, closeReplyServer, stopReq, sessionVars,
                 wireVars, mapVars>>

\* Stop, called by the signal handler; it then waits for both replies.
Stop ==
  /\ Stops /\ ~stopReq /\ listener # "dead"
  /\ stopReq' = TRUE
  /\ UNCHANGED <<listener, master, interrupt, closeReplyServer, closeReplyMaster,
                 sessionVars, wireVars, mapVars>>

-----------------------------------------------------------------------------
(***************************************************************************)
(* A session: OnNewClient takes an id, which only names the session in the *)
(* log, and listen starts the goroutine that waits for stopRequest.        *)
(***************************************************************************)
SessionBegin(s) ==
  /\ pc[s] = "new"
  /\ pc' = [pc EXCEPT ![s] = "test"]
  /\ stopper' = [stopper EXCEPT ![s] = "wait"]
  /\ UNCHANGED <<serverVars, exit, closed, emptyCnt, line, wireVars, mapVars>>

\* Close closes the connection; the session is over.
End(s) ==
  /\ pc' = [pc EXCEPT ![s] = "ended"]
  /\ closed' = [closed EXCEPT ![s] = TRUE]

SessionTest(s) ==
  /\ pc[s] = "test"
  /\ IF exit[s] THEN End(s)
                ELSE pc' = [pc EXCEPT ![s] = "read"] /\ UNCHANGED closed
  /\ UNCHANGED <<serverVars, exit, stopper, emptyCnt, line, wireVars, mapVars>>

(***************************************************************************)
(* ReadString returns a line, also one it had buffered before the          *)
(* connection was closed, and OnNewMessage starts on it.                   *)
(***************************************************************************)
Read(s) ==
  /\ pc[s] = "read" /\ inbox[s] # <<>>
  /\ inbox' = [inbox EXCEPT ![s] = Tail(@)]

ReadEmpty(s) ==
  /\ Read(s) /\ Head(inbox[s]).cmd = "empty"
  /\ IF emptyCnt[s] > EmptyLimit
     THEN End(s) /\ UNCHANGED <<emptyCnt, exit>>
     ELSE /\ emptyCnt' = [emptyCnt EXCEPT ![s] = @ + 1]
          /\ exit' = [exit EXCEPT ![s] = FALSE]
          /\ pc' = [pc EXCEPT ![s] = "test"]
          /\ UNCHANGED closed
  /\ UNCHANGED <<serverVars, stopper, line, eof, owner, current, latest, mapVars>>

\* A command that is only answered; quit too is, before the session ends.
ReadAnswered(s) ==
  /\ Read(s) /\ Head(inbox[s]).cmd \in {"quit", "other"}
  /\ emptyCnt' = [emptyCnt EXCEPT ![s] = 0]
  /\ line' = [line EXCEPT ![s] = Head(inbox[s])]
  /\ pc' = [pc EXCEPT ![s] = "reply"]
  /\ UNCHANGED <<serverVars, exit, stopper, closed, eof, owner, current,
                 latest, mapVars>>

\* A get, set or auth alone on its line: msgMap[1] is out of range, and the panic
\* of a session ends the daemon, with every connection and all it had at work.
ReadBare(s) ==
  /\ pc[s] = "read" /\ inbox[s] # <<>> /\ Head(inbox[s]).cmd = "bare"
  /\ listener' = "dead" /\ master' = "dead"
  /\ pc' = [t \in Sessions |-> IF pc[t] \in {"free", "waiting"} THEN pc[t] ELSE "ended"]
  /\ stopper' = [t \in Sessions |-> IF stopper[t] = "none" THEN "none" ELSE "end"]
  /\ closed' = [t \in Sessions |-> TRUE]
  /\ inbox' = [t \in Sessions |-> <<>>]
  /\ UNCHANGED <<interrupt, closeReplyServer, closeReplyMaster, stopReq, exit,
                 emptyCnt, line, eof, owner, current, latest, mapVars>>

ReadMapCommand(s) ==
  /\ Read(s) /\ Head(inbox[s]).cmd \in {"vector", "export"}
  /\ emptyCnt' = [emptyCnt EXCEPT ![s] = 0]
  /\ line' = [line EXCEPT ![s] = Head(inbox[s])]
  /\ pc' = [pc EXCEPT ![s] = "lock"]
  /\ UNCHANGED <<serverVars, exit, stopper, closed, eof, owner, current,
                 latest, mapVars>>

\* MasterVectorMutex is taken for writing (set vector) or reading (export).
LockWhen(s, writable) ==
  /\ pc[s] = "lock" /\ mutexW = NoSession
  /\ IF line[s].cmd = "vector"
     THEN writable /\ mutexW' = s /\ UNCHANGED mutexR
     ELSE mutexR' = mutexR \cup {s} /\ UNCHANGED mutexW
  /\ pc' = [pc EXCEPT ![s] = "map"]
  /\ UNCHANGED <<serverVars, exit, stopper, closed, emptyCnt, line, wireVars,
                 masterVector>>

\* Variant: nobody waits for the readers.
LockNoWait(s) == LockWhen(s, TRUE)

Lock(s) == LockWhen(s, mutexR = {})

StoreVersion(s, version) ==
  /\ pc[s] = "map" /\ mutexW = s
  /\ masterVector' = [masterVector EXCEPT ![owner[s]] = version]
  /\ mutexW' = NoSession
  /\ line' = [line EXCEPT ![s] = NoLine]
  /\ pc' = [pc EXCEPT ![s] = "reply"]
  /\ UNCHANGED <<serverVars, exit, stopper, closed, emptyCnt, wireVars, mutexR>>

\* Variants: only the first vector of a host is stored; the line is kept in one
\* place for all sessions.
StoreFirst(s) ==
  LET old == masterVector[owner[s]] IN StoreVersion(s, IF old = Missing THEN line[s].version ELSE old)
StoreSharedLine(s) == \E t \in Sessions : StoreVersion(s, line[t].version)

Store(s) == StoreVersion(s, line[s].version)

Export(s) ==
  /\ pc[s] = "map" /\ s \in mutexR
  /\ mutexR' = mutexR \ {s}
  /\ line' = [line EXCEPT ![s] = NoLine]
  /\ pc' = [pc EXCEPT ![s] = "reply"]
  /\ UNCHANGED <<serverVars, exit, stopper, closed, emptyCnt, wireVars, mutexW,
                 masterVector>>

\* Send returns: the reply is written, at once or when the peer has read enough, or
\* the connection is closed.  What OnNewMessage returns then overwrites exit.
Reply(s) ==
  /\ pc[s] = "reply"
  /\ exit' = [exit EXCEPT ![s] = line[s].cmd = "quit"]
  /\ line' = [line EXCEPT ![s] = NoLine]
  /\ pc' = [pc EXCEPT ![s] = "test"]
  /\ UNCHANGED <<serverVars, stopper, closed, emptyCnt, wireVars, mapVars>>

\* ReadString fails: the connection is closed, by either side.
ReadError(s) ==
  /\ pc[s] = "read" /\ inbox[s] = <<>> /\ (closed[s] \/ eof[s])
  /\ End(s)
  /\ UNCHANGED <<serverVars, exit, stopper, emptyCnt, line, wireVars, mapVars>>

\* The goroutine of the session that waits for stopRequest: exit, then Close.
\* Lines the session has not buffered are lost.
StopperExit(s) ==
  /\ stopper[s] = "wait" /\ stopReq
  /\ exit' = [exit EXCEPT ![s] = TRUE]
  /\ stopper' = [stopper EXCEPT ![s] = "close"]
  /\ UNCHANGED <<serverVars, pc, closed, emptyCnt, line, wireVars, mapVars>>

\* Variant: the connection is left open.
StopperLeavesOpen(s) ==
  /\ stopper[s] = "close"
  /\ stopper' = [stopper EXCEPT ![s] = "end"]
  /\ UNCHANGED <<serverVars, pc, exit, closed, emptyCnt, line, wireVars, mapVars>>

StopperClose(s) ==
  /\ stopper[s] = "close"
  /\ closed' = [closed EXCEPT ![s] = TRUE]
  /\ \E n \in 0 .. Len(inbox[s]) : inbox' = [inbox EXCEPT ![s] = SubSeq(@, 1, n)]
  /\ stopper' = [stopper EXCEPT ![s] = "end"]
  /\ UNCHANGED <<serverVars, pc, exit, emptyCnt, line, eof, owner, current,
                 latest, mapVars>>

Session(s) ==
  \/ SessionBegin(s) \/ SessionTest(s)
  \/ ReadEmpty(s) \/ ReadAnswered(s) \/ ReadMapCommand(s) \/ ReadError(s)
  \/ Lock(s) \/ Store(s) \/ Export(s) \/ Reply(s)

-----------------------------------------------------------------------------
(***************************************************************************)
(* The client of this daemon, if it is a master, writes its own entry once *)
(* an interval, without MasterVectorMutex, unless its configuration lists  *)
(* no masters: then the routine has returned at once.  The Go runtime ends *)
(* a program in which it catches two such accesses at once; here it never  *)
(* does.                                                                   *)
(***************************************************************************)
Save ==
  /\ IsMaster /\ HasMasters /\ listener # "dead"
  /\ masterVector' = [masterVector EXCEPT ![Me] = latest[Me]]
  /\ UNCHANGED <<serverVars, sessionVars, wireVars, mutexW, mutexR>>

(***************************************************************************)
(* The other daemons.  A host connects, again when its connection broke;   *)
(* what it wrote to the old one may still be under way.                    *)
(***************************************************************************)
Connect(h) ==
  /\ \E s \in Sessions :
       /\ pc[s] = "free" /\ owner[s] = h
       /\ pc' = [pc EXCEPT ![s] = "waiting"]
       /\ current' = [current EXCEPT ![h] = s]
  /\ UNCHANGED <<serverVars, exit, stopper, closed, emptyCnt, line, eof, inbox,
                 owner, latest, mapVars>>

\* The end of an abandoned connection arrives.
Abandoned(s) ==
  /\ pc[s] # "free" /\ current[owner[s]] # s /\ ~eof[s]
  /\ eof' = [eof EXCEPT ![s] = TRUE]
  /\ UNCHANGED <<serverVars, sessionVars, inbox, owner, current, latest, mapVars>>

Write(h, l) ==
  /\ current[h] # NoSession
  /\ LET s == current[h] IN
       /\ ~closed[s] /\ Len(inbox[s]) < Capacity
       /\ inbox' = [inbox EXCEPT ![s] = Append(@, l)]
  /\ UNCHANGED <<serverVars, sessionVars, eof, owner, current, latest, mapVars>>

WriteVector(h)     == Write(h, [cmd |-> "vector", version |-> latest[h]])
WriteCommand(h, c) == Write(h, [cmd |-> c, version |-> 0])

\* A routine of the client (AtellaNeighbour) changes the status vector.
StatusChanges(h) ==
  /\ latest[h] < MaxVersion
  /\ latest' = [latest EXCEPT ![h] = @ + 1]
  /\ UNCHANGED <<serverVars, sessionVars, eof, inbox, owner, current, mapVars>>

Listener   == Listen \/ AcceptNothing \/ \E s \in Sessions : Accept(s)
Master     == MasterStart \/ MasterInit \/ MasterInterrupt \/ MasterEnd
Stopper(s) == StopperExit(s) \/ StopperClose(s)
Others     == \/ \E h \in Hosts : \/ Connect(h) \/ WriteVector(h)
                                  \/ \E c \in Commands : WriteCommand(h, c)
              \/ \E h \in Changing : StatusChanges(h)
              \/ \E s \in Sessions : Abandoned(s)

Next == \/ Listener \/ Master \/ Stop \/ Save \/ Others
        \/ \E s \in Sessions : Session(s) \/ ReadBare(s) \/ Stopper(s)

Spec == Init /\ [][Next]_vars

(***************************************************************************)
(* Goroutines are scheduled, MasterVectorMutex is fair, connections are    *)
(* accepted in the end, and the other daemons connect and write.  The one  *)
(* step of a session that may never come is the end of Send, on a          *)
(* connection that is open at both ends and whose peer does not read.      *)
(***************************************************************************)
Runs(s) == (Session(s) \/ ReadBare(s)) /\ (pc[s] = "reply" => closed[s] \/ eof[s])

Fairness ==
  /\ WF_vars(Listener) /\ WF_vars(Master) /\ SF_vars(MasterInit)
  /\ \A s \in Sessions :
       /\ SF_vars(Accept(s)) /\ SF_vars(Lock(s)) /\ WF_vars(Runs(s)) /\ WF_vars(Stopper(s))
       /\ WF_vars(Abandoned(s))
  /\ \A h \in Hosts : WF_vars(Connect(h)) /\ SF_vars(WriteVector(h))
  /\ WF_vars(Save)

FairSpec == Spec /\ Fairness

-----------------------------------------------------------------------------
(***************************************************************************)
(* Properties.                                                             *)
(***************************************************************************)

\* Every variable keeps to its values.
TypeOK ==
  /\ listener \in {"select", "accept", "done", "dead"}
  /\ master \in {"start", "init", "run", "done", "dead"}
  /\ interrupt \in BOOLEAN /\ stopReq \in BOOLEAN
  /\ closeReplyServer \in BOOLEAN /\ closeReplyMaster \in BOOLEAN
  /\ pc \in [Sessions -> {"free", "waiting", "new", "test", "read", "lock", "map",
                          "reply", "ended"}]
  /\ exit \in [Sessions -> BOOLEAN] /\ stopper \in [Sessions -> {"none", "wait", "close", "end"}]
  /\ closed \in [Sessions -> BOOLEAN] /\ eof \in [Sessions -> BOOLEAN]
  /\ inbox \in [Sessions -> Seq(Line)] /\ line \in [Sessions -> Line]
  /\ emptyCnt \in [Sessions -> 0 .. EmptyLimit + 1]
  /\ mutexW \in Sessions \cup {NoSession} /\ mutexR \subseteq Sessions
  /\ masterVector \in [Names -> Versions \cup {Missing}]
  /\ owner \in [Sessions -> Hosts] /\ current \in [Hosts -> Sessions \cup {NoSession}]
  /\ latest \in [Names -> Versions]

Storing(s)   == pc[s] = "map" /\ line[s].cmd = "vector"
Exporting(s) == pc[s] = "map" /\ line[s].cmd = "export"

\* Sessions never write MasterVector while another session writes or reads it.
SessionsExclude ==
  \A s, t \in Sessions : s # t /\ Storing(s) => ~Storing(t) /\ ~Exporting(t)

\* A stored vector gives way to an older one of the same host only while the
\* host has an abandoned connection the server has not finished with, or when
\* the master routine makes a new map.
OlderOnlyFromAbandoned ==
  [][\A h \in Hosts :
       masterVector'[h] # masterVector[h] /\ masterVector'[h] < masterVector[h]
         /\ masterVector[h] # Missing
       => \E s \in Sessions : /\ owner[s] = h /\ current[h] # s
                              /\ pc[s] \notin {"free", "ended"}]_vars

\* Stop returns: both routines confirm, unless a malformed command ends the daemon.
StopReturns == stopReq ~> (closeReplyServer /\ closeReplyMaster) \/ listener = "dead"

\* Once stopped, every session that was accepted ends, even if the value
\* OnNewMessage returns has overwritten the exit flag or its peer reads no replies.
SessionsEnd ==
  \A s \in Sessions : stopReq /\ pc[s] \in {"read", "test", "lock", "map", "reply"} ~> pc[s] = "ended"

\* MasterVector ends up with the vector each host has for good, whatever old
\* connections and the start of the master routine did to it before, provided the
\* daemon goes on and no session waits for ever for its peer to read a reply (of
\* which AtellaMasterLink shows that it happens).  A master whose configuration
\* lists masters has its own entry there too.
StoredInTheEnd ==
  []~stopReq /\ [](listener # "dead") /\ (\A s \in Sessions : []<>(pc[s] # "reply"))
    => \A h \in Names : h \in Hosts \/ (IsMaster /\ HasMasters) => <>[](masterVector[h] = latest[h])

-----------------------------------------------------------------------------
(***************************************************************************)
(* MasterVector as what a master promises of it, AtellaMasterVector.       *)
(***************************************************************************)

\* The versions under way in a session: those not read, and the one at hand.
Vectors(s) == {inbox[s][k].version : k \in {m \in DOMAIN inbox[s] : inbox[s][m].cmd = "vector"}}
Held(s)    == IF line[s].cmd = "vector" THEN {line[s].version} ELSE {}
Pending(s) == Vectors(s) \cup Held(s)

\* A session that is over delivers nothing any more.
UnderWay(s) == IF pc[s] = "ended" THEN {} ELSE Pending(s)

Register == INSTANCE AtellaMasterVector WITH
  Connections  <- Sessions,
  NoConnection <- NoSession,
  used     <- {s \in Sessions : pc[s] # "free"},
  cut      <- {s \in Sessions : closed[s]},
  underWay <- [s \in Sessions |-> UnderWay(s)],
  stored   <- masterVector,
  made     <- IsMaster /\ master \in {"run", "done", "dead"}

\* The server keeps MasterVector as promised: whatever the sessions interleave,
\* each connection of a host delivers all its vectors, in order, until it is closed.
KeepsRegister == Register!Spec

=============================================================================
