------------------------------ MODULE AtellaDaemon ------------------------------
(***************************************************************************)
(* The daemon as a process: main and the handler of signals in             *)
(* cmd/atella/atella.go around the client of AtellaClientLife, with the    *)
(* files a hangup loads and the index of the current master, which a load  *)
(* may leave outside the list while a routine goes round it.               *)
(*                                                                         *)
(* Every panic ends the process.  What Send and server.Stop do is in       *)
(* AtellaSpool and AtellaServer: here server.Stop returns, and Send does   *)
(* or does not.                                                            *)
(***************************************************************************)
EXTENDS AtellaClientLife, Integers, Sequences

CONSTANTS
  Configurations,  \* what the files may say: [hosts, master], the number of
                   \* MasterServers.Hosts and Agent.Master
  Broken,          \* files that do not load
  MaxEdits         \* bound on the changes of the files

ASSUME ConfigurationAssumption ==
  /\ Configurations \subseteq [hosts : Nat, master : BOOLEAN]
  /\ Broken \notin Configurations
ASSUME EditAssumption   == MaxEdits \in Nat
ASSUME MastersAssumption == MasterLists = BOOLEAN

Signals == {"hangup", "interrupt", "send"}
Empty   == "empty"

VARIABLES
  main,     \* how far main is in Order
  queue,    \* the channel c of signals, which holds one
  task,     \* what the handler does
  disk,     \* what the files say
  conf,     \* what the configuration in memory says
  cur,      \* CurrentMasterServerIndex
  sweep,    \* where the master routine of each generation stands in its dials
  nilConn,  \* c.master.conn is nil
  ended,    \* why the process has ended, or "no"
  edits,    \* changes of the files so far
  loaded,   \* history: their number when the files were loaded
  asked     \* history: ... when a hangup was last accepted

daemonVars == <<main, queue, task, disk, conf, cur, sweep, nilConn, ended, edits, loaded, asked>>
allVars    == <<vars, daemonVars>>

\* main: each name is what it does next.
Order == <<"load", "hup", "int", "usr", "handle", "server", "client", "run", "sender", "stuck">>
At(what)   == Order[main] = what
Past(what) == \E k \in 1 .. main - 1 : Order[k] = what

DaemonInit ==
  /\ Init
  /\ main = 1 /\ queue = Empty /\ task = "none"
  /\ disk \in Configurations
  /\ conf = [hosts |-> 0, master |-> FALSE] /\ cur = 0
  /\ sweep = [g \in Generations |-> "rest"] /\ nilConn = TRUE
  /\ ended = "no" /\ edits = 0 /\ loaded = 0 /\ asked = 0

-----------------------------------------------------------------------------
(***************************************************************************)
(* Files.                                                                  *)
(***************************************************************************)
Edit ==
  /\ edits < MaxEdits
  /\ disk' \in (Configurations \cup {Broken}) \ {disk} /\ edits' = edits + 1
  /\ UNCHANGED <<vars, main, queue, task, conf, cur, sweep, nilConn, ended, loaded, asked>>

\* LoadConfig and LoadDirectory: an error ends the process.
Load ==
  /\ IF disk = Broken THEN ended' = "broken file" /\ UNCHANGED <<conf, loaded>>
                      ELSE conf' = disk /\ loaded' = edits /\ UNCHANGED ended
  /\ UNCHANGED <<vars, queue, disk, cur, sweep, nilConn, edits, asked>>

-----------------------------------------------------------------------------
(***************************************************************************)
(* main.                                                                   *)
(***************************************************************************)
MainLoad == At("load") /\ main' = main + 1 /\ Load /\ UNCHANGED task

\* The calls of Notify (SIGUSR1 and SIGUSR2 are one signal here: the handler does
\* the same for both), New of the server and the start of its
\* routines, and the call of Run.
MainGoesOn ==
  /\ \E what \in {"hup", "int", "usr", "server", "run"} : At(what)
  /\ main' = main + 1
  /\ UNCHANGED <<vars, queue, task, disk, conf, cur, sweep, nilConn, ended, edits, loaded, asked>>

MainHandle ==
  /\ At("handle")
  /\ main' = main + 1 /\ task' = "wait"
  /\ UNCHANGED <<vars, queue, disk, conf, cur, sweep, nilConn, ended, edits, loaded, asked>>

\* init: the index is left alone in a master.
InitClient ==
  /\ Restart
  /\ cur' = IF conf.hosts = 0 THEN -1 ELSE IF conf.master THEN cur ELSE 0
  /\ UNCHANGED <<queue, disk, conf, sweep, nilConn, ended, edits, loaded, asked>>

MainClient == At("client") /\ gen = 0 /\ InitClient /\ main' = main + 1 /\ UNCHANGED task

\* Sender calls Send, which on an empty file (Channels.go:123), or on a channel
\* that does not answer, never returns.  That shows when it is asked to stop.
SenderSticks ==
  /\ At("sender") /\ task = "sender"
  /\ main' = main + 1
  /\ UNCHANGED <<vars, queue, task, disk, conf, cur, sweep, nilConn, ended, edits, loaded, asked>>

\* Sender returns when StopSender asks; main returns, or the handler exits.
SenderStops ==
  /\ At("sender") /\ task = "sender"
  /\ ended' = "interrupt"
  /\ UNCHANGED <<vars, main, queue, task, disk, conf, cur, sweep, nilConn, edits, loaded, asked>>

-----------------------------------------------------------------------------
(***************************************************************************)
(* A signal arrives.  Before its Notify a hangup or an interrupt ends the  *)
(* process and the others are ignored; afterwards it is put into the       *)
(* channel, or dropped if that is full.                                    *)
(***************************************************************************)
Caught(sig) == CASE sig = "hangup"    -> Past("hup")
                 [] sig = "interrupt" -> Past("int")
                 [] sig = "send"      -> Past("usr")

\* Bound: no more hangups than reloads the model has generations for.
Reloading  == IF task \in {"load", "reload"} THEN 1 ELSE 0
ReloadLeft == gen + Reloading + (IF gen = 0 THEN 1 ELSE 0) <= MaxReloads

SignalEarly(sig) ==
  /\ ~Caught(sig) /\ sig # "send"
  /\ ended' = "signal"
  /\ UNCHANGED <<vars, main, queue, task, disk, conf, cur, sweep, nilConn, edits, loaded, asked>>

\* A hangup that finds another one waiting is as good as accepted.
SignalInto(room, sig) ==
  /\ Caught(sig)
  /\ sig = "hangup" => ReloadLeft
  /\ queue' = IF room THEN sig ELSE queue
  /\ asked' = IF sig = "hangup" /\ queue \in {Empty, "hangup"} THEN edits ELSE asked
  /\ UNCHANGED <<vars, main, task, disk, conf, cur, sweep, nilConn, ended, edits, loaded>>

\* Variant: a channel without a buffer.
SignalUnbuffered(sig) == SignalInto(queue = Empty /\ task = "wait", sig)

Signal(sig) == SignalInto(queue = Empty, sig)

-----------------------------------------------------------------------------
(***************************************************************************)
(* The handler takes one signal after the other.                           *)
(***************************************************************************)
Take ==
  /\ task = "wait" /\ queue # Empty
  /\ task' = CASE queue = "hangup" -> "load" [] queue = "interrupt" -> "server" [] OTHER -> "send"
  /\ queue' = Empty
  /\ UNCHANGED <<vars, main, disk, conf, cur, sweep, nilConn, ended, edits, loaded, asked>>

\* Send returns, or it does not.
HandlerSends(next) ==
  /\ task = "send" /\ task' = next
  /\ UNCHANGED <<vars, main, queue, disk, conf, cur, sweep, nilConn, ended, edits, loaded, asked>>

HandlerSent   == HandlerSends("wait")
HandlerSticks == HandlerSends("stuck")

HandlerLoad == task = "load" /\ task' = "reload" /\ Load /\ UNCHANGED main

\* server or client is still nil when the handler uses it.
HandlerNil ==
  /\ \/ task = "server" /\ ~Past("server")
     \/ task \in {"reload", "client"} /\ ~Past("client")
  /\ ended' = "nil"
  /\ UNCHANGED <<vars, main, queue, task, disk, conf, cur, sweep, nilConn, edits, loaded, asked>>

HandlerServer ==
  /\ task = "server" /\ Past("server")
  /\ task' = "client"
  /\ UNCHANGED <<vars, main, queue, disk, conf, cur, sweep, nilConn, ended, edits, loaded, asked>>

\* client.Reload and client.Stop, in the steps of AtellaClientLife.
ClientReload == task = "reload" /\ Past("client") /\ Reload /\ UNCHANGED daemonVars

ClientConfirm == Confirm /\ UNCHANGED daemonVars

ClientRestart == task = "reload" /\ gen > 0 /\ InitClient /\ task' = "wait" /\ UNCHANGED main

ClientStop == task = "client" /\ Past("client") /\ Stop /\ UNCHANGED daemonVars

ClientStopped ==
  /\ Stopped /\ task' = "sender"
  /\ UNCHANGED <<main, queue, disk, conf, cur, sweep, nilConn, ended, edits, loaded, asked>>

-----------------------------------------------------------------------------
(***************************************************************************)
(* The routines of the client.  Those of the first generation start with   *)
(* Run; a master routine ends outside its loop of dials.                   *)
(***************************************************************************)
Routine(g, r) ==
  /\ \/ BeginWith(cur >= 0, g, r) /\ (g = 1 => Past("run"))
     \/ StopperBegin(g, r) \/ StopperExit(g, r)
     \/ Reply(g, r) /\ (r = Master => sweep[g] = "rest")
  /\ UNCHANGED daemonVars

Neighbour(g, n) == (Undone(g, n) \/ LateReply(g, n)) /\ UNCHANGED daemonVars

InSweep(g, from, to) ==
  /\ routine[g][Master] = "run" /\ sweep[g] = from
  /\ sweep' = [sweep EXCEPT ![g] = to]
  /\ UNCHANGED <<vars, main, queue, task, disk, conf, edits, loaded, asked>>

InList == cur \in 0 .. conf.hosts - 1

\* The connection is missing or broken; a master never looks.
SweepBegin(g) ==
  /\ ~conf.master /\ ~exit[g][Master]
  /\ InSweep(g, "rest", "dial")
  /\ UNCHANGED <<cur, nilConn, ended>>

\* Variant: the loop of dials does not look at exit.
PickDeaf(g) == InList /\ InSweep(g, "dial", "dialling") /\ UNCHANGED <<cur, nilConn, ended>>

Pick(g) ==
  /\ ~exit[g][Master] /\ InList
  /\ InSweep(g, "dial", "dialling") /\ UNCHANGED <<cur, nilConn, ended>>

PickPanic(g) ==
  /\ ~exit[g][Master] /\ ~InList
  /\ InSweep(g, "dial", "dial") /\ ended' = "index" /\ UNCHANGED <<cur, nilConn>>

\* A stop in the loop of dials: the routine writes, to nil after a failed dial.
SweepStopped(g) ==
  /\ exit[g][Master]
  /\ InSweep(g, "dial", "rest")
  /\ ended' = IF nilConn THEN "write" ELSE ended
  /\ UNCHANGED <<cur, nilConn>>

Dialled(g) == InSweep(g, "dialling", "rest") /\ nilConn' = FALSE /\ UNCHANGED <<cur, ended>>

\* The index is stored before the remainder is taken and stored again.
DialFailed(g) ==
  /\ InSweep(g, "dialling", "wrap")
  /\ cur' = cur + 1 /\ nilConn' = TRUE /\ UNCHANGED ended

\* Go's remainder has the sign of its left operand.
Rem(a, b) == IF a < 0 THEN -((-a) % b) ELSE a % b

\* Variant: the remainder is not taken.
WrapNot(g) == InSweep(g, "wrap", "dial") /\ UNCHANGED <<cur, nilConn, ended>>

Wrap(g) ==
  /\ InSweep(g, "wrap", "dial")
  /\ IF conf.hosts = 0 THEN ended' = "index" /\ UNCHANGED cur
                       ELSE cur' = Rem(cur, conf.hosts) /\ UNCHANGED ended
  /\ UNCHANGED nilConn

Sweep(g) == SweepBegin(g) \/ Pick(g) \/ PickPanic(g) \/ SweepStopped(g) \/ Dialled(g)
              \/ DialFailed(g) \/ Wrap(g)

-----------------------------------------------------------------------------
Main == MainLoad \/ MainGoesOn \/ MainHandle \/ MainClient \/ SenderStops
Handle == Take \/ HandlerSent \/ HandlerLoad \/ HandlerNil \/ HandlerServer
Client == ClientReload \/ ClientConfirm \/ ClientRestart \/ ClientStop \/ ClientStopped

SomeRoutine   == \E g \in Generations, r \in Routines : Routine(g, r)
SomeNeighbour == \E g \in Generations, n \in Neighbours : Neighbour(g, n)

Running == ended = "no"

DaemonNext ==
  /\ Running
  /\ \/ Main \/ Handle \/ Client \/ Edit \/ SenderSticks \/ HandlerSticks
     \/ \E sig \in Signals : SignalEarly(sig) \/ Signal(sig)
     \/ SomeRoutine \/ SomeNeighbour
     \/ \E g \in Generations : Sweep(g)

DaemonSpec == DaemonInit /\ [][DaemonNext]_allVars

\* Goroutines are scheduled.  Main, the client and the starts and stops of
\* routines take finitely many steps, so one conjunct does for all of them.
\* Nothing makes a Send that is stuck return, or a connection go down.
DaemonFairness ==
  /\ WF_allVars(Running /\ (Main \/ Client \/ SomeRoutine))
  /\ WF_allVars(Running /\ Handle)
  /\ \A g \in Generations : WF_allVars(Running /\ Sweep(g))

DaemonFairSpec == DaemonSpec /\ DaemonFairness

-----------------------------------------------------------------------------
(***************************************************************************)
(* Properties.                                                             *)
(***************************************************************************)

DaemonValues ==
  /\ main \in DOMAIN Order /\ queue \in Signals \cup {Empty}
  /\ task \in {"none", "wait", "load", "reload", "server", "client", "sender", "send", "stuck"}
  /\ disk \in Configurations \cup {Broken} /\ conf \in [hosts : Nat, master : BOOLEAN]
  /\ cur \in Int /\ sweep \in [Generations -> {"rest", "dial", "dialling", "wrap"}]
  /\ nilConn \in BOOLEAN
  /\ ended \in {"no", "interrupt", "broken file", "signal", "nil", "index", "write"}
  /\ edits \in 0 .. MaxEdits /\ loaded \in 0 .. MaxEdits /\ asked \in 0 .. MaxEdits

\* Every variable keeps to its values.
DaemonTypeOK == TypeOK /\ DaemonValues

\* The handler waits: for a Send of its own, for the sender in a Send, or in
\* Reload or Stop for a routine that cannot reply, or not as long as it has its
\* connection.
Waits ==
  \/ task = "stuck"
  \/ task = "sender" /\ At("stuck")
  \/ handler \in {"reload", "stop"} /\ \E r \in Routines : Awaited(r) /\ (Deaf(r) \/ Missing(r))

\* A hangup that was put into the channel, or that found another one waiting
\* there, is honoured: the files as they were at that moment, or newer ones, get
\* loaded, unless the process ends or the handler waits for ever for one of the
\* three things of Waits: a Send that does not return, a neighbour's routine
\* whose stop a dial undid, a master routine that returned for lack of masters.
HangupHonoured ==
  <>[]Waits \/ \A v \in 1 .. MaxEdits : asked = v ~> loaded >= v \/ ~Running

\* An interrupt that was put into the channel ends the process, wherever main,
\* the handler and the client were, unless the handler waits for ever for one of
\* the same three things.
InterruptEnds == <>[]Waits \/ (queue = "interrupt" ~> ~Running)

\* The index of the current master is out of the list only between the load and
\* the restart of the client, or when a second reload has left an old master
\* routine behind.
LeftBehind == \E g \in Generations : g < gen /\ Alive(g, Master)

IndexPanicsOnlyAtReload ==
  [][ended' = "index" /\ Running => task = "reload" \/ LeftBehind]_allVars

=============================================================================
