--------------------------- MODULE AtellaClientLife ---------------------------
(***************************************************************************)
(* The life of the client of a daemon (Run, init, Reload and Stop in       *)
(* AtellaClient.go): every reload stops the routines there are, waits for  *)
(* their stopReply, and starts new ones.  Each generation of routines has  *)
(* its own channel stopRequest and its own array of neighbours; all of     *)
(* them share c.master, with its one stopReply.                            *)
(*                                                                         *)
(* What a routine does between its start and its stop is in AtellaNeighbour*)
(* and AtellaMasterLink.                                                   *)
(***************************************************************************)
EXTENDS Naturals

CONSTANTS
  Neighbours,  \* the neighbours of the configuration
  Master,      \* the master routine
  MaxReloads,  \* bound on the reloads
  MasterLists  \* whether there may be masters when a master routine starts: a set
               \* of BOOLEANs, one of which is drawn at each start

ASSUME RoutineAssumption == Master \notin Neighbours
ASSUME BoundAssumption   == MaxReloads \in Nat /\ MasterLists \subseteq BOOLEAN

Routines    == Neighbours \cup {Master}
Generations == 1 .. MaxReloads + 1
NoChannel   == 0

VARIABLES
  gen,          \* the present generation: client.stopRequest, client.neighbours
  closed,       \* channels closed, one per generation
  routine,      \* each routine of each generation: "none", "start", "run",
                \* "deaf" (its stop was undone), "done", or "gone" (returned
                \* without a reply)
  channel,      \* the channel its stopper waits on, once that has started
  exit,         \* its local variable exit
  masterReply,  \* client.master.stopReply
  handler       \* the signal handler: "idle", "reload", "init", "stop", "stopped"

vars == <<gen, closed, routine, channel, exit, masterReply, handler>>

\* There is no client yet: New makes it by the same init that Reload calls.
Init ==
  /\ gen = 0 /\ closed = {}
  /\ routine = [g \in Generations |-> [r \in Routines |-> "none"]]
  /\ channel = [g \in Generations |-> [r \in Routines |-> NoChannel]]
  /\ exit = [g \in Generations |-> [r \in Routines |-> FALSE]]
  /\ masterReply = FALSE
  /\ handler = "init"

-----------------------------------------------------------------------------
(***************************************************************************)
(* A routine begins: runMasterClient looks at CurrentMasterServerIndex and *)
(* returns at once without masters, and without a reply.                   *)
(***************************************************************************)
BeginWith(masters, g, r) ==
  /\ routine[g][r] = "start"
  /\ routine' = [routine EXCEPT ![g][r] = IF r = Master /\ ~masters THEN "gone" ELSE "run"]
  /\ UNCHANGED <<gen, closed, channel, exit, masterReply, handler>>

Begin(g, r) == \E masters \in MasterLists : BeginWith(masters, g, r)

\* The goroutine that stops it begins: it waits on the channel that
\* client.stopRequest holds at that moment.
StopperBegin(g, r) ==
  /\ routine[g][r] \in {"run", "done"} /\ channel[g][r] = NoChannel
  /\ channel' = [channel EXCEPT ![g][r] = gen]
  /\ UNCHANGED <<gen, closed, routine, exit, masterReply, handler>>

StopperExit(g, r) ==
  /\ channel[g][r] \in closed /\ ~exit[g][r]
  /\ exit' = [exit EXCEPT ![g][r] = TRUE]
  /\ UNCHANGED <<gen, closed, routine, channel, masterReply, handler>>

\* The routine finds exit set, and replies.
ReplyWith(answer, g, r) ==
  /\ routine[g][r] = "run" /\ exit[g][r]
  /\ routine' = [routine EXCEPT ![g][r] = "done"]
  /\ masterReply' = answer
  /\ UNCHANGED <<gen, closed, channel, exit, handler>>

\* Variant: the master routine ends as it does without masters.
ReplyForgotten(g, r) == ReplyWith(masterReply, g, r)

Reply(g, r) == ReplyWith(masterReply \/ r = Master, g, r)

\* The stop came while a neighbour's routine was dialling, and the dial
\* succeeded: connError is cleared again, and the routine, which looks at exit
\* only before a dial, serves the new connection.
Undone(g, n) ==
  /\ routine[g][n] = "run" /\ exit[g][n]
  /\ routine' = [routine EXCEPT ![g][n] = "deaf"]
  /\ UNCHANGED <<gen, closed, channel, exit, masterReply, handler>>

\* That connection is lost, if it ever is.
LateReply(g, n) ==
  /\ routine[g][n] = "deaf"
  /\ routine' = [routine EXCEPT ![g][n] = "done"]
  /\ UNCHANGED <<gen, closed, channel, exit, masterReply, handler>>

-----------------------------------------------------------------------------
(***************************************************************************)
(* The signal handler.  SIGHUP: the configuration has been loaded again,   *)
(* Reload closes the channel, waits, and calls init and Run.  SIGINT: Stop *)
(* closes the channel and waits.                                           *)
(***************************************************************************)
Reload ==
  /\ handler = "idle" /\ gen <= MaxReloads
  /\ closed' = closed \cup {gen}
  /\ handler' = "reload"
  /\ UNCHANGED <<gen, routine, channel, exit, masterReply>>

\* The loop of Reload and of Stop: every neighbour of the present array and
\* the master have replied.
Replied == masterReply /\ \A n \in Neighbours : routine[gen][n] = "done"

ConfirmWhen(confirm) ==
  /\ handler = "reload" /\ confirm
  /\ handler' = "init"
  /\ UNCHANGED <<gen, closed, routine, channel, exit, masterReply>>

\* Variant: only the master's reply is waited for.
ConfirmMaster == ConfirmWhen(masterReply)

Confirm == ConfirmWhen(Replied)

\* init makes a new channel and new neighbours; c.master keeps its stopReply.
Restart ==
  /\ handler = "init"
  /\ gen' = gen + 1
  /\ routine' = [routine EXCEPT ![gen + 1] = [r \in Routines |-> "start"]]
  /\ handler' = "idle"
  /\ UNCHANGED <<closed, channel, exit, masterReply>>

Stop ==
  /\ handler = "idle"
  /\ closed' = closed \cup {gen}
  /\ handler' = "stop"
  /\ UNCHANGED <<gen, routine, channel, exit, masterReply>>

Stopped ==
  /\ handler = "stop" /\ Replied
  /\ handler' = "stopped"
  /\ UNCHANGED <<gen, closed, routine, channel, exit, masterReply>>

Step(g, r) ==
  \/ Begin(g, r) \/ StopperBegin(g, r) \/ StopperExit(g, r) \/ Reply(g, r)
  \/ r # Master /\ (Undone(g, r) \/ LateReply(g, r))

Handler == Confirm \/ Restart \/ Stopped

Next == Handler \/ Reload \/ Stop \/ \E g \in Generations, r \in Routines : Step(g, r)

Spec == Init /\ [][Next]_vars

-----------------------------------------------------------------------------
(***************************************************************************)
(* Properties.                                                             *)
(***************************************************************************)

\* Every variable keeps to its values.
TypeOK ==
  /\ gen \in Generations \cup {0} /\ closed \subseteq Generations
  /\ routine \in [Generations -> [Routines -> {"none", "start", "run", "deaf", "done", "gone"}]]
  /\ channel \in [Generations -> [Routines -> Generations \cup {NoChannel}]]
  /\ exit \in [Generations -> [Routines -> BOOLEAN]]
  /\ masterReply \in BOOLEAN
  /\ handler \in {"idle", "reload", "init", "stop", "stopped"}

Alive(g, r) == routine[g][r] \in {"start", "run", "deaf"}

\* No reload leaves a routine of an old neighbour behind: at no time do two
\* routines write the status of one neighbour, and none writes into the array
\* of the configuration that was replaced.  A master routine of an old
\* generation is left behind at the earliest by the second reload.
RoutinesReplaced ==
  \A g \in Generations, r \in Routines :
    Alive(g, r) => g = gen \/ (r = Master /\ gen > 2)

\* The routines of a neighbour always wait for the channel of their own
\* generation, however late the goroutine that waits is started.
OwnChannel ==
  \A g \in Generations, n \in Neighbours : channel[g][n] \in {NoChannel, g}

\* A routine whose reply is still missing.
Awaited(r) == IF r = Master THEN ~masterReply ELSE routine[gen][r] # "done"

\* A neighbour's routine that stays because a dial undid its stop, and a master
\* routine that returned because there were no masters.
Deaf(r)    == r # Master /\ routine[gen][r] = "deaf"
Missing(r) == r = Master /\ routine[gen][r] = "gone"

\* Reload and Stop, which wait without a limit, wait only for routines that run
\* and whose own channel is closed, but for two exceptions: the reply of a master
\* routine that returned without one never comes, and that of a neighbour's
\* routine whose stop was undone comes when its connection is lost.
CanReply ==
  handler \in {"reload", "stop"} =>
    \A r \in Routines : Awaited(r) =>
      /\ gen \in closed /\ channel[gen][r] \in {NoChannel, gen}
      /\ routine[gen][r] \in {"start", "run"} \/ Deaf(r) \/ Missing(r)

=============================================================================
