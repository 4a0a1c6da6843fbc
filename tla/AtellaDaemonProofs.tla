-------------------------- MODULE AtellaDaemonProofs --------------------------
(***************************************************************************)
(* Proofs about AtellaDaemon, for any neighbours, reloads, files and       *)
(* edits: what AtellaClientLifeProofs shows of the client holds of the     *)
(* daemon, its index of masters panics at most during a reload, and the    *)
(* signals it accepts are not lost.                                        *)
(***************************************************************************)
EXTENDS AtellaDaemon, AtellaClientLifeProofs

\* The kinds of steps that leave the client alone.
LEMMA Aside ==
  ASSUME \/ MainLoad \/ MainGoesOn \/ MainHandle \/ SenderStops \/ Handle \/ Edit
         \/ \E sig \in Signals : SignalEarly(sig) \/ Signal(sig)
         \/ SenderSticks \/ HandlerSticks \/ \E g \in Generations : Sweep(g)
  PROVE  UNCHANGED vars
BY DEF MainLoad, MainGoesOn, MainHandle, SenderStops, SenderSticks, HandlerSticks, Handle, Take,
       HandlerSent, HandlerSends, HandlerLoad,
       HandlerNil, HandlerServer, Load, Edit, SignalEarly, Signal, SignalInto, Sweep, SweepBegin,
       Pick, PickPanic, SweepStopped, Dialled, DialFailed, Wrap, InSweep

\* Every step of the daemon is one of the client's life, or none.
LEMMA Simulates == ASSUME DaemonNext PROVE [Next]_vars
<1>1. MainClient \/ ClientRestart => Restart
  BY DEF MainClient, ClientRestart, InitClient
<1>2. Client /\ ~ClientRestart => Next
  BY DEF Client, ClientReload, ClientConfirm, ClientStop, ClientStopped, Next, Handler
<1>3. SomeRoutine => \E g \in Generations, r \in Routines : Step(g, r)
  <2>1. ASSUME NEW g \in Generations, NEW r \in Routines, Routine(g, r) PROVE Step(g, r)
    <3>1. (cur >= 0) \in MasterLists
      BY MastersAssumption
    <3>2. BeginWith(cur >= 0, g, r) => Begin(g, r)
      BY <3>1 DEF Begin
    <3> QED
      BY <2>1, <3>2 DEF Routine, Step
  <2> QED
    BY <2>1 DEF SomeRoutine
<1>4. SomeNeighbour => \E g \in Generations, r \in Routines : Step(g, r)
  BY RoutineAssumption DEF SomeNeighbour, Neighbour, Step, Routines
<1> QED
  BY <1>1, <1>2, <1>3, <1>4, Aside DEF DaemonNext, Main, Client, Next, Handler

\* The daemon takes the client of AtellaClientLife as it is, in some of the orders
\* its steps may come in.
LEMMA Implements == DaemonSpec => Spec
<1>1. DaemonInit => Init
  BY DEF DaemonInit
<1>2. [DaemonNext]_allVars => [Next]_vars
  BY Simulates DEF allVars, vars
<1> QED
  BY <1>1, <1>2, PTL DEF DaemonSpec, Spec

\* Whatever signals arrive, no routine of an old neighbour is left behind.
THEOREM DaemonReplaces == DaemonSpec => []RoutinesReplaced
BY Implements, OldRoutinesReplaced, PTL

\* The invariant of the client's life holds in the daemon.
LEMMA DaemonLife == DaemonSpec => []IInv
BY Implements, Invariance, PTL

\* Outside a reload the index is in the list of a daemon that is not a master,
\* unless a routine is about to take its remainder; in an empty list, a routine of
\* an older generation.
IndexInv ==
  /\ gen > 0 => main > 7
  /\ handler = "stop" => task = "client"
  /\ \A g \in Generations : sweep[g] # "rest" => routine[g][Master] = "run"
  /\ gen > 0 /\ routine[gen][Master] = "run" => cur >= 0
  /\ gen > 0 /\ task # "reload" =>
       IF conf.master
       THEN sweep[gen] = "rest"
       ELSE Running /\ cur >= 0 =>
              /\ cur < conf.hosts \/ \E g \in Generations : sweep[g] = "wrap"
              /\ conf.hosts = 0 => \E g \in Generations : g # gen /\ sweep[g] = "wrap"

DInv == DaemonValues /\ IndexInv

\* Where main stands tells its number.
LEMMA Number ==
  ASSUME main \in DOMAIN Order
  PROVE  /\ DOMAIN Order = 1 .. 10 /\ main \in 1 .. 10
         /\ At("load") => main = 1
         /\ At("handle") => main = 5
         /\ At("client") => main = 7
         /\ At("sender") => main = 9
         /\ \A what \in {"hup", "int", "usr", "server", "run"} : At(what) => main < 9
BY DEF Order, At

\* The daemon starts with the invariant.
LEMMA DaemonInitInv == DaemonInit => DInv
BY ConfigurationAssumption, EditAssumption, Number
   DEF DaemonInit, DInv, DaemonValues, IndexInv, Init, Order, Signals, Empty

\* Steps that leave the client's life and the index alone.
LEMMA AsideInv ==
  ASSUME IInv, DInv, Running,
         \/ MainLoad \/ MainGoesOn \/ MainHandle \/ SenderStops \/ Handle \/ Edit
         \/ SenderSticks \/ HandlerSticks \/ \E sig \in Signals : SignalEarly(sig) \/ Signal(sig)
  PROVE  DInv'
<1> USE ConfigurationAssumption, EditAssumption DEF DInv
<1>0. /\ DOMAIN Order = 1 .. 10 /\ main \in 1 .. 10 /\ (At("handle") => main = 5)
      /\ At("load") => main = 1
      /\ At("sender") => main = 9
      /\ \A what \in {"hup", "int", "usr", "server", "run"} : At(what) => main < 9
  BY Number DEF DaemonValues
<1>1. UNCHANGED <<gen, routine, handler, cur, sweep>>
  BY Aside DEF vars, MainLoad, MainGoesOn, MainHandle, SenderStops, SenderSticks, HandlerSticks,
     Handle, Take, HandlerSent, HandlerSends, HandlerLoad, HandlerNil, HandlerServer, Load, Edit, SignalEarly, Signal, SignalInto
<1>2. DaemonValues'
  <2>1. CASE MainLoad
    <3>1. main' \in DOMAIN Order
      BY <1>0, <2>1 DEF MainLoad
    <3>2. conf' \in [hosts : Nat, master : BOOLEAN] /\ loaded' \in 0 .. MaxEdits
      BY <2>1 DEF MainLoad, Load, DaemonValues
    <3> QED
      BY <1>1, <2>1, <3>1, <3>2 DEF MainLoad, Load, DaemonValues
  <2>2. CASE HandlerLoad
    BY <1>1, <2>2 DEF HandlerLoad, Load, DaemonValues
  <2>3. CASE MainGoesOn
    <3>1. main' \in DOMAIN Order
      BY <1>0, <2>3 DEF MainGoesOn
    <3> QED
      BY <2>3, <3>1 DEF MainGoesOn, DaemonValues
  <2>4. CASE MainHandle
    <3>1. main' \in DOMAIN Order
      BY <1>0, <2>4 DEF MainHandle
    <3> QED
      BY <2>4, <3>1 DEF MainHandle, DaemonValues
  <2>5. CASE SenderStops
    BY <2>5 DEF SenderStops, DaemonValues
  <2>6. CASE Take \/ HandlerSent \/ HandlerSticks \/ HandlerNil \/ HandlerServer
    BY <2>6 DEF Take, HandlerSent, HandlerSticks, HandlerSends, HandlerNil, HandlerServer, DaemonValues
  <2>7. CASE Edit
    <3>1. edits \in 0 .. MaxEdits /\ edits < MaxEdits /\ edits' = edits + 1
      BY Zenon, <2>7 DEF Edit, DaemonValues
    <3>3. edits' \in 0 .. MaxEdits
      BY <3>1
    <3>4. disk' \in Configurations \cup {Broken}
      BY Zenon, <2>7 DEF Edit
    <3>5. UNCHANGED <<main, queue, task, conf, cur, sweep, nilConn, ended, loaded, asked>>
      BY <2>7 DEF Edit
    <3> QED
      BY <3>3, <3>4, <3>5 DEF DaemonValues
  <2>8. ASSUME NEW sig \in Signals, SignalEarly(sig) \/ Signal(sig) PROVE DaemonValues'
    BY <2>8 DEF SignalEarly, Signal, SignalInto, DaemonValues
  <2>9. CASE SenderSticks
    <3>1. main' \in DOMAIN Order
      BY <1>0, <2>9 DEF SenderSticks
    <3> QED
      BY <2>9, <3>1 DEF SenderSticks, DaemonValues
  <2> QED
    BY <2>1, <2>2, <2>3, <2>4, <2>5, <2>6, <2>7, <2>8, <2>9 DEF Handle
<1>3. main' = main \/ main' = main + 1
  BY DEF MainLoad, MainGoesOn, MainHandle, SenderStops, SenderSticks, HandlerSticks, Handle, Take,
     HandlerSent, HandlerSends, HandlerLoad, HandlerNil, HandlerServer, Load, Edit, SignalEarly, Signal,
     SignalInto
<1>4. gen > 0 /\ task' # "reload" => task # "reload" /\ conf' = conf
  <2>1. CASE MainLoad \/ MainHandle
    BY <1>0, <2>1 DEF MainLoad, MainHandle, IndexInv
  <2>2. CASE ~MainLoad /\ ~MainHandle
    BY <2>2 DEF MainGoesOn, SenderStops, SenderSticks, HandlerSticks, Handle, Take, HandlerSent,
       HandlerSends, HandlerLoad, HandlerNil, HandlerServer, Load, Edit, SignalEarly, Signal, SignalInto
  <2> QED
    BY <2>1, <2>2
<1>5. handler = "stop" => task' = task
  <2> SUFFICES ASSUME handler = "stop" PROVE task' = task
    OBVIOUS
  <2>1. task = "client" /\ gen # 0 /\ gen \in Nat
    BY Constants DEF IndexInv, IInv, HandlerInv, TypeOK
  <2>2. ~MainHandle
    BY <1>0, <2>1 DEF MainHandle, IndexInv
  <2> QED
    BY <2>1, <2>2 DEF MainLoad, MainGoesOn, SenderStops, SenderSticks, HandlerSticks, Handle, Take,
       HandlerSent, HandlerSends, HandlerLoad, HandlerNil, HandlerServer, Edit, SignalEarly, Signal, SignalInto
<1>6. IndexInv'
  BY <1>0, <1>1, <1>3, <1>4, <1>5 DEF IndexInv
<1> QED
  BY <1>2, <1>6

\* Steps of the client's life other than a restart.
LEMMA ClientInv ==
  ASSUME IInv, DInv, Running, SomeRoutine \/ SomeNeighbour \/ (Client /\ ~ClientRestart)
  PROVE  DInv'
<1> USE DEF DInv
<1>0. Master \in Routines /\ Generations \subseteq Nat
      /\ routine \in [Generations -> [Routines -> {"none", "start", "run", "deaf", "done", "gone"}]]
  BY Constants DEF IInv, TypeOK
<1>1. CASE Client /\ ~ClientRestart
  <2>1. UNCHANGED <<gen, routine, main, queue, disk, conf, cur, sweep, nilConn, ended,
                    edits, loaded, asked>>
        /\ \/ task' = task /\ (handler' = "stop" => handler = "stop" \/ task = "client")
           \/ task' = "sender" /\ handler = "stop" /\ handler' # "stop"
    BY <1>1 DEF Client, ClientReload, ClientConfirm, ClientStop, ClientStopped, Reload, Confirm,
                ConfirmWhen, Stop, Stopped, daemonVars
  <2>2. DaemonValues'
    BY <2>1 DEF DaemonValues
  <2>3. task' # "reload" => task # "reload"
    BY <2>1 DEF IndexInv
  <2>4. IndexInv'
    BY <2>1, <2>3 DEF IndexInv
  <2> QED
    BY <2>2, <2>4
<1>2. ASSUME NEW g \in Generations, NEW r \in Routines,
             Routine(g, r) \/ (r # Master /\ Neighbour(g, r))
      PROVE  DInv'
  <2>1. UNCHANGED daemonVars /\ UNCHANGED <<gen, handler>>
    BY <1>2 DEF Routine, BeginWith, StopperBegin, StopperExit, Reply, ReplyWith, Neighbour, Undone,
                LateReply
  <2>2. \A f \in Generations : sweep[f] # "rest" => routine'[f][Master] = "run"
    BY <1>0, <1>2 DEF Routine, BeginWith, StopperBegin, StopperExit, Reply, ReplyWith, Neighbour,
                      Undone, LateReply, IndexInv
  <2>3. gen > 0 /\ routine'[gen][Master] = "run" => cur >= 0
    BY <1>0, <1>2 DEF Routine, BeginWith, StopperBegin, StopperExit, Reply, ReplyWith, Neighbour,
                      Undone, LateReply, IndexInv, IInv, TypeOK
  <2>4. DaemonValues'
    BY <2>1 DEF daemonVars, DaemonValues
  <2> QED
    BY <2>1, <2>2, <2>3, <2>4 DEF daemonVars, IndexInv, Running
<1> QED
  BY <1>1, <1>2, RoutineAssumption DEF SomeRoutine, SomeNeighbour, Routines

\* A new client.
LEMMA RestartInv == ASSUME IInv, DInv, MainClient \/ ClientRestart PROVE DInv'
<1> USE ConfigurationAssumption DEF DInv
<1>1. /\ DOMAIN Order = 1 .. 10 /\ main \in 1 .. 10 /\ (At("client") => main = 7)
  BY Number DEF DaemonValues
<1>2. /\ gen' = gen + 1 /\ gen \in Nat /\ gen' \in Generations /\ handler' = "idle"
      /\ routine' = [routine EXCEPT ![gen'] = [r \in Routines |-> "start"]]
      /\ cur' = (IF conf.hosts = 0 THEN -1 ELSE IF conf.master THEN cur ELSE 0)
      /\ UNCHANGED <<queue, disk, conf, sweep, nilConn, ended, edits, loaded, asked>>
  BY Constants DEF MainClient, ClientRestart, InitClient, Restart, IInv, HandlerInv, TypeOK, Generations
<1>3. /\ main' = main \/ (main = 7 /\ main' = 8)
      /\ gen > 0 \/ main' = 8
      /\ task' \in {task, "wait"}
  BY <1>1 DEF MainClient, ClientRestart
<1>4. conf.hosts \in Nat /\ conf.master \in BOOLEAN /\ cur \in Int
  BY DEF DaemonValues
<1>5. DaemonValues'
  <2>1. cur' \in Int /\ main' \in DOMAIN Order
    BY <1>1, <1>2, <1>3, <1>4
  <2> QED
    BY <1>2, <1>3, <2>1 DEF DaemonValues
<1>6. \A g \in Generations : sweep'[g] # "rest" => routine'[g][Master] = "run" /\ g # gen'
  BY <1>2, Constants DEF IndexInv, IInv, TypeOK, MasterInv
<1>7. routine'[gen'][Master] = "start" /\ sweep'[gen'] = "rest"
  <2>1. Master \in Routines /\ routine \in [Generations -> [Routines -> {"none", "start", "run", "deaf", "done", "gone"}]]
    BY Constants DEF IInv, TypeOK
  <2>2. routine'[gen'][Master] = "start"
    BY <1>2, <2>1
  <2> QED
    BY <1>2, <1>6, <2>2
<1>8. ~conf.master /\ cur' >= 0 => conf.hosts > 0 /\ cur' = 0
  BY <1>2, <1>4
<1>9. IndexInv'
  BY <1>1, <1>2, <1>3, <1>4, <1>6, <1>7, <1>8 DEF IndexInv
<1> QED
  BY <1>5, <1>9

\* The remainder of an index is an index of the list.
LEMMA Remainder ==
  ASSUME NEW a \in Int, NEW b \in Nat, b > 0
  PROVE  Rem(a, b) \in Int /\ Rem(a, b) < b /\ (a >= 0 => Rem(a, b) >= 0)
BY DEF Rem

\* A step of the loop of dials.
LEMMA SweepInv == ASSUME IInv, DInv, Running, NEW g \in Generations, Sweep(g) PROVE DInv'
<1> USE DEF DInv
<1>1. \E from, to \in {"rest", "dial", "dialling", "wrap"} :
        /\ InSweep(g, from, to) /\ (from = "wrap" => Wrap(g)) /\ (to = "wrap" => DialFailed(g))
        /\ (from = "rest" => ~conf.master)
  BY DEF Sweep, SweepBegin, Pick, PickPanic, SweepStopped, Dialled, DialFailed, Wrap, InSweep
<1>2. /\ routine[g][Master] = "run" /\ sweep' \in [Generations -> {"rest", "dial", "dialling", "wrap"}]
      /\ \A f \in Generations \ {g} : sweep'[f] = sweep[f]
      /\ (sweep[g] = "rest" => ~conf.master)
      /\ (sweep[g] = "wrap" => Wrap(g)) /\ (sweep'[g] = "wrap" => DialFailed(g))
      /\ UNCHANGED <<gen, routine, handler, main, queue, task, disk, conf, edits, loaded, asked>>
  BY <1>1 DEF InSweep, DaemonValues, vars
<1>3. cur' \in Int /\ nilConn' \in BOOLEAN /\ ended' \in {ended, "index", "write"}
  <2>0. conf.hosts \in Nat /\ cur \in Int /\ nilConn \in BOOLEAN
    BY DEF DaemonValues
  <2>1. CASE Wrap(g)
    BY <2>0, <2>1, Remainder DEF Wrap
  <2>2. CASE DialFailed(g)
    BY <2>0, <2>2 DEF DialFailed
  <2>3. CASE ~Wrap(g) /\ ~DialFailed(g)
    BY <2>0, <2>3 DEF Sweep, SweepBegin, Pick, PickPanic, SweepStopped, Dialled
  <2> QED
    BY <2>1, <2>2, <2>3
<1>4. DaemonValues'
  BY <1>2, <1>3 DEF DaemonValues
<1>5. cur >= 0 => cur' >= 0
  <2>0. conf.hosts \in Nat /\ cur \in Int
    BY DEF DaemonValues
  <2>1. CASE Wrap(g)
    BY <2>0, <2>1, Remainder DEF Wrap
  <2>2. CASE DialFailed(g)
    BY <2>0, <2>2 DEF DialFailed
  <2>3. CASE ~Wrap(g) /\ ~DialFailed(g)
    BY <2>3 DEF Sweep, SweepBegin, Pick, PickPanic, SweepStopped, Dialled
  <2> QED
    BY <2>1, <2>2, <2>3
<1>6. ASSUME gen > 0, task # "reload", ~conf.master, Running', cur' >= 0
      PROVE  /\ cur' < conf.hosts \/ \E f \in Generations : sweep'[f] = "wrap"
             /\ conf.hosts = 0 => \E f \in Generations : f # gen /\ sweep'[f] = "wrap"
  <2>0. conf.hosts \in Nat /\ cur \in Int
    BY DEF DaemonValues
  <2>1. cur >= 0 => /\ cur < conf.hosts \/ \E f \in Generations : sweep[f] = "wrap"
                    /\ conf.hosts = 0 => \E f \in Generations : f # gen /\ sweep[f] = "wrap"
    BY <1>6 DEF IndexInv
  <2>2. CASE Wrap(g)
    <3>1. conf.hosts > 0 /\ cur' = Rem(cur, conf.hosts)
      BY <1>6, <2>0, <2>2 DEF Wrap, Running
    <3> QED
      BY <2>0, <3>1, Remainder
  <2>3. CASE DialFailed(g)
    <3>1. sweep'[g] = "wrap"
      BY <1>2, <2>3 DEF DialFailed, InSweep, DaemonValues
    <3>2. CASE g # gen
      BY <3>1, <3>2
    <3>3. CASE g = gen
      <4>1. cur >= 0
        BY <1>2, <1>6, <3>3 DEF IndexInv
      <4> QED
        BY <1>2, <2>1, <3>1, <3>3, <4>1
    <3> QED
      BY <3>2, <3>3
  <2>4. CASE ~Wrap(g) /\ ~DialFailed(g)
    <3>1. cur' = cur /\ sweep[g] # "wrap"
      BY <1>2, <2>4 DEF Sweep, SweepBegin, Pick, PickPanic, SweepStopped, Dialled
    <3> QED
      BY <1>2, <1>6, <2>1, <3>1
  <2> QED
    BY <2>2, <2>3, <2>4
<1>7. IndexInv'
  <2>1. gen > 0 /\ task # "reload" /\ conf.master => sweep'[gen] = "rest"
    BY <1>2 DEF IndexInv, IInv, TypeOK
  <2>2. gen > 0 /\ task # "reload" =>
          IF conf.master
          THEN sweep'[gen] = "rest"
          ELSE Running' /\ cur' >= 0 =>
                 /\ cur' < conf.hosts \/ \E f \in Generations : sweep'[f] = "wrap"
                 /\ conf.hosts = 0 => \E f \in Generations : f # gen /\ sweep'[f] = "wrap"
    BY <1>6, <2>1
  <2>3. \A f \in Generations : sweep'[f] # "rest" => routine[f][Master] = "run"
    BY <1>2 DEF IndexInv
  <2>4. gen > 0 /\ routine[gen][Master] = "run" => cur' >= 0
    BY <1>5 DEF IndexInv
  <2> QED
    BY <1>2, <2>2, <2>3, <2>4 DEF IndexInv
<1> QED
  BY <1>4, <1>7

\* The invariant holds in every behaviour of the daemon.
LEMMA DaemonInvariance == DaemonSpec => [](IInv /\ DInv)
<1>1. IInv /\ DInv /\ [DaemonNext]_allVars => DInv'
  <2>1. ASSUME DInv, UNCHANGED allVars PROVE DInv'
    <3>1. UNCHANGED <<gen, routine, handler, main, queue, task, disk, conf, cur, sweep,
                      nilConn, ended, edits, loaded, asked>>
      BY <2>1 DEF allVars, vars, daemonVars
    <3>2. DaemonValues'
      BY <2>1, <3>1 DEF DInv, DaemonValues
    <3>3. IndexInv'
      BY <2>1, <3>1 DEF DInv, IndexInv, Running
    <3> QED
      BY <3>2, <3>3 DEF DInv
  <2> QED
    BY <2>1, AsideInv, ClientInv, RestartInv, SweepInv DEF DaemonNext, Main, Client
<1> QED
  BY <1>1, DaemonInitInv, DaemonLife, PTL DEF DaemonSpec

\* Every variable of the daemon keeps to its values.
THEOREM DaemonTypeCorrect == DaemonSpec => []DaemonTypeOK
<1>1. IInv /\ DInv => DaemonTypeOK
  BY DEF IInv, DInv, DaemonTypeOK
<1> QED
  BY <1>1, DaemonInvariance, PTL

\* However the files are edited and whatever signals arrive, the index panics
\* only between a load and the restart of the client, or when a second reload
\* has left a master routine behind.
THEOREM IndexStaysInList == DaemonSpec => IndexPanicsOnlyAtReload
<1>1. IInv /\ DInv /\ [DaemonNext]_allVars =>
        [ended' = "index" /\ Running => task = "reload" \/ LeftBehind]_allVars
  <2> SUFFICES ASSUME IInv, DInv, DaemonNext, ended' = "index", Running, task # "reload", ~LeftBehind
               PROVE  FALSE
    OBVIOUS
  <2>1. PICK g \in Generations : PickPanic(g) \/ (Wrap(g) /\ conf.hosts = 0)
    BY DEF DaemonNext, Running, Main, MainLoad, MainGoesOn, MainHandle, MainClient, InitClient, SenderStops,
       SenderSticks, HandlerSticks, HandlerSends, Handle, Take, HandlerSent, HandlerLoad, HandlerNil,
       HandlerServer, Load, Client, ClientReload, ClientConfirm, ClientRestart, ClientStop, ClientStopped,
       Edit, SignalEarly, Signal, SignalInto, SomeRoutine, Routine, SomeNeighbour, Neighbour, daemonVars, Sweep, SweepBegin, Pick, SweepStopped, Dialled, DialFailed, Wrap
  <2>2. routine[g][Master] = "run" /\ sweep[g] \in {"dial", "wrap"} /\ (sweep[g] = "dial" => ~InList)
        /\ (sweep[g] = "wrap" => conf.hosts = 0)
    BY <2>1 DEF PickPanic, Wrap, InSweep
  <2>3. gen \in Nat /\ \A f \in Generations : f \in Nat /\ f >= 1
    BY Constants DEF IInv, TypeOK
  <2>4. g = gen
    BY <2>2, <2>3 DEF IInv, MasterInv, LeftBehind, Alive
  <2>5. \A f \in Generations \ {gen} : sweep[f] = "rest"
    BY <2>3 DEF IInv, MasterInv, LeftBehind, Alive, DInv, IndexInv
  <2>6. gen > 0 /\ gen \in Generations /\ cur >= 0 /\ ~conf.master
    BY <2>2, <2>3, <2>4 DEF DInv, IndexInv
  <2>7. cur < conf.hosts \/ sweep[gen] = "wrap"
    BY <2>5, <2>6 DEF DInv, IndexInv
  <2>8. conf.hosts # 0
    BY <2>5, <2>6 DEF DInv, IndexInv
  <2>9. conf.hosts \in Nat /\ cur \in Int
    BY DEF DInv, DaemonValues
  <2> QED
    BY <2>2, <2>4, <2>6, <2>7, <2>8, <2>9 DEF InList
<1> QED
  BY <1>1, DaemonInvariance, PTL DEF DaemonSpec, IndexPanicsOnlyAtReload

-----------------------------------------------------------------------------
(***************************************************************************)
(* What a signal that was put into the channel leaves behind.  Nothing but *)
(* the handler, once main has started it, takes it out again.              *)
(***************************************************************************)
\* Until the handler runs it has no task, and no file is newer than its last change.
HandlerStarts ==
  /\ main <= 5 => task = "none"
  /\ loaded <= edits /\ asked <= edits

\* A hangup that was accepted after the files were last loaded is still there.
Owed == Running /\ loaded < asked => queue = "hangup" \/ task = "load"

SignalInv == HandlerStarts /\ Owed

\* An interrupt is in the channel, or the handler is at its stops.
Stopping == queue = "interrupt" \/ task \in {"server", "client", "sender"}

\* The steps that leave the channel, the task and the counts of changes alone.
LEMMA Elsewhere ==
  ASSUME \/ MainGoesOn \/ MainClient \/ SenderStops \/ HandlerNil
         \/ ClientReload \/ ClientConfirm \/ ClientStop \/ SomeRoutine \/ SomeNeighbour \/ SenderSticks
         \/ \E sig \in Signals : SignalEarly(sig)
         \/ \E g \in Generations : Sweep(g)
  PROVE  UNCHANGED <<queue, task, edits, loaded, asked>>
BY DEF MainGoesOn, MainClient, InitClient, SenderStops, HandlerNil, ClientReload, ClientConfirm,
       ClientStop, SomeRoutine, Routine, SomeNeighbour, Neighbour, SenderSticks, daemonVars, SignalEarly, Sweep, SweepBegin, Pick, PickPanic,
       SweepStopped, Dialled, DialFailed, Wrap, InSweep

\* Main only goes on.
LEMMA MainRises ==
  ASSUME DaemonValues, DaemonNext
  PROVE  main \in Nat /\ main' \in Nat /\ main' >= main
<1>0. main \in 1 .. 10
  BY Number DEF DaemonValues
<1>1. main \in Nat
  BY <1>0
<1>2. main' = main \/ main' = main + 1
  BY DEF DaemonNext, Main, MainLoad, MainGoesOn, MainHandle, MainClient, SenderStops, SenderSticks,
     HandlerSticks, Handle, Take, HandlerSent, HandlerSends, HandlerLoad, HandlerNil, HandlerServer, Client,
     ClientReload, ClientConfirm, ClientRestart, ClientStop, ClientStopped, Edit, SignalEarly, Signal,
     SignalInto, SomeRoutine, Routine, SomeNeighbour, Neighbour, daemonVars, Sweep, SweepBegin, Pick, PickPanic, SweepStopped, Dialled, DialFailed, Wrap, InSweep
<1> QED
  BY <1>1, <1>2

\* No step loses a hangup.
LEMMA StepSignal == IInv /\ DInv /\ SignalInv /\ [DaemonNext]_allVars => SignalInv'
<1> SUFFICES ASSUME IInv, DInv, SignalInv, [DaemonNext]_allVars PROVE SignalInv'
  OBVIOUS
<1>0. edits \in Nat /\ loaded \in Nat /\ asked \in Nat /\ loaded <= edits /\ asked <= edits
  <2>1. edits \in 0 .. MaxEdits /\ loaded \in 0 .. MaxEdits /\ asked \in 0 .. MaxEdits
    BY DEF DInv, DaemonValues
  <2> QED
    BY <2>1, EditAssumption DEF SignalInv, HandlerStarts
<1>1. CASE UNCHANGED allVars
  BY <1>1 DEF allVars, daemonVars, SignalInv, HandlerStarts, Owed, Running
<1>2. CASE DaemonNext
  <2>0. main \in Nat /\ main' \in Nat /\ main' >= main /\ Running /\ (Running' => Running)
    BY <1>2, MainRises DEF DInv, DaemonNext
  <2>1. CASE \/ MainGoesOn \/ MainClient \/ SenderStops \/ HandlerNil
             \/ ClientReload \/ ClientConfirm \/ ClientStop \/ SomeRoutine \/ SomeNeighbour \/ SenderSticks
             \/ \E sig \in Signals : SignalEarly(sig)
             \/ \E g \in Generations : Sweep(g)
    <3>1. UNCHANGED <<queue, task, edits, loaded, asked>>
      BY <2>1, Elsewhere
    <3> QED
      BY <2>0, <3>1 DEF SignalInv, HandlerStarts, Owed
  <2>2. CASE MainLoad
    <3>1. task' = task /\ queue' = queue /\ edits' = edits /\ asked' = asked /\ main = 1
      BY <2>2, Number DEF MainLoad, Load, DInv, DaemonValues
    <3>2. loaded' \in {loaded, edits} /\ (Running' => loaded' = edits)
      BY <2>2 DEF MainLoad, Load, Running
    <3> QED
      BY <1>0, <2>0, <3>1, <3>2 DEF SignalInv, HandlerStarts, Owed
  <2>3. CASE MainHandle
    <3>0. main = 5
      BY <2>3, Number DEF MainHandle, DInv, DaemonValues
    <3>1. main' = 6 /\ task = "none" /\ task' = "wait"
      BY <2>3, <3>0 DEF MainHandle, SignalInv, HandlerStarts
    <3> QED
      BY <2>0, <2>3, <3>0, <3>1 DEF MainHandle, SignalInv, HandlerStarts, Owed, Running
  <2>4. CASE Take \/ HandlerSent \/ HandlerSticks \/ HandlerServer
    BY <2>0, <2>4 DEF Take, HandlerSent, HandlerSticks, HandlerSends, HandlerServer, SignalInv, HandlerStarts, Owed, Running
  <2>5. CASE HandlerLoad
    <3>1. task = "load" /\ main' = main /\ queue' = queue /\ edits' = edits /\ asked' = asked
      BY <2>5 DEF HandlerLoad, Load
    <3>2. loaded' \in {loaded, edits} /\ (Running' => loaded' = edits)
      BY <2>5 DEF HandlerLoad, Load, Running
    <3> QED
      BY <1>0, <2>0, <3>1, <3>2 DEF SignalInv, HandlerStarts, Owed
  <2>6. CASE ClientRestart
    BY <2>0, <2>6 DEF ClientRestart, InitClient, SignalInv, HandlerStarts, Owed, Running
  <2>7. CASE ClientStopped
    <3>1. task = "client"
      BY <2>7 DEF ClientStopped, Stopped, DInv, IndexInv
    <3> QED
      BY <2>0, <2>7, <3>1 DEF ClientStopped, SignalInv, HandlerStarts, Owed, Running
  <2>8. CASE Edit
    <3>1. edits' = edits + 1 /\ UNCHANGED <<main, queue, task, ended, loaded, asked>>
      BY <2>8 DEF Edit
    <3> QED
      BY <1>0, <2>0, <3>1 DEF SignalInv, HandlerStarts, Owed, Running
  <2>9. ASSUME NEW sig \in Signals, Signal(sig) PROVE SignalInv'
    <3>1. UNCHANGED <<main, task, ended, edits, loaded>>
          /\ queue' = (IF queue = Empty THEN sig ELSE queue)
          /\ asked' = (IF sig = "hangup" /\ queue \in {Empty, "hangup"} THEN edits ELSE asked)
      BY <2>9 DEF Signal, SignalInto
    <3>2. queue = "hangup" => queue' = "hangup"
      BY <3>1 DEF Empty
    <3>3. asked' # asked => queue' = "hangup"
      BY <3>1
    <3> QED
      BY <1>0, <2>0, <3>1, <3>2, <3>3 DEF SignalInv, HandlerStarts, Owed, Running
  <2> QED
    BY <1>2, <2>1, <2>2, <2>3, <2>4, <2>5, <2>6, <2>7, <2>8, <2>9 DEF DaemonNext, Main, Handle, Client
<1> QED
  BY <1>1, <1>2

\* However signals, main and the handler interleave, a hangup that was accepted
\* after the files were last loaded waits in the channel or is being loaded, as
\* long as the process runs.
THEOREM HangupIsOwed == DaemonSpec => []Owed
<1>1. DaemonInit => SignalInv
  BY DEF DaemonInit, SignalInv, HandlerStarts, Owed
<1>2. SignalInv => Owed
  BY DEF SignalInv
<1> QED
  BY <1>1, <1>2, StepSignal, DaemonInvariance, PTL DEF DaemonSpec

\* Only the end of the process takes an interrupt back once it is in the channel:
\* neither a later signal nor a reload under way displaces it.
InterruptStays == [][Stopping /\ Running' => Stopping']_allVars

THEOREM InterruptIsKept == DaemonSpec => InterruptStays
<1>1. IInv /\ DInv /\ SignalInv /\ [DaemonNext]_allVars => [Stopping /\ Running' => Stopping']_allVars
  <2> SUFFICES ASSUME DInv, SignalInv, DaemonNext, Stopping, Running' PROVE Stopping'
    OBVIOUS
  <2>1. CASE \/ MainGoesOn \/ MainClient \/ SenderStops \/ HandlerNil
             \/ ClientReload \/ ClientConfirm \/ ClientStop \/ SomeRoutine \/ SomeNeighbour \/ SenderSticks
             \/ \E sig \in Signals : SignalEarly(sig)
             \/ \E g \in Generations : Sweep(g)
    BY <2>1, Elsewhere DEF Stopping
  <2>2. CASE MainLoad \/ HandlerLoad \/ Edit
    BY <2>2 DEF MainLoad, HandlerLoad, Load, Edit, Stopping
  <2>3. CASE MainHandle
    <3>0. main = 5
      BY <2>3, Number DEF MainHandle, DInv, DaemonValues
    <3>1. task = "none"
      BY <3>0 DEF SignalInv, HandlerStarts
    <3> QED
      BY <2>3, <3>1 DEF MainHandle, Stopping
  <2>4. CASE Take \/ HandlerSent \/ HandlerSticks \/ HandlerServer
    BY <2>4 DEF Take, HandlerSent, HandlerSticks, HandlerSends, HandlerServer, Stopping
  <2>5. CASE ClientRestart \/ ClientStopped
    BY <2>5 DEF ClientRestart, ClientStopped, InitClient, Stopping
  <2>6. ASSUME NEW sig \in Signals, Signal(sig) PROVE Stopping'
    BY <2>6 DEF Signal, SignalInto, Stopping, Empty
  <2> QED
    BY <2>1, <2>2, <2>3, <2>4, <2>5, <2>6 DEF DaemonNext, Main, Handle, Client
<1>2. DaemonInit => SignalInv
  BY DEF DaemonInit, SignalInv, HandlerStarts, Owed
<1> QED
  BY <1>1, <1>2, StepSignal, DaemonInvariance, PTL DEF DaemonSpec, InterruptStays

=============================================================================
