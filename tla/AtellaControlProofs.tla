-------------------------- MODULE AtellaControlProofs --------------------------
(***************************************************************************)
(* Proofs about AtellaControl, for any pids, masters, faults and commands. *)
(***************************************************************************)
EXTENDS AtellaControl, TLAPS

Busy == Saving \ {"truncate pid"}

\* What a step that saves nothing does to a pid.
Ages ==
  \A q \in Pids :
    \/ stage'[q] = stage[q] /\ (stage[q] = "run" /\ q \in bare => q \in bare')
    \/ stage'[q] = "free"
    \/ stage[q] = "free" /\ stage'[q] \in {"load", "other", "twin"}
    \/ stage[q] = "load" /\ stage'[q] = "truncate pid"
    \/ stage[q] = "notify" /\ stage'[q] = "listen"
    \/ stage[q] = "listen" /\ stage'[q] = "run"

\* The daemon that saved its pid last, and alone, finds its own files.
SoleInv ==
  sole # Nobody =>
    /\ \A q \in Pids \ {sole} : stage[q] \notin Busy
    /\ stage[sole] \in {"truncate name", "write pid"} => pidFile = Empty
    /\ stage[sole] \in {"write name", "notify", "listen", "run"} => pidFile = sole
    /\ stage[sole] \in {"notify", "listen", "run"} => nameFile = "atella"

\* The goal of a signal stays the daemon that saved its pid last, and is the
\* pid that was read, for as long as it runs.
GoalInv ==
  cli.goal # Nobody =>
    /\ cli.goal = sole /\ cli.pc \notin {"dial", "download"}
    /\ stage[sole] \in {"run", "free", "other", "twin", "load", "truncate pid"}
    /\ stage[sole] = "run" => sole \in bare /\ (cli.pc \in {"name", "look", "kill"} => cli.pid = sole)

\* A pid is read before it is looked at and signalled.
PidInv == cli.pc \in {"name", "look", "kill"} => cli.pid \in Pids

\* The masters tried are those before the one at hand.
TriedInv == cli.pc = "dial" => cli.tried = 0 .. cli.cur - 1

IInv == TypeOK /\ SoleInv /\ GoalInv /\ PidInv /\ TriedInv

\* The system starts with the invariant.
LEMMA InitInv == Init => IInv
BY PidAssumption, CountAssumption
   DEF Init, IInv, TypeOK, SoleInv, GoalInv, PidInv, TriedInv, Idle, Missing, Empty

\* Where the next index leads.
LEMMA NextIndex ==
  ASSUME NEW n \in Nat, n > 0, NEW c \in Nat, c < n
  PROVE  (c + 1) % n = IF c + 1 = n THEN 0 ELSE c + 1
OBVIOUS

\* A step that saves nothing and leaves atella-cli alone keeps the invariant.
LEMMA AgesInv ==
  ASSUME IInv, TypeOK', Ages, UNCHANGED <<fileVars, cli, sole>>
  PROVE  IInv'
<1> USE DEF IInv, fileVars
<1>1. SoleInv'
  BY PidAssumption DEF SoleInv, Ages, Busy, Saving, TypeOK
<1>2. GoalInv'
  BY PidAssumption DEF GoalInv, Ages, TypeOK
<1>3. PidInv' /\ TriedInv'
  BY DEF PidInv, TriedInv
<1> QED
  BY <1>1, <1>2, <1>3

\* The end of processes keeps types and is a step that saves nothing.
LEMMA EndAges ==
  ASSUME TypeOK, NEW P, End(P)
  PROVE  /\ Ages
         /\ stage' \in [Pids -> Daemon \cup Programs \cup {"free"}]
         /\ bare' \subseteq Pids /\ unit' \in Pids \cup {Nobody}
BY DEF End, TypeOK, Ages, Daemon

\* Processes begin and end, and daemons go on without saving anything.
LEMMA ProcessInv ==
  ASSUME IInv, NEW p \in Pids,
         \/ UnitStart(p) \/ StartByHand(p) \/ OtherStart(p) \/ OtherEnd(p) \/ Crash(p)
         \/ Load(p) \/ Notify(p) \/ Listen(p), UNCHANGED loads
  PROVE  IInv'
<1> USE DEF IInv
<1>0. UNCHANGED <<fileVars, cli, sole>> /\ commands' = commands
  BY DEF UnitStart, StartByHand, OtherStart, OtherEnd, Crash, Load, Notify, Listen, countVars
<1>1. CASE UnitStart(p) \/ StartByHand(p) \/ OtherStart(p)
  <2>1. Ages
    BY <1>1 DEF UnitStart, StartByHand, OtherStart, Start, Programs, Ages, TypeOK
  <2>2. TypeOK'
    BY <1>0, <1>1, CountAssumption
       DEF UnitStart, StartByHand, OtherStart, Start, TypeOK, Daemon, Deaf, Programs, fileVars, countVars
  <2> QED
    BY <1>0, <2>1, <2>2, AgesInv
<1>2. CASE OtherEnd(p) \/ Crash(p) \/ ((Load(p) \/ Listen(p)) /\ End({p}))
  <2>1. End({p})
    BY <1>2 DEF OtherEnd, Crash
  <2>2. TypeOK'
    <3>1. byHand' = byHand /\ faults' \in 0 .. MaxFaults
      <4>1. faults \in 0 .. MaxFaults
        BY DEF TypeOK
      <4>2. byHand' = byHand /\ (faults' = faults \/ (faults < MaxFaults /\ faults' = faults + 1))
        BY <1>2 DEF OtherEnd, Crash, Load, Listen, countVars
      <4> QED
        BY <4>1, <4>2, CountAssumption
    <3>2. /\ stage' \in [Pids -> Daemon \cup Programs \cup {"free"}]
          /\ bare' \subseteq Pids /\ unit' \in Pids \cup {Nobody}
      BY <2>1, EndAges
    <3> QED
      BY <1>0, <3>1, <3>2 DEF TypeOK, fileVars
  <2> QED
    BY <1>0, <2>1, <2>2, EndAges, AgesInv
<1>3. CASE \/ Load(p) /\ Goes(p, "load", "truncate pid")
           \/ Notify(p)
           \/ Listen(p) /\ Goes(p, "listen", "run")
  <2>1. Ages
    BY <1>3 DEF Load, Notify, Goes, Ages, TypeOK
  <2>2. \E to \in Daemon : stage' = [stage EXCEPT ![p] = to]
    BY <1>3 DEF Load, Notify, Goes, Daemon, Deaf, Saving
  <2>3. UNCHANGED <<bare, unit, faults, byHand, commands>>
    BY <1>3 DEF Load, Notify, Listen, Goes, countVars
  <2>4. TypeOK'
    BY <1>0, <2>2, <2>3 DEF TypeOK, fileVars
  <2> QED
    BY <1>0, <2>1, <2>4, AgesInv
<1> QED
  BY <1>1, <1>2, <1>3 DEF Load, Listen

\* A daemon saves its pid.
LEMMA SaveInv ==
  ASSUME IInv, NEW p \in Pids, TruncatePid(p) \/ TruncateName(p) \/ WritePid(p) \/ WriteName(p),
         UNCHANGED loads
  PROVE  IInv'
<1> USE PidAssumption DEF IInv
<1>1. TypeOK'
  BY DEF TruncatePid, TruncateName, WritePid, WriteName, Goes, TypeOK, Daemon, Deaf, Saving, countVars,
         Empty, Missing
<1>2. CASE TruncatePid(p)
  <2>1. SoleInv'
    BY <1>2 DEF TruncatePid, Goes, SoleInv, TypeOK, Busy, Saving
  <2>2. GoalInv'
    BY <1>2 DEF TruncatePid, GoalInv, TypeOK
  <2>3. PidInv' /\ TriedInv'
    BY <1>2 DEF TruncatePid, Goes, PidInv, TriedInv, TypeOK
  <2> QED
    BY <1>1, <2>1, <2>2, <2>3
<1>3. CASE TruncateName(p) \/ WritePid(p) \/ WriteName(p)
  <2>1. /\ UNCHANGED <<cli, sole, bare>> /\ stage[p] \in Busy
        /\ stage'[p] \in {"write pid", "write name", "notify"}
        /\ \A q \in Pids \ {p} : stage'[q] = stage[q]
    BY <1>3 DEF TruncateName, WritePid, WriteName, Goes, TypeOK, Busy, Saving
  <2>2. SoleInv'
    <3> SUFFICES ASSUME sole # Nobody PROVE SoleInv'
      BY <2>1 DEF SoleInv
    <3>1. p = sole
      BY <2>1 DEF SoleInv
    <3>2. \A q \in Pids \ {sole} : stage'[q] \notin Busy
      BY <2>1, <3>1 DEF SoleInv
    <3>3. CASE TruncateName(p)
      BY <2>1, <3>1, <3>2, <3>3 DEF SoleInv, TruncateName, Goes, TypeOK
    <3>4. CASE WritePid(p)
      BY <2>1, <3>1, <3>2, <3>4 DEF SoleInv, WritePid, Goes, TypeOK
    <3>5. CASE WriteName(p)
      BY <2>1, <3>1, <3>2, <3>5 DEF SoleInv, WriteName, Goes, TypeOK
    <3> QED
      BY <1>3, <3>3, <3>4, <3>5
  <2>3. GoalInv'
    BY <2>1 DEF GoalInv, SoleInv, Busy, Saving
  <2>4. PidInv' /\ TriedInv'
    BY <2>1 DEF PidInv, TriedInv
  <2> QED
    BY <1>1, <2>2, <2>3, <2>4
<1> QED
  BY <1>2, <1>3

\* A reboot ends everything but the files.
LEMMA RebootInv == ASSUME IInv, Reboot, UNCHANGED loads PROVE IInv'
<1> USE DEF IInv
<1>1. Ages /\ TypeOK'
  BY EndAges, CountAssumption DEF Reboot, Idle, TypeOK, fileVars
<1>2. SoleInv'
  BY DEF Reboot, End, SoleInv, TypeOK, Busy, Saving, fileVars
<1>3. GoalInv' /\ PidInv' /\ TriedInv'
  BY DEF Reboot, Idle, GoalInv, PidInv, TriedInv
<1> QED
  BY <1>1, <1>2, <1>3

\* A command of atella-cli begins.
LEMMA CommandInv ==
  ASSUME IInv, NEW c \in {"reload", "send", "update"}, Command(c), UNCHANGED loads
  PROVE  IInv'
<1> USE PidAssumption, CountAssumption DEF IInv
<1>1. Ages /\ UNCHANGED <<procVars, fileVars, sole>>
  BY DEF Command, Ages, procVars
<1>2. Goal \in Pids \cup {Nobody} /\ (Goal # Nobody => Goal = sole /\ sole \in bare /\ stage[sole] = "run")
  BY DEF Goal, TypeOK
<1>5. commands' \in 0 .. MaxCommands /\ UNCHANGED <<faults, byHand>>
  BY DEF Command, TypeOK
<1>3. CASE c = "update"
  <2>1. cli' = [Idle EXCEPT !.cmd = c, !.pc = "dial"]
    BY <1>3 DEF Command
  <2>2. TypeOK'
    BY <1>1, <1>3, <1>5, <2>1 DEF TypeOK, Idle, procVars, fileVars
  <2>3. cli'.goal = Nobody /\ cli'.pc = "dial" /\ cli'.tried = {} /\ cli'.cur = 0
    BY <2>1 DEF Idle
  <2>4. GoalInv' /\ PidInv'
    BY <2>3 DEF GoalInv, PidInv
  <2>5. {} = 0 .. 0 - 1
    OBVIOUS
  <2>6. TriedInv'
    BY Zenon, <2>3, <2>5 DEF TriedInv
  <2> QED
    BY <1>1, <2>2, <2>4, <2>6 DEF SoleInv, procVars, fileVars
<1>4. CASE c # "update"
  <2>1. cli' = [Idle EXCEPT !.cmd = c, !.pc = "pid", !.goal = Goal]
    BY <1>4 DEF Command
  <2>2. TypeOK'
    BY <1>1, <1>2, <1>4, <1>5, <2>1 DEF TypeOK, Idle, procVars, fileVars
  <2>3. GoalInv' /\ PidInv' /\ TriedInv'
    BY <1>1, <1>2, <2>1 DEF GoalInv, PidInv, TriedInv, Idle, procVars
  <2> QED
    BY <1>1, <2>2, <2>3 DEF SoleInv, procVars, fileVars
<1> QED
  BY <1>3, <1>4

\* atella-cli reads and looks.
LEMMA LookInv == ASSUME IInv, ReadPid \/ ReadName \/ Look, UNCHANGED loads PROVE IInv'
<1> USE PidAssumption DEF IInv
<1>1. UNCHANGED <<stage, bare, unit, pidFile, nameFile, sole, faults, byHand, commands>>
  BY DEF ReadPid, ReadName, Look, LookFor, Unchanged, procVars, fileVars, countVars
<1>2. TypeOK' /\ GoalInv' /\ PidInv'
  <2>1. CASE cli' = [cli EXCEPT !.pc = "idle"]
    BY <1>1, <2>1 DEF TypeOK, GoalInv, PidInv
  <2>2. CASE cli.pc = "pid" /\ pidFile \in Pids /\ cli' = [cli EXCEPT !.pc = "name", !.pid = pidFile]
    BY <1>1, <2>2 DEF TypeOK, GoalInv, PidInv, SoleInv
  <2>3. CASE cli.pc = "name" /\ cli' = [cli EXCEPT !.pc = "look"]
    BY <1>1, <2>3 DEF TypeOK, GoalInv, PidInv
  <2>4. CASE cli.pc = "look" /\ cli' = [cli EXCEPT !.pc = "kill"]
    BY <1>1, <2>4 DEF TypeOK, GoalInv, PidInv
  <2> QED
    BY <2>1, <2>2, <2>3, <2>4 DEF ReadPid, ReadName, Look, LookFor, CliGoes
<1>3. cli'.pc # "dial"
  BY DEF ReadPid, ReadName, Look, LookFor, CliGoes, TypeOK
<1> QED
  BY <1>1, <1>2, <1>3 DEF SoleInv, TriedInv

\* atella-cli sends the signal, or installs what it downloaded.
LEMMA EndInv == ASSUME IInv, Kill \/ Download, UNCHANGED loads PROVE IInv'
<1> USE DEF IInv
<1>1. cli' = [cli EXCEPT !.pc = "idle"] /\ UNCHANGED <<fileVars, sole, countVars>>
  BY DEF Kill, Download, CliGoes
<1>2. UNCHANGED procVars \/ \E P : End(P)
  BY DEF Kill, Download
<1>3. Ages /\ TypeOK'
  BY <1>1, <1>2, EndAges DEF TypeOK, procVars, fileVars, countVars, Ages
<1>4. SoleInv'
  BY <1>1, <1>2, PidAssumption DEF SoleInv, End, TypeOK, Busy, Saving, procVars, fileVars
<1>5. GoalInv'
  BY <1>1, <1>2, PidAssumption DEF GoalInv, End, TypeOK, procVars
<1>6. PidInv' /\ TriedInv'
  BY <1>1 DEF PidInv, TriedInv, TypeOK
<1> QED
  BY <1>3, <1>4, <1>5, <1>6

\* atella-cli dials the masters.
LEMMA DialInv == ASSUME IInv, DialFailed \/ Dialled, UNCHANGED loads PROVE IInv'
<1> USE DEF IInv
<1>1. UNCHANGED <<stage, bare, unit, pidFile, nameFile, sole, faults, byHand, commands>> /\ cli.pc = "dial"
  BY DEF DialFailed, DialFailedGivingUp, Dialled, CliGoes, Unchanged, procVars, fileVars, countVars
<1>2. CASE DialFailed
  <2>1. Masters > 0 /\ Masters \in Nat /\ cli.cur \in Nat /\ cli.cur < Masters
    BY <1>2, CountAssumption DEF DialFailed, DialFailedGivingUp, TypeOK
  <2>2. NextMaster = IF cli.cur + 1 = Masters THEN 0 ELSE cli.cur + 1
    BY <2>1, NextIndex DEF NextMaster
  <2>3. cli' = [cli EXCEPT !.cur = NextMaster, !.tried = cli.tried \cup {cli.cur},
                           !.pc = IF NextMaster = 0 THEN "idle" ELSE "dial"]
    BY <1>2 DEF DialFailed, DialFailedGivingUp
  <2>4. TypeOK'
    <3>1. NextMaster \in Nat /\ NextMaster < Masters
      BY <2>1, <2>2
    <3>2. cli.tried \cup {cli.cur} \in SUBSET (0 .. Masters)
      BY <2>1 DEF TypeOK
    <3> QED
      BY <1>1, <2>3, <3>1, <3>2 DEF TypeOK
  <2>5. TriedInv'
    <3> SUFFICES ASSUME cli'.pc = "dial" PROVE cli'.tried = 0 .. cli'.cur - 1
      BY DEF TriedInv
    <3>1. cli'.cur = cli.cur + 1 /\ cli'.tried = cli.tried \cup {cli.cur}
      BY <2>1, <2>2, <2>3 DEF TypeOK
    <3>2. cli.tried = 0 .. cli.cur - 1
      BY <1>1 DEF TriedInv
    <3> QED
      BY <2>1, <3>1, <3>2
  <2>6. GoalInv' /\ PidInv'
    BY <1>1, <2>3 DEF GoalInv, PidInv, TypeOK
  <2> QED
    BY <1>1, <2>4, <2>5, <2>6 DEF SoleInv
<1>3. CASE Dialled
  <2>1. \E next \in {"idle", "download"} : cli' = [cli EXCEPT !.pc = next]
    BY <1>3 DEF Dialled, CliGoes
  <2>2. TypeOK' /\ GoalInv' /\ PidInv' /\ TriedInv'
    BY <1>1, <2>1 DEF TypeOK, GoalInv, PidInv, TriedInv
  <2> QED
    BY <1>1, <2>2 DEF SoleInv
<1> QED
  BY <1>2, <1>3

\* The files break, or are repaired.
LEMMA FilesInv == ASSUME IInv, Break \/ Repair PROVE IInv'
<1>1. UNCHANGED <<stage, bare, unit, pidFile, nameFile, cli, sole, byHand, commands>>
  BY DEF Break, Repair, procVars, fileVars, countVars
<1>2. TypeOK'
  <2>0. faults \in 0 .. MaxFaults /\ loads \in BOOLEAN
    BY DEF IInv, TypeOK
  <2>1. CASE Break
    <3>1. loads' = FALSE
      BY Zenon, <2>1 DEF Break
    <3>2. faults < MaxFaults /\ faults' = faults + 1
      BY <2>1 DEF Break
    <3>3. loads' \in BOOLEAN
      BY <3>1
    <3>4. faults' \in 0 .. MaxFaults
      BY <2>0, <3>2, CountAssumption
    <3> QED
      BY <1>1, <3>3, <3>4 DEF IInv, TypeOK
  <2>2. CASE Repair
    <3>1. loads' = TRUE
      BY Zenon, <2>2 DEF Repair
    <3>2. UNCHANGED faults
      BY <2>2 DEF Repair, countVars
    <3>3. loads' \in BOOLEAN
      BY <3>1
    <3> QED
      BY <1>1, <2>0, <3>2, <3>3 DEF IInv, TypeOK
  <2> QED
    BY <2>1, <2>2
<1>3. SoleInv'
  BY <1>1 DEF IInv, SoleInv
<1> QED
  BY <1>1, <1>2, <1>3 DEF IInv, GoalInv, PidInv, TriedInv

\* The inductive invariant holds in every state of every behaviour.
THEOREM Invariance == Spec => []IInv
<1>1. IInv /\ [Next]_vars => IInv'
  <2>1. ASSUME IInv, UNCHANGED vars PROVE IInv'
    <3>1. UNCHANGED <<stage, bare, unit, loads, pidFile, nameFile, cli, sole, faults, byHand, commands>>
      BY <2>1 DEF vars, procVars, fileVars, countVars
    <3>2. TypeOK'
      BY <2>1, <3>1 DEF IInv, TypeOK
    <3>3. SoleInv'
      BY <2>1, <3>1 DEF IInv, SoleInv
    <3> QED
      BY <2>1, <3>1, <3>2, <3>3 DEF IInv, GoalInv, PidInv, TriedInv
  <2> QED
    BY <2>1, ProcessInv, SaveInv, RebootInv, CommandInv, LookInv, EndInv, DialInv, FilesInv
       DEF Next, Process, DaemonStep, CliStep
<1> QED
  BY <1>1, InitInv, PTL DEF Spec

\* Every variable keeps to its values.
THEOREM TypeCorrect == Spec => []TypeOK
BY Invariance, PTL DEF IInv

\* A signal for a daemon that runs with files of its own arrives, whatever other
\* daemons and programs begin, end or restart meanwhile.
THEOREM Arrives == Spec => SignalArrives
<1>1. IInv /\ [Next]_vars => [cli.pc # "idle" /\ cli'.pc = "idle" /\ cli.goal # Nobody /\ stage[cli.goal] = "run"
         => (cli.pc = "kill" /\ cli.pid = cli.goal) \/ cli' = Idle]_vars
  <2> SUFFICES ASSUME IInv, Next, cli.pc # "idle", cli'.pc = "idle", cli.goal # Nobody,
                      stage[cli.goal] = "run", cli' # Idle
               PROVE  cli.pc = "kill" /\ cli.pid = cli.goal
    OBVIOUS
  <2>1. /\ cli.goal = sole /\ cli.pc \notin {"dial", "download"} /\ sole \in bare
        /\ cli.pc \in {"name", "look", "kill"} => cli.pid = sole
        /\ pidFile = sole /\ nameFile = "atella" /\ sole \in Pids
    BY PidAssumption DEF IInv, GoalInv, SoleInv, TypeOK
  <2>2. ~ReadPid /\ ~ReadName /\ ~Look
    BY <2>1 DEF ReadPid, ReadName, Look, LookFor, CliGoes, Daemon, IInv, TypeOK
  <2>3. ~DialFailed /\ ~Dialled /\ ~Download
    BY <2>1 DEF DialFailed, DialFailedGivingUp, Dialled, Download, CliGoes
  <2>4. ~Reboot /\ ~Break /\ ~Repair /\ \A c \in {"reload", "send", "update"} : ~Command(c)
    BY DEF Reboot, Break, Repair, Command, countVars
  <2>5. \A p \in Pids : ~Process(p)
    BY DEF Process, UnitStart, StartByHand, OtherStart, OtherEnd, Crash, DaemonStep, Load, TruncatePid,
           TruncateName, WritePid, WriteName, Notify, Listen, IInv, TypeOK
  <2>6. Kill
    BY <2>2, <2>3, <2>4, <2>5 DEF Next, CliStep
  <2> QED
    BY <2>1, <2>6 DEF Kill
<1> QED
  BY <1>1, Invariance, PTL DEF Spec, SignalArrives

\* An update that gives up has tried every master, however many there are.
THEOREM AllMastersTried == Spec => UpdateTriesAll
<1>1. IInv /\ [Next]_vars =>
        [cli.pc = "dial" /\ cli'.pc = "idle" => cli'.tried = 0 .. Masters - 1 \/ cli' = Idle]_vars
  <2> SUFFICES ASSUME IInv, Next, cli.pc = "dial", cli'.pc = "idle", cli' # Idle
               PROVE  cli'.tried = 0 .. Masters - 1
    OBVIOUS
  <2>1. DialFailed \/ Dialled
    <3>1. ~ReadPid /\ ~ReadName /\ ~Look /\ ~Kill /\ ~Download
      BY DEF ReadPid, ReadName, Look, LookFor, Kill, Download, CliGoes
    <3>2. ~Reboot /\ ~Break /\ ~Repair /\ \A c \in {"reload", "send", "update"} : ~Command(c)
      BY DEF Reboot, Break, Repair, Command
    <3>3. \A p \in Pids : ~Process(p)
      BY DEF Process, UnitStart, StartByHand, OtherStart, OtherEnd, Crash, DaemonStep, Load, TruncatePid,
             TruncateName, WritePid, WriteName, Notify, Listen, IInv, TypeOK
    <3> QED
      BY <3>1, <3>2, <3>3 DEF Next, CliStep
  <2>2. cli.tried = 0 .. cli.cur - 1 /\ cli.cur \in Nat /\ Masters \in Nat /\ (cli.cur = 0 \/ cli.cur < Masters)
    BY CountAssumption DEF IInv, TriedInv, TypeOK
  <2>3. CASE DialFailed
    <3>1. NextMaster = 0 /\ Masters > 0 /\ cli'.tried = cli.tried \cup {cli.cur}
      BY <2>3 DEF DialFailed, DialFailedGivingUp, IInv, TypeOK
    <3>2. cli.cur + 1 = Masters
      BY <2>2, <3>1, NextIndex DEF NextMaster
    <3>3. (0 .. cli.cur - 1) \cup {cli.cur} = 0 .. cli.cur
      BY <2>2
    <3>4. cli.cur = Masters - 1
      BY <2>2, <3>2
    <3> QED
      BY <2>2, <3>1, <3>3, <3>4
  <2>4. CASE Dialled
    <3>1. Masters = 0 /\ cli'.tried = cli.tried
      BY <2>2, <2>4 DEF Dialled, CliGoes, IInv, TypeOK
    <3>2. cli.cur = 0
      BY <2>2, <3>1
    <3>3. cli.tried = {} /\ 0 .. Masters - 1 = {}
      BY <2>2, <3>1, <3>2
    <3> QED
      BY <3>1, <3>3
  <2> QED
    BY <2>1, <2>3, <2>4
<1> QED
  BY <1>1, Invariance, PTL DEF Spec, UpdateTriesAll

-----------------------------------------------------------------------------
(***************************************************************************)
(* A daemon that runs.                                                     *)
(***************************************************************************)
\* The port belongs to one daemon.
OneRuns == \A p, q \in Pids : stage[p] = "run" /\ stage[q] = "run" => p = q

RunStays == [][\A p \in Pids : stage[p] = "run" => stage'[p] = "run" \/ Ended(p)]_vars

\* A pid is made to run by Listen only, which looks at all of them.
LEMMA StepOne == TypeOK /\ OneRuns /\ [Next]_vars => OneRuns'
<1> SUFFICES ASSUME TypeOK, OneRuns, [Next]_vars PROVE OneRuns'
  OBVIOUS
<1>1. CASE \A q \in Pids : stage'[q] = "run" => stage[q] = "run"
  BY <1>1 DEF OneRuns
<1>2. ASSUME NEW p \in Pids, Listen(p) PROVE OneRuns'
  <2>1. CASE Goes(p, "listen", "run") /\ \A q \in Pids : stage[q] # "run"
    BY <2>1 DEF Goes, OneRuns, TypeOK
  <2>2. CASE End({p})
    BY <2>2 DEF End, OneRuns
  <2> QED
    BY <1>2, <2>1, <2>2 DEF Listen
<1>3. ASSUME NEW p \in Pids,
             \/ UnitStart(p) \/ StartByHand(p) \/ OtherStart(p) \/ OtherEnd(p) \/ Crash(p)
             \/ Load(p) \/ TruncatePid(p) \/ TruncateName(p) \/ WritePid(p) \/ WriteName(p) \/ Notify(p)
      PROVE  \A q \in Pids : stage'[q] = "run" => stage[q] = "run"
  <2>1. CASE UnitStart(p) \/ StartByHand(p) \/ OtherStart(p)
    BY <2>1 DEF UnitStart, StartByHand, OtherStart, Start, Programs, TypeOK
  <2>2. CASE End({p})
    BY <2>2 DEF End
  <2>3. ASSUME NEW to \in Deaf \cup {"listen"}, stage' = [stage EXCEPT ![p] = to]
        PROVE  \A q \in Pids : stage'[q] = "run" => stage[q] = "run"
    BY <2>3 DEF Deaf, Saving, TypeOK
  <2>4. UnitStart(p) \/ StartByHand(p) \/ OtherStart(p) \/ End({p})
        \/ \E to \in Deaf \cup {"listen"} : stage' = [stage EXCEPT ![p] = to]
    BY <1>3 DEF OtherEnd, Crash, Load, TruncatePid, TruncateName, WritePid, WriteName, Notify, Goes,
                Deaf, Saving
  <2> QED
    BY <2>1, <2>2, <2>3, <2>4
<1>4. CASE CliStep \/ Reboot \/ \E c \in {"reload", "send", "update"} : Command(c)
  BY <1>1, <1>4 DEF CliStep, ReadPid, ReadName, Look, LookFor, Kill, DialFailed, DialFailedGivingUp,
                    Dialled, Download, Unchanged, Reboot, Command, procVars, End
<1>6. CASE Break \/ Repair
  BY <1>1, <1>6 DEF Break, Repair, procVars
<1>5. CASE UNCHANGED vars
  BY <1>1, <1>5 DEF vars, procVars
<1> QED
  BY <1>1, <1>2, <1>3, <1>4, <1>5, <1>6 DEF Next, Process, DaemonStep

\* However many daemons the unit and the operators start, at most one runs.
THEOREM OneDaemonRuns == Spec => []OneRuns
<1>1. Init => OneRuns
  BY DEF Init, OneRuns
<1> QED
  BY <1>1, StepOne, TypeCorrect, PTL DEF Spec

\* A step that is no fault and no update keeps a daemon that runs.
LEMMA StepRun ==
  ASSUME TypeOK, [Next]_vars, NEW p \in Pids, stage[p] = "run"
  PROVE  stage'[p] = "run" \/ Ended(p)
<1>1. ASSUME NEW q \in Pids,
             \/ UnitStart(q) \/ StartByHand(q) \/ OtherStart(q) \/ OtherEnd(q) \/ DaemonStep(q)
      PROVE  stage'[p] = "run"
  BY <1>1 DEF UnitStart, StartByHand, OtherStart, Start, Programs, OtherEnd, End, DaemonStep, Load,
              TruncatePid, TruncateName, WritePid, WriteName, Notify, Listen, Goes, TypeOK
<1>2. CASE Reboot \/ \E q \in Pids : Crash(q)
  <2>1. faults \in Nat
    BY CountAssumption DEF TypeOK
  <2>2. faults' = faults + 1
    BY <1>2 DEF Reboot, Crash
  <2> QED
    BY <2>1, <2>2 DEF Ended
<1>3. CASE Kill
  BY <1>3 DEF Kill, End, Ended, Deaf, Saving, Programs, procVars
<1>4. CASE Download
  BY <1>4 DEF Download, CliGoes, End, Ended, procVars
<1>5. CASE ReadPid \/ ReadName \/ Look \/ DialFailed \/ Dialled
           \/ \E c \in {"reload", "send", "update"} : Command(c)
  BY <1>5 DEF ReadPid, ReadName, Look, LookFor, DialFailed, DialFailedGivingUp, Dialled, Unchanged,
              Command, procVars
<1>6. CASE Break \/ Repair \/ UNCHANGED vars
  BY <1>6 DEF Break, Repair, vars, procVars
<1> QED
  BY <1>1, <1>2, <1>3, <1>4, <1>5, <1>6 DEF Next, Process, CliStep

\* Another daemon that starts, saves its pid over the one in the file and finds
\* the port taken does not end the daemon that runs, nor does a signal to it,
\* unless it is a hangup while the files do not load.  Besides that only faults
\* (a crash or a panic, a reboot) and an update end it.
THEOREM RunIsKept == Spec => RunStays
<1>1. TypeOK /\ [Next]_vars => [\A p \in Pids : stage[p] = "run" => stage'[p] = "run" \/ Ended(p)]_vars
  BY StepRun
<1> QED
  BY <1>1, TypeCorrect, PTL DEF Spec, RunStays

\* A daemon that runs with files of its own is found by atella-cli from then on,
\* until another daemon begins to save its pid.
THEOREM ReachIsKept == Spec => ReachStays
<1>1. IInv /\ [Next]_vars =>
        [\A p \in Pids : Reachable(p) => Reachable(p)' \/ Ended(p) \/ pidFile' = Empty]_vars
  <2> SUFFICES ASSUME IInv, Next, NEW p \in Pids, Reachable(p), ~Ended(p), pidFile' # Empty
               PROVE  Reachable(p)'
    OBVIOUS
  <2>1. stage'[p] = "run"
    BY StepRun DEF IInv, Reachable
  <2>2. \A q \in Pids : stage[q] \notin Busy
    BY PidAssumption DEF IInv, SoleInv, Reachable, Busy, Saving
  <2>3. \A q \in Pids : ~TruncatePid(q) /\ ~TruncateName(q) /\ ~WritePid(q) /\ ~WriteName(q)
    BY <2>2 DEF TruncatePid, TruncateName, WritePid, WriteName, Goes, Busy, Saving
  <2>4. UNCHANGED <<fileVars, sole>>
    BY <2>3 DEF Next, Process, Break, Repair, UnitStart, StartByHand, OtherStart, OtherEnd, Crash, DaemonStep, Load, Notify,
                Listen, Reboot, CliStep, ReadPid, ReadName, Look, LookFor, Kill, DialFailed,
                DialFailedGivingUp, Dialled, Download, Unchanged, Command
  <2> QED
    BY <2>1, <2>4 DEF Reachable, fileVars
<1> QED
  BY <1>1, Invariance, PTL DEF Spec, ReachStays

=============================================================================
