----------------------------- MODULE AtellaControl -----------------------------
(***************************************************************************)
(* How a daemon is found and told (SavePid and GetPid in AtellaConfig.go,  *)
(* AtellaCli.go, atella.service): every daemon leaves its pid and its name *)
(* in two files; atella-cli reads them, compares the name with the command *)
(* line of that pid, and sends it a signal, or updates the package.  The   *)
(* unit starts its daemon again whenever it ends, others are started by    *)
(* hand, pids are given out again, also between the look of atella-cli and *)
(* its kill, and the files outlive all of them.                            *)
(*                                                                         *)
(* What a daemon does with a signal it catches is in AtellaDaemon; here a  *)
(* hangup loads the files at once, or never.                               *)
(***************************************************************************)
EXTENDS Naturals

CONSTANTS
  Pids,
  Nobody,       \* no pid
  Masters,      \* number of MasterServers.Hosts
  MaxFaults,    \* bound on the crashes and reboots, and on breaking the files
  MaxByHand,    \* bound on the daemons started by hand
  MaxCommands   \* bound on the commands of atella-cli

ASSUME PidAssumption == Nobody \notin Pids
ASSUME CountAssumption ==
  Masters \in Nat /\ MaxFaults \in Nat /\ MaxByHand \in Nat /\ MaxCommands \in Nat

Missing == "missing"
Empty   == "empty"
Saving  == {"truncate pid", "truncate name", "write pid", "write name"}
Deaf    == {"load", "notify"} \cup Saving     \* before signal.Notify
Daemon  == Deaf \cup {"listen", "run"}
Programs == {"other", "twin"}

VARIABLES
  stage,     \* of each pid: what its daemon does next, "free", "other" (a program)
             \* or "twin" (one whose command line ends in the daemon's name)
  bare,      \* daemons started without arguments
  unit,      \* the daemon of the unit
  loads,     \* the configuration of the daemons loads
  pidFile, nameFile,
  cli,       \* atella-cli: cmd, pc, the pid it read, and for an update the
             \* master at hand and those tried; goal is history, see Command
  sole,      \* history: the daemon that saved its pid last, and alone
  faults, byHand, commands

fileVars  == <<pidFile, nameFile>>
procVars  == <<stage, bare, unit>>
countVars == <<faults, byHand, commands>>
vars == <<procVars, loads, fileVars, cli, sole, countVars>>

Idle == [cmd |-> "none", pc |-> "idle", pid |-> Nobody, cur |-> 0, tried |-> {}, goal |-> Nobody]

Init ==
  /\ stage = [p \in Pids |-> "free"] /\ bare = {} /\ unit = Nobody
  /\ loads = TRUE /\ pidFile = Missing /\ nameFile = Missing
  /\ cli = Idle /\ sole = Nobody
  /\ faults = 0 /\ byHand = 0 /\ commands = 0

-----------------------------------------------------------------------------
(***************************************************************************)
(* Processes.  Pids are given out again, and they never run out.           *)
(***************************************************************************)
Start(p, what) == stage[p] = "free" /\ stage' = [stage EXCEPT ![p] = what]

UnitStart(p) ==
  /\ unit = Nobody /\ Start(p, "load")
  /\ unit' = p /\ bare' = bare \cup {p}
  /\ UNCHANGED <<fileVars, cli, sole, countVars>>

StartByHand(p) ==
  /\ byHand < MaxByHand /\ Start(p, "load")
  /\ byHand' = byHand + 1 /\ bare' \in {bare, bare \cup {p}}
  /\ UNCHANGED <<unit, fileVars, cli, sole, faults, commands>>

OtherStart(p) ==
  /\ \E q \in Pids \ {p} : stage[q] = "free"
  /\ \E program \in Programs : Start(p, program)
  /\ UNCHANGED <<bare, unit, fileVars, cli, sole, countVars>>

End(P) ==
  /\ stage' = [p \in Pids |-> IF p \in P THEN "free" ELSE stage[p]]
  /\ bare' = bare \ P
  /\ unit' = IF unit \in P THEN Nobody ELSE unit

OtherEnd(p) == stage[p] \in Programs /\ End({p}) /\ UNCHANGED <<fileVars, cli, sole, countVars>>

\* A daemon ends, for any of the reasons there are in AtellaDaemon.
Crash(p) ==
  /\ faults < MaxFaults /\ stage[p] \in Daemon
  /\ End({p}) /\ faults' = faults + 1
  /\ UNCHANGED <<fileVars, cli, sole, byHand, commands>>

\* An edit of the files that does not load, and one that does.
Break ==
  /\ faults < MaxFaults /\ loads
  /\ loads' = FALSE /\ faults' = faults + 1
  /\ UNCHANGED <<procVars, fileVars, cli, sole, byHand, commands>>

Repair == ~loads /\ loads' = TRUE /\ UNCHANGED <<procVars, fileVars, cli, sole, countVars>>

Reboot ==
  /\ faults < MaxFaults
  /\ End(Pids) /\ faults' = faults + 1 /\ cli' = Idle
  /\ UNCHANGED <<fileVars, sole, byHand, commands>>

-----------------------------------------------------------------------------
(***************************************************************************)
(* A daemon starts: LoadConfig, which may end it, SavePid, Notify, Listen. *)
(***************************************************************************)
Goes(p, from, to) == stage[p] = from /\ stage' = [stage EXCEPT ![p] = to] /\ UNCHANGED <<bare, unit>>

Load(p) ==
  /\ IF loads THEN Goes(p, "load", "truncate pid") ELSE stage[p] = "load" /\ End({p})
  /\ UNCHANGED <<fileVars, cli, sole, countVars>>

\* Variant: a pid file that is there stands for a running daemon.
TruncatePidOnce(p) ==
  /\ stage[p] = "truncate pid"
  /\ IF pidFile = Missing THEN Goes(p, "truncate pid", "truncate name") /\ pidFile' = Empty
                          ELSE End({p}) /\ UNCHANGED pidFile
  /\ sole' = p
  /\ UNCHANGED <<nameFile, cli, countVars>>

\* Variant: the pid file is opened without being truncated.
TruncatePidKept(p) ==
  /\ Goes(p, "truncate pid", "truncate name")
  /\ pidFile' = IF pidFile = Missing THEN Empty ELSE pidFile
  /\ sole' = p /\ cli' = [cli EXCEPT !.goal = Nobody]
  /\ UNCHANGED <<nameFile, countVars>>

TruncatePid(p) ==
  /\ Goes(p, "truncate pid", "truncate name")
  /\ pidFile' = Empty
  /\ sole' = IF \E q \in Pids \ {p} : stage[q] \in Saving \ {"truncate pid"} THEN Nobody ELSE p
  /\ cli' = [cli EXCEPT !.goal = Nobody]
  /\ UNCHANGED <<nameFile, countVars>>

TruncateName(p) ==
  /\ Goes(p, "truncate name", "write pid")
  /\ nameFile' = Empty
  /\ UNCHANGED <<pidFile, cli, sole, countVars>>

\* Written over what another daemon wrote since, the digits of both may mix.
WritePid(p) ==
  /\ Goes(p, "write pid", "write name")
  /\ pidFile' \in IF pidFile = Empty THEN {p} ELSE Pids
  /\ UNCHANGED <<nameFile, cli, sole, countVars>>

WriteName(p) ==
  /\ Goes(p, "write name", "notify")
  /\ nameFile' = "atella"
  /\ UNCHANGED <<pidFile, cli, sole, countVars>>

Notify(p) == Goes(p, "notify", "listen") /\ UNCHANGED <<fileVars, cli, sole, countVars>>

\* The port belongs to one daemon: another ends.
Listen(p) ==
  /\ IF \E q \in Pids : stage[q] = "run" THEN stage[p] = "listen" /\ End({p})
                                         ELSE Goes(p, "listen", "run")
  /\ UNCHANGED <<fileVars, cli, sole, countVars>>

DaemonStep(p) ==
  Load(p) \/ TruncatePid(p) \/ TruncateName(p) \/ WritePid(p) \/ WriteName(p) \/ Notify(p) \/ Listen(p)

-----------------------------------------------------------------------------
(***************************************************************************)
(* atella-cli, once its configuration is loaded.  The goal of a signal is  *)
(* the daemon that runs, if its files are its own and it can be told from  *)
(* its command line.                                                       *)
(***************************************************************************)
Goal == IF sole \in bare /\ stage[sole] = "run" THEN sole ELSE Nobody

Command(c) ==
  /\ cli.pc = "idle" /\ commands < MaxCommands
  /\ commands' = commands + 1
  /\ cli' = IF c = "update" THEN [Idle EXCEPT !.cmd = c, !.pc = "dial"]
                            ELSE [Idle EXCEPT !.cmd = c, !.pc = "pid", !.goal = Goal]
  /\ UNCHANGED <<procVars, fileVars, sole, faults, byHand>>

\* atella-cli goes on, or exits.
CliGoes(from, ok, next) ==
  /\ cli.pc = from
  /\ cli' = IF ok THEN next ELSE [cli EXCEPT !.pc = "idle"]

Unchanged == UNCHANGED <<procVars, fileVars, sole, countVars>>

\* GetPid, in three looks.  The whole command line is split at "/": only that
\* of a daemon without arguments ends in its name.
ReadPid ==
  /\ CliGoes("pid", pidFile \in Pids, [cli EXCEPT !.pc = "name", !.pid = pidFile])
  /\ Unchanged

ReadName == CliGoes("name", nameFile = "atella", [cli EXCEPT !.pc = "look"]) /\ Unchanged

LookFor(found) == CliGoes("look", found, [cli EXCEPT !.pc = "kill"]) /\ Unchanged

\* Variant: the zero byte stays at the end of the name.
LookWithTheZero == LookFor(FALSE)

Look == LookFor(stage[cli.pid] = "twin" \/ (stage[cli.pid] \in Daemon /\ cli.pid \in bare))

\* A hangup ends a daemon before its Notify, may until it has a client, and may
\* later if the files do not load; the other signals are ignored by a Go program
\* that does not ask for them.  Both end a program that has the pid by now.
Kill ==
  /\ cli.pc = "kill"
  /\ cli' = [cli EXCEPT !.pc = "idle"]
  /\ LET s == stage[cli.pid] IN
       \/ /\ \/ s \in Programs
             \/ cli.cmd = "reload" /\ (s \in Deaf \cup {"listen"} \/ (s = "run" /\ ~loads))
          /\ End({cli.pid})
       \/ /\ s \in {"free", "listen", "run"} \/ (cli.cmd = "send" /\ s \in Deaf)
          /\ UNCHANGED procVars
  /\ UNCHANGED <<fileVars, sole, countVars>>

NextMaster == (cli.cur + 1) % Masters

\* The masters in turn, until the index is back at its first value.
DialFailedGivingUp(giveUp) ==
  /\ cli.pc = "dial" /\ Masters > 0
  /\ cli' = [cli EXCEPT !.cur = NextMaster, !.tried = @ \cup {cli.cur},
                        !.pc = IF giveUp THEN "idle" ELSE "dial"]
  /\ Unchanged

\* Variant: the index is compared before it moves on.
DialFailedEarly == DialFailedGivingUp(cli.cur = 0)

DialFailed == DialFailedGivingUp(NextMaster = 0)

\* A master answers, and the package is downloaded, or the program panics with
\* no master in the list.
Dialled == CliGoes("dial", Masters > 0, [cli EXCEPT !.pc = "download"]) /\ Unchanged

\* The download fails, or what was downloaded is no package: the status of the
\* answer is not looked at.  dpkg stops the unit and starts it again.
Download ==
  /\ CliGoes("download", FALSE, cli)
  /\ UNCHANGED procVars \/ End({unit})
  /\ UNCHANGED <<fileVars, sole, countVars>>

CliStep == ReadPid \/ ReadName \/ Look \/ Kill \/ DialFailed \/ Dialled \/ Download

-----------------------------------------------------------------------------
Process(p) ==
  UnitStart(p) \/ StartByHand(p) \/ OtherStart(p) \/ OtherEnd(p) \/ Crash(p) \/ DaemonStep(p)

Next ==
  \/ /\ \/ \E p \in Pids : Process(p)
        \/ \E c \in {"reload", "send", "update"} : Command(c)
        \/ CliStep \/ Reboot
     /\ UNCHANGED loads
  \/ Break \/ Repair

Spec == Init /\ [][Next]_vars

(***************************************************************************)
(* Processes are scheduled, and systemd starts the unit (Restart=always).  *)
(***************************************************************************)
Fairness ==
  /\ \A p \in Pids : WF_vars(DaemonStep(p) /\ UNCHANGED loads)
  /\ SF_vars((\E p \in Pids : UnitStart(p)) /\ UNCHANGED loads)
  /\ WF_vars(CliStep /\ UNCHANGED loads)

FairSpec == Spec /\ Fairness

-----------------------------------------------------------------------------
(***************************************************************************)
(* Properties.                                                             *)
(***************************************************************************)

\* Every variable keeps to its values.
TypeOK ==
  /\ stage \in [Pids -> Daemon \cup Programs \cup {"free"}] /\ loads \in BOOLEAN
  /\ bare \subseteq Pids /\ unit \in Pids \cup {Nobody} /\ sole \in Pids \cup {Nobody}
  /\ pidFile \in Pids \cup {Missing, Empty} /\ nameFile \in {Missing, Empty, "atella"}
  /\ cli \in [cmd : {"none", "reload", "send", "update"},
              pc : {"idle", "pid", "name", "look", "kill", "dial", "download"},
              pid : Pids \cup {Nobody}, cur : Nat, tried : SUBSET (0 .. Masters),
              goal : Pids \cup {Nobody}]
  /\ cli.cur = 0 \/ cli.cur < Masters
  /\ faults \in 0 .. MaxFaults /\ byHand \in 0 .. MaxByHand /\ commands \in 0 .. MaxCommands

\* A signal for a daemon that runs, whose files are its own, arrives: atella-cli
\* does not end without it, unless that daemon ends or another one starts.
SignalArrives ==
  [][cli.pc # "idle" /\ cli'.pc = "idle" /\ cli.goal # Nobody /\ stage[cli.goal] = "run"
       => (cli.pc = "kill" /\ cli.pid = cli.goal) \/ cli' = Idle]_vars

\* An update gives up only when it has tried every master.
UpdateTriesAll ==
  [][cli.pc = "dial" /\ cli'.pc = "idle" => cli'.tried = 0 .. Masters - 1 \/ cli' = Idle]_vars

\* What may end a daemon that runs: a fault, an update of the package, or a hangup
\* sent to its pid while the files do not load.
Ended(p) ==
  \/ faults' > faults
  \/ cli.pc = "download" /\ unit = p
  \/ cli.pc = "kill" /\ cli.cmd = "reload" /\ cli.pid = p /\ ~loads

\* A daemon runs, was the last to save its pid, undisturbed, and its files say so.
Reachable(p) == stage[p] = "run" /\ sole = p /\ pidFile = p /\ nameFile = "atella"

\* The files of such a daemon stay its own until it ends: whatever processes start,
\* save and end, with whatever pids, another daemon takes them over in one way only,
\* by truncating the pid file first.
ReachStays ==
  [][\A p \in Pids : Reachable(p) => Reachable(p)' \/ Ended(p) \/ pidFile' = Empty]_vars

\* Crashes, reboots, signals, updates and daemons started by hand end, and then,
\* if the configuration loads in the end, a daemon runs for good; unless there was
\* one started by hand, it can be reached: the files are its own.
ServiceSettles ==
  <>[]loads => <>[](\E p \in Pids : stage[p] = "run" /\ (p = sole \/ byHand > 0))

=============================================================================
