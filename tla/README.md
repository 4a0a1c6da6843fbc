# A TLA+ development of Atella

Atella is an agent for distributed checking of servers: every host runs the
daemon `atella`, each daemon watches the hosts next to it in the rings
("sectors") of its configuration, reports the verdicts as a *status vector* to a
master, and delivers reports through mail or a bot. This directory models the
daemon's concurrent core in TLA+, checks it with TLC and proves its main safety
properties with TLAPS. Paths below are relative to `src/`.

1. [The system](#1-the-system) - inventory: components, state, interactions, hazards
2. [The modules](#2-the-modules) - what is modelled where, and how it corresponds to the code
3. [The runs](#3-the-runs) - what each checks, its bounds, and what it shows
4. [Fairness](#4-fairness)
5. [The proofs](#5-the-proofs)
6. [Disagreements between the code and what it says](#6-disagreements)
7. [What is not modelled, and why](#7-not-modelled)
8. [Plan](#8-plan)

## 1. The system

One process holds the following parts. They are goroutines that share
`Config` (`AtellaConfig/AtellaConfig.go`) and are told to stop by closing a
channel `stopRequest`; each answers by setting a flag `stopReply` that the
signal handler polls.

| Component | Code | State | Operations |
|---|---|---|---|
| Neighbour routine, one per watched address | `AtellaClient.go` `runNeighbour` | the connection, `connError`, `emptyMessageCnt`, local `status` and `hostname`, its slot in `Vector` | dial, the exchange `auth` / `get hostname` / `set host`, count empty lines, publish the verdict, stop |
| Master routine of the client | `runMasterClient`, `sendVectorToMaster` | connection to a master, `CurrentMasterServerIndex`, `masterServerIndex` | every interval send `auth` and `set vector`; on an error go round the masters; a master writes its own entry of `MasterVector` instead |
| Client life | `New`, `init`, `Run`, `Reload`, `Stop` | `neighbours`, `stopRequest`, `master.stopReply` | start routines, stop them and wait, start again with the new configuration |
| Neighbour selection | `GetMySector`, `AddHost` | `Sectors`, `neighbours`, `Vector` | walk the sectors, take `host_cnt` hosts before and after, one slot and one neighbour for each address |
| Line protocol | `AtellaServer.go` `OnNewMessage` | per session: counters and names | reply to a line, change `MasterVector` |
| Server | `Listen`, `listen`, `OnNewClient`, `Stop` | sessions, exit flags, `closeReplyServer` | accept with a deadline of a second, read lines, end a session, stop |
| Master routine of the server | `AtellaMaster.go` `MasterServer` | `closeReplyMaster`, `MasterVector` | make the map, wait for the stop |
| Report spool | `Channels.go` `Report`, `Send`, `Sender`, `StopSender`, `Init` | files in `message_path`; `isLocked`, a mutex, `stopRequest`, `stopReply` | write a report (the CLI), read / deliver / remove reports (the main loop and the signal handler) |
| Delivery channels | `AtellaMailChannel`, `AtellaTgSibnetChannel` | a connection each time | `SendMessage` |
| Configuration files | `LoadConfig`, `LoadDirectory`, `addSector`, `addChannel` | `Config` | read the main file and those of a directory into the configuration there is, at the start and at every hangup |
| Daemon | `cmd/atella/atella.go` `main`, `handle` | how far `main` is, the channel of signals, `server`, `client`, `CurrentMasterServerIndex` | SIGHUP reload, SIGINT stop, SIGUSR1/2 send |
| Process id file | `SavePid`, `GetPid` | the files of the pid and of the name | save both at the start; find the daemon |
| Command line tool | `AtellaCli.go` `Command`, `DownloadFile` | the pid it has read, the index of the master it tries | `reload`, `send` (signals), `report` (spool), `update` |
| Service | `pkg/atella.service`, `pkg/deb/post-install.sh` | the process of the unit | start the daemon again whenever it ends; restart it at an update |
| Database, logger, web interface | | | see section 7 |

How they interact: a daemon's neighbour routines and master routine are clients
of *other* daemons' sessions over TCP; all neighbour routines write their slots
of one `Vector`, the master routine reads it; all sessions write `MasterVector`
under `MasterVectorMutex`, and on a master the client writes it without; the CLI
and the daemon share only the spool directory and signals; the signal handler
runs `LoadConfig`, `Reload`, `Stop` and `Send` in its own goroutine while everything else
goes on, `main` included.

What makes each part correct, and what is hard about it (the complete list, with
lines, is `hazards` in `PROJECT.json`):

* *Neighbour routine*: the verdict is the truth. Replies are matched to requests
  only by their order; `status` and `hostname` outlive a connection; losing a
  connection shows up as an error, as `io.EOF` taken for empty lines, or not at
  all; a stop may come between any two steps.
* *Master routine*: the latest vector reaches the master the client believes it
  has, whatever masters fail. A write to a dead connection succeeds; two indexes
  name the master; nobody reads the replies.
* *Client life*: a reload leaves no routine of the old configuration behind.
  Channels and arrays are replaced while stopping goroutines still look them up.
* *Neighbour selection*: the right hosts are watched, by those that should, each
  with its own slot. Ring arithmetic with Go's signed remainder; short rings;
  sectors that accumulate over reloads.
* *Server*: sessions exclude each other, newer vectors win in the end, a stop
  ends everything although `exit` is overwritten, although the map is replaced
  late, and although old connections outlive a reconnection.
* *Configuration files*: what is loaded depends on the files, not on the history. Files
  are read in an order into what is there, nothing is ever taken away, and a channel
  copies a setting that a later file may change.
* *Daemon*: a signal that was accepted takes effect, at any moment of the start or the
  run. The channel holds one signal; before `Notify` a hangup kills; `server` and `client`
  are nil for a while; a load shortens the list of masters under a routine that goes round it.
* *Control*: `atella-cli` reaches the daemon, and a daemon that can be reached runs in the end.
  Pids are given out again, other programs pass for the daemon, the two files outlive their daemon, are truncated before they are written, and belong to the
  daemon that started last.
* *Spool*: no report is lost or repeated for no reason, although the lock flag
  is racy and cleared by a reload, although files are listed while they are being
  written, and although the daemon crashes.

## 2. The modules

| Module | Stands for | Extends |
|---|---|---|
| `AtellaProtocol` | lines and the reply to each | |
| `AtellaWatch` | abstract: what a daemon promises of a neighbour it watches | |
| `AtellaNeighbour` | one neighbour routine, its stopper, its slot, the TCP connection, the other daemon; implements `AtellaWatch` | `AtellaProtocol` |
| `AtellaMasterLink` | the master routine of a client, its stopper, connection, the masters | `AtellaProtocol` |
| `AtellaClientLife` | generations of routines over reloads and the stop | |
| `AtellaDaemon` | `main`, the signal handler, the files, the index of the master; around the steps of `AtellaClientLife` | `AtellaClientLife` |
| `AtellaSectors` | neighbour selection over the configurations loaded | |
| `AtellaConfigFiles` | the loading of the files, one after the other, before each search of `AtellaSectors` | `AtellaSectors` |
| `AtellaControl` | pids, the pid file, the unit, `atella-cli` | |
| `AtellaMasterVector` | abstract: what a master promises of `MasterVector` | |
| `AtellaServer` | accept loop, sessions and their stoppers, master routine, `MasterVector`, the hosts that write; implements `AtellaMasterVector` | |
| `AtellaReports` | abstract: what the report mechanism promises | |
| `AtellaSpool` | the spool with its two callers; implements `AtellaReports` | |
| `MC*` | instances for TLC | the module named |
| `*Proofs` | theorems | the module named, `TLAPS` |

An action is the code between two points where another goroutine or the
environment can be seen. Definitions that begin with "Variant" in their comment
are one-line bugs of the definition below them; they are used by no
specification and serve to show that a property can fail. Where a variant differs from the
code in one argument, both are instances of one operator. `PROJECT.json` maps
every definition to its lines.

**AtellaNeighbour.** `pc` is the position in `runNeighbour`: `check` (the head
of the outer loop, which looks at `exit`), `dial` (in `DialTimeout`), `auth`
(writing the first request), `read` (in `ReadString`), `done` (`stopReply`),
`panic`. Each kind of line has its action (`ReadAckAuth`, `ReadRefusal`,
`ReadAckHostname`, `ReadAckHost`, `ReadEmpty`, `ReadError`, ...); `Finish` is
the tail of the loop that commits `status` to the slot. The stopper is the
goroutine at 91-99, a step for each statement: it sets `exit`, then
`connError`, tests `conn`, closes it. `link` is what TCP will show this side:
`up`, `eof` (closed in an orderly way by the peer), `reset`, `dead` (the peer
vanished), and the faults move it. A dead peer is found by the keepalive that
Go's dialer enables by default since Go 1.13; without it a read on a dead link would
never return. The peer answers as `OnNewMessage` does, by `AtellaProtocol`.
Seen as a watch (`AtellaWatch`), a request is granted from the moment its ack is on its way
(`Granted`), and the verdict is up, down, or stale: up although the routine has left the
connection that brought it (`Verdict`).

**AtellaMasterLink.** `loop`, `dial`, `dialling`, `auth`, `vector`, `wake` are
the points of `runMasterClient` and `sendVectorToMaster`; the argument `query` is
fixed before the write, as in the code. A line written to a master that has
gone is accepted and lost; `half` stands for the time until the reset arrives.
Lines and replies are bounded by socket buffers. With `AcksFill` FALSE the replies take
no room (the model of a connection young enough), with TRUE they stay for ever,
as the code never reads them; see `MasterBacklog`.

**AtellaClientLife.** Every `init` makes a generation: a channel and an array.
A routine is `start`, `run`, `done` (has replied), `gone` (the master routine
that returns without masters and without a reply, 416-418; whether there are masters is
looked up when it starts) or `deaf`: a neighbour's routine
whose stop came during a dial that then succeeded (`Undone`), and that replies only when its new
connection is lost (`LateReply`), if ever. The stopper looks
up `c.stopRequest` when it *starts*, which may be after a reload; `masterReply`
is never reset, as in the code. That a routine which is told to stop replies unless it becomes `deaf` is
what `AtellaMasterLink!StopHonoured` and `AtellaNeighbour!StopAnsweredOutsideDial` check of the routines
themselves. There is no
client at first (`gen` is 0): `New` makes it by the `init` that `Reload` calls.

**AtellaDaemon.** `Order` is what `main` does, step by step, up to `Sender`; `task` is what
`handle` is busy with, one signal at a time. `SignalEarly` is the
default action of a signal `main` has not asked for yet, `SignalInto` the channel
of one place, `HandlerNil` the use of a `server` or `client` that is not there yet.
`Load` is `LoadConfig` with `LoadDirectory` as one step (their steps are in
`AtellaConfigFiles`); `InitClient` is `init`, which sets `CurrentMasterServerIndex`. The
sweep of the master routine (446-474) is there as far as the index goes: `Pick` looks the
master up and panics outside the list, `DialFailed` stores the index plus one and `Wrap`
takes the remainder, in Go's way, of the list as it is by then. The actions of
`AtellaClientLife` are taken as they are. A `Send` of the handler returns (`HandlerSent`) or does
not (`HandlerSticks`), and so does the one the sender is in when it is told to stop (`SenderStops`,
`SenderSticks`): `AtellaSpool` says when. `server.Stop` is one step: `AtellaServer` shows that it returns.

**AtellaSectors.** `i`, `j`, `l` are the loop variables; one turn of the inner
loop computes both neighbours (and panics if Go's remainder is negative) and
queues their addresses; `Add` is `AddHost` for one address. `Reload` appends to
`sectors`, as `addSector` does. The lists in `Files` may be in any order because
the loader walks a Go map.

**AtellaConfigFiles.** `disk` is what the files say, in the order they are read. `LoadFile`
is `LoadConfig` for one of them: the agent's settings first, then the channels, each with
the timeout the agent has at that point (`addChannel`), then the sectors, appended. A file
with an error ends the process (`failed`). `LoadEnd` is what follows in the
daemon (`Init`, and `init` of the client), from where on the search of `AtellaSectors` goes its way. Of the settings there are two, the count of hosts, which the selection uses, and the
timeout, which channels copy; the others behave like the first.

**AtellaControl.** `stage` of a pid is what its process is about to do: `load`, the four
steps of `SavePid` (truncate both files, write both), `notify`, `listen`, `run`; or
`other`, a program that is no daemon; `twin`, one whose command line ends in `/atella` all the
same (an editor of such a path); or `free`. `Look` is the comparison of
`/proc/<pid>/cmdline` with the file of the name: a daemon without arguments (`bare`)
passes, and a twin. Until `Kill` the pid may be given out again, and `Kill` ends whatever does not catch
the signal, or catches a hangup while the files do not load (`loads`, which also ends a daemon
that starts). `sole` is history: the daemon that saved its
files last and was not disturbed. `update` walks the masters by the index of the
configuration; the package restarts the unit (`Download`).

**AtellaServer.** `pc` of a session runs `waiting` (in the backlog), `new`,
`test` (the loop condition), `read`, `lock` (waiting for `MasterVectorMutex`),
`map`, `reply` (in `Send`, which returns when the peer has read enough or the connection is closed),
`ended`. `ReadBare` is a `get`, `set` or `auth` alone on its line: the index panic ends the daemon,
and `listener` is `dead`. `HasMasters` says whether the configuration lists masters, without which the
client of a master stores no entry of its own (`AtellaClient.go:416`). `Read` may still find lines buffered before a close. `Store`
writes the entry of the host that opened the connection (its `set host` name);
`Export` reads the map under the read lock. `MasterInit` replaces the map when
the goroutine gets to it. Variables of a session that are only written
(`canTalk`, `currentClientHostname`) and ids are left out. `AtellaMasterVector` has no sessions,
locks or lines: a register per host and, for each connection, the versions it
may still deliver, of which the oldest arrives first; the daemon may end at any time. The mapping (`UnderWay`)
takes the lines not read and the one at hand for those versions, and nothing of a session that is over.

**AtellaSpool.** A report file goes `none`, `empty` (created), `part` or
`whole`, `removed`. `Send` is split where the file system or the other caller
can come between: the racy test of `isLocked`, the mutex, the listing (with the
size each file has *then*), the read, the dispatch to channels, the removal,
unlock, and the late clearing of `isLocked`. A file may fail to open (`SendSkip`) or to be removed (`SendKeep`). The variables `m` and `res` are
kept from file to file, as in the code. `Crash` keeps only the files.

**Memory.** The flags polled across goroutines (`stopReply`, `exit`,
`connError`, `isLocked`) are plain variables in the code. The models read them
as sequentially consistent; a build that keeps one in a register for ever would
make the polling loops endless, which no model of the algorithm can exclude.

## 3. The runs

All runs set `CHECK_DEADLOCK FALSE`: stopped routines, ended processes and blocked readers
really do stop. Bounds are constants of the module: no hidden constraint.

| Run | Question | Bounds |
|---|---|---|
| `Neighbour` | Under every fault, two security codes and a stop at any time: is the verdict true, does the exchange proceed, is a loss noticed, is a stop answered? | one routine, one peer; the limit of empty lines is the code's 5 |
| `NeighbourDown` (violated) | Does a neighbour that stays down end up down? | the only fault is an orderly exit |
| `MasterLink` | Do sweeps, the current index and the delivery of the vector work with masters that exit, vanish and return? | 3 masters, one change of the vector, 2 lines of buffer |
| `MasterBacklog` (violated) | Does the vector arrive if unread replies keep their room? | 2 masters, no other fault, room for 2 replies |
| `Daemon` | Do signals take effect whenever they come, and do reloads replace the routines, with files that change, break, and lose their masters, and what may a reload or a stop wait for? | 1 neighbour, 2 reloads, 1 edit of the files, no master, two, or the agent itself |
| `Control` | Does the signal of `atella-cli` arrive, who takes the files away from a daemon, does a daemon run in the end? | 3 pids, 2 masters, 1 crash, reboot or edit that does not load, 1 daemon started by hand, 1 command |
| `Sectors` | Are the right hosts watched, with one slot each; does a load depend on the files alone? | rings of 0 to 6 hosts, two sectors, `host_cnt` 0 to 3, one or two files, one channel, two timeouts, one reload |
| `ServerSessions` | Do sessions exclude each other, when may an older vector win, and does `MasterVector` end up right? | 2 connections of one host, one change of its vector, exports, a master that lists masters |
| `ServerStop` | Does a stop end the accept loop, the master routine and the session? | 1 connection, every command, also malformed; one change of each vector |
| `SpoolSafety` | Do the two callers exclude each other and keep the flag right, whatever fails? | 2 reports (one to an unconfigured channel), every fault, one crash |
| `SpoolLive` | Is the promise kept and is every report sent, unless someone reads for ever? | 2 reports, one crash, every fault except half-written files and channels that lie |
| `SpoolRace` (violated) | Is every whole report sent? | 2 reports, no crash, only the race of listing and writing |

What they show, and why the bounds suffice:

* *Neighbour.* `StopAndWait` is why matching replies by order is right.
  `ExchangeNeverStalls` says that silence on a live connection comes only at the
  ends of the exchange. `KeepsWatch` (refinement of `AtellaWatch`) says that leftovers of
  an earlier connection never raise a slot: the neighbour has granted every request, the code included, on the
  present one, and what it has granted is not lost while the verdict rests on it. `UpIsCurrent` and `LossIsReported`
  hold as long as the peer never closes in an orderly way; `NeighbourDown` shows
  that this is the exact condition. Connections are used one after the other and
  share nothing but the variables of the routine, so that a second connection
  already meets all that can be left over; the model repeats them for ever.
* *MasterLink.* Three masters make a sweep with a beginning, a middle and a wrap
  around. A version is overwritten by the next, so two versions show staleness.
  `VectorArrives` needs every master to settle, one to be up, and the network to
  stop breaking connections; then the client ends on a live master with the last vector.
* *Daemon.* Generation g meets leftovers of g-1 and, through the flag that is
  never reset, of g-2: two reloads make three generations and every such pair; what one
  neighbour's routine does is independent of the others'. One edit makes a list of masters longer, shorter, empty
  or unreadable under routines that use it. `HangupHonoured`: a hangup that was put
  into the channel, or that found another hangup there, gets the files of that moment, or newer
  ones, loaded. A hangup that finds another *signal* in the channel is dropped, so the
  property is not about it. Both it and `InterruptEnds` hold unless the handler waits for ever, in one of three ways (`Waits`): for a
  `Send` that does not return, its own or the sender's; for a neighbour's routine whose stop was undone by its dial;
  for a master routine that returned for lack of masters (section 6). `CanReply` shows that the last
  two are the only ways in which `Reload` and `Stop` wait for a reply that need not come. `IndexPanicsOnlyAtReload` bounds
  where the index may be out of the list: between a load and the restart of the client,
  or with an old master routine beside the new one. All properties hold together with
  every way the process may end; `HandlerNil` and the two panics are reached.
* *Control.* Three pids are the unit's daemon, another one and a program that gets a
  pid from the file; one crash or reboot suffices to leave files behind and give the pid out again.
  That no other process is signalled is not a property: it fails in the code (section 6). `SignalArrives` is about a daemon whose files are its own and that
  runs without arguments. `ReachStays` says that the files of a daemon whose files are its own stay so
  until it ends or another one truncates them. `ServiceSettles`: once crashes, commands and daemons started by hand end, and if
  the files load from some time on, a daemon runs for good, and can be reached if none was started by hand.
* *Sectors.* The interesting rings are those in which the hosts before and after
  meet or wrap onto the agent (n <= 2 host_cnt), the panic (n < host_cnt), and one
  that is longer than both (n = 6). `WatchesItsRing` compares the loops with a
  definition by distance. In the two files, the second names the timeout, the channel's own, both or none:
  `ChannelsFollowAgent` and the channel part of `ReloadIsStable` hold if only the main file names the timeout, and
  fail otherwise, since it then takes a second load for the channel to get it.
* *Server.* Two sessions are enough for a conflict on the map; of one host, they
  are the old and the new connection. `OlderOnlyFromAbandoned` names the only two ways a vector goes back, `KeepsRegister`
  (refinement of `AtellaMasterVector`) says what each connection does, in order and without a loss before it is closed;
  `StoredInTheEnd` says it does not stay so, of a daemon that goes on and as long as no session waits for ever in `Send`: it does when its
  peer never reads, which is what the client of this program does to its master (`MasterBacklog`). The entry of the
  master itself is there if its configuration lists masters. In `ServerStop` a malformed command may end the
  daemon, which counts as a return in `StopReturns`; there, sessions share
  only the mutex, whose holder never waits, so one session is representative. Several hosts, and
  any number of connections, are in the proofs.
* *Spool.* The two callers are all there are. Two reports suffice because what a
  file leaves behind (`m`, `res`) is met by the next one only. `AtMostOnce` needs truthful
  channels, files that can be removed, and no crash; `KeepsPromise` (refinement of `AtellaReports`)
  needs whole files, through any crash.
  `SentUnlessStuck` isolates the one way a whole report waits for ever: a caller
  that never returns from a read, of an empty file or of a channel.

The type invariants (`TypeOK`, `DaemonTypeOK`) are proved (section 5).

## 4. Fairness

* Goroutines are scheduled: weak fairness of each routine, stopper, session,
  handler step. The Go scheduler is preemptive since 1.14 and the polling loops
  do not starve others before that when more than one processor is there.
* A dial repeated for ever to a running daemon succeeds, and a listening socket
  accepts in the end: strong fairness of `DialOk` and `Accept`. An accept loop with
  a deadline of one second gets every connection of its backlog.
* `MasterVectorMutex` is a `sync.RWMutex`, which does not starve writers: strong
  fairness of `Lock` and `MasterInit`.
* Resets, ends of abandoned connections and keepalive failures arrive (TCP).
* A report handed to its channel again and again is delivered once: strong
  fairness of `SendDelivered` for each report. Failures may come any number of times in between.
* In `AtellaDaemon`, `main`, the client's steps and the starts and stops of routines are
  under one weak fairness: each of them takes finitely many steps in a behaviour, so that
  none can keep another one from its turn for ever. Sweeps, which may go on for ever, have
  one of their own for each generation. There is none for `SenderSticks`, `HandlerSticks`, `Undone` and `LateReply`: they may
  happen, and nothing makes a `Send` return that is stuck or a connection go down.
* In `AtellaServer` the end of `Send` (`Reply`) is fair only on a connection one side has closed (`Runs`): an
  open one waits for its peer.
* In `AtellaControl` systemd starts the unit whenever it is down (`Restart=always`): strong
  fairness of `UnitStart`, since a pid may be free only now and then. Its limit of starts
  in a short time is not modelled: with files that do not load the unit would give up for good, and `ServiceSettles`
  is about one that does not.
* Nothing is assumed of faults, stops, signals, reports, reloads and commands.

## 5. The proofs

TLAPS checks the theorems below for every value of the constants (any names,
numbers of masters, neighbours, reports, reloads, limits and fault sets), from
the assumptions named in each module: that the constants have their types and
distinct names are distinct. Each specification has an invariant that is inductive where
the property itself is not:

* `AtellaNeighbourProofs`: `IInv == TypeOK /\ ExchangeInv /\ VerdictInv`.
  `ExchangeInv` says which line may be under way for each set of acks processed
  (`Turn`), which makes stop-and-wait inductive; `VerdictInv` ties the local
  `status` to the published slot. From it: `TypeCorrect`, `OneLineUnderWay`,
  `UpIsNamed`, `NoStallHalfWay`, `OnlyExchangeRaises` (an action property) and
  `UpOnlyOnLiveExchange` (the premise "no orderly close" is handled as a
  second invariant that is preserved by steps that see none). `WatchKept` is the refinement of
  `AtellaWatch`, step by step for the routine, its stopper, and the neighbour with the network
  (`RoutineSeen`, `StopSeen`, `PeerSeen`); on the watch it is then shown that a neighbour without the code is
  never up (`RefusedNeverUp`). `GoneStays`, `EstablishedStays` and `ToldStays` are the safety halves of `LossIsReported`,
  `UpIsReported` and `StopAnsweredOutsideDial`: what these reach, or start from, stays.
* `AtellaMasterLinkProofs`: `SweepInv` says that the masters tried are those
  between `masterServerIndex` and the current index around the list, for any
  number of masters. From it: `TypeCorrect`, `GoodConnectionIsCurrent`,
  `SweepTriesAll`, `FailureBeforeChange`. `Arrived` adds to a stored vector that no older one is in the hands of
  the routine or on its connection; that makes it stable under all steps but the ones `Undisturbed` excludes:
  `ArrivalIsFinal`. (Older connections of the same routine are in `SettledStays`.)
* `AtellaClientLifeProofs`: `NeighbourInv` and `MasterInv` say what routines of
  past and future generations are. From it: `OldRoutinesReplaced`,
  `StoppersOnOwnChannel`, `TypeCorrect`. `ReplyInv` says where the routines of the present generation stand and
  which channel they wait on: what `Reload` and `Stop` wait for runs and its channel is closed
  (`RepliesCanCome`), except a master routine without masters and a neighbour's routine whose stop was undone,
  two of the exceptions of `HangupHonoured` and `InterruptEnds`.
* `AtellaDaemonProofs` extends it. The daemon takes the steps of `AtellaClientLife` as they are (a lemma says
  that its steps are among them), so the
  theorems above hold of the daemon whatever signals arrive (`DaemonReplaces`).
  `DInv == DaemonValues /\ IndexInv`, together with the client's invariant, places
  the index for each stage of a load, a restart and a sweep. From it: `DaemonTypeCorrect`,
  `IndexStaysInList`. `SignalInv` (the handler has no task before `main` starts it, and a hangup newer than the
  last load is in the channel or being loaded) gives `HangupIsOwed` and `InterruptIsKept`.
* `AtellaSectorsProofs` has four invariants, each resting on the one before.
  `Inside` keeps the indexes in the sector: `OneSlotPerNeighbour`, `NoPanicInLongSectors`,
  `TypeCorrect`. `LoaderInv` adds what the channels of the files read so far have: `Follows`. `SearchInv` says what the loops have found so far: each
  step of the four nested loops visits a place (sector, own entry, distance, side, address), `Passed`
  are the places before the cursor, and `FoundSoFar` says that the neighbours are the addresses of the places
  passed, in the order in which each was first passed, and that each slot has the
  sectors of all of them. The lemmas on remainders (`RingIndex`, `IndexInRing`, `TurnFinds`) turn the
  indexes of the loops into distances around the ring; with the search over, every place is
  passed, and that is `WatchesWhomItShould`. It is needed in this
  strength because a host may be met from several places, and only its first place makes it a
  neighbour. `StableInv` compares a load with the one before: `SettingsInv` follows
  each setting to the last file that named it, `FoundAgain` says that the sectors the load
  has appended are copies, whose places find only what an earlier place has found:
  `ReloadStable`. `LoaderSearches` has the properties of the search for the
  loader without an assumption on its files.
* `AtellaServerProofs`: `IInv == TypeOK /\ MutexInv`, where `MutexInv` says that a session inside
  holds the mutex: `TypeCorrect`, `Exclusion`. `OrderInv` says that the vectors on a
  connection are in order (`InOrder`), and that those on the present
  connection of a host are not older than any on its other connections or in the map (`NewestIn`):
  `OlderVectors`, an action property. With `HandInv` (a session has a line at hand only between reading and
  storing it, one that is over has closed its connection) each step is one of the register or none:
  `RegisterKept`, the refinement of `AtellaMasterVector`. On the register it is then shown that a
  settled host stays so: `SettledStays`. `ConfirmInv` says what the replies of a stop stand for: `ConfirmationStays`,
  `NoSessionAfterStop`. `DrainInv` orders the stopper of a session behind its start: `SessionsDrain`, by which
  the lines left are the measure that a stopped session works off.
* `AtellaControlProofs`: `SoleInv` (the daemon that saved its files last, undisturbed, finds its own pid
  and name in them), `GoalInv`, `PidInv` and `TriedInv` (masters tried are those before the index).
  From them: `TypeCorrect`, `Arrives`, `AllMastersTried`. `OneRuns` is inductive by itself
  (`OneDaemonRuns`); `RunIsKept` says what may end a daemon that runs: a fault, an update, a hangup while its files do
  not load; `ReachIsKept`, from `SoleInv`, what may take its files.
* `AtellaSpoolProofs`: `LockedInv` (the mutex is held exactly by who works on the
  spool) gives `Exclusion` and `FlagIsOwned` with every fault. `SpoolInv` adds what
  the listing and the hand of a caller may hold when files are read whole; it gives
  `HandedOverOnce` (for files that can be removed), and under `"large" \notin Faults` `PromiseKept` (the refinement of
  `AtellaReports`: initial states map to initial states, each step to a step or a
  stutter) and `OverOnceRemoved`. `StopInv` (the request is the handler's, the answer the main loop's last step)
  with `LockedInv` gives `StopIsQuiet`, and with `SpoolInv` `StopIsClean`.

Proved and not run, because they add little to a run that has the others:
`UpIsNamed` (an up verdict comes with the neighbour's name), `FailureBeforeChange` (the
current master changes only after a failed dial), `OnlyExchangeRaises` and `RefusedNeverUp` (consequences of
`KeepsWatch`), `OverOnceRemoved` (a report removed is not handed over
again: a consequence of `KeepsPromise`), and the safety halves of liveness properties that are run, each an invariant
or an action property that says that what the liveness property needs or reaches is not lost:
`GoneStays` (of `LossIsReported`), `EstablishedStays` (`UpIsReported`), `ToldStays` (`StopAnsweredOutsideDial`),
`ArrivalIsFinal` (`VectorArrives`), `InterruptIsKept` (`InterruptEnds`), `HangupIsOwed`
(`HangupHonoured`), `StopIsQuiet` and `StopIsClean` (`StopReturnsUnlessStuck`), `ConfirmationStays` and
`NoSessionAfterStop` (`StopReturns`), `SessionsDrain` (`SessionsEnd`), `SettledStays` (`StoredInTheEnd`), `OneDaemonRuns`
and `RunIsKept` (`ServiceSettles`). That the good state is reached at all is fairness, and stays with TLC.

Only model-checked: all liveness (`LossIsReported`, `UpIsReported`,
`LossIsNoticed`, `StopAnsweredOutsideDial`, `VectorArrives`, `StopHonoured`,
`HangupHonoured`, `InterruptEnds`, `ServiceSettles`, `SentUnlessStuck`,
`StopReturnsUnlessStuck`, `StopReturns`, `SessionsEnd`, `StoredInTheEnd`), since
fairness is about `ENABLED`, which TLAPS does not reason about. Every
safety property of the runs is a theorem.

## 6. Disagreements

Shown by runs (`findings` in `PROJECT.json`):

* `NeighbourDown`: a neighbour whose daemon stops in an orderly way stays
  reported up; the forced close after five empty lines commits the old status
  again (`AtellaClient.go:163`).
* `MasterBacklog`: nobody reads the master's replies; when they fill the socket
  buffers the vector does not arrive any more (`AtellaClient.go:491`).
* `SpoolRace`: a report file listed while it is still empty makes `Send` loop
  for ever with the mutex held (`Channels.go:123`).

Seen while modelling, reachable in the models, and the reason why some
properties above are stated with a condition:

* a stop during a dial that succeeds is undone and never confirmed
  (`AtellaClient.go:110, 118`): hence `StopAnsweredOutsideDial`; `Reload` and `Stop` then wait in a busy loop until that
  connection is lost (526-536, 562-572): hence `Waits` in `HangupHonoured` and `InterruptEnds`;
* a `Send` that reads for ever, of an empty file or of a channel, holds the handler or the sender, and the daemon takes neither
  hangup nor interrupt (`Channels.go:73-79, 123`): hence `Waits`, too;
* a `get`, `set` or `auth` alone on its line panics, and ends the daemon: `msgMap[1]` is out of range
  (`AtellaServer.go:159, 172, 209`; the last one while the failure is logged, although 203 has looked at the length): hence
  `listener # "dead"` in `StopReturns` and `StoredInTheEnd`;
* a session that answers a peer which does not read waits in `Send` without a limit (`AtellaServer.go:189`): hence the
  premise of `StoredInTheEnd`;
* the stopper may close the nil connection of a failed dial (`AtellaClient.go:96`),
  and a stop during a sweep ends in a write to a nil connection (`AtellaClient.go:477`):
  `pc = "panic"` in both modules;
* before the first connection the warning that no master answered may come too
  early, because the index it is compared with was drawn at random (`AtellaClient.go:274, 464`):
  hence `linked` in `SweepIsComplete`;
* `master.stopReply` is never reset, so only the first reload waits for the master
  routine (`AtellaClient.go:533`): hence `gen > 2` in `RoutinesReplaced` and `LeftBehind` in
  `IndexPanicsOnlyAtReload`; without masters there is no reply at all and
  `Reload` and `Stop` wait for ever (`AtellaClient.go:416`): hence `Waits` in `HangupHonoured` and `InterruptEnds`;
* a file that does not parse leaves the previous message in place, which is sent
  again, and may be removed unsent (`Channels.go:132, 161`): hence no half-written
  files in `SpoolLive`;
* sectors accumulate over reloads (`AtellaConfig.go:378`): `WatchesItsRing` is
  about the accumulated list, not the files just loaded; and a sector of two hosts
  with `host_cnt = 3` panics at the start (`AtellaClient.go:307`);
* the client of a master writes `MasterVector` without its mutex
  (`AtellaClient.go:437`), and `Send` reads the map of channels while a hangup writes it
  (`Channels.go:141`, `AtellaConfig.go:363`); the Go runtime may end the program for it;
* a load may shorten the list of masters under the index of a routine that is going to
  look it up, or empty it under the remainder (`atella.go:45`, `AtellaClient.go:448, 458`): hence
  `IndexPanicsOnlyAtReload`;
* `server` and `client` are nil while the handler already runs (`atella.go:156-163`), a hangup
  before `Notify` ends the daemon, and a signal that finds the channel full is dropped (`atella.go:150`);
* a file of the configuration that does not load ends the running daemon at a hangup
  (`atella.go:47, 51`): hence `~loads` in `RunIsKept`, and `<>[]loads` in `ServiceSettles`;
* `atella-cli` signals any process whose command line ends in a slash and the name of the daemon, and one that was given the pid
  after the look (`AtellaConfig.go:265-276`, `AtellaCli.go:131, 137`): the signal ends it (`Kill` in `AtellaControl`);
* `atella-cli` does not find a daemon that was started with arguments, since it splits the whole command line
  at the slashes (`AtellaConfig.go:273`), although `README.md:11-14` documents
  `-config` and `-config-directory`: hence `bare` in `AtellaControl`;
* a daemon that is started beside a running one overwrites its files and then ends on the
  busy port (`AtellaConfig.go:209`, `AtellaServer.go:246`): hence `byHand` in `ServiceSettles`;
* a channel read before the file that names `net_timeout` keeps the old one until the next load
  (`AtellaConfig.go:340`): hence `OnlyMainNamesTimeout`.

Seen while reading, outside the models: `README.md:28` names Graphite as a channel of a report,
`Send` takes it for unsupported and removes the file unsent (`Channels.go:155-163`); `rotate` does nothing (`AtellaCli.go:188`);
`main` removes an installed package only if `os.IsExist` of a nil error, that is never
(`atella.go:141`); `DownloadFile` keeps the body of an answer that says "not found" and
has it installed (`AtellaCli.go:199`); directories are made with the decimal mode 775
(`AtellaConfig.go:203`); the bot's reply still has its newline when it is compared
with `ok` (`AtellaTgSibnetChannel.go:65`), so a bot that answers with a full line is never believed.

## 7. Not modelled

* TLS: the branch ends the program at start. Cron, build, packages, Docker,
  ClickHouse: no logic of the program; of the service only `Restart=always` and the restart
  by the package matter (`AtellaControl`), without systemd's limit of starts.
* Database: its calls in `main` are commented out. Logger, formatting of reports,
  mails and packets: wording and I/O.
* Configuration: the TOML parser, the environment in values, the search for default paths.
* The Graphite channel is an empty package. Mail and bot channels are their
  outcomes: delivered, failed, delivered but reported failed, never answering.
* Errors of `SavePid` when a file cannot be opened end the daemon, like any other end of a start.
* Timestamps and intervals: a step may take any time.
* Reclaiming connections the code forgets to close (the garbage collector's
  finalizer closes them): no descriptor count is kept.
* `hex_len = 0` (an endless search for a free name, `Channels.go:188`) is a constant loop. An `ack hostname`
  of fewer than four words would be indexed past its end (`AtellaClient.go:205`); no daemon of this version sends one.
* The web interface is another program, in Ruby; see the plan.

## 8. Plan

The order is by what a failure costs: verdicts, delivery, reports, lifetime.

1. Done: `AtellaProtocol`, `AtellaNeighbour` with `AtellaWatch`, `AtellaMasterLink`, `AtellaSpool`
   with `AtellaReports`, `AtellaServer` with `AtellaMasterVector`, `AtellaClientLife`, `AtellaSectors`,
   `AtellaDaemon`, `AtellaConfigFiles`, `AtellaControl`, and the proofs of section 5.
2. The web interface's task that exports the masters' vectors into its table of hosts.
3. Proofs: the safety halves of `SentUnlessStuck` and of `StopHonoured` of the master routine; that the two routines
   of a client implement the starts, stops and replies `AtellaClientLife` has of them.
