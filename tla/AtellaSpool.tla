------------------------------ MODULE AtellaSpool ------------------------------
(***************************************************************************)
(* The spool of reports (Channels.go): Report, run by atella-cli, leaves   *)
(* each report as a file in MessagePath; Send, called by the main loop     *)
(* (Sender) and by the signal handler of the daemon, reads the files, hands*)
(* them to their channels and removes them.                                *)
(***************************************************************************)
EXTENDS Naturals, FiniteSets

CONSTANTS
  Reports,      \* the report files that may be made, one per target
  Deliverable,  \* reports to a channel the configuration has
  Unconfigured, \* reports to a known channel the configuration lacks
  Nothing,      \* no report
  MaxCrashes,   \* bound on the crashes of the daemon
  Faults        \* what may go wrong, see below

(***************************************************************************)
(* "race":   the directory is read between Create and Write of a report    *)
(* "large":  a report needs more than one write, or its write is cut short *)
(* "die":    atella-cli dies, or the disk is full, before a write          *)
(* "noreply" a channel delivers a report but says it did not               *)
(* "hang":   a channel never answers (its reads have no deadline)          *)
(* "unread": a file that was listed cannot be opened                       *)
(* "keep":   a file cannot be removed, and no one is told                  *)
(***************************************************************************)
FaultKinds == {"race", "large", "die", "noreply", "hang", "unread", "keep"}

ASSUME SetAssumption ==
  /\ Deliverable \subseteq Reports /\ Unconfigured \subseteq Reports
  /\ Deliverable \cap Unconfigured = {}
  /\ Nothing \notin Reports
ASSUME FaultAssumption == Faults \subseteq FaultKinds /\ MaxCrashes \in Nat

Callers == {"main", "handler"}
NoCaller == "nobody"

VARIABLES
  file,         \* each report file: "none", "empty", "part", "whole", "removed"
  writing,      \* reports whose writer is still at work
  pc,           \* where each caller stands, in Send or around it
  mux,          \* conf.reporter.mux: the caller that holds it
  isLocked,     \* conf.reporter.isLocked
  todo,         \* files of the listing still to do, each with its listed size
  now,          \* the file at hand
  m,            \* the report the variable m holds, kept from file to file
  res,          \* local variable res, kept from file to file
  stopRequest,  \* conf.reporter.stopRequest
  stopReply,    \* conf.reporter.stopReply
  crashes,      \* crashes so far
  delivered     \* how often a report was handed over: 0, 1, or 2 for more

fileVars == <<file, writing>>
sendVars == <<todo, now, m, res>>
lockVars == <<mux, isLocked>>
stopVars == <<stopRequest, stopReply>>
vars == <<fileVars, pc, lockVars, sendVars, stopVars, crashes, delivered>>

(***************************************************************************)
(* Init: the spool may hold reports from before; the main loop calls Send. *)
(***************************************************************************)
Fresh ==
  /\ pc = [p \in Callers |-> IF p = "main" THEN "call" ELSE "idle"]
  /\ mux = NoCaller /\ isLocked = FALSE
  /\ todo = [p \in Callers |-> {}]
  /\ now = [p \in Callers |-> Nothing]
  /\ m = [p \in Callers |-> Nothing]
  /\ res = [p \in Callers |-> TRUE]
  /\ stopRequest = FALSE /\ stopReply = FALSE

Init ==
  /\ file = [r \in Reports |-> "none"] /\ writing = {}
  /\ Fresh
  /\ crashes = 0
  /\ delivered = [r \in Reports |-> 0]

-----------------------------------------------------------------------------
(***************************************************************************)
(* Report: Create, then Write.  The reader sees both steps only if its     *)
(* directory listing may fall between them ("race").                       *)
(***************************************************************************)
ReportCreate(r) ==
  /\ file[r] = "none"
  /\ IF "race" \in Faults \/ "die" \in Faults
     THEN file' = [file EXCEPT ![r] = "empty"] /\ writing' = writing \cup {r}
     ELSE file' = [file EXCEPT ![r] = "whole"] /\ UNCHANGED writing
  /\ UNCHANGED <<pc, lockVars, sendVars, stopVars, crashes, delivered>>

\* A file that Send removed meanwhile stays removed, whatever is written to it.
ReportWrite(r) ==
  /\ r \in writing
  /\ \/ /\ file' = [file EXCEPT ![r] = IF @ = "removed" THEN "removed" ELSE "whole"]
        /\ writing' = writing \ {r}
     \/ /\ "large" \in Faults /\ file[r] = "empty"
        /\ file' = [file EXCEPT ![r] = "part"] /\ UNCHANGED writing
  /\ UNCHANGED <<pc, lockVars, sendVars, stopVars, crashes, delivered>>

ReportDies(r) ==
  /\ "die" \in Faults /\ r \in writing
  /\ writing' = writing \ {r}
  /\ UNCHANGED <<file, pc, lockVars, sendVars, stopVars, crashes, delivered>>

-----------------------------------------------------------------------------
(***************************************************************************)
(* Send, for each caller p.                                                *)
(***************************************************************************)
Goto(p, there) == pc' = [pc EXCEPT ![p] = there]

\* The unlocked look at isLocked: a caller that sees it set returns.
SendCheck(p) ==
  /\ pc[p] = "call"
  /\ Goto(p, IF isLocked THEN "back" ELSE "lock")
  /\ res' = [res EXCEPT ![p] = TRUE]
  /\ m' = [m EXCEPT ![p] = Nothing]
  /\ UNCHANGED <<fileVars, lockVars, todo, now, stopVars, crashes, delivered>>

SendLockWhen(p, free) ==
  /\ pc[p] = "lock" /\ free
  /\ mux' = p /\ isLocked' = TRUE
  /\ Goto(p, "list")
  /\ UNCHANGED <<fileVars, sendVars, stopVars, crashes, delivered>>

\* Variant: isLocked alone is trusted, without the mutex.
SendLockBusy(p) == SendLockWhen(p, TRUE)

SendLock(p) == SendLockWhen(p, mux = NoCaller)

\* ReadDir: the files there are and their sizes at that moment.
Listing == {<<r, file[r]>> : r \in {s \in Reports : file[s] \in {"empty", "part", "whole"}}}

SendList(p) ==
  /\ pc[p] = "list"
  /\ todo' = [todo EXCEPT ![p] = Listing]
  /\ Goto(p, "next")
  /\ UNCHANGED <<fileVars, lockVars, now, m, res, stopVars, crashes, delivered>>

(***************************************************************************)
(* Open and read the next file (names are random, so in any order) into a  *)
(* buffer of its listed size.  Reading into an empty buffer returns 0 bytes*)
(* and no error, for ever.  A file listed half-written does not parse: the *)
(* error is logged and m keeps what it held.                               *)
(***************************************************************************)
SendReadInto(p, fresh) ==
  /\ pc[p] = "next"
  /\ \E f \in todo[p] :
       /\ todo' = [todo EXCEPT ![p] = @ \ {f}]
       /\ now' = [now EXCEPT ![p] = f[1]]
       /\ m' = IF f[2] = "whole" /\ fresh THEN [m EXCEPT ![p] = f[1]] ELSE m
       /\ Goto(p, IF f[2] = "empty" THEN "spin" ELSE "dispatch")
  /\ UNCHANGED <<fileVars, lockVars, res, stopVars, crashes, delivered>>

\* Variant: m is filled once and never again.
SendReadOnce(p) == SendReadInto(p, m[p] = Nothing)

SendRead(p) == SendReadInto(p, TRUE)

\* A file that cannot be opened is passed over.
SendSkip(p) ==
  /\ pc[p] = "next" /\ "unread" \in Faults
  /\ \E f \in todo[p] : todo' = [todo EXCEPT ![p] = @ \ {f}]
  /\ UNCHANGED <<fileVars, pc, lockVars, now, m, res, stopVars, crashes, delivered>>

More(n) == IF n = 0 THEN 1 ELSE 2

\* The target of m: none or unsupported, a channel the configuration lacks
\* (res keeps its value), or a channel, whose answer may be wrong or missing.
SendElsewhere(p) ==
  /\ pc[p] = "dispatch" /\ m[p] \notin Deliverable
  /\ res' = IF m[p] \in Unconfigured THEN res ELSE [res EXCEPT ![p] = TRUE]
  /\ Goto(p, "remove")
  /\ UNCHANGED <<fileVars, lockVars, todo, now, m, stopVars, crashes, delivered>>

SendDelivered(p) ==
  /\ pc[p] = "dispatch" /\ m[p] \in Deliverable
  /\ delivered' = [delivered EXCEPT ![m[p]] = More(@)]
  /\ res' = [res EXCEPT ![p] = TRUE]
  /\ Goto(p, "remove")
  /\ UNCHANGED <<fileVars, lockVars, todo, now, m, stopVars, crashes>>

SendFailed(p) ==
  /\ pc[p] = "dispatch" /\ m[p] \in Deliverable
  /\ \/ UNCHANGED delivered
     \/ "noreply" \in Faults /\ delivered' = [delivered EXCEPT ![m[p]] = More(@)]
  /\ res' = [res EXCEPT ![p] = FALSE]
  /\ Goto(p, "remove")
  /\ UNCHANGED <<fileVars, lockVars, todo, now, m, stopVars, crashes>>

SendHangs(p) ==
  /\ pc[p] = "dispatch" /\ m[p] \in Deliverable /\ "hang" \in Faults
  /\ Goto(p, "spin")
  /\ UNCHANGED <<fileVars, lockVars, sendVars, stopVars, crashes, delivered>>

SendRemoveIf(p, sent) ==
  /\ pc[p] = "remove"
  /\ file' = IF sent THEN [file EXCEPT ![now[p]] = "removed"] ELSE file
  /\ Goto(p, "next")
  /\ UNCHANGED <<writing, lockVars, sendVars, stopVars, crashes, delivered>>

\* Variants: the answer of the channel is not looked at; the file is kept.
SendRemoveAlways(p) == SendRemoveIf(p, TRUE)
SendRemoveKeeps(p)  == SendRemoveIf(p, FALSE)

SendRemove(p) == SendRemoveIf(p, res[p])

\* The removal fails, and its error is not looked at: the file is kept.
SendKeep(p) == "keep" \in Faults /\ res[p] /\ SendRemoveIf(p, FALSE)

\* The mutex is released before isLocked is cleared.
SendUnlockTo(p, there) ==
  /\ pc[p] = "next" /\ todo[p] = {}
  /\ mux' = NoCaller
  /\ Goto(p, there)
  /\ UNCHANGED <<fileVars, isLocked, sendVars, stopVars, crashes, delivered>>

\* Variant: Send returns with isLocked still set.
SendUnlockOnly(p) == SendUnlockTo(p, "back")

SendUnlock(p) == SendUnlockTo(p, "clear")

SendClear(p) ==
  /\ pc[p] = "clear"
  /\ isLocked' = FALSE
  /\ Goto(p, "back")
  /\ UNCHANGED <<fileVars, mux, sendVars, stopVars, crashes, delivered>>

SendStep(p) ==
  SendCheck(p) \/ SendLock(p) \/ SendList(p) \/ SendRead(p) \/ SendElsewhere(p)
    \/ SendDelivered(p) \/ SendFailed(p) \/ SendHangs(p) \/ SendRemove(p)
    \/ SendSkip(p) \/ SendKeep(p) \/ SendUnlock(p) \/ SendClear(p)

-----------------------------------------------------------------------------
(***************************************************************************)
(* Around Send: the main loop pauses and calls it again until it is told   *)
(* to stop; the handler calls it on SIGUSR1 or SIGUSR2, clears isLocked on *)
(* SIGHUP (Init), and waits for the main loop on SIGINT (StopSender).      *)
(***************************************************************************)
SenderTurnTold(stop) ==
  /\ pc["main"] = "back"
  /\ Goto("main", IF stop THEN "done" ELSE "call")
  /\ stopReply' = stop
  /\ UNCHANGED <<fileVars, lockVars, sendVars, stopRequest, crashes, delivered>>

\* Variant: the stop request is not looked at.
SenderTurnDeaf == SenderTurnTold(FALSE)

SenderTurn == SenderTurnTold(stopRequest)

HandlerBack ==
  /\ pc["handler"] = "back"
  /\ Goto("handler", "idle")
  /\ UNCHANGED <<fileVars, lockVars, sendVars, stopVars, crashes, delivered>>

SignalSend ==
  /\ pc["handler"] = "idle"
  /\ Goto("handler", "call")
  /\ UNCHANGED <<fileVars, lockVars, sendVars, stopVars, crashes, delivered>>

SignalReload ==
  /\ pc["handler"] = "idle"
  /\ isLocked' = FALSE
  /\ UNCHANGED <<fileVars, pc, mux, sendVars, stopVars, crashes, delivered>>

SignalStop ==
  /\ pc["handler"] = "idle"
  /\ stopRequest' = TRUE
  /\ Goto("handler", "stopping")
  /\ UNCHANGED <<fileVars, lockVars, sendVars, stopReply, crashes, delivered>>

\* The daemon ends or is killed, and is started again; only the spool survives.
Crash ==
  /\ crashes < MaxCrashes
  /\ crashes' = crashes + 1
  /\ pc' = [p \in Callers |-> IF p = "main" THEN "call" ELSE "idle"]
  /\ mux' = NoCaller /\ isLocked' = FALSE
  /\ todo' = [p \in Callers |-> {}]
  /\ now' = [p \in Callers |-> Nothing]
  /\ m' = [p \in Callers |-> Nothing]
  /\ res' = [p \in Callers |-> TRUE]
  /\ stopRequest' = FALSE /\ stopReply' = FALSE
  /\ UNCHANGED <<fileVars, delivered>>

ReportStep == \E r \in Reports : ReportCreate(r) \/ ReportWrite(r) \/ ReportDies(r)
Signal     == SignalSend \/ SignalReload \/ SignalStop

Next ==
  \/ ReportStep \/ Signal \/ Crash \/ SenderTurn \/ HandlerBack
  \/ \E p \in Callers : SendStep(p)

Spec == Init /\ [][Next]_vars

(***************************************************************************)
(* Both goroutines are scheduled, a started report is written or given up, *)
(* and a report handed to its channel again and again is delivered once.   *)
(***************************************************************************)
Fairness ==
  /\ \A p \in Callers : WF_vars(SendStep(p))
  /\ WF_vars(SenderTurn) /\ WF_vars(HandlerBack)
  /\ \A r \in Reports :
       /\ WF_vars(ReportWrite(r))
       /\ \A p \in Callers : SF_vars(SendDelivered(p) /\ m[p] = r)

FairSpec == Spec /\ Fairness

-----------------------------------------------------------------------------
(***************************************************************************)
(* Properties.                                                             *)
(***************************************************************************)
Critical == {"list", "next", "dispatch", "spin", "remove"}

\* Every variable keeps to its values.
TypeOK ==
  /\ file \in [Reports -> {"none", "empty", "part", "whole", "removed"}]
  /\ writing \subseteq Reports
  /\ pc \in [Callers -> Critical \cup {"idle", "call", "lock", "clear", "back", "stopping",
                                       "done"}]
  /\ mux \in Callers \cup {NoCaller} /\ isLocked \in BOOLEAN
  /\ todo \in [Callers -> SUBSET (Reports \X {"empty", "part", "whole"})]
  /\ now \in [Callers -> Reports \cup {Nothing}]
  /\ m \in [Callers -> Reports \cup {Nothing}]
  /\ res \in [Callers -> BOOLEAN]
  /\ stopRequest \in BOOLEAN /\ stopReply \in BOOLEAN
  /\ crashes \in 0 .. MaxCrashes
  /\ delivered \in [Reports -> 0 .. 2]

\* The main loop and the handler never work on the spool at the same time,
\* although isLocked is read without the mutex, cleared after it is released,
\* and cleared by a reload whoever holds it.
OneSender ==
  \A p, q \in Callers : pc[p] \in Critical /\ pc[q] \in Critical => p = q

\* isLocked never stays behind: it is set only while some caller is still to
\* clear it, so no later call of Send returns for nothing.
FlagHasOwner == isLocked => \E p \in Callers : pc[p] \in Critical \cup {"clear"}

\* As long as files are whole and can be removed, channels answer truly and the
\* daemon does not crash, a report is delivered at most once, however the calls
\* of Send overlap.
AtMostOnce ==
  Faults \cap {"large", "noreply", "keep"} = {} /\ crashes = 0
    => \A r \in Reports : delivered[r] <= 1

\* A report that is on disk in full is handed to its channel, unless the daemon
\* is told to stop first.
EveryReportIsSent ==
  \A r \in Deliverable : file[r] = "whole" ~> delivered[r] > 0 \/ stopRequest

\* ... and this fails only while some caller reads for ever: no call of Send
\* that finds the spool in use, no failure of a channel and no restart makes a
\* report wait for ever.
Stuck == \E p \in Callers : pc[p] = "spin"

SentUnlessStuck ==
  \A r \in Deliverable : file[r] = "whole" ~> delivered[r] > 0 \/ stopRequest \/ Stuck

\* The main loop confirms that it stops, unless it or the handler reads for
\* ever: StopSender returns.
StopReturnsUnlessStuck ==
  pc["handler"] = "stopping" ~> pc["main"] = "done" \/ ~stopRequest \/ Stuck

(***************************************************************************)
(* The promise of the mechanism, AtellaReports: a report is pending once   *)
(* its file is whole and done once the file is gone.                       *)
(***************************************************************************)
Status(r) == IF file[r] = "whole" THEN "pending"
             ELSE IF file[r] = "removed" THEN "done" ELSE "new"

Promise == INSTANCE AtellaReports WITH status <- [r \in Reports |-> Status(r)]

\* Every behaviour of the spool is one of AtellaReports.
KeepsPromise == Promise!Spec

=============================================================================
