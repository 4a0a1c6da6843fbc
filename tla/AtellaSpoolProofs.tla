--------------------------- MODULE AtellaSpoolProofs ---------------------------
(***************************************************************************)
(* Proofs about AtellaSpool: for any reports and any faults, the two       *)
(* callers of Send exclude each other and isLocked is never left behind;   *)
(* as long as report files are whole, the spool implements AtellaReports.  *)
(***************************************************************************)
EXTENDS AtellaSpool, TLAPS

Locations == Critical \cup {"idle", "call", "lock", "clear", "back", "stopping", "done"}
States    == {"none", "empty", "part", "whole", "removed"}
Sizes     == {"empty", "part", "whole"}

\* The mutex is held by the caller that works on the spool.
LockInv == \A p \in Callers : pc[p] \in Critical <=> mux = p

\* The facts a step of Send leaves alone.
LEMMA Constants ==
  /\ "main" \in Callers /\ "handler" \in Callers
  /\ NoCaller \notin Callers
  /\ \A p \in Callers : p = "main" \/ p = "handler"
BY DEF Callers, NoCaller

-----------------------------------------------------------------------------
\* The daemon starts with every variable in its set.
LEMMA InitType == Init => TypeOK
<1> SUFFICES ASSUME Init PROVE TypeOK
  OBVIOUS
<1>1. 0 \in 0 .. MaxCrashes /\ 0 \in 0 .. 2
  BY FaultAssumption
<1>2. pc \in [Callers -> Locations]
  BY DEF Init, Fresh, Locations, Critical
<1> QED
  BY <1>1, <1>2 DEF Init, Fresh, TypeOK, Locations, NoCaller

\* A report is handed over.
LEMMA DeliveredType ==
  ASSUME delivered \in [Reports -> 0 .. 2], NEW r \in Reports
  PROVE  [delivered EXCEPT ![r] = More(@)] \in [Reports -> 0 .. 2]
<1>1. More(delivered[r]) \in 0 .. 2
  BY DEF More
<1> QED
  BY <1>1

\* A program counter moves within its locations.
LEMMA GotoType ==
  ASSUME pc \in [Callers -> Locations], NEW p \in Callers, NEW there \in Locations,
         Goto(p, there)
  PROVE  pc' \in [Callers -> Locations]
BY DEF Goto

\* Every step of Send keeps the types.
LEMMA SendType ==
  ASSUME TypeOK, NEW p \in Callers, SendStep(p)
  PROVE  TypeOK'
<1> USE SetAssumption
<1> DEFINE Here == pc \in [Callers -> Locations]
<1>0. Here /\ {"idle", "call", "lock", "clear", "back", "stopping", "done"} \subseteq Locations
      /\ Critical \subseteq Locations
  BY DEF TypeOK, Locations
<1>a. {"lock", "back", "list", "next", "spin", "dispatch", "remove", "clear"} \subseteq Locations
  BY DEF Locations, Critical
<1> HIDE DEF Here
<1>1. CASE SendCheck(p)
  <2>1. pc' \in [Callers -> Locations]
    BY <1>0, <1>1, <1>a DEF SendCheck, Goto, Here
  <2> QED
    BY <1>1, <2>1 DEF SendCheck, TypeOK, Locations, fileVars, lockVars, stopVars
<1>2. CASE SendLock(p)
  <2>1. pc' \in [Callers -> Locations]
    BY <1>0, <1>2, <1>a DEF SendLock, SendLockWhen, Goto, Here
  <2> QED
    BY <1>2, <2>1 DEF SendLock, SendLockWhen, TypeOK, Locations, fileVars, sendVars, stopVars
<1>3. CASE SendList(p)
  <2>1. pc' \in [Callers -> Locations]
    BY <1>0, <1>3, <1>a DEF SendList, Goto, Here
  <2>2. Listing \in SUBSET (Reports \X Sizes)
    BY DEF Listing, Sizes
  <2>3. todo' \in [Callers -> SUBSET (Reports \X Sizes)]
    BY <1>3, <2>2 DEF SendList, TypeOK, Sizes
  <2> QED
    BY <1>3, <2>1, <2>3 DEF SendList, TypeOK, Locations, Sizes, fileVars, lockVars, stopVars
<1>4. CASE SendRead(p)
  <2>1. PICK f \in todo[p] : SendReadInto(p, TRUE)!2!(f)
    BY <1>4 DEF SendRead, SendReadInto
  <2>2. f[1] \in Reports /\ todo[p] \in SUBSET (Reports \X Sizes)
    BY <2>1 DEF TypeOK, Sizes
  <2>3. pc' \in [Callers -> Locations]
    BY <1>0, <1>a, <2>1 DEF Goto, Here
  <2>4. now' \in [Callers -> Reports \cup {Nothing}] /\ m' \in [Callers -> Reports \cup {Nothing}]
    BY <2>1, <2>2 DEF TypeOK
  <2>5. todo' \in [Callers -> SUBSET (Reports \X Sizes)]
    BY <2>1, <2>2 DEF TypeOK, Sizes
  <2> QED
    BY <1>4, <2>3, <2>4, <2>5
    DEF SendRead, SendReadInto, TypeOK, Locations, Sizes, fileVars, lockVars, stopVars
<1>5. CASE SendElsewhere(p)
  <2>1. pc' \in [Callers -> Locations]
    BY <1>0, <1>5, <1>a DEF SendElsewhere, Goto, Here
  <2>2. res' \in [Callers -> BOOLEAN]
    BY <1>5 DEF SendElsewhere, TypeOK
  <2> QED
    BY <1>5, <2>1, <2>2 DEF SendElsewhere, TypeOK, Locations, fileVars, lockVars, stopVars
<1>6. CASE SendDelivered(p)
  <2>1. pc' \in [Callers -> Locations]
    BY <1>0, <1>6, <1>a DEF SendDelivered, Goto, Here
  <2>2. res' \in [Callers -> BOOLEAN]
    BY <1>6 DEF SendDelivered, TypeOK
  <2>3. delivered' \in [Reports -> 0 .. 2]
    BY <1>6, DeliveredType DEF SendDelivered, TypeOK
  <2> QED
    BY <1>6, <2>1, <2>2, <2>3 DEF SendDelivered, TypeOK, Locations, fileVars, lockVars, stopVars
<1>7. CASE SendFailed(p)
  <2>1. pc' \in [Callers -> Locations]
    BY <1>0, <1>7, <1>a DEF SendFailed, Goto, Here
  <2>2. res' \in [Callers -> BOOLEAN]
    BY <1>7 DEF SendFailed, TypeOK
  <2>3. delivered' \in [Reports -> 0 .. 2]
    BY <1>7, DeliveredType DEF SendFailed, TypeOK
  <2> QED
    BY <1>7, <2>1, <2>2, <2>3 DEF SendFailed, TypeOK, Locations, fileVars, lockVars, stopVars
<1>8. CASE SendHangs(p)
  <2>1. pc' \in [Callers -> Locations]
    BY <1>0, <1>8, <1>a DEF SendHangs, Goto, Here
  <2> QED
    BY <1>8, <2>1 DEF SendHangs, TypeOK, Locations, fileVars, lockVars, sendVars, stopVars
<1>9. CASE SendRemove(p)
  <2>1. pc' \in [Callers -> Locations]
    BY <1>0, <1>9, <1>a DEF SendRemove, SendRemoveIf, Goto, Here
  <2>2. file' \in [Reports -> States]
    BY <1>9 DEF SendRemove, SendRemoveIf, TypeOK, States
  <2> QED
    BY <1>9, <2>1, <2>2 DEF SendRemove, SendRemoveIf, TypeOK, Locations, States, lockVars, sendVars, stopVars
<1>10. CASE SendUnlock(p)
  <2>1. pc' \in [Callers -> Locations]
    BY <1>0, <1>10, <1>a DEF SendUnlock, SendUnlockTo, Goto, Here
  <2> QED
    BY <1>10, <2>1 DEF SendUnlock, SendUnlockTo, TypeOK, Locations, fileVars, sendVars, stopVars
<1>12. CASE SendSkip(p)
  <2>1. todo' \in [Callers -> SUBSET (Reports \X Sizes)]
    BY <1>12 DEF SendSkip, TypeOK, Sizes
  <2> QED
    BY <1>12, <2>1 DEF SendSkip, TypeOK, Sizes, fileVars, lockVars, stopVars
<1>13. CASE SendKeep(p)
  <2>1. pc' \in [Callers -> Locations]
    BY <1>0, <1>13, <1>a DEF SendKeep, SendRemoveIf, Goto, Here
  <2> QED
    BY <1>13, <2>1 DEF SendKeep, SendRemoveIf, TypeOK, Locations, lockVars, sendVars, stopVars
<1>11. CASE SendClear(p)
  <2>1. pc' \in [Callers -> Locations]
    BY <1>0, <1>11, <1>a DEF SendClear, Goto, Here
  <2> QED
    BY <1>11, <2>1 DEF SendClear, TypeOK, Locations, fileVars, sendVars, stopVars
<1> QED
  BY <1>1, <1>2, <1>3, <1>4, <1>5, <1>6, <1>7, <1>8, <1>9, <1>10, <1>11, <1>12, <1>13
  DEF SendStep

\* Every step keeps the types.
LEMMA StepType == TypeOK /\ [Next]_vars => TypeOK'
<1> SUFFICES ASSUME TypeOK, [Next]_vars PROVE TypeOK'
  OBVIOUS
<1>0. pc \in [Callers -> Locations]
  BY DEF TypeOK, Locations
<1>1. CASE ReportStep
  <2>1. PICK r \in Reports : ReportCreate(r) \/ ReportWrite(r) \/ ReportDies(r)
    BY <1>1 DEF ReportStep
  <2>2. file' \in [Reports -> States]
    BY <2>1 DEF ReportCreate, ReportWrite, ReportDies, TypeOK, States
  <2>3. writing' \subseteq Reports
    BY <2>1 DEF ReportCreate, ReportWrite, ReportDies, TypeOK
  <2>4. UNCHANGED <<pc, lockVars, sendVars, stopVars, crashes, delivered>>
    BY <2>1 DEF ReportCreate, ReportWrite, ReportDies
  <2> QED
    BY <2>2, <2>3, <2>4 DEF TypeOK, States, lockVars, sendVars, stopVars
<1>2. CASE Signal
  <2>1. pc' \in [Callers -> Locations]
    BY <1>0, <1>2 DEF Signal, SignalSend, SignalReload, SignalStop, Goto, Locations
  <2>2. isLocked' \in BOOLEAN /\ stopRequest' \in BOOLEAN /\ stopReply' \in BOOLEAN
    BY <1>2 DEF Signal, SignalSend, SignalReload, SignalStop, TypeOK, lockVars, stopVars
  <2>3. UNCHANGED <<fileVars, mux, sendVars, crashes, delivered>>
    BY <1>2 DEF Signal, SignalSend, SignalReload, SignalStop, lockVars
  <2> QED
    BY <2>1, <2>2, <2>3 DEF TypeOK, Locations, fileVars, sendVars
<1>3. CASE Crash
  <2>1. pc' \in [Callers -> Locations]
    BY <1>3 DEF Crash, Locations
  <2>2. crashes' \in 0 .. MaxCrashes
    BY <1>3, FaultAssumption DEF Crash, TypeOK
  <2>3. /\ todo' \in [Callers -> SUBSET (Reports \X Sizes)]
        /\ now' \in [Callers -> Reports \cup {Nothing}]
        /\ m' \in [Callers -> Reports \cup {Nothing}]
        /\ res' \in [Callers -> BOOLEAN]
        /\ mux' \in Callers \cup {NoCaller}
        /\ isLocked' \in BOOLEAN /\ stopRequest' \in BOOLEAN /\ stopReply' \in BOOLEAN
    BY <1>3 DEF Crash
  <2>4. UNCHANGED <<fileVars, delivered>>
    BY <1>3 DEF Crash
  <2> QED
    BY <2>1, <2>2, <2>3, <2>4 DEF TypeOK, Locations, Sizes, fileVars
<1>4. CASE SenderTurn
  <2>1. pc' \in [Callers -> Locations]
    BY <1>0, <1>4 DEF SenderTurn, SenderTurnTold, Goto, Locations
  <2> QED
    BY <1>4, <2>1 DEF SenderTurn, SenderTurnTold, TypeOK, Locations, fileVars, lockVars, sendVars
<1>5. CASE HandlerBack
  <2>1. pc' \in [Callers -> Locations]
    BY <1>0, <1>5 DEF HandlerBack, Goto, Locations
  <2> QED
    BY <1>5, <2>1 DEF HandlerBack, TypeOK, Locations, fileVars, lockVars, sendVars, stopVars
<1>6. CASE \E p \in Callers : SendStep(p)
  BY <1>6, SendType
<1>7. CASE UNCHANGED vars
  BY <1>7 DEF TypeOK, vars, fileVars, lockVars, sendVars, stopVars
<1> QED
  BY <1>1, <1>2, <1>3, <1>4, <1>5, <1>6, <1>7 DEF Next

\* For any reports and any faults, every variable keeps to its values.
THEOREM TypeCorrect == Spec => []TypeOK
BY InitType, StepType, PTL DEF Spec

-----------------------------------------------------------------------------
(***************************************************************************)
(* Exclusion: what a step of one caller does to the program counters, to   *)
(* the mutex and to isLocked.                                              *)
(***************************************************************************)
LockedInv == LockInv /\ FlagHasOwner

\* The steps of Send keep the mutex with the caller at work.
LEMMA SendKeepsLock ==
  ASSUME TypeOK, LockedInv, NEW p \in Callers, SendStep(p)
  PROVE  LockedInv'
<1> DEFINE Owners == Critical \cup {"clear"}
<1>0. pc \in [Callers -> Locations] /\ p # NoCaller
  BY Constants DEF TypeOK, Locations
<1>1. CASE SendCheck(p)
  <2>1. UNCHANGED lockVars /\ pc[p] \notin Owners
    BY <1>1 DEF SendCheck, Critical
  <2>2. \E there \in {"back", "lock"} : pc' = [pc EXCEPT ![p] = there]
    BY <1>1 DEF SendCheck, Goto
  <2> QED
    BY <1>0, <2>1, <2>2 DEF LockedInv, LockInv, FlagHasOwner, Critical, lockVars
<1>2. CASE SendLock(p)
  <2>1. pc' = [pc EXCEPT ![p] = "list"] /\ mux' = p /\ mux = NoCaller /\ pc[p] = "lock"
    BY <1>2 DEF SendLock, SendLockWhen, Goto
  <2>2. \A q \in Callers : pc[q] \notin Critical
    BY <2>1, Constants DEF LockedInv, LockInv
  <2>3. pc'[p] \in Critical /\ \A q \in Callers \ {p} : pc'[q] = pc[q]
    BY <1>0, <2>1 DEF Critical
  <2> QED
    BY <2>1, <2>2, <2>3 DEF LockedInv, LockInv, FlagHasOwner
<1>6. CASE SendSkip(p)
  <2>1. UNCHANGED <<pc, lockVars>>
    BY <1>6 DEF SendSkip
  <2> QED
    BY <2>1 DEF LockedInv, LockInv, FlagHasOwner, lockVars
<1>3. CASE SendList(p) \/ SendRead(p) \/ SendElsewhere(p) \/ SendDelivered(p)
             \/ SendFailed(p) \/ SendHangs(p) \/ SendRemove(p) \/ SendKeep(p)
  <2>1. UNCHANGED lockVars /\ pc[p] \in Critical
    BY <1>3 DEF SendList, SendRead, SendReadInto, SendElsewhere, SendDelivered, SendFailed, SendHangs,
                SendRemove, SendKeep, SendRemoveIf, Critical, lockVars
  <2>2. \E there \in Critical : pc' = [pc EXCEPT ![p] = there]
    BY <1>3 DEF SendList, SendRead, SendReadInto, SendElsewhere, SendDelivered, SendFailed, SendHangs,
                SendRemove, SendKeep, SendRemoveIf, Critical, Goto
  <2> QED
    BY <1>0, <2>1, <2>2 DEF LockedInv, LockInv, FlagHasOwner, lockVars
<1>4. CASE SendUnlock(p)
  <2>1. pc' = [pc EXCEPT ![p] = "clear"] /\ mux' = NoCaller /\ pc[p] = "next"
    BY <1>4 DEF SendUnlock, SendUnlockTo, Goto
  <2>2. mux = p
    BY <2>1 DEF LockedInv, LockInv, Critical
  <2>3. pc'[p] = "clear" /\ \A q \in Callers \ {p} : pc'[q] = pc[q]
    BY <1>0, <2>1
  <2>4. \A q \in Callers : pc'[q] \notin Critical
    BY <2>2, <2>3 DEF LockedInv, LockInv, Critical
  <2> QED
    BY <2>1, <2>3, <2>4, Constants DEF LockedInv, LockInv, FlagHasOwner
<1>5. CASE SendClear(p)
  <2>1. pc' = [pc EXCEPT ![p] = "back"] /\ mux' = mux /\ ~isLocked' /\ pc[p] = "clear"
    BY <1>5 DEF SendClear, Goto
  <2>2. pc'[p] = "back" /\ \A q \in Callers \ {p} : pc'[q] = pc[q]
    BY <1>0, <2>1
  <2> QED
    BY <2>1, <2>2 DEF LockedInv, LockInv, FlagHasOwner, Critical
<1> QED
  BY <1>1, <1>2, <1>3, <1>4, <1>5, <1>6 DEF SendStep

\* Nobody holds the mutex at the start.
LEMMA InitLock == Init => LockedInv
BY Constants DEF Init, Fresh, LockedInv, LockInv, FlagHasOwner, Critical

\* Every step keeps the mutex with the caller at work, and isLocked owned.
LEMMA StepLock == TypeOK /\ LockedInv /\ [Next]_vars => LockedInv'
<1> SUFFICES ASSUME TypeOK, LockedInv, [Next]_vars PROVE LockedInv'
  OBVIOUS
<1>0. pc \in [Callers -> Locations]
  BY DEF TypeOK, Locations
<1>1. CASE UNCHANGED <<pc, lockVars>>
  BY <1>1 DEF LockedInv, LockInv, FlagHasOwner, lockVars
<1>2. CASE ReportStep
  <2>1. UNCHANGED <<pc, lockVars>>
    BY <1>2 DEF ReportStep, ReportCreate, ReportWrite, ReportDies
  <2> QED
    BY <1>1, <2>1
<1>3. CASE SignalReload
  BY <1>3 DEF SignalReload, LockedInv, LockInv, FlagHasOwner
<1>4. CASE SignalSend \/ SignalStop \/ SenderTurn \/ HandlerBack
  <2>1. PICK p \in Callers : \E there \in {"call", "stopping", "done", "idle"} :
          pc[p] \in {"idle", "back"} /\ pc' = [pc EXCEPT ![p] = there]
    BY <1>4, Constants DEF SignalSend, SignalStop, SenderTurn, SenderTurnTold, HandlerBack, Goto
  <2>2. UNCHANGED lockVars
    BY <1>4 DEF SignalSend, SignalStop, SenderTurn, SenderTurnTold, HandlerBack
  <2> QED
    BY <1>0, <2>1, <2>2 DEF LockedInv, LockInv, FlagHasOwner, Critical, lockVars
<1>5. CASE Crash
  BY <1>5, Constants DEF Crash, LockedInv, LockInv, FlagHasOwner, Critical
<1>6. CASE \E p \in Callers : SendStep(p)
  BY <1>6, SendKeepsLock
<1>7. CASE UNCHANGED vars
  BY <1>1, <1>7 DEF vars
<1> QED
  BY <1>2, <1>3, <1>4, <1>5, <1>6, <1>7 DEF Next, Signal

\* The mutex is always held by the caller that works on the spool, and no one
\* else: the inductive form of exclusion.
THEOREM LockCorrect == Spec => [](TypeOK /\ LockedInv)
<1>1. Init => TypeOK /\ LockedInv
  BY InitType, InitLock
<1>2. TypeOK /\ LockedInv /\ [Next]_vars => (TypeOK /\ LockedInv)'
  BY StepType, StepLock
<1> QED
  BY <1>1, <1>2, PTL DEF Spec

\* Whatever goes wrong, at most one of the main loop and the signal handler
\* works on the spool: the mutex decides, whatever became of isLocked.
THEOREM Exclusion == Spec => []OneSender
<1>1. LockedInv => OneSender
  BY DEF LockedInv, LockInv, OneSender
<1> QED
  BY <1>1, LockCorrect, PTL

\* Whatever goes wrong, isLocked is never left behind: some caller of Send is
\* still to clear it.
THEOREM FlagIsOwned == Spec => []FlagHasOwner
<1>1. LockedInv => FlagHasOwner
  BY DEF LockedInv
<1> QED
  BY <1>1, LockCorrect, PTL

-----------------------------------------------------------------------------
(***************************************************************************)
(* The promise.  With whole files, what a caller of Send has listed, read  *)
(* and sent is what is on disk, because no one else removes files.         *)
(***************************************************************************)
\* A report file is empty while it is written, and whole from then on.
DiskInv ==
  /\ \A r \in Reports : file[r] # "part"
  /\ \A r \in writing : file[r] = "empty"

\* The files still to do are there, each once.
ListInv ==
  \A p \in Callers : pc[p] \in {"next", "dispatch", "remove"} =>
    /\ \A f \in todo[p] : f[2] # "part" /\ (f[2] = "whole" => file[f[1]] = "whole")
    /\ \A f, g \in todo[p] : f[1] = g[1] => f = g

\* The file at hand is there, is not listed again, holds the report in m, and
\* is removed for a channel that is configured only when it was handed over.
HandInv ==
  /\ \A p \in Callers : pc[p] \in {"dispatch", "remove"} =>
       /\ now[p] \in Reports /\ file[now[p]] = "whole"
       /\ \A f \in todo[p] : f[1] # now[p]
  /\ \A p \in Callers : pc[p] = "dispatch" => m[p] = now[p]
  /\ \A p \in Callers : pc[p] = "remove" /\ res[p] /\ now[p] \in Deliverable =>
       delivered[now[p]] > 0

\* Without a crash, a false answer and a file that cannot be removed, only the
\* report being removed has been handed over and is still there.
OnceInv ==
  Faults \cap {"noreply", "keep"} = {} /\ crashes = 0 =>
    \A r \in Reports :
      /\ delivered[r] <= 1
      /\ delivered[r] > 0 =>
           \/ file[r] = "removed"
           \/ \E p \in Callers : pc[p] = "remove" /\ now[p] = r /\ res[p]

SpoolInv == TypeOK /\ LockedInv /\ DiskInv /\ ListInv /\ HandInv /\ OnceInv

\* No file is at hand before the first signal.
LEMMA InitSpool == Init => SpoolInv
<1> SUFFICES ASSUME Init PROVE SpoolInv
  OBVIOUS
<1>1. TypeOK /\ LockedInv
  BY InitType, InitLock
<1>2. \A p \in Callers : pc[p] \in {"call", "idle"}
  BY DEF Init, Fresh
<1>3. DiskInv /\ ListInv /\ HandInv
  BY <1>2 DEF Init, DiskInv, ListInv, HandInv
<1>4. OnceInv
  BY DEF Init, OnceInv
<1> QED
  BY <1>1, <1>3, <1>4 DEF SpoolInv

\* The other caller is outside Send while one works on the spool.
LEMMA Alone ==
  ASSUME SpoolInv, NEW p \in Callers, pc[p] \in Critical, NEW q \in Callers, q # p
  PROVE  pc[q] \notin {"next", "dispatch", "remove"}
BY DEF SpoolInv, LockedInv, LockInv, Critical

\* A step that disturbs neither the files, nor what a working caller holds.
LEMMA Undisturbed ==
  ASSUME SpoolInv, UNCHANGED <<fileVars, delivered>>, crashes' \in Nat, crashes' >= crashes,
         \A p \in Callers : pc'[p] \in {"next", "dispatch", "remove"} =>
           pc'[p] = pc[p] /\ todo'[p] = todo[p] /\ now'[p] = now[p] /\ m'[p] = m[p]
             /\ res'[p] = res[p],
         \A p \in Callers : pc[p] = "remove" => pc'[p] = "remove" \/ crashes' > 0
  PROVE  DiskInv' /\ ListInv' /\ HandInv' /\ OnceInv'
<1>1. DiskInv'
  BY DEF SpoolInv, DiskInv, fileVars
<1>2. ListInv'
  BY DEF SpoolInv, ListInv, fileVars
<1>3. HandInv'
  BY DEF SpoolInv, HandInv, fileVars
<1>4. OnceInv'
  <2>1. crashes \in Nat
    BY FaultAssumption DEF SpoolInv, TypeOK
  <2>2. crashes' = 0 => crashes = 0
    BY <2>1
  <2> QED
    BY <2>1, <2>2 DEF SpoolInv, OnceInv, fileVars
<1> QED
  BY <1>1, <1>2, <1>3, <1>4

\* atella-cli writes its files without disturbing those that are whole.
LEMMA ReportSpool ==
  ASSUME "large" \notin Faults, SpoolInv, NEW r \in Reports,
         ReportCreate(r) \/ ReportWrite(r) \/ ReportDies(r)
  PROVE  DiskInv' /\ ListInv' /\ HandInv' /\ OnceInv'
<1>1. file \in [Reports -> States] /\ writing \subseteq Reports
  BY DEF SpoolInv, TypeOK, States
<1>2. \/ /\ file[r] = "none" /\ writing' = writing \cup {r}
         /\ file' = [file EXCEPT ![r] = "empty"]
      \/ /\ file[r] = "none" /\ writing' = writing
         /\ file' = [file EXCEPT ![r] = "whole"]
      \/ /\ file[r] = "empty" /\ writing' = writing \ {r}
         /\ file' = [file EXCEPT ![r] = "whole"]
      \/ file' = file /\ writing' = writing \ {r}
  BY <1>1 DEF ReportCreate, ReportWrite, ReportDies, SpoolInv, DiskInv
<1>3. UNCHANGED <<pc, todo, now, m, res, crashes, delivered>>
  BY DEF ReportCreate, ReportWrite, ReportDies, sendVars
<1>4. \A s \in Reports : file[s] \in {"whole", "removed"} => file'[s] = file[s]
  BY <1>1, <1>2
<1>5. DiskInv'
  BY <1>1, <1>2 DEF SpoolInv, DiskInv
<1>6. ListInv'
  <2>1. \A p \in Callers : \A f \in todo[p] : f[1] \in Reports
    BY DEF SpoolInv, TypeOK
  <2> QED
    BY <1>3, <1>4, <2>1 DEF SpoolInv, ListInv
<1>7. HandInv'
  BY <1>3, <1>4 DEF SpoolInv, HandInv
<1>8. OnceInv'
  BY <1>3, <1>4 DEF SpoolInv, OnceInv
<1> QED
  BY <1>5, <1>6, <1>7, <1>8

\* Listing and reading the spool.
LEMMA ListSpool ==
  ASSUME SpoolInv, NEW p \in Callers, SendList(p)
  PROVE  DiskInv' /\ ListInv' /\ HandInv' /\ OnceInv'
<1>0. /\ pc \in [Callers -> Locations] /\ todo \in [Callers -> SUBSET (Reports \X Sizes)]
      /\ pc[p] = "list" /\ "list" \in Critical
  BY DEF SpoolInv, TypeOK, Locations, Sizes, SendList, Critical
<1>1. UNCHANGED <<file, writing, now, m, res, crashes, delivered>>
  BY DEF SendList, fileVars
<1>2. pc' = [pc EXCEPT ![p] = "next"] /\ todo'[p] = Listing
  BY <1>0 DEF SendList, Goto
<1>3. \A q \in Callers : q # p => pc'[q] \notin {"next", "dispatch", "remove"}
  BY <1>0, <1>2, Alone
<1>4. DiskInv'
  BY <1>1 DEF SpoolInv, DiskInv
<1>5. ListInv'
  <2>1. \A f \in Listing : f[2] # "part" /\ (f[2] = "whole" => file[f[1]] = "whole")
    BY DEF Listing, SpoolInv, DiskInv
  <2>2. \A f, g \in Listing : f[1] = g[1] => f = g
    BY DEF Listing
  <2> QED
    BY <1>1, <1>2, <1>3, <2>1, <2>2 DEF ListInv
<1>6. HandInv'
  BY <1>0, <1>2, <1>3 DEF HandInv
<1>7. OnceInv'
  <2>1. \A q \in Callers : pc[q] # "remove"
    BY <1>0, Alone
  <2> QED
    BY <1>1, <2>1 DEF SpoolInv, OnceInv
<1> QED
  BY <1>4, <1>5, <1>6, <1>7

\* The file read is whole or makes its reader spin.
LEMMA ReadSpool ==
  ASSUME SpoolInv, NEW p \in Callers, SendRead(p)
  PROVE  DiskInv' /\ ListInv' /\ HandInv' /\ OnceInv'
<1>0. /\ pc \in [Callers -> Locations] /\ todo \in [Callers -> SUBSET (Reports \X Sizes)]
      /\ now \in [Callers -> Reports \cup {Nothing}] /\ m \in [Callers -> Reports \cup {Nothing}]
      /\ pc[p] = "next" /\ "next" \in Critical
  BY DEF SpoolInv, TypeOK, Locations, Sizes, SendRead, SendReadInto, Critical
<1>1. UNCHANGED <<file, writing, res, crashes, delivered>>
  BY DEF SendRead, SendReadInto, fileVars
<1>2. PICK f \in todo[p] : SendReadInto(p, TRUE)!2!(f)
  BY DEF SendRead, SendReadInto
<1>3. /\ f[1] \in Reports /\ f[2] # "part" /\ f[2] \in Sizes
      /\ (f[2] = "whole" => file[f[1]] = "whole")
      /\ \A g \in todo[p] : f[1] = g[1] => f = g
  BY <1>0, <1>2 DEF SpoolInv, ListInv
<1>4. /\ now'[p] = f[1] /\ todo'[p] = todo[p] \ {f}
      /\ pc' = [pc EXCEPT ![p] = IF f[2] = "empty" THEN "spin" ELSE "dispatch"]
      /\ (f[2] = "whole" => m'[p] = f[1])
  BY <1>0, <1>2 DEF Goto
<1>5. /\ \A q \in Callers : q # p => pc'[q] \notin {"next", "dispatch", "remove"}
      /\ pc'[p] \in {"spin", "dispatch"} /\ (pc'[p] = "dispatch" => f[2] = "whole")
  BY <1>0, <1>3, <1>4, Alone DEF Sizes
<1>6. DiskInv'
  BY <1>1 DEF SpoolInv, DiskInv
<1>7. ListInv'
  BY <1>0, <1>1, <1>4, <1>5 DEF SpoolInv, ListInv
<1>8. HandInv'
  <2>1. \A g \in todo'[p] : g[1] # now'[p]
    BY <1>3, <1>4
  <2> QED
    BY <1>1, <1>3, <1>4, <1>5, <2>1 DEF HandInv
<1>9. OnceInv'
  <2>1. \A q \in Callers : pc[q] # "remove"
    BY <1>0, Alone
  <2> QED
    BY <1>1, <2>1 DEF SpoolInv, OnceInv
<1> QED
  BY <1>6, <1>7, <1>8, <1>9

\* Handing over the file at hand.
LEMMA DispatchSpool ==
  ASSUME SpoolInv, NEW p \in Callers, SendElsewhere(p) \/ SendDelivered(p) \/ SendFailed(p)
  PROVE  DiskInv' /\ ListInv' /\ HandInv' /\ OnceInv'
<1> DEFINE r == now[p]
<1>0. /\ pc \in [Callers -> Locations] /\ res \in [Callers -> BOOLEAN]
      /\ delivered \in [Reports -> 0 .. 2]
      /\ pc[p] = "dispatch" /\ "dispatch" \in Critical
  BY DEF SpoolInv, TypeOK, Locations, SendElsewhere, SendDelivered, SendFailed, Critical
<1>1. UNCHANGED <<file, writing, todo, now, m, crashes>>
  BY DEF SendElsewhere, SendDelivered, SendFailed, fileVars
<1>2. pc' = [pc EXCEPT ![p] = "remove"]
  BY DEF SendElsewhere, SendDelivered, SendFailed, Goto
<1>3. /\ r \in Reports /\ file[r] = "whole" /\ m[p] = r
      /\ \A f \in todo[p] : f[1] # r
  BY <1>0 DEF SpoolInv, HandInv
<1>4. \A q \in Callers : q # p => pc'[q] \notin {"next", "dispatch", "remove"}
  BY <1>0, <1>2, Alone
<1>5. \/ delivered' = [delivered EXCEPT ![r] = More(@)]
      \/ delivered' = delivered
  BY <1>3 DEF SendElsewhere, SendDelivered, SendFailed
<1>6. \A n \in 0 .. 2 : More(n) > 0 /\ More(n) \in Nat /\ More(0) = 1
  BY DEF More
<1>7. DiskInv'
  BY <1>1 DEF SpoolInv, DiskInv
<1>8. ListInv'
  BY <1>0, <1>1, <1>2, <1>4 DEF SpoolInv, ListInv
<1>9. HandInv'
  <2>1. res'[p] /\ r \in Deliverable => delivered'[r] > 0
    <3>1. CASE SendElsewhere(p)
      BY <1>3, <3>1 DEF SendElsewhere
    <3>2. CASE SendDelivered(p)
      BY <1>0, <1>3, <1>6, <3>2 DEF SendDelivered
    <3>3. CASE SendFailed(p)
      BY <1>0, <3>3 DEF SendFailed
    <3> QED
      BY <3>1, <3>2, <3>3
  <2>2. \A q \in Callers : pc'[q] \in {"dispatch", "remove"} => q = p /\ pc'[q] = "remove"
    BY <1>0, <1>2, <1>4
  <2> QED
    BY <1>1, <1>3, <2>1, <2>2 DEF HandInv
<1>10. OnceInv'
  <2> SUFFICES ASSUME Faults \cap {"noreply", "keep"} = {}, crashes' = 0, NEW s \in Reports
               PROVE  /\ delivered'[s] <= 1
                      /\ delivered'[s] > 0 =>
                           \/ file'[s] = "removed"
                           \/ \E q \in Callers : pc'[q] = "remove" /\ now'[q] = s /\ res'[q]
    BY DEF OnceInv
  <2>0. crashes = 0
    BY <1>1
  <2>1. \A q \in Callers : pc[q] # "remove"
    BY <1>0, Alone
  <2>2. \A t \in Reports : delivered[t] <= 1 /\ (delivered[t] > 0 => file[t] = "removed")
    BY <2>0, <2>1 DEF SpoolInv, OnceInv
  <2>3. delivered[r] = 0
    BY <1>0, <1>3, <2>2
  <2>4. CASE delivered' = delivered
    BY <1>1, <2>2, <2>4
  <2>5. CASE SendDelivered(p)
    <3>1. delivered' = [delivered EXCEPT ![r] = 1] /\ res'[p]
      BY <1>0, <1>3, <1>6, <2>3, <2>5 DEF SendDelivered
    <3>2. pc'[p] = "remove" /\ now'[p] = r
      BY <1>0, <1>1, <1>2
    <3> QED
      BY <1>0, <1>1, <1>3, <2>2, <3>1, <3>2
  <2> QED
    BY <2>4, <2>5 DEF SendElsewhere, SendFailed
<1> QED
  BY <1>7, <1>8, <1>9, <1>10

\* A file is passed over.
LEMMA SkipSpool ==
  ASSUME SpoolInv, NEW p \in Callers, SendSkip(p)
  PROVE  DiskInv' /\ ListInv' /\ HandInv' /\ OnceInv'
<1>1. UNCHANGED <<fileVars, pc, now, m, res, crashes, delivered>>
  BY DEF SendSkip
<1>2. \A q \in Callers : todo'[q] \subseteq todo[q]
  BY DEF SendSkip, SpoolInv, TypeOK
<1>3. DiskInv'
  BY <1>1 DEF SpoolInv, DiskInv, fileVars
<1>4. ListInv'
  BY <1>1, <1>2 DEF SpoolInv, ListInv, fileVars
<1>5. HandInv'
  BY <1>1, <1>2 DEF SpoolInv, HandInv, fileVars
<1>6. OnceInv'
  BY <1>1 DEF SpoolInv, OnceInv, fileVars
<1> QED
  BY <1>3, <1>4, <1>5, <1>6

\* The file at hand cannot be removed.
LEMMA KeepSpool ==
  ASSUME SpoolInv, NEW p \in Callers, SendKeep(p)
  PROVE  DiskInv' /\ ListInv' /\ HandInv' /\ OnceInv'
<1>0. /\ pc \in [Callers -> Locations] /\ pc[p] = "remove" /\ "remove" \in Critical
  BY DEF SpoolInv, TypeOK, Locations, SendKeep, SendRemoveIf, Critical
<1>1. UNCHANGED <<file, writing, todo, now, m, res, crashes, delivered>> /\ "keep" \in Faults
  BY DEF SendKeep, SendRemoveIf, sendVars
<1>2. pc' = [pc EXCEPT ![p] = "next"]
  BY DEF SendKeep, SendRemoveIf, Goto
<1>3. \A q \in Callers : q # p => pc'[q] \notin {"next", "dispatch", "remove"}
  BY <1>0, <1>2, Alone
<1>4. DiskInv'
  BY <1>1 DEF SpoolInv, DiskInv
<1>5. ListInv'
  BY <1>0, <1>1, <1>3 DEF SpoolInv, ListInv
<1>6. HandInv'
  BY <1>0, <1>2, <1>3 DEF HandInv
<1>7. OnceInv'
  BY <1>1 DEF OnceInv
<1> QED
  BY <1>4, <1>5, <1>6, <1>7

\* Removing the file at hand.
LEMMA RemoveSpool ==
  ASSUME SpoolInv, NEW p \in Callers, SendRemove(p)
  PROVE  DiskInv' /\ ListInv' /\ HandInv' /\ OnceInv'
<1> DEFINE r == now[p]
<1>0. /\ pc \in [Callers -> Locations] /\ file \in [Reports -> States]
      /\ writing \subseteq Reports /\ todo \in [Callers -> SUBSET (Reports \X Sizes)]
      /\ pc[p] = "remove" /\ "remove" \in Critical
  BY DEF SpoolInv, TypeOK, Locations, States, Sizes, SendRemove, SendRemoveIf, Critical
<1>1. UNCHANGED <<writing, todo, now, m, res, crashes, delivered>>
  BY DEF SendRemove, SendRemoveIf, sendVars
<1>2. pc' = [pc EXCEPT ![p] = "next"]
  BY DEF SendRemove, SendRemoveIf, Goto
<1>3. r \in Reports /\ file[r] = "whole" /\ \A f \in todo[p] : f[1] # r
  BY <1>0 DEF SpoolInv, HandInv
<1>4. \A q \in Callers : q # p => pc'[q] \notin {"next", "dispatch", "remove"}
  BY <1>0, <1>2, Alone
<1>5. file' = IF res[p] THEN [file EXCEPT ![r] = "removed"] ELSE file
  BY DEF SendRemove, SendRemoveIf
<1>6. DiskInv'
  BY <1>0, <1>1, <1>3, <1>5 DEF SpoolInv, DiskInv
<1>7. ListInv'
  <2>1. \A f \in todo[p] : f[1] \in Reports /\ file'[f[1]] = file[f[1]]
    BY <1>0, <1>3, <1>5
  <2> QED
    BY <1>0, <1>1, <1>4, <2>1 DEF SpoolInv, ListInv
<1>8. HandInv'
  BY <1>0, <1>2, <1>4 DEF HandInv
<1>9. OnceInv'
  <2>1. \A q \in Callers : pc[q] = "remove" => q = p
    BY <1>0, Alone
  <2>2. \A s \in Reports : file[s] = "removed" => file'[s] = "removed"
    BY <1>0, <1>5
  <2>3. res[p] => file'[r] = "removed"
    BY <1>0, <1>3, <1>5
  <2> QED
    BY <1>1, <2>1, <2>2, <2>3 DEF SpoolInv, OnceInv
<1> QED
  BY <1>6, <1>7, <1>8, <1>9

\* Every step keeps the invariant, as long as report files are whole.
LEMMA StepSpool ==
  ASSUME "large" \notin Faults
  PROVE  SpoolInv /\ [Next]_vars => SpoolInv'
<1> SUFFICES ASSUME SpoolInv, [Next]_vars PROVE SpoolInv'
  OBVIOUS
<1> DEFINE Goal == DiskInv' /\ ListInv' /\ HandInv' /\ OnceInv'
<1>a. TypeOK' /\ LockedInv'
  BY StepType, StepLock DEF SpoolInv
<1> SUFFICES Goal
  BY <1>a DEF SpoolInv
<1>0. /\ pc \in [Callers -> Locations] /\ crashes \in Nat
      /\ todo \in [Callers -> SUBSET (Reports \X Sizes)]
      /\ now \in [Callers -> Reports \cup {Nothing}] /\ m \in [Callers -> Reports \cup {Nothing}]
      /\ res \in [Callers -> BOOLEAN]
  BY FaultAssumption DEF SpoolInv, TypeOK, Locations, Sizes
<1>2. CASE ReportStep
  BY <1>2, ReportSpool DEF ReportStep
<1>3. CASE Signal \/ SenderTurn \/ HandlerBack
  <2>1. UNCHANGED <<fileVars, sendVars, crashes, delivered>>
    BY <1>3 DEF Signal, SignalSend, SignalReload, SignalStop, SenderTurn, SenderTurnTold, HandlerBack
  <2>2. \A p \in Callers : pc'[p] # pc[p] =>
          pc[p] # "remove" /\ pc'[p] \notin {"next", "dispatch", "remove"}
    BY <1>0, <1>3, Constants
    DEF Signal, SignalSend, SignalReload, SignalStop, SenderTurn, SenderTurnTold, HandlerBack, Goto
  <2> QED
    BY <1>0, <2>1, <2>2, Undisturbed DEF sendVars
<1>4. CASE Crash
  <2>1. UNCHANGED <<fileVars, delivered>> /\ crashes' = crashes + 1
    BY <1>4 DEF Crash
  <2>2. \A p \in Callers : pc'[p] \in {"call", "idle"}
    BY <1>4 DEF Crash
  <2> QED
    BY <1>0, <2>1, <2>2, Undisturbed
<1>5. ASSUME NEW p \in Callers, SendStep(p) PROVE Goal
  <2>1. CASE SendCheck(p) \/ SendLock(p) \/ SendHangs(p) \/ SendUnlock(p) \/ SendClear(p)
    <3>1. UNCHANGED <<fileVars, todo, now, crashes, delivered>>
      BY <2>1 DEF SendCheck, SendLock, SendLockWhen, SendHangs, SendUnlock, SendUnlockTo, SendClear, sendVars
    <3>2. /\ pc[p] # "remove" /\ pc'[p] \notin {"next", "dispatch", "remove"}
          /\ \A q \in Callers : q # p => pc'[q] = pc[q] /\ m'[q] = m[q] /\ res'[q] = res[q]
      BY <1>0, <2>1 DEF SendCheck, SendLock, SendLockWhen, SendHangs, SendUnlock, SendUnlockTo, SendClear, sendVars, Goto
    <3> QED
      BY <1>0, <3>1, <3>2, Undisturbed
  <2>2. CASE SendList(p)
    BY <2>2, ListSpool
  <2>3. CASE SendRead(p)
    BY <2>3, ReadSpool
  <2>4. CASE SendElsewhere(p) \/ SendDelivered(p) \/ SendFailed(p)
    BY <2>4, DispatchSpool
  <2>5. CASE SendRemove(p)
    BY <2>5, RemoveSpool
  <2>6. CASE SendSkip(p) \/ SendKeep(p)
    BY <2>6, SkipSpool, KeepSpool
  <2> QED
    BY <1>5, <2>1, <2>2, <2>3, <2>4, <2>5, <2>6 DEF SendStep
<1>6. CASE UNCHANGED vars
  <2>1. UNCHANGED <<fileVars, pc, sendVars, crashes, delivered>>
    BY <1>6 DEF vars
  <2> QED
    BY <1>0, <2>1, Undisturbed DEF sendVars
<1> QED
  BY <1>2, <1>3, <1>4, <1>5, <1>6 DEF Next

\* As long as report files are whole and can be removed, channels answer truly and
\* the daemon does not crash, no report is handed over twice.
THEOREM HandedOverOnce == Spec => []AtMostOnce
<1>1. CASE Faults \cap {"large", "noreply", "keep"} # {}
  <2>1. AtMostOnce
    BY <1>1 DEF AtMostOnce
  <2> QED
    BY <2>1, PTL
<1>2. CASE Faults \cap {"large", "noreply", "keep"} = {}
  <2>1. SpoolInv /\ [Next]_vars => SpoolInv'
    BY <1>2, StepSpool
  <2>2. SpoolInv => AtMostOnce
    BY <1>2 DEF SpoolInv, OnceInv, AtMostOnce
  <2> QED
    BY <2>1, <2>2, InitSpool, PTL DEF Spec
<1> QED
  BY <1>1, <1>2

-----------------------------------------------------------------------------
(***************************************************************************)
(* The refinement.                                                         *)
(***************************************************************************)
StatusNow == [r \in Reports |-> Status(r)]

\* A report becomes pending when its file is whole.
LEMMA ReportPromise ==
  ASSUME "large" \notin Faults, SpoolInv, NEW r \in Reports,
         ReportCreate(r) \/ ReportWrite(r) \/ ReportDies(r)
  PROVE  Promise!Accept(r) \/ UNCHANGED <<StatusNow, delivered>>
<1>1. file \in [Reports -> States]
  BY DEF SpoolInv, TypeOK, States
<1>2. UNCHANGED delivered
  BY DEF ReportCreate, ReportWrite, ReportDies
<1>3. \/ file[r] \in {"none", "empty"} /\ file' = [file EXCEPT ![r] = "whole"]
      \/ file[r] = "none" /\ file' = [file EXCEPT ![r] = "empty"]
      \/ file' = file
  BY <1>1 DEF ReportCreate, ReportWrite, ReportDies, SpoolInv, DiskInv, TypeOK
<1>4. CASE file[r] \in {"none", "empty"} /\ file' = [file EXCEPT ![r] = "whole"]
  <2>1. Status(r) = "new" /\ Status(r)' = "pending"
    BY <1>1, <1>4 DEF Status
  <2>2. \A s \in Reports : s # r => Status(s)' = Status(s)
    BY <1>1, <1>4 DEF Status
  <2>3. StatusNow' = [StatusNow EXCEPT ![r] = "pending"]
    BY <2>1, <2>2 DEF StatusNow
  <2> QED
    BY <1>2, <2>1, <2>3 DEF Promise!Accept, StatusNow
<1>5. CASE file[r] = "none" /\ file' = [file EXCEPT ![r] = "empty"]
  <2>1. \A s \in Reports : Status(s)' = Status(s)
    BY <1>1, <1>5 DEF Status
  <2> QED
    BY <1>2, <2>1 DEF StatusNow
<1>6. CASE file' = file
  BY <1>2, <1>6 DEF StatusNow, Status
<1> QED
  BY <1>3, <1>4, <1>5, <1>6

\* A pending report is handed over, and done once its file is removed.
LEMMA SendPromise ==
  ASSUME SpoolInv, NEW p \in Callers, SendStep(p)
  PROVE  \/ \E r \in Reports : Promise!Deliver(r) \/ Promise!Drop(r)
         \/ UNCHANGED <<StatusNow, delivered>>
<1>r. PICK r : r = now[p]
  OBVIOUS
<1>0. file \in [Reports -> States]
  BY DEF SpoolInv, TypeOK, States
<1>1. file' = file => UNCHANGED StatusNow
  BY DEF StatusNow, Status
<1>2. CASE UNCHANGED <<file, delivered>>
  BY <1>1, <1>2
<1>3. CASE SendDelivered(p) \/ SendFailed(p)
  <2>1. r \in Reports /\ file[r] = "whole" /\ m[p] = r
    BY <1>3, <1>r DEF SendDelivered, SendFailed, SpoolInv, HandInv
  <2>2. file' = file
    BY <1>3 DEF SendDelivered, SendFailed, fileVars
  <2>3. CASE delivered' = delivered
    BY <1>2, <2>2, <2>3
  <2>4. CASE delivered' = [delivered EXCEPT ![r] = More(@)]
    <3>1. StatusNow[r] = "pending"
      BY <2>1 DEF StatusNow, Status
    <3>2. Promise!Deliver(r)
      BY <1>1, <2>2, <2>4, <3>1 DEF Promise!Deliver, Promise!More, More, StatusNow
    <3> QED
      BY <2>1, <3>2
  <2> QED
    BY <1>3, <2>1, <2>3, <2>4 DEF SendDelivered, SendFailed
<1>4. CASE SendRemove(p)
  <2>1. r \in Reports /\ file[r] = "whole" /\ (res[p] /\ r \in Deliverable => delivered[r] > 0)
    BY <1>4, <1>r DEF SendRemove, SendRemoveIf, SpoolInv, HandInv
  <2>2. UNCHANGED delivered
    BY <1>4 DEF SendRemove, SendRemoveIf
  <2>3. CASE ~res[p]
    BY <1>2, <1>4, <2>2, <2>3 DEF SendRemove, SendRemoveIf
  <2>4. CASE res[p]
    <3>1. file' = [file EXCEPT ![r] = "removed"]
      BY <1>4, <1>r, <2>4 DEF SendRemove, SendRemoveIf
    <3>2. Status(r) = "pending" /\ Status(r)' = "done"
      BY <1>0, <2>1, <3>1 DEF Status
    <3>3. \A s \in Reports : s # r => Status(s)' = Status(s)
      BY <1>0, <3>1 DEF Status
    <3>4. StatusNow' = [StatusNow EXCEPT ![r] = "done"]
      BY <3>2, <3>3 DEF StatusNow
    <3>5. Promise!Drop(r)
      BY <2>1, <2>2, <2>4, <3>2, <3>4 DEF Promise!Drop, StatusNow
    <3> QED
      BY <2>1, <3>5
  <2> QED
    BY <2>3, <2>4
<1>5. CASE SendCheck(p) \/ SendLock(p) \/ SendList(p) \/ SendRead(p) \/ SendElsewhere(p)
             \/ SendHangs(p) \/ SendSkip(p) \/ SendKeep(p) \/ SendUnlock(p) \/ SendClear(p)
  <2>1. UNCHANGED <<file, delivered>>
    BY <1>5 DEF SendCheck, SendLock, SendLockWhen, SendList, SendRead, SendReadInto, SendElsewhere, SendHangs, SendUnlock, SendUnlockTo,
                SendSkip, SendKeep, SendRemoveIf, SendClear, fileVars
  <2> QED
    BY <1>2, <2>1
<1> QED
  BY <1>3, <1>4, <1>5 DEF SendStep

\* As long as report files are whole, the spool implements AtellaReports: across
\* crashes, signals, false answers, hangs and files listed while they are empty,
\* a report stays pending until it was handed over at least once.
THEOREM PromiseKept ==
  ASSUME "large" \notin Faults
  PROVE  Spec => KeepsPromise
<1>1. Init => Promise!Init
  BY DEF Init, Promise!Init, Status
<1>2. SpoolInv /\ [Next]_vars => [Promise!Next]_(Promise!rvars)
  <2> SUFFICES ASSUME SpoolInv, [Next]_vars
               PROVE  Promise!Next \/ UNCHANGED <<StatusNow, delivered>>
    BY DEF Promise!rvars, StatusNow
  <2>1. CASE ReportStep
    BY <2>1, ReportPromise DEF ReportStep, Promise!Next
  <2>2. CASE \E p \in Callers : SendStep(p)
    BY <2>2, SendPromise DEF Promise!Next
  <2>3. CASE Signal \/ Crash \/ SenderTurn \/ HandlerBack \/ UNCHANGED vars
    <3>1. UNCHANGED <<file, delivered>>
      BY <2>3 DEF Signal, SignalSend, SignalReload, SignalStop, Crash, SenderTurn, SenderTurnTold,
                  HandlerBack, vars, fileVars
    <3> QED
      BY <3>1 DEF StatusNow, Status
  <2> QED
    BY <2>1, <2>2, <2>3 DEF Next
<1>3. SpoolInv /\ [Next]_vars => SpoolInv'
  BY StepSpool
<1> QED
  BY <1>1, <1>2, <1>3, InitSpool, PTL DEF Spec, KeepsPromise, Promise!Spec

\* A report that has been removed is not handed to its channel again.
RemovedIsOver ==
  [][\A r \in Reports : file[r] = "removed" => delivered'[r] = delivered[r]]_vars

\* As long as report files are whole, a report that was removed is over, through
\* any crash.
THEOREM OverOnceRemoved ==
  ASSUME "large" \notin Faults
  PROVE  Spec => RemovedIsOver
<1>1. SpoolInv /\ [Next]_vars =>
        [\A r \in Reports : file[r] = "removed" => delivered'[r] = delivered[r]]_vars
  <2> SUFFICES ASSUME SpoolInv, [Next]_vars, NEW r \in Reports, file[r] = "removed"
               PROVE  delivered'[r] = delivered[r]
    OBVIOUS
  <2>1. delivered \in [Reports -> 0 .. 2]
    BY DEF SpoolInv, TypeOK
  <2>2. ASSUME NEW p \in Callers, SendDelivered(p) \/ SendFailed(p)
        PROVE  delivered'[r] = delivered[r]
    <3>1. file[m[p]] = "whole"
      BY <2>2 DEF SendDelivered, SendFailed, SpoolInv, HandInv
    <3> QED
      BY <2>1, <2>2, <3>1 DEF SendDelivered, SendFailed
  <2>3. ASSUME NEW p \in Callers, SendStep(p) PROVE delivered'[r] = delivered[r]
    BY <2>2, <2>3 DEF SendStep, SendCheck, SendLock, SendLockWhen, SendList, SendRead, SendReadInto, SendElsewhere,
                      SendHangs, SendRemove, SendRemoveIf, SendSkip, SendKeep, SendUnlock, SendUnlockTo, SendClear
  <2>4. CASE ReportStep \/ Signal \/ Crash \/ SenderTurn \/ HandlerBack \/ UNCHANGED vars
    BY <2>4 DEF ReportStep, ReportCreate, ReportWrite, ReportDies, Signal, SignalSend,
                SignalReload, SignalStop, Crash, SenderTurn, SenderTurnTold, HandlerBack, vars
  <2> QED
    BY <2>3, <2>4 DEF Next
<1>2. SpoolInv /\ [Next]_vars => SpoolInv'
  BY StepSpool
<1> QED
  BY <1>1, <1>2, InitSpool, PTL DEF Spec, RemovedIsOver

-----------------------------------------------------------------------------
(***************************************************************************)
(* The stop.  The handler waits in StopSender from the request on, and the *)
(* main loop answers only when it has left Send.                           *)
(***************************************************************************)
StopInv ==
  /\ stopRequest => pc["handler"] = "stopping"
  /\ stopReply => stopRequest /\ pc["main"] = "done"

\* Every step keeps the request with the handler, and the answer with the main loop.
LEMMA StepStop == TypeOK /\ StopInv /\ [Next]_vars => StopInv'
<1> SUFFICES ASSUME TypeOK, StopInv, [Next]_vars PROVE StopInv'
  OBVIOUS
<1>0. pc \in [Callers -> Locations] /\ "main" \in Callers /\ "handler" \in Callers
  BY Constants DEF TypeOK, Locations
<1>1. CASE UNCHANGED <<pc, stopVars>>
  BY <1>1 DEF StopInv, stopVars
<1>2. CASE ReportStep \/ SignalReload \/ UNCHANGED vars
  <2>1. UNCHANGED <<pc, stopVars>>
    BY <1>2 DEF ReportStep, ReportCreate, ReportWrite, ReportDies, SignalReload, vars
  <2> QED
    BY <1>1, <2>1
<1>3. CASE SignalSend \/ SignalStop \/ HandlerBack
  BY <1>0, <1>3 DEF SignalSend, SignalStop, HandlerBack, Goto, stopVars, StopInv
<1>4. CASE SenderTurn
  BY <1>0, <1>4 DEF SenderTurn, SenderTurnTold, Goto, StopInv, TypeOK
<1>5. CASE Crash
  BY <1>5 DEF Crash, StopInv
<1>6. ASSUME NEW p \in Callers, SendStep(p) PROVE StopInv'
  <2>0. CASE SendSkip(p)
    BY <1>1, <2>0 DEF SendSkip
  <2>1. CASE ~SendSkip(p)
    <3>1. pc[p] \notin {"stopping", "done"} /\ UNCHANGED stopVars
          /\ \E there \in Locations : pc' = [pc EXCEPT ![p] = there]
      BY <1>6, <2>1 DEF SendStep, SendCheck, SendLock, SendLockWhen, SendList, SendRead, SendReadInto, SendElsewhere,
                  SendDelivered, SendFailed, SendHangs, SendRemove, SendKeep, SendRemoveIf, SendUnlock, SendUnlockTo,
                  SendClear, Goto, Locations, Critical
    <3>2. \A q \in Callers : pc[q] \in {"stopping", "done"} => pc'[q] = pc[q]
      BY <1>0, <3>1
    <3> QED
      BY <1>0, <3>1, <3>2 DEF StopInv, stopVars
  <2> QED
    BY <2>0, <2>1
<1> QED
  BY <1>2, <1>3, <1>4, <1>5, <1>6 DEF Next, Signal

\* When StopSender returns nobody works on the spool, and it is left unlocked.
LeftQuiet ==
  stopReply => mux = NoCaller /\ ~isLocked /\ \A p \in Callers : pc[p] \notin Critical

\* Whatever goes wrong, a stop that is confirmed has interrupted nothing: neither
\* caller is between the delivery of a report and the removal of its file.
THEOREM StopIsQuiet == Spec => []LeftQuiet
<1>1. Init => StopInv
  BY DEF Init, Fresh, StopInv
<1>2. TypeOK /\ LockedInv /\ StopInv => LeftQuiet
  <2> SUFFICES ASSUME TypeOK, LockedInv, StopInv, stopReply
               PROVE  mux = NoCaller /\ ~isLocked /\ \A p \in Callers : pc[p] \notin Critical
    BY DEF LeftQuiet
  <2>1. \A p \in Callers : pc[p] \in {"stopping", "done"}
    BY Constants DEF StopInv
  <2>2. \A p \in Callers : pc[p] \notin Critical \cup {"clear"}
    BY <2>1 DEF Critical
  <2> QED
    BY <2>2 DEF LockedInv, LockInv, FlagHasOwner, TypeOK
<1> QED
  BY <1>1, <1>2, StepStop, LockCorrect, PTL DEF Spec

\* With whole files that can be removed and truthful channels, a daemon that did not crash and has
\* confirmed its stop leaves no report behind that was delivered: the daemon started
\* next repeats none.
CleanStop ==
  Faults \cap {"noreply", "keep"} = {} /\ crashes = 0 /\ stopReply
    => \A r \in Reports : delivered[r] > 0 => file[r] = "removed"

\* The stop is clean as long as report files are whole.
THEOREM StopIsClean ==
  ASSUME "large" \notin Faults
  PROVE  Spec => []CleanStop
<1>1. SpoolInv /\ LeftQuiet => CleanStop
  BY DEF SpoolInv, OnceInv, LeftQuiet, CleanStop, Critical
<1>2. SpoolInv /\ [Next]_vars => SpoolInv'
  BY StepSpool
<1> QED
  BY <1>1, <1>2, InitSpool, StopIsQuiet, PTL DEF Spec

=============================================================================
