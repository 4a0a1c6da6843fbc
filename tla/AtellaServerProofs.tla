-------------------------- MODULE AtellaServerProofs --------------------------
(***************************************************************************)
(* Proofs about AtellaServer, for any sessions, hosts and commands.        *)
(***************************************************************************)
EXTENDS AtellaServer, TLAPS

\* A session at work on MasterVector holds its mutex the way it needs it, and a
\* writer is alone.
MutexInv ==
  /\ \A s \in Sessions : pc[s] = "map" => IF line[s].cmd = "vector" THEN mutexW = s ELSE s \in mutexR
  /\ mutexW # NoSession => mutexR = {}

IInv == TypeOK /\ MutexInv

\* Facts about the constants.
LEMMA Constants ==
  /\ NoSession \notin Sessions /\ Hosts \subseteq Names /\ Me \in Names /\ Changing \subseteq Names
  /\ MaxVersion \in Nat /\ EmptyLimit \in Nat /\ 0 \in Versions /\ NoLine \in Line
  /\ IsMaster \in BOOLEAN
BY NamesAssumption, BoundAssumption, ChangingAssumption
   DEF Names, Versions, NoLine, Line, CommandKinds

\* The server starts with the invariant.
LEMMA InitInv == Init => IInv
<1> SUFFICES ASSUME Init PROVE IInv
  OBVIOUS
<1> USE Constants
<1>1. inbox \in [Sessions -> Seq(Line)]
  <2>1. <<>> \in Seq(Line)
    OBVIOUS
  <2> QED
    BY <2>1 DEF Init
<1>2. emptyCnt \in [Sessions -> 0 .. EmptyLimit + 1] /\ line \in [Sessions -> Line]
  BY DEF Init
<1>3. TypeOK
  BY <1>1, <1>2 DEF Init, TypeOK, Missing
<1>4. MutexInv
  BY DEF Init, MutexInv
<1> QED
  BY <1>3, <1>4 DEF IInv

\* The accept loop, the master routine, Stop and the client of the daemon.
LEMMA ServerInv ==
  ASSUME IInv, Listener \/ Master \/ Stop \/ Save
  PROVE  IInv'
<1> USE Constants DEF IInv
<1>1. CASE Listen \/ AcceptNothing
  BY <1>1 DEF Listen, ListenTold, AcceptNothing, TypeOK, MutexInv, sessionVars, wireVars, mapVars
<1>2. ASSUME NEW s \in Sessions, Accept(s) PROVE IInv'
  BY <1>2 DEF Accept, TypeOK, MutexInv, wireVars, mapVars
<1>3. CASE MasterStart \/ MasterInit \/ MasterInterrupt \/ MasterEnd
  BY <1>3 DEF MasterStart, MasterInit, MasterInterrupt, MasterEnd, TypeOK, MutexInv,
              sessionVars, wireVars, mapVars, Missing
<1>4. CASE Stop
  BY <1>4 DEF Stop, TypeOK, MutexInv, sessionVars, wireVars, mapVars
<1>5. CASE Save
  BY <1>5 DEF Save, TypeOK, MutexInv, serverVars, sessionVars, wireVars
<1> QED
  BY <1>1, <1>2, <1>3, <1>4, <1>5 DEF Listener, Master

\* Reading takes a line of the right kind and leaves lines.
LEMMA ReadLine ==
  ASSUME TypeOK, NEW s \in Sessions, Read(s)
  PROVE  Head(inbox[s]) \in Line /\ inbox' \in [Sessions -> Seq(Line)]
<1>1. inbox[s] \in Seq(Line) /\ inbox[s] # <<>>
  BY DEF TypeOK, Read
<1>2. Head(inbox[s]) \in Line /\ Tail(inbox[s]) \in Seq(Line)
  BY <1>1
<1> QED
  BY <1>2 DEF TypeOK, Read

\* A session and the goroutine that stops it.
LEMMA SessionInv ==
  ASSUME IInv, NEW s \in Sessions, Session(s) \/ Stopper(s)
  PROVE  IInv'
<1> USE Constants DEF IInv
<1>1. CASE SessionBegin(s) \/ SessionTest(s) \/ ReadError(s)
  <2>1. CASE SessionBegin(s)
    BY <2>1 DEF SessionBegin, TypeOK, MutexInv, serverVars, wireVars, mapVars
  <2>2. CASE SessionTest(s) /\ exit[s]
    BY <2>2 DEF SessionTest, End, TypeOK, MutexInv, serverVars, wireVars, mapVars
  <2>3. CASE SessionTest(s) /\ ~exit[s]
    BY <2>3 DEF SessionTest, TypeOK, MutexInv, serverVars, wireVars, mapVars
  <2>4. CASE ReadError(s)
    BY <2>4 DEF ReadError, End, TypeOK, MutexInv, serverVars, wireVars, mapVars
  <2> QED
    BY <1>1, <2>1, <2>2, <2>3, <2>4
<1>2. CASE ReadEmpty(s) \/ ReadAnswered(s) \/ ReadMapCommand(s)
  <2>1. /\ Head(inbox[s]) \in Line /\ inbox' \in [Sessions -> Seq(Line)] /\ pc[s] = "read"
        /\ UNCHANGED <<serverVars, stopper, eof, owner, current, latest, mapVars>>
    BY <1>2, ReadLine DEF ReadEmpty, ReadAnswered, ReadMapCommand, Read
  <2>2. /\ pc' \in [Sessions -> {"free", "waiting", "new", "test", "read", "lock", "map", "reply", "ended"}]
        /\ exit' \in [Sessions -> BOOLEAN] /\ closed' \in [Sessions -> BOOLEAN]
        /\ emptyCnt' \in [Sessions -> 0 .. EmptyLimit + 1] /\ line' \in [Sessions -> Line]
    <3>1. CASE ReadEmpty(s) /\ emptyCnt[s] > EmptyLimit
      BY <3>1 DEF ReadEmpty, End, TypeOK
    <3>2. CASE ReadEmpty(s) /\ ~(emptyCnt[s] > EmptyLimit)
      <4>1. emptyCnt[s] + 1 \in 0 .. EmptyLimit + 1
        BY <3>2 DEF TypeOK
      <4>2. /\ pc' = [pc EXCEPT ![s] = "test"] /\ exit' = [exit EXCEPT ![s] = FALSE]
            /\ emptyCnt' = [emptyCnt EXCEPT ![s] = emptyCnt[s] + 1] /\ UNCHANGED <<closed, line>>
        BY <3>2 DEF ReadEmpty
      <4> QED
        BY <4>1, <4>2 DEF TypeOK
    <3>3. CASE ReadAnswered(s)
      BY <2>1, <3>3 DEF ReadAnswered, TypeOK
    <3>4. CASE ReadMapCommand(s)
      BY <2>1, <3>4 DEF ReadMapCommand, TypeOK
    <3> QED
      BY <1>2, <3>1, <3>2, <3>3, <3>4
  <2>3. \A t \in Sessions : pc'[t] = "map" => pc[t] = "map" /\ line'[t] = line[t]
    BY <1>2, <2>1 DEF ReadEmpty, ReadAnswered, ReadMapCommand, End, TypeOK
  <2> QED
    BY <2>1, <2>2, <2>3 DEF TypeOK, MutexInv, serverVars, mapVars
<1>3. CASE Lock(s)
  BY <1>3 DEF Lock, LockWhen, TypeOK, MutexInv, serverVars, wireVars
<1>4. CASE Store(s) \/ Export(s) \/ Reply(s)
  <2>1. line[s].version \in Versions /\ owner[s] \in Names
    BY DEF TypeOK, Line
  <2>2. CASE Store(s)
    BY <2>1, <2>2 DEF Store, StoreVersion, TypeOK, MutexInv, serverVars, wireVars
  <2>3. CASE Export(s)
    BY <2>3 DEF Export, TypeOK, MutexInv, serverVars, wireVars
  <2>4. CASE Reply(s)
    BY <2>4 DEF Reply, TypeOK, MutexInv, serverVars, wireVars, mapVars
  <2> QED
    BY <1>4, <2>2, <2>3, <2>4
<1>5. CASE StopperExit(s)
  BY <1>5 DEF StopperExit, TypeOK, MutexInv, serverVars, wireVars, mapVars
<1>6. CASE StopperClose(s)
  <2>1. \A n \in 0 .. Len(inbox[s]) : SubSeq(inbox[s], 1, n) \in Seq(Line)
    BY DEF TypeOK
  <2>2. inbox' \in [Sessions -> Seq(Line)]
    BY <1>6, <2>1 DEF StopperClose, TypeOK
  <2> QED
    BY <1>6, <2>2 DEF StopperClose, TypeOK, MutexInv, serverVars, mapVars
<1> QED
  BY <1>1, <1>2, <1>3, <1>4, <1>5, <1>6 DEF Session, Stopper

\* A malformed command ends the daemon.
LEMMA BareInv == ASSUME IInv, NEW s \in Sessions, ReadBare(s) PROVE IInv'
<1>1. <<>> \in Seq(Line)
  OBVIOUS
<1> QED
  BY <1>1, Constants DEF IInv, ReadBare, TypeOK, MutexInv, mapVars

\* The other daemons and the network.
LEMMA OthersInv == ASSUME IInv, Others PROVE IInv'
<1> USE Constants DEF IInv
<1>1. ASSUME NEW h \in Hosts, Connect(h) PROVE IInv'
  BY <1>1 DEF Connect, TypeOK, MutexInv, serverVars, mapVars
<1>2. ASSUME NEW h \in Hosts, NEW l \in Line, Write(h, l) PROVE IInv'
  <2>1. inbox' \in [Sessions -> Seq(Line)]
    BY <1>2 DEF Write, TypeOK
  <2> QED
    BY <1>2, <2>1 DEF Write, TypeOK, MutexInv, serverVars, sessionVars, mapVars
<1>3. ASSUME NEW h \in Hosts, WriteVector(h) \/ \E c \in Commands : WriteCommand(h, c) PROVE IInv'
  <2>1. \A v \in Versions : [cmd |-> "vector", version |-> v] \in Line
    BY DEF Line
  <2>2. \A c \in Commands : [cmd |-> c, version |-> 0] \in Line
    BY CommandAssumption DEF Line
  <2> QED
    BY <1>2, <1>3, <2>1, <2>2 DEF WriteVector, WriteCommand, TypeOK
<1>4. ASSUME NEW h \in Changing, StatusChanges(h) PROVE IInv'
  BY <1>4 DEF StatusChanges, TypeOK, MutexInv, Versions, serverVars, sessionVars, mapVars
<1>5. ASSUME NEW s \in Sessions, Abandoned(s) PROVE IInv'
  BY <1>5 DEF Abandoned, TypeOK, MutexInv, serverVars, sessionVars, mapVars
<1> QED
  BY <1>1, <1>3, <1>4, <1>5 DEF Others

\* Every step keeps the invariant.
LEMMA StepInv == IInv /\ [Next]_vars => IInv'
<1>1. ASSUME IInv, UNCHANGED vars PROVE IInv'
  BY <1>1 DEF vars, serverVars, sessionVars, wireVars, mapVars, IInv, TypeOK, MutexInv
<1> QED
  BY <1>1, ServerInv, SessionInv, BareInv, OthersInv DEF Next

\* The inductive invariant holds in every state of every behaviour.
THEOREM Invariance == Spec => []IInv
BY InitInv, StepInv, PTL DEF Spec

\* Every variable of the server keeps to its values, whatever is written to it.
THEOREM TypeCorrect == Spec => []TypeOK
BY Invariance, PTL DEF IInv

\* Sessions never write MasterVector while another session writes or reads it,
\* however many there are.
THEOREM Exclusion == Spec => []SessionsExclude
<1>1. IInv => SessionsExclude
  BY Constants DEF IInv, TypeOK, MutexInv, SessionsExclude, Storing, Exporting
<1> QED
  BY <1>1, Invariance, PTL

-----------------------------------------------------------------------------
(***************************************************************************)
(* The order of the vectors of a host.                                     *)
(***************************************************************************)

\* In a session the vectors come in the order of their versions.
InOrder(s) ==
  /\ \A k, m \in DOMAIN inbox[s] :
       k < m /\ inbox[s][k].cmd = "vector" /\ inbox[s][m].cmd = "vector"
         => inbox[s][k].version <= inbox[s][m].version
  /\ \A v \in Held(s), w \in Vectors(s) : v <= w
  /\ pc[s] = "free" => Pending(s) = {}

\* What the present connection of a host holds is not older than what the others
\* hold and what is stored.
NewestIn(h) ==
  /\ current[h] # NoSession =>
       /\ owner[current[h]] = h /\ pc[current[h]] # "free"
       /\ \A w \in Pending(current[h]) :
            /\ masterVector[h] # Missing => masterVector[h] <= w
            /\ \A t \in Sessions \ {current[h]} : owner[t] = h => \A v \in Pending(t) : v <= w
  /\ masterVector[h] # Missing => masterVector[h] <= latest[h]
  /\ \A t \in Sessions : owner[t] = h => \A v \in Pending(t) : v <= latest[h]

OrderInv == (\A s \in Sessions : InOrder(s)) /\ (\A h \in Hosts : NewestIn(h))

\* Versions are numbers.
LEMMA PendingTyped ==
  ASSUME TypeOK, NEW s \in Sessions
  PROVE  Pending(s) \subseteq Versions /\ Vectors(s) \subseteq Versions /\ Held(s) \subseteq Versions
<1>1. inbox[s] \in Seq(Line) /\ line[s] \in Line
  BY DEF TypeOK
<1>2. \A k \in DOMAIN inbox[s] : inbox[s][k] \in Line
  BY <1>1
<1> QED
  BY <1>1, <1>2 DEF Pending, Vectors, Held, Line

LEMMA OrderStarts == Init => OrderInv
<1> SUFFICES ASSUME Init PROVE OrderInv
  OBVIOUS
<1>1. ASSUME NEW s \in Sessions PROVE Pending(s) = {} /\ Held(s) = {} /\ inbox[s] = <<>>
  <2>1. inbox[s] = <<>> /\ line[s] = NoLine
    BY DEF Init
  <2>2. ~(\E k \in DOMAIN inbox[s] : TRUE)
    BY <2>1
  <2>3. Vectors(s) = {}
    BY <2>2 DEF Vectors
  <2>4. Held(s) = {}
    BY <2>1 DEF Held, NoLine
  <2> QED
    BY <2>1, <2>3, <2>4 DEF Pending
<1>2. ASSUME NEW s \in Sessions PROVE InOrder(s)
  <2>1. inbox[s] = <<>> /\ Held(s) = {} /\ Pending(s) = {}
    BY <1>1
  <2>2. ~(\E k \in DOMAIN inbox[s] : TRUE)
    BY <2>1
  <2> QED
    BY <2>1, <2>2 DEF InOrder
<1>3. ASSUME NEW h \in Hosts PROVE current[h] = NoSession /\ masterVector[h] = Missing
  <2>1. h \in Names
    BY DEF Names
  <2> QED
    BY <2>1 DEF Init
<1>4. \A h \in Hosts : NewestIn(h)
  BY <1>1, <1>3 DEF NewestIn
<1> QED
  BY <1>2, <1>4 DEF OrderInv

\* A step that takes lines away, and stores nothing older, keeps the order
\* between sessions.
LEMMA Fewer ==
  ASSUME TypeOK, TypeOK', OrderInv,
         \A s \in Sessions : Pending(s)' \subseteq Pending(s) /\ InOrder(s)'
                             /\ (pc'[s] = "free" => pc[s] = "free"),
         UNCHANGED <<owner, current>>,
         \A h \in Names : latest'[h] >= latest[h],
         \A h \in Hosts : \/ masterVector'[h] \in {masterVector[h], Missing}
                          \/ \E s \in Sessions :
                               /\ owner[s] = h /\ masterVector'[h] \in Pending(s)
                               /\ s = current[h] => \A w \in Pending(s)' : masterVector'[h] <= w
  PROVE  OrderInv'
<1> SUFFICES ASSUME NEW h \in Hosts PROVE NewestIn(h)'
  BY DEF OrderInv
<1>0. NewestIn(h) /\ h \in Names /\ latest[h] \in Nat /\ latest'[h] \in Nat /\ latest'[h] >= latest[h]
  BY Constants DEF OrderInv, TypeOK, Versions, Names
<1>1. \A t \in Sessions : Pending(t) \subseteq Nat /\ Pending(t)' \subseteq Pending(t)
  BY PendingTyped DEF Versions
<1>2. masterVector'[h] # Missing => masterVector'[h] \in Nat
  BY <1>0 DEF TypeOK, Versions
<1>3. masterVector[h] # Missing => masterVector[h] \in Nat
  BY <1>0 DEF TypeOK, Versions
<1>4. masterVector'[h] # Missing => masterVector'[h] <= latest'[h]
  BY <1>0, <1>1, <1>2, <1>3 DEF NewestIn, Missing
<1>5. \A t \in Sessions : owner'[t] = h => \A v \in Pending(t)' : v <= latest'[h]
  BY <1>0, <1>1 DEF NewestIn
<1>6. ASSUME current'[h] # NoSession, NEW w \in Pending(current[h])', masterVector'[h] # Missing
      PROVE  masterVector'[h] <= w
  <2>0. current[h] \in Sessions /\ current'[h] = current[h] /\ w \in Pending(current[h])
    BY <1>1, <1>6 DEF TypeOK
  <2>1. CASE masterVector'[h] = masterVector[h]
    BY <1>0, <1>6, <2>0, <2>1 DEF NewestIn
  <2>2. ASSUME NEW s \in Sessions, owner[s] = h, masterVector'[h] \in Pending(s),
               s = current[h] => \A v \in Pending(s)' : masterVector'[h] <= v
        PROVE  masterVector'[h] <= w
    <3>1. CASE s = current[h]
      BY <1>6, <2>2, <3>1
    <3>2. CASE s # current[h]
      BY <1>0, <1>6, <2>0, <2>2, <3>2 DEF NewestIn
    <3> QED
      BY <3>1, <3>2
  <2> QED
    BY <1>6, <2>1, <2>2
<1>7. ASSUME current'[h] # NoSession, NEW w \in Pending(current[h])',
             NEW t \in Sessions \ {current[h]}, owner[t] = h, NEW v \in Pending(t)'
      PROVE  v <= w
  BY <1>0, <1>1, <1>7 DEF NewestIn, TypeOK
<1>8. current'[h] # NoSession => owner'[current'[h]] = h /\ pc'[current'[h]] # "free"
  BY <1>0 DEF NewestIn, TypeOK
<1> QED
  BY <1>4, <1>5, <1>6, <1>7, <1>8 DEF NewestIn, Pending, Vectors, Held

\* A session whose lines are left alone.
LEMMA SameSession ==
  ASSUME OrderInv, NEW s \in Sessions, inbox'[s] = inbox[s], line'[s] = line[s],
         pc'[s] = "free" => pc[s] = "free"
  PROVE  Pending(s)' = Pending(s) /\ InOrder(s)'
<1>1. Vectors(s)' = Vectors(s)
  BY DEF Vectors
<1>2. Held(s)' = Held(s)
  BY DEF Held
<1> QED
  BY <1>1, <1>2 DEF OrderInv, InOrder, Pending

\* A step that leaves the lines alone.
LEMMA SameLines ==
  ASSUME TypeOK, TypeOK', OrderInv, UNCHANGED <<inbox, line, owner, current>>,
         \A s \in Sessions : pc'[s] = "free" => pc[s] = "free",
         \A h \in Names : latest'[h] >= latest[h],
         \A h \in Hosts : masterVector'[h] \in {masterVector[h], Missing}
  PROVE  OrderInv'
<1>1. ASSUME NEW s \in Sessions PROVE Pending(s)' = Pending(s) /\ InOrder(s)'
  BY SameSession
<1> QED
  BY <1>1, Fewer

\* What is left of the lines of a session is in order.
LEMMA Shorter ==
  ASSUME TypeOK, TypeOK', NEW s \in Sessions, InOrder(s), NEW d \in Nat,
         \A k \in DOMAIN inbox'[s] : k + d \in DOMAIN inbox[s] /\ inbox'[s][k] = inbox[s][k + d]
  PROVE  /\ Vectors(s)' \subseteq Vectors(s)
         /\ \A k, m \in DOMAIN inbox'[s] :
              k < m /\ inbox'[s][k].cmd = "vector" /\ inbox'[s][m].cmd = "vector"
                => inbox'[s][k].version <= inbox'[s][m].version
<1>1. inbox[s] \in Seq(Line) /\ inbox'[s] \in Seq(Line)
  BY DEF TypeOK
<1>2. DOMAIN inbox'[s] \subseteq Nat
  BY <1>1
<1>3. Vectors(s)' \subseteq Vectors(s)
  BY <1>2 DEF Vectors
<1> QED
  BY <1>2, <1>3 DEF InOrder

\* A session reads a line.
LEMMA ReadOrder ==
  ASSUME TypeOK, TypeOK', OrderInv, NEW s \in Sessions,
         ReadEmpty(s) \/ ReadAnswered(s) \/ ReadMapCommand(s)
  PROVE  OrderInv'
<1>1. /\ Read(s) /\ pc'[s] # "free" /\ UNCHANGED <<owner, current, latest, masterVector>>
      /\ \A t \in Sessions \ {s} : pc'[t] = pc[t] /\ inbox'[t] = inbox[t] /\ line'[t] = line[t]
      /\ line'[s] = line[s] \/ line'[s] = Head(inbox[s])
  BY DEF ReadEmpty, ReadAnswered, ReadMapCommand, Read, End, TypeOK, mapVars
<1>2. /\ inbox[s] \in Seq(Line) /\ inbox[s] # <<>> /\ inbox'[s] = Tail(inbox[s])
  BY <1>1 DEF Read, TypeOK
<1>3. /\ \A k \in DOMAIN inbox'[s] : k + 1 \in DOMAIN inbox[s] /\ inbox'[s][k] = inbox[s][k + 1]
      /\ 1 \in DOMAIN inbox[s] /\ Head(inbox[s]) = inbox[s][1]
  BY <1>2
<1>4. InOrder(s)
  BY DEF OrderInv
<1>5. /\ Vectors(s)' \subseteq Vectors(s)
      /\ \A k, m \in DOMAIN inbox'[s] :
           k < m /\ inbox'[s][k].cmd = "vector" /\ inbox'[s][m].cmd = "vector"
             => inbox'[s][k].version <= inbox'[s][m].version
  BY <1>3, <1>4, Shorter
<1>6. Held(s)' \subseteq Pending(s)
  BY <1>1, <1>3 DEF Held, Pending, Vectors
<1>7. \A v \in Held(s)', w \in Vectors(s)' : v <= w
  <2>1. CASE line'[s] = line[s]
    BY <1>4, <1>5, <2>1 DEF InOrder, Held
  <2>2. CASE line'[s] = inbox[s][1]
    <3>1. \A k \in DOMAIN inbox'[s] : k \in Nat /\ 1 < k + 1
      BY <1>2
    <3>2. ASSUME NEW k \in DOMAIN inbox'[s], inbox'[s][k].cmd = "vector", inbox[s][1].cmd = "vector"
          PROVE  inbox[s][1].version <= inbox'[s][k].version
      BY <1>3, <1>4, <3>1, <3>2 DEF InOrder
    <3> QED
      BY <2>2, <3>2 DEF Held, Vectors
  <2> QED
    BY <1>1, <1>3, <2>1, <2>2
<1>8. ASSUME NEW t \in Sessions
      PROVE  Pending(t)' \subseteq Pending(t) /\ InOrder(t)' /\ (pc'[t] = "free" => pc[t] = "free")
  <2>1. CASE t = s
    BY <1>1, <1>5, <1>6, <1>7, <2>1 DEF InOrder, Pending
  <2>2. CASE t # s
    BY <1>1, <2>2, SameSession
  <2> QED
    BY <2>1, <2>2
<1>9. \A h \in Names : latest'[h] >= latest[h]
  BY <1>1 DEF TypeOK, Versions
<1> QED
  BY <1>1, <1>8, <1>9, Fewer

\* A session is done with a line, or loses those it has not read.
LEMMA DoneOrder ==
  ASSUME IInv, TypeOK', OrderInv, NEW s \in Sessions,
         Store(s) \/ Export(s) \/ Reply(s) \/ StopperClose(s)
  PROVE  OrderInv'
<1>0. TypeOK /\ InOrder(s) /\ owner[s] \in Hosts
  BY DEF IInv, OrderInv, TypeOK
<1>1. /\ UNCHANGED <<owner, current, latest>>
      /\ \A t \in Sessions : pc'[t] = "free" => pc[t] = "free"
      /\ \A t \in Sessions \ {s} : inbox'[t] = inbox[t] /\ line'[t] = line[t]
  BY DEF Store, StoreVersion, Export, Reply, StopperClose, IInv, TypeOK, wireVars
<1>2. \A h \in Names : latest'[h] >= latest[h]
  BY <1>0, <1>1 DEF TypeOK, Versions
<1>3. \A t \in Sessions \ {s} : Pending(t)' \subseteq Pending(t) /\ InOrder(t)'
  BY <1>1, SameSession
<1>4. CASE Store(s) \/ Export(s) \/ Reply(s)
  <2>1. inbox' = inbox /\ line'[s] = NoLine
    BY <1>0, <1>4 DEF Store, StoreVersion, Export, Reply, wireVars, TypeOK
  <2>2. Held(s)' = {} /\ Vectors(s)' = Vectors(s)
    BY <2>1 DEF Held, Vectors, NoLine
  <2>3. Pending(s)' \subseteq Pending(s) /\ InOrder(s)'
    BY <1>0, <1>1, <2>1, <2>2 DEF InOrder, Pending
  <2>4. ASSUME NEW h \in Hosts
        PROVE  \/ masterVector'[h] = masterVector[h]
               \/ /\ owner[s] = h /\ masterVector'[h] \in Pending(s)
                  /\ \A w \in Pending(s)' : masterVector'[h] <= w
    <3>1. CASE Export(s) \/ Reply(s)
      BY <3>1 DEF Export, Reply, mapVars
    <3>2. CASE Store(s)
      <4>0. pc[s] = "map" /\ mutexW = s /\ h \in Names
        BY <3>2 DEF Store, StoreVersion, Names
      <4>1. line[s].cmd = "vector"
        BY <4>0, Constants DEF IInv, MutexInv
      <4>2. Held(s) = {line[s].version}
        BY <4>1 DEF Held
      <4>3. h # owner[s] => masterVector'[h] = masterVector[h]
        BY <1>0, <3>2, <4>0 DEF Store, StoreVersion, TypeOK
      <4>4. h = owner[s] => masterVector'[h] = line[s].version
        BY <1>0, <3>2, <4>0 DEF Store, StoreVersion, TypeOK
      <4> QED
        BY <1>0, <2>2, <4>2, <4>3, <4>4 DEF InOrder, Pending
    <3> QED
      BY <1>4, <3>1, <3>2
  <2> QED
    BY <1>0, <1>1, <1>2, <1>3, <2>3, <2>4, Fewer
<1>5. CASE StopperClose(s)
  <2>1. PICK n \in 0 .. Len(inbox[s]) : inbox'[s] = SubSeq(inbox[s], 1, n)
    BY <1>0, <1>5 DEF StopperClose, TypeOK
  <2>2. \A k \in DOMAIN inbox'[s] : k + 0 \in DOMAIN inbox[s] /\ inbox'[s][k] = inbox[s][k + 0]
    BY <1>0, <2>1 DEF TypeOK
  <2>3. /\ Vectors(s)' \subseteq Vectors(s)
        /\ \A k, m \in DOMAIN inbox'[s] :
             k < m /\ inbox'[s][k].cmd = "vector" /\ inbox'[s][m].cmd = "vector"
               => inbox'[s][k].version <= inbox'[s][m].version
    BY <1>0, <2>2, Shorter
  <2>4. line' = line /\ masterVector' = masterVector /\ pc' = pc
    BY <1>5 DEF StopperClose, mapVars
  <2>5. Pending(s)' \subseteq Pending(s) /\ InOrder(s)'
    BY <1>0, <2>3, <2>4 DEF InOrder, Pending, Held
  <2> QED
    BY <1>0, <1>1, <1>2, <1>3, <2>4, <2>5, Fewer
<1> QED
  BY <1>4, <1>5

\* A malformed command leaves nothing to read.
LEMMA BareOrder ==
  ASSUME TypeOK, TypeOK', OrderInv, NEW s \in Sessions, ReadBare(s)
  PROVE  OrderInv'
<1>1. /\ UNCHANGED <<owner, current, latest, masterVector, line>>
      /\ \A t \in Sessions : inbox'[t] = <<>> /\ (pc'[t] = "free" => pc[t] = "free")
  BY DEF ReadBare, mapVars
<1>2. ASSUME NEW t \in Sessions
      PROVE  Pending(t)' \subseteq Pending(t) /\ InOrder(t)'
  <2>1. ~(\E k \in DOMAIN inbox'[t] : TRUE)
    BY <1>1
  <2>2. Vectors(t)' = {} /\ Held(t)' = Held(t)
    BY <1>1, <2>1 DEF Vectors, Held
  <2> QED
    BY <1>1, <2>1, <2>2 DEF OrderInv, InOrder, Pending
<1>3. \A h \in Names : latest'[h] >= latest[h]
  BY <1>1 DEF TypeOK, Versions
<1> QED
  BY <1>1, <1>2, <1>3, Fewer

\* A host connects: its new connection is empty.
LEMMA ConnectOrder ==
  ASSUME TypeOK, TypeOK', OrderInv, NEW g \in Hosts, Connect(g)
  PROVE  OrderInv'
<1>1. PICK s \in Sessions : /\ pc[s] = "free" /\ owner[s] = g
                            /\ pc' = [pc EXCEPT ![s] = "waiting"]
                            /\ current' = [current EXCEPT ![g] = s]
  BY DEF Connect
<1>2. UNCHANGED <<inbox, line, owner, latest, masterVector>>
  BY DEF Connect, mapVars
<1>3. \A t \in Sessions : Pending(t)' = Pending(t) /\ InOrder(t)'
  BY <1>1, <1>2, SameSession DEF TypeOK
<1>4. Pending(s) = {} /\ s # NoSession
  BY <1>1, Constants DEF OrderInv, InOrder
<1>5. current'[g] = s /\ pc'[s] = "waiting" /\ \A h \in Hosts \ {g} : current'[h] = current[h]
  BY <1>1 DEF TypeOK
<1>6. \A t \in Sessions : pc'[t] = "free" => pc[t] = "free"
  BY <1>1 DEF TypeOK
<1>7. ASSUME NEW h \in Hosts PROVE NewestIn(h)'
  <2>1. NewestIn(h)
    BY DEF OrderInv
  <2>2. CASE h = g
    BY <1>1, <1>2, <1>3, <1>4, <1>5, <2>1, <2>2 DEF NewestIn
  <2>3. CASE h # g
    <3>1. current'[h] = current[h] /\ (current[h] # NoSession => current[h] \in Sessions)
      BY <1>5, <2>3 DEF TypeOK
    <3> QED
      BY <1>2, <1>3, <1>6, <2>1, <3>1 DEF NewestIn
  <2> QED
    BY <2>2, <2>3
<1> QED
  BY <1>3, <1>7 DEF OrderInv

\* A host writes a line: a vector is its latest.
LEMMA WriteOrder ==
  ASSUME TypeOK, TypeOK', OrderInv, NEW g \in Hosts, NEW l \in Line, Write(g, l),
         l.cmd = "vector" => l.version = latest[g]
  PROVE  OrderInv'
<1>1. PICK s \in Sessions : s = current[g] /\ owner[s] = g /\ pc[s] # "free" /\ s # NoSession
  BY DEF Write, OrderInv, NewestIn, TypeOK
<1>2. /\ UNCHANGED <<line, pc, owner, current, latest, masterVector>>
      /\ inbox' = [inbox EXCEPT ![s] = Append(@, l)]
  BY <1>1 DEF Write, mapVars, sessionVars
<1>3. inbox'[s] = Append(inbox[s], l) /\ \A t \in Sessions \ {s} : inbox'[t] = inbox[t]
  BY <1>1, <1>2 DEF TypeOK
<1>4. inbox[s] \in Seq(Line) /\ latest[g] \in Nat /\ l.version \in Nat
  <2>1. inbox[s] \in Seq(Line)
    BY <1>1 DEF TypeOK
  <2>2. g \in Names /\ Versions \subseteq Nat
    BY Constants DEF Versions
  <2>3. latest[g] \in Versions
    BY <2>2 DEF TypeOK
  <2>4. l.version \in Versions
    BY DEF Line
  <2> QED
    BY <2>1, <2>2, <2>3, <2>4
<1>5. /\ DOMAIN inbox'[s] = 1 .. Len(inbox[s]) + 1 /\ Len(inbox[s]) \in Nat
      /\ \A k \in 1 .. Len(inbox[s]) : inbox'[s][k] = inbox[s][k]
      /\ inbox'[s][Len(inbox[s]) + 1] = l /\ DOMAIN inbox[s] = 1 .. Len(inbox[s])
  BY <1>3, <1>4
<1>6. NewestIn(g) /\ InOrder(s) /\ Pending(s) \subseteq Nat
  BY <1>1, PendingTyped DEF OrderInv, Versions
<1>7. Vectors(s)' \subseteq Vectors(s) \cup {latest[g]} /\ Held(s)' = Held(s)
  BY <1>2, <1>5 DEF Vectors, Held
<1>8. \A v \in Pending(s) : v <= latest[g]
  BY <1>1, <1>6 DEF NewestIn
<1>9. InOrder(s)'
  <2>1. ASSUME NEW k \in DOMAIN inbox'[s], NEW m \in DOMAIN inbox'[s], k < m,
               inbox'[s][k].cmd = "vector", inbox'[s][m].cmd = "vector"
        PROVE  inbox'[s][k].version <= inbox'[s][m].version
    <3>1. k \in 1 .. Len(inbox[s]) /\ inbox'[s][k] = inbox[s][k]
      BY <1>5, <2>1
    <3>2. inbox[s][k].version \in Pending(s)
      BY <1>5, <2>1, <3>1 DEF Pending, Vectors
    <3>3. CASE m = Len(inbox[s]) + 1
      BY <1>5, <1>8, <2>1, <3>1, <3>2, <3>3
    <3>4. CASE m # Len(inbox[s]) + 1
      <4>1. m \in 1 .. Len(inbox[s]) /\ inbox'[s][m] = inbox[s][m]
        BY <1>5, <3>4
      <4> QED
        BY <1>5, <1>6, <2>1, <3>1, <4>1 DEF InOrder
    <3> QED
      BY <3>3, <3>4
  <2>2. \A v \in Held(s)', w \in Vectors(s)' : v <= w
    BY <1>6, <1>7, <1>8 DEF InOrder, Pending
  <2> QED
    BY <1>1, <1>2, <2>1, <2>2 DEF InOrder
<1>10. ASSUME NEW t \in Sessions PROVE Pending(t)' \subseteq Pending(t) \cup (IF t = s THEN {latest[g]} ELSE {})
                                      /\ InOrder(t)'
  <2>1. CASE t = s
    <3>1. Pending(s)' \subseteq Pending(s) \cup {latest[g]}
      BY <1>7 DEF Pending
    <3> QED
      BY <1>9, <2>1, <3>1
  <2>2. CASE t # s
    BY <1>2, <1>3, <2>2, SameSession
  <2> QED
    BY <2>1, <2>2
<1>11. ASSUME NEW h \in Hosts PROVE NewestIn(h)'
  <2>1. NewestIn(h)
    BY DEF OrderInv
  <2>2. CASE h = g
    BY <1>1, <1>2, <1>4, <1>10, <2>1, <2>2 DEF NewestIn
  <2>3. CASE h # g
    <3>1. \A t \in Sessions : owner[t] = h => Pending(t)' \subseteq Pending(t)
      BY <1>1, <1>10, <2>3
    <3>2. current[h] # NoSession => current[h] \in Sessions
      BY DEF TypeOK
    <3> QED
      BY <1>2, <2>1, <3>1, <3>2 DEF NewestIn
  <2> QED
    BY <2>2, <2>3
<1> QED
  BY <1>10, <1>11 DEF OrderInv

\* Every step keeps the order.
LEMMA OrderKept == ASSUME IInv, IInv', OrderInv, Next PROVE OrderInv'
<1>0. TypeOK /\ TypeOK' /\ \A h \in Names : latest[h] \in Nat
  BY DEF IInv, TypeOK, Versions
<1>1. CASE \/ Listener \/ Master \/ Stop \/ Save
           \/ \E s \in Sessions : \/ SessionBegin(s) \/ SessionTest(s) \/ Lock(s) \/ ReadError(s)
                                  \/ StopperExit(s) \/ Abandoned(s)
           \/ \E h \in Changing : StatusChanges(h)
  <2>1. UNCHANGED <<inbox, line, owner, current>>
    BY <1>1 DEF Listener, Listen, ListenTold, AcceptNothing, Accept, Master, MasterStart, MasterInit,
       MasterInterrupt, MasterEnd, Stop, Save, SessionBegin, SessionTest, Lock, LockWhen, ReadError, End,
       StopperExit, Abandoned, StatusChanges, sessionVars, wireVars, serverVars
  <2>2. \A s \in Sessions : pc'[s] = "free" => pc[s] = "free"
    <3>1. \/ pc' = pc
          \/ \E s \in Sessions, at \in {"new", "test", "read", "map", "ended"} : pc' = [pc EXCEPT ![s] = at]
      BY <1>1 DEF Listener, Listen, ListenTold, AcceptNothing, Accept, Master, MasterStart, MasterInit,
         MasterInterrupt, MasterEnd, Stop, Save, SessionBegin, SessionTest, Lock, LockWhen, ReadError, End,
         StopperExit, Abandoned, StatusChanges, sessionVars
    <3> QED
      BY <1>0, <3>1 DEF TypeOK
  <2>3. \A h \in Names : latest'[h] >= latest[h]
    <3>1. latest' = latest \/ \E h \in Changing : latest' = [latest EXCEPT ![h] = latest[h] + 1]
      BY <1>1 DEF Listener, Listen, ListenTold, AcceptNothing, Accept, Master, MasterStart, MasterInit,
         MasterInterrupt, MasterEnd, Stop, Save, SessionBegin, SessionTest, Lock, LockWhen, ReadError,
         StopperExit, Abandoned, StatusChanges, wireVars
    <3>2. ASSUME NEW h \in Names PROVE latest'[h] \in {latest[h], latest[h] + 1}
      BY <1>0, <3>1 DEF TypeOK
    <3> QED
      BY <1>0, <3>2
  <2>4. \A h \in Hosts : masterVector'[h] \in {masterVector[h], Missing}
    <3>1. CASE MasterInit \/ Save
      BY <3>1, <1>0, NamesAssumption DEF MasterInit, Save, Names, TypeOK
    <3>2. CASE ~MasterInit /\ ~Save
      BY <1>1, <3>2 DEF Listener, Listen, ListenTold, AcceptNothing, Accept, Master, MasterStart,
         MasterInterrupt, MasterEnd, Stop, SessionBegin, SessionTest, Lock, LockWhen, ReadError,
         StopperExit, Abandoned, StatusChanges, mapVars
    <3> QED
      BY <3>1, <3>2
  <2> QED
    BY <1>0, <2>1, <2>2, <2>3, <2>4, SameLines
<1>2. ASSUME NEW h \in Hosts, WriteVector(h) \/ \E c \in Commands : WriteCommand(h, c) PROVE OrderInv'
  <2>1. ASSUME WriteVector(h) PROVE OrderInv'
    <3>1. [cmd |-> "vector", version |-> latest[h]] \in Line
      BY <1>0, Constants DEF Line, TypeOK
    <3> QED
      BY <1>0, <2>1, <3>1, WriteOrder DEF WriteVector
  <2>2. ASSUME NEW c \in Commands, WriteCommand(h, c) PROVE OrderInv'
    <3>1. [cmd |-> c, version |-> 0] \in Line /\ c # "vector"
      BY CommandAssumption, Constants DEF Line, CommandKinds
    <3> QED
      BY <1>0, <2>2, <3>1, WriteOrder DEF WriteCommand
  <2> QED
    BY <1>2, <2>1, <2>2
<1> QED
  BY <1>0, <1>1, <1>2, ConnectOrder, ReadOrder, DoneOrder, BareOrder DEF Next, Others, Session, Stopper

\* The invariants hold in every behaviour of the server.
LEMMA OrderInvariance == Spec => [](IInv /\ OrderInv)
<1>1. IInv /\ OrderInv /\ [Next]_vars => (IInv /\ OrderInv)'
  <2>1. ASSUME IInv, OrderInv, UNCHANGED vars PROVE OrderInv'
    <3>1. UNCHANGED <<pc, inbox, line, owner, current, latest, masterVector>>
      BY <2>1 DEF vars, sessionVars, wireVars, mapVars
    <3>2. TypeOK /\ TypeOK'
      BY <2>1, StepInv DEF IInv
    <3>3. \A h \in Names : latest[h] \in Nat
      BY <3>2 DEF TypeOK, Versions
    <3> QED
      BY <2>1, <3>1, <3>2, <3>3, SameLines
  <2> QED
    BY <2>1, OrderKept, StepInv
<1> QED
  BY <1>1, InitInv, OrderStarts, PTL DEF Spec

\* However many connections a host makes, and whatever it sends, a stored vector
\* gives way to an older one only while an abandoned connection is at work.
THEOREM OlderVectors == Spec => OlderOnlyFromAbandoned
<1>1. IInv /\ OrderInv /\ [Next]_vars =>
        [\A h \in Hosts :
           masterVector'[h] # masterVector[h] /\ masterVector'[h] < masterVector[h]
             /\ masterVector[h] # Missing
           => \E s \in Sessions : /\ owner[s] = h /\ current[h] # s
                                  /\ pc[s] \notin {"free", "ended"}]_vars
  <2> SUFFICES ASSUME IInv, OrderInv, Next, NEW h \in Hosts, masterVector'[h] # masterVector[h],
                      masterVector'[h] < masterVector[h], masterVector[h] # Missing
               PROVE  \E s \in Sessions : /\ owner[s] = h /\ current[h] # s
                                          /\ pc[s] \notin {"free", "ended"}
    OBVIOUS
  <2>1. TypeOK /\ h \in Names /\ h # Me /\ MaxVersion \in Nat /\ masterVector[h] \in Versions
    BY NamesAssumption, Constants DEF IInv, TypeOK
  <2>2. PICK s \in Sessions : Store(s)
    <3>1. MasterInit \/ Save \/ \E s \in Sessions : Store(s)
      BY DEF Next, Listener, Listen, ListenTold, AcceptNothing, Accept, Master, MasterStart,
         MasterInterrupt, MasterEnd, Stop, Others, Connect, WriteVector, WriteCommand, Write, StatusChanges,
         Abandoned, Session, Stopper, SessionBegin, SessionTest, ReadEmpty, ReadAnswered, ReadMapCommand, ReadBare, ReadError, Lock, LockWhen, Export, Reply, StopperExit, StopperClose, mapVars
    <3>2. ~MasterInit
      BY <2>1 DEF MasterInit, Missing, Versions
    <3>3. ~Save
      BY <2>1 DEF Save, TypeOK
    <3> QED
      BY <3>1, <3>2, <3>3
  <2>3. pc[s] = "map" /\ mutexW = s /\ line[s].cmd = "vector"
    BY <2>2, Constants DEF Store, StoreVersion, IInv, MutexInv
  <2>4. owner[s] = h /\ masterVector'[h] = line[s].version
    BY <2>1, <2>2 DEF Store, StoreVersion, TypeOK
  <2>5. line[s].version \in Pending(s) /\ line[s].version \in Versions
    BY <2>1, <2>3, PendingTyped DEF Pending, Held
  <2>6. s = current[h] => masterVector[h] <= line[s].version
    BY <2>5, Constants DEF OrderInv, NewestIn
  <2> QED
    BY <2>1, <2>3, <2>4, <2>5, <2>6 DEF Versions
<1> QED
  BY <1>1, OrderInvariance, PTL DEF Spec, OlderOnlyFromAbandoned


-----------------------------------------------------------------------------
(***************************************************************************)
(* The server keeps MasterVector as AtellaMasterVector promises.  Three    *)
(* facts beside the order: a session has a line at hand only between       *)
(* reading and answering it, and a vector only until it is stored; one     *)
(* that is over has closed its connection; only a master makes a new map.  *)
(***************************************************************************)
HandInv ==
  /\ \A s \in Sessions : pc[s] \in {"lock", "map", "reply", "ended"} \/ line[s] = NoLine
  /\ \A s \in Sessions : pc[s] = "reply" => line[s].cmd # "vector"
  /\ \A s \in Sessions : pc[s] = "ended" => closed[s]
  /\ master \in {"init", "run"} => IsMaster

LEMMA HandStarts == Init => HandInv
BY DEF Init, HandInv

\* Every step keeps the three facts.
LEMMA HandKept == ASSUME TypeOK, HandInv, [Next]_vars PROVE HandInv'
<1>1. CASE UNCHANGED vars
  BY <1>1 DEF vars, serverVars, sessionVars, HandInv
<1>2. CASE Listener \/ Master \/ Stop \/ Save
  BY <1>2 DEF Listener, Listen, ListenTold, AcceptNothing, Accept, Master, MasterStart, MasterInit,
     MasterInterrupt, MasterEnd, Stop, Save, serverVars, sessionVars, HandInv, TypeOK
<1>3. CASE Others
  BY <1>3 DEF Others, Connect, WriteVector, WriteCommand, Write, StatusChanges, Abandoned,
     serverVars, sessionVars, HandInv, TypeOK
<1>4. ASSUME NEW s \in Sessions, SessionBegin(s) \/ SessionTest(s) \/ ReadError(s) \/ Lock(s) \/ Stopper(s)
      PROVE  HandInv'
  <2>1. CASE SessionBegin(s) \/ Lock(s) \/ Stopper(s)
    BY <1>4, <2>1 DEF SessionBegin, Lock, LockWhen, Stopper, StopperExit, StopperClose, serverVars,
       HandInv, TypeOK
  <2>2. CASE SessionTest(s) \/ ReadError(s)
    BY <1>4, <2>2 DEF SessionTest, ReadError, End, serverVars, HandInv, TypeOK
  <2> QED
    BY <1>4, <2>1, <2>2
<1>5. ASSUME NEW s \in Sessions, ReadEmpty(s) \/ ReadAnswered(s) \/ ReadMapCommand(s)
      PROVE  HandInv'
  <2>1. CASE ReadEmpty(s)
    BY <2>1 DEF ReadEmpty, Read, End, serverVars, HandInv, TypeOK
  <2>2. CASE ReadMapCommand(s)
    BY <2>2 DEF ReadMapCommand, Read, serverVars, HandInv, TypeOK
  <2>3. CASE ReadAnswered(s)
    <3>1. /\ UNCHANGED <<closed, master>> /\ Head(inbox[s]).cmd # "vector"
          /\ line' = [line EXCEPT ![s] = Head(inbox[s])] /\ pc' = [pc EXCEPT ![s] = "reply"]
      BY <2>3 DEF ReadAnswered, serverVars
    <3>2. pc'[s] = "reply" /\ line'[s] = Head(inbox[s])
      BY <3>1 DEF TypeOK
    <3>3. \A t \in Sessions \ {s} : pc'[t] = pc[t] /\ line'[t] = line[t]
      BY <3>1 DEF TypeOK
    <3> QED
      BY <3>1, <3>2, <3>3 DEF HandInv
  <2> QED
    BY <1>5, <2>1, <2>2, <2>3
<1>6. ASSUME NEW s \in Sessions, Store(s) \/ Export(s) \/ Reply(s) PROVE HandInv'
  <2>1. /\ UNCHANGED <<closed, master>> /\ line' = [line EXCEPT ![s] = NoLine]
        /\ \E at \in {"reply", "test"} : pc' = [pc EXCEPT ![s] = at]
    BY <1>6 DEF Store, StoreVersion, Export, Reply, serverVars
  <2>2. line'[s] = NoLine /\ pc'[s] # "ended" /\ NoLine.cmd # "vector"
    BY <2>1 DEF TypeOK, NoLine
  <2>3. \A t \in Sessions \ {s} : pc'[t] = pc[t] /\ line'[t] = line[t]
    BY <2>1 DEF TypeOK
  <2> QED
    BY <2>1, <2>2, <2>3 DEF HandInv
<1>7. ASSUME NEW s \in Sessions, ReadBare(s) PROVE HandInv'
  BY <1>7 DEF ReadBare, HandInv
<1> QED
  BY <1>1, <1>2, <1>3, <1>4, <1>5, <1>6, <1>7 DEF Next, Session

\* A session that is not touched has the same under way.
LEMMA SameUnderWay ==
  ASSUME NEW s \in Sessions, inbox'[s] = inbox[s], line'[s] = line[s],
         pc'[s] = "ended" <=> pc[s] = "ended"
  PROVE  UnderWay(s)' = UnderWay(s)
BY DEF UnderWay, Pending, Vectors, Held

\* The vectors not read are the first line's, if it is one, and those after it.
LEMMA FirstVector ==
  ASSUME TypeOK, NEW s \in Sessions, Read(s)
  PROVE  Vectors(s) = Vectors(s)' \cup
                        (IF Head(inbox[s]).cmd = "vector" THEN {Head(inbox[s]).version} ELSE {})
<1>1. inbox[s] \in Seq(Line) /\ inbox[s] # <<>> /\ inbox'[s] = Tail(inbox[s])
  BY DEF Read, TypeOK
<1>2. /\ \A k \in DOMAIN inbox'[s] : k + 1 \in DOMAIN inbox[s] /\ inbox'[s][k] = inbox[s][k + 1]
      /\ \A k \in DOMAIN inbox[s] : k = 1 \/ (k - 1 \in DOMAIN inbox'[s] /\ inbox'[s][k - 1] = inbox[s][k])
      /\ 1 \in DOMAIN inbox[s] /\ Head(inbox[s]) = inbox[s][1]
  BY <1>1
<1>3. Vectors(s)' \subseteq Vectors(s)
  BY <1>2 DEF Vectors
<1>4. ASSUME NEW v \in Vectors(s), v \notin Vectors(s)'
      PROVE  Head(inbox[s]).cmd = "vector" /\ v = Head(inbox[s]).version
  BY <1>2, <1>4 DEF Vectors
<1>5. Head(inbox[s]).cmd = "vector" => Head(inbox[s]).version \in Vectors(s)
  BY <1>2 DEF Vectors
<1> QED
  BY <1>3, <1>4, <1>5

\* What the register sees of a step that changes at most what is under way in s.
LEMMA OneUnderWay ==
  ASSUME NEW s \in Sessions, \A t \in Sessions \ {s} : UnderWay(t)' = UnderWay(t)
  PROVE  [t \in Sessions |-> UnderWay(t)]' =
           [[t \in Sessions |-> UnderWay(t)] EXCEPT ![s] = UnderWay(s)']
OBVIOUS

\* A step of which the register sees nothing.
LEMMA RegisterStutters ==
  ASSUME TypeOK, TypeOK', \A s \in Sessions : UnderWay(s)' = UnderWay(s),
         \A s \in Sessions : pc'[s] = "free" <=> pc[s] = "free",
         UNCHANGED <<owner, current, latest, masterVector, closed>>,
         (IsMaster /\ master \in {"run", "done", "dead"})' <=> IsMaster /\ master \in {"run", "done", "dead"}
  PROVE  UNCHANGED Register!rvars
<1>1. [s \in Sessions |-> UnderWay(s)]' = [s \in Sessions |-> UnderWay(s)]
  OBVIOUS
<1>2. {s \in Sessions : pc[s] # "free"}' = {s \in Sessions : pc[s] # "free"}
  OBVIOUS
<1>3. {s \in Sessions : closed[s]}' = {s \in Sessions : closed[s]}
  OBVIOUS
<1> QED
  BY <1>1, <1>2, <1>3 DEF Register!rvars

\* A step that closes the connection of a session, and leaves at most what there was.
LEMMA RegisterCuts ==
  ASSUME TypeOK, TypeOK', NEW s \in Sessions, UnderWay(s)' \subseteq UnderWay(s),
         \A t \in Sessions \ {s} : UnderWay(t)' = UnderWay(t),
         \A t \in Sessions : pc'[t] = "free" <=> pc[t] = "free",
         UNCHANGED <<owner, current, latest, masterVector, master>>,
         closed' = [closed EXCEPT ![s] = TRUE]
  PROVE  Register!Cut(s)
<1>1. {t \in Sessions : pc[t] # "free"}' = {t \in Sessions : pc[t] # "free"}
  OBVIOUS
<1>2. {t \in Sessions : closed[t]}' = {t \in Sessions : closed[t]} \cup {s}
  BY DEF TypeOK
<1>3. [t \in Sessions |-> UnderWay(t)]' = [[t \in Sessions |-> UnderWay(t)] EXCEPT ![s] = UnderWay(s)']
  BY OneUnderWay
<1>4. UnderWay(s)' \in SUBSET ([t \in Sessions |-> UnderWay(t)][s])
  OBVIOUS
<1> QED
  BY <1>1, <1>2, <1>3, <1>4 DEF Register!Cut

\* The accept loop, the master routine, Stop and the client of the daemon: the new
\* map and the daemon's own entry are the register's, the rest it does not see.
LEMMA ServerSeen ==
  ASSUME TypeOK, TypeOK', HandInv, Listener \/ Master \/ Stop \/ Save
  PROVE  Register!Next \/ UNCHANGED Register!rvars
<1>1. /\ UNCHANGED <<inbox, line, owner, current, latest, closed>>
      /\ \A s \in Sessions : (pc'[s] = "ended" <=> pc[s] = "ended") /\ (pc'[s] = "free" <=> pc[s] = "free")
  BY DEF Listener, Listen, ListenTold, AcceptNothing, Accept, Master, MasterStart, MasterInit,
     MasterInterrupt, MasterEnd, Stop, Save, serverVars, sessionVars, wireVars, TypeOK
<1>2. \A s \in Sessions : UnderWay(s)' = UnderWay(s)
  BY <1>1, SameUnderWay
<1>3. /\ [s \in Sessions |-> UnderWay(s)]' = [s \in Sessions |-> UnderWay(s)]
      /\ {s \in Sessions : pc[s] # "free"}' = {s \in Sessions : pc[s] # "free"}
      /\ {s \in Sessions : closed[s]}' = {s \in Sessions : closed[s]}
  BY <1>1, <1>2
<1>4. CASE MasterInit
  <2>1. IsMaster /\ master = "init" /\ master' = "run" /\ masterVector' = [h \in Names |-> Missing]
    BY <1>4 DEF MasterInit, HandInv
  <2>2. Register!NewMap
    BY <1>1, <1>3, <2>1 DEF Register!NewMap, Register!Names, Register!Missing, Names, Missing
  <2> QED
    BY <2>2 DEF Register!Next
<1>5. CASE Save
  <2>1. /\ IsMaster /\ HasMasters /\ master' = master
        /\ masterVector' = [masterVector EXCEPT ![Me] = latest[Me]]
    BY <1>5 DEF Save, serverVars
  <2>2. Register!Save
    BY <1>1, <1>3, <2>1 DEF Register!Save
  <2> QED
    BY <2>2 DEF Register!Next
<1>6. CASE ~MasterInit /\ ~Save
  <2>1. masterVector' = masterVector
    BY <1>6 DEF Listener, Listen, ListenTold, AcceptNothing, Accept, Master, MasterStart,
       MasterInterrupt, MasterEnd, Stop, mapVars
  <2>2. (IsMaster /\ master \in {"run", "done", "dead"})' <=> IsMaster /\ master \in {"run", "done", "dead"}
    BY <1>6 DEF Listener, Listen, ListenTold, AcceptNothing, Accept, Master, MasterStart,
       MasterInterrupt, MasterEnd, Stop
  <2> QED
    BY <1>1, <1>2, <2>1, <2>2, RegisterStutters
<1> QED
  BY <1>4, <1>5, <1>6

\* The other daemons: a connection is opened, a vector sent or changed.
LEMMA OthersSeen ==
  ASSUME TypeOK, TypeOK', HandInv, Others
  PROVE  Register!Next \/ UNCHANGED Register!rvars
<1>0. UNCHANGED <<line, owner, masterVector, master, closed>>
  BY DEF Others, Connect, WriteVector, WriteCommand, Write, StatusChanges, Abandoned,
     serverVars, sessionVars, mapVars
<1>1. ASSUME NEW h \in Hosts, Connect(h) PROVE Register!Next
  <2>1. PICK s \in Sessions : /\ pc[s] = "free" /\ owner[s] = h
                              /\ pc' = [pc EXCEPT ![s] = "waiting"]
                              /\ current' = [current EXCEPT ![h] = s]
    BY <1>1 DEF Connect
  <2>2. UNCHANGED <<inbox, latest>>
    BY <1>1 DEF Connect
  <2>3. [t \in Sessions |-> UnderWay(t)]' = [t \in Sessions |-> UnderWay(t)]
    BY <1>0, <2>1, <2>2, SameUnderWay DEF TypeOK
  <2>4. {t \in Sessions : pc[t] # "free"}' = {t \in Sessions : pc[t] # "free"} \cup {s}
    BY <2>1 DEF TypeOK
  <2>5. {t \in Sessions : closed[t]}' = {t \in Sessions : closed[t]}
    BY <1>0
  <2>6. Register!Open(s)
    BY <1>0, <2>1, <2>2, <2>3, <2>4, <2>5 DEF Register!Open
  <2> QED
    BY <2>6 DEF Register!Next
<1>2. ASSUME NEW h \in Hosts, NEW l \in Line, Write(h, l)
      PROVE  /\ UNCHANGED <<pc, current, latest>>
             /\ current[h] \in Sessions /\ ~closed[current[h]] /\ current[h] # NoSession
             /\ \A t \in Sessions \ {current[h]} : UnderWay(t)' = UnderWay(t)
             /\ UnderWay(current[h])' = UnderWay(current[h]) \cup (IF l.cmd = "vector" THEN {l.version} ELSE {})
  <2>1. PICK s \in Sessions : s = current[h]
    BY <1>2 DEF Write, TypeOK
  <2>2. /\ ~closed[s] /\ inbox' = [inbox EXCEPT ![s] = Append(@, l)]
        /\ UNCHANGED <<pc, current, latest>>
    BY <1>2, <2>1 DEF Write, sessionVars
  <2>3. pc[s] # "ended"
    BY <2>2 DEF HandInv
  <2>4. \A t \in Sessions \ {s} : UnderWay(t)' = UnderWay(t)
    BY <1>0, <2>2, SameUnderWay DEF TypeOK
  <2>5. inbox[s] \in Seq(Line) /\ inbox'[s] = Append(inbox[s], l)
    BY <2>2 DEF TypeOK
  <2>6. /\ DOMAIN inbox'[s] = DOMAIN inbox[s] \cup {Len(inbox[s]) + 1}
        /\ \A k \in DOMAIN inbox[s] : inbox'[s][k] = inbox[s][k]
        /\ inbox'[s][Len(inbox[s]) + 1] = l
    BY <2>5
  <2>7. Vectors(s)' = Vectors(s) \cup (IF l.cmd = "vector" THEN {l.version} ELSE {})
    BY <2>6 DEF Vectors
  <2>8. UnderWay(s)' = UnderWay(s) \cup (IF l.cmd = "vector" THEN {l.version} ELSE {})
    BY <1>0, <2>2, <2>3, <2>7 DEF UnderWay, Pending, Held
  <2>9. s # NoSession
    BY Constants
  <2> QED
    BY <2>1, <2>2, <2>4, <2>8, <2>9
<1>3. ASSUME NEW h \in Hosts, WriteVector(h) PROVE Register!Next
  <2>1. [cmd |-> "vector", version |-> latest[h]] \in Line
    BY Constants DEF TypeOK, Line
  <2>2. PICK s \in Sessions : s = current[h] /\ ~closed[s] /\ s # NoSession
    BY <1>2, <1>3, <2>1 DEF WriteVector
  <2>3. /\ UNCHANGED <<pc, current, latest>>
        /\ \A t \in Sessions \ {s} : UnderWay(t)' = UnderWay(t)
        /\ UnderWay(s)' = UnderWay(s) \cup {latest[h]}
    BY <1>2, <1>3, <2>1, <2>2 DEF WriteVector
  <2>4. [t \in Sessions |-> UnderWay(t)]' =
          [[t \in Sessions |-> UnderWay(t)] EXCEPT ![s] = UnderWay(s) \cup {latest[h]}]
    BY <2>3
  <2>5. /\ {t \in Sessions : pc[t] # "free"}' = {t \in Sessions : pc[t] # "free"}
        /\ {t \in Sessions : closed[t]}' = {t \in Sessions : closed[t]}
    BY <1>0, <2>3
  <2>6. [t \in Sessions |-> UnderWay(t)][s] = UnderWay(s)
    OBVIOUS
  <2>7. Register!Send(h)
    BY <1>0, <2>2, <2>3, <2>4, <2>5, <2>6 DEF Register!Send
  <2> QED
    BY <2>7 DEF Register!Next
<1>4. ASSUME NEW h \in Hosts, NEW c \in Commands, WriteCommand(h, c) PROVE UNCHANGED Register!rvars
  <2>1. [cmd |-> c, version |-> 0] \in Line /\ c # "vector"
    BY CommandAssumption, Constants DEF Line, CommandKinds
  <2>2. /\ UNCHANGED <<pc, current, latest>>
        /\ \A t \in Sessions : UnderWay(t)' = UnderWay(t)
    BY <1>2, <1>4, <2>1 DEF WriteCommand
  <2> QED
    BY <1>0, <2>2, RegisterStutters
<1>5. ASSUME NEW h \in Changing, StatusChanges(h) PROVE Register!Next
  <2>1. /\ latest[h] < MaxVersion /\ latest' = [latest EXCEPT ![h] = @ + 1] /\ h \in Names
        /\ UNCHANGED <<pc, inbox, current>>
    BY <1>5, Constants DEF StatusChanges, sessionVars
  <2>2. /\ [t \in Sessions |-> UnderWay(t)]' = [t \in Sessions |-> UnderWay(t)]
        /\ {t \in Sessions : pc[t] # "free"}' = {t \in Sessions : pc[t] # "free"}
        /\ {t \in Sessions : closed[t]}' = {t \in Sessions : closed[t]}
    BY <1>0, <2>1, SameUnderWay
  <2>3. Register!Change(h)
    BY <1>0, <2>1, <2>2 DEF Register!Change
  <2> QED
    BY <2>1, <2>3 DEF Register!Next, Register!Names, Names
<1>6. ASSUME NEW s \in Sessions, Abandoned(s) PROVE UNCHANGED Register!rvars
  <2>1. UNCHANGED <<pc, inbox, current, latest>>
    BY <1>6 DEF Abandoned, sessionVars
  <2>2. \A t \in Sessions : UnderWay(t)' = UnderWay(t)
    BY <1>0, <2>1, SameUnderWay
  <2> QED
    BY <1>0, <2>1, <2>2, RegisterStutters
<1> QED
  BY <1>1, <1>3, <1>4, <1>5, <1>6 DEF Others

\* A session and the goroutine that stops it: a vector is stored, the oldest of
\* its connection first, or the connection is closed; the rest is not seen.
LEMMA SessionSeen ==
  ASSUME IInv, TypeOK', OrderInv, HandInv, NEW s \in Sessions, Session(s) \/ Stopper(s)
  PROVE  Register!Next \/ UNCHANGED Register!rvars
<1> DEFINE Ends == (SessionTest(s) /\ exit[s]) \/ ReadError(s)
                     \/ (ReadEmpty(s) /\ emptyCnt[s] > EmptyLimit)
           Reads == (ReadEmpty(s) /\ ~(emptyCnt[s] > EmptyLimit)) \/ ReadAnswered(s) \/ ReadMapCommand(s)
           Passes == SessionBegin(s) \/ (SessionTest(s) /\ ~exit[s]) \/ Lock(s) \/ StopperExit(s)
<1>1. TypeOK /\ MutexInv /\ InOrder(s)
  BY DEF IInv, OrderInv
<1>2. /\ UNCHANGED <<owner, current, latest, master>>
      /\ \A t \in Sessions \ {s} : pc'[t] = pc[t] /\ inbox'[t] = inbox[t] /\ line'[t] = line[t]
      /\ \A t \in Sessions : pc'[t] = "free" <=> pc[t] = "free"
  <2>1. CASE SessionBegin(s) \/ SessionTest(s) \/ ReadError(s) \/ Lock(s)
    BY <1>1, <2>1 DEF SessionBegin, SessionTest, End, ReadError, Lock, LockWhen, serverVars, wireVars, TypeOK
  <2>2. CASE ReadEmpty(s) \/ ReadAnswered(s) \/ ReadMapCommand(s)
    BY <1>1, <2>2 DEF ReadEmpty, ReadAnswered, ReadMapCommand, Read, End, serverVars, TypeOK
  <2>3. CASE Store(s) \/ Export(s) \/ Reply(s)
    BY <1>1, <2>3 DEF Store, StoreVersion, Export, Reply, serverVars, wireVars, TypeOK
  <2>4. CASE Stopper(s)
    BY <1>1, <2>4 DEF Stopper, StopperExit, StopperClose, serverVars, wireVars, TypeOK
  <2> QED
    BY <2>1, <2>2, <2>3, <2>4 DEF Session
<1>3. \A t \in Sessions \ {s} : UnderWay(t)' = UnderWay(t)
  BY <1>2, SameUnderWay
<1>4. CASE Passes
  <2>1. /\ UNCHANGED <<inbox, line, closed, masterVector>>
        /\ pc'[s] = "ended" <=> pc[s] = "ended"
    BY <1>1, <1>4 DEF SessionBegin, SessionTest, Lock, LockWhen, StopperExit, wireVars, mapVars, TypeOK
  <2>2. UnderWay(s)' = UnderWay(s)
    BY <2>1, SameUnderWay
  <2> QED
    BY <1>1, <1>2, <1>3, <2>1, <2>2, RegisterStutters
<1>5. CASE Reads
  <2>1. /\ Read(s) /\ pc[s] = "read" /\ pc'[s] # "ended" /\ UNCHANGED <<closed, masterVector>>
        /\ line'[s] = IF Head(inbox[s]).cmd = "empty" THEN line[s] ELSE Head(inbox[s])
    BY <1>1, <1>5 DEF ReadEmpty, ReadAnswered, ReadMapCommand, Read, mapVars, TypeOK
  <2>2. line[s] = NoLine /\ Held(s) = {}
    BY <2>1 DEF HandInv, Held, NoLine
  <2>3. Held(s)' = IF Head(inbox[s]).cmd = "vector" THEN {Head(inbox[s]).version} ELSE {}
    BY <2>1, <2>2 DEF Held, NoLine
  <2>4. Pending(s)' = Pending(s)
    BY <1>1, <2>1, <2>2, <2>3, FirstVector DEF Pending
  <2>5. UnderWay(s)' = UnderWay(s)
    BY <2>1, <2>4 DEF UnderWay
  <2> QED
    BY <1>1, <1>2, <1>3, <2>1, <2>5, RegisterStutters
<1>6. CASE Ends
  <2>1. /\ UNCHANGED masterVector
        /\ pc' = [pc EXCEPT ![s] = "ended"] /\ closed' = [closed EXCEPT ![s] = TRUE]
    BY <1>6 DEF SessionTest, ReadError, ReadEmpty, End, mapVars
  <2>2. UnderWay(s)' = {}
    BY <1>1, <2>1 DEF UnderWay, TypeOK
  <2>3. Register!Cut(s)
    BY <1>1, <1>2, <1>3, <2>1, <2>2, RegisterCuts
  <2> QED
    BY <2>3 DEF Register!Next
<1>7. CASE StopperClose(s)
  <2>1. /\ UNCHANGED <<masterVector, pc, line>> /\ closed' = [closed EXCEPT ![s] = TRUE]
    BY <1>7 DEF StopperClose, mapVars
  <2>2. PICK n \in 0 .. Len(inbox[s]) : inbox'[s] = SubSeq(inbox[s], 1, n)
    BY <1>1, <1>7 DEF StopperClose, TypeOK
  <2>3. \A k \in DOMAIN inbox'[s] : k + 0 \in DOMAIN inbox[s] /\ inbox'[s][k] = inbox[s][k + 0]
    BY <1>1, <2>2 DEF TypeOK
  <2>4. Vectors(s)' \subseteq Vectors(s)
    BY <1>1, <2>3, Shorter
  <2>5. UnderWay(s)' \subseteq UnderWay(s)
    BY <2>1, <2>4 DEF UnderWay, Pending, Held
  <2>6. Register!Cut(s)
    BY <1>1, <1>2, <1>3, <2>1, <2>5, RegisterCuts
  <2> QED
    BY <2>6 DEF Register!Next
<1>8. CASE Store(s)
  <2>1. /\ pc[s] = "map" /\ pc'[s] = "reply" /\ mutexW = s /\ UNCHANGED <<closed, inbox>>
        /\ line'[s] = NoLine /\ masterVector' = [masterVector EXCEPT ![owner[s]] = line[s].version]
    BY <1>1, <1>8 DEF Store, StoreVersion, wireVars, TypeOK
  <2>2. line[s].cmd = "vector"
    BY <1>1, <2>1, Constants DEF MutexInv
  <2>3. Held(s) = {line[s].version} /\ Held(s)' = {} /\ Vectors(s)' = Vectors(s)
    BY <2>1, <2>2 DEF Held, Vectors, NoLine
  <2>4. /\ UnderWay(s) = Vectors(s) \cup {line[s].version} /\ UnderWay(s)' = Vectors(s)
        /\ line[s].version \in Nat /\ \A w \in UnderWay(s) : line[s].version <= w
    <3>1. UnderWay(s) = Vectors(s) \cup {line[s].version} /\ UnderWay(s)' = Vectors(s)
      BY <2>1, <2>3 DEF UnderWay, Pending
    <3>2. line[s].version \in Nat
      BY <1>1, Constants DEF TypeOK, Line, Versions
    <3>3. \A w \in Vectors(s) : line[s].version <= w
      BY <1>1, <2>3 DEF InOrder
    <3> QED
      BY <3>1, <3>2, <3>3
  <2>5. UnderWay(s)' \in {UnderWay(s), UnderWay(s) \ {line[s].version}}
    BY <2>4
  <2>6. [t \in Sessions |-> UnderWay(t)]' = [[t \in Sessions |-> UnderWay(t)] EXCEPT ![s] = UnderWay(s)']
    BY <1>3, OneUnderWay
  <2>7. /\ {t \in Sessions : pc[t] # "free"}' = {t \in Sessions : pc[t] # "free"}
        /\ {t \in Sessions : closed[t]}' = {t \in Sessions : closed[t]}
    BY <1>2, <2>1
  <2>8. [t \in Sessions |-> UnderWay(t)][s] = UnderWay(s)
    OBVIOUS
  <2>9. Register!Store(s)
    BY <1>2, <2>1, <2>4, <2>5, <2>6, <2>7, <2>8 DEF Register!Store
  <2> QED
    BY <2>9 DEF Register!Next
<1>9. CASE Export(s)
  <2>1. /\ pc[s] = "map" /\ pc'[s] = "reply" /\ s \in mutexR /\ UNCHANGED <<closed, inbox, masterVector>>
        /\ line'[s] = NoLine
    BY <1>1, <1>9 DEF Export, wireVars, TypeOK
  <2>2. line[s].cmd # "vector"
    BY <1>1, <2>1, Constants DEF MutexInv
  <2>3. UnderWay(s)' = UnderWay(s)
    BY <2>1, <2>2 DEF UnderWay, Pending, Held, Vectors, NoLine
  <2> QED
    BY <1>1, <1>2, <1>3, <2>1, <2>3, RegisterStutters
<1>10. CASE Reply(s)
  <2>1. /\ pc[s] = "reply" /\ pc'[s] = "test" /\ UNCHANGED <<closed, inbox, masterVector>>
        /\ line'[s] = NoLine
    BY <1>1, <1>10 DEF Reply, wireVars, mapVars, TypeOK
  <2>2. line[s].cmd # "vector"
    BY <2>1 DEF HandInv
  <2>3. UnderWay(s)' = UnderWay(s)
    BY <2>1, <2>2 DEF UnderWay, Pending, Held, Vectors, NoLine
  <2> QED
    BY <1>1, <1>2, <1>3, <2>1, <2>3, RegisterStutters
<1> QED
  BY <1>4, <1>5, <1>6, <1>7, <1>8, <1>9, <1>10 DEF Session, Stopper

\* A malformed command ends the daemon, and nothing of its connections arrives.
LEMMA BareSeen ==
  ASSUME TypeOK, TypeOK', HandInv, NEW s \in Sessions, ReadBare(s)
  PROVE  Register!Ends
<1>1. /\ UNCHANGED <<owner, current, latest, masterVector, line>> /\ master' = "dead"
      /\ \A t \in Sessions : /\ inbox'[t] = <<>> /\ closed'[t]
                             /\ pc'[t] = IF pc[t] \in {"free", "waiting"} THEN pc[t] ELSE "ended"
  BY DEF ReadBare, mapVars
<1>2. ASSUME NEW t \in Sessions PROVE UnderWay(t)' = {}
  <2>1. ~(\E k \in DOMAIN inbox'[t] : TRUE)
    BY <1>1
  <2>2. Vectors(t)' = {}
    BY <2>1 DEF Vectors
  <2>3. pc'[t] = "ended" \/ line[t] = NoLine
    BY <1>1 DEF HandInv
  <2> QED
    BY <1>1, <2>2, <2>3 DEF UnderWay, Pending, Held, NoLine
<1>3. [t \in Sessions |-> UnderWay(t)]' = [t \in Sessions |-> {}]
  BY <1>2
<1>4. {t \in Sessions : closed[t]}' = Sessions
  BY <1>1
<1>5. {t \in Sessions : pc[t] # "free"}' = {t \in Sessions : pc[t] # "free"}
  BY <1>1
<1>6. (IsMaster /\ master \in {"run", "done", "dead"})' = IsMaster
  BY <1>1, Constants
<1> QED
  BY <1>1, <1>3, <1>4, <1>5, <1>6 DEF Register!Ends

\* The server starts as the register does.
LEMMA RegisterStarts == Init => Register!Init
<1> SUFFICES ASSUME Init PROVE Register!Init
  OBVIOUS
<1>1. ASSUME NEW s \in Sessions PROVE UnderWay(s) = {}
  <2>1. inbox[s] = <<>> /\ line[s] = NoLine /\ DOMAIN <<>> = {}
    BY DEF Init
  <2>2. Vectors(s) = {}
    BY <2>1 DEF Vectors
  <2> QED
    BY <2>1, <2>2 DEF UnderWay, Pending, Held, NoLine
<1>2. /\ {s \in Sessions : pc[s] # "free"} = {} /\ {s \in Sessions : closed[s]} = {}
      /\ ~(IsMaster /\ master \in {"run", "done", "dead"})
  BY DEF Init
<1>3. [s \in Sessions |-> UnderWay(s)] = [c \in Sessions |-> {}]
  BY <1>1
<1> QED
  BY <1>2, <1>3 DEF Init, Register!Init, Register!Names, Register!Missing, Names, Missing

\* Every step of the server is a step of the register or none.
LEMMA RegisterStep ==
  IInv /\ IInv' /\ OrderInv /\ HandInv /\ [Next]_vars => [Register!Next]_(Register!rvars)
<1> SUFFICES ASSUME IInv, IInv', OrderInv, HandInv, [Next]_vars
             PROVE  Register!Next \/ UNCHANGED Register!rvars
  OBVIOUS
<1>0. TypeOK /\ TypeOK'
  BY DEF IInv
<1>1. CASE UNCHANGED vars
  <2>1. UNCHANGED <<pc, inbox, line, owner, current, latest, masterVector, closed, master>>
    BY <1>1 DEF vars, serverVars, sessionVars, wireVars, mapVars
  <2>2. \A s \in Sessions : UnderWay(s)' = UnderWay(s)
    BY <2>1, SameUnderWay
  <2> QED
    BY <1>0, <2>1, <2>2, RegisterStutters
<1>2. CASE Next
  <2>1. ASSUME NEW s \in Sessions, ReadBare(s) PROVE Register!Next
    BY <1>0, <2>1, BareSeen DEF Register!Next
  <2> QED
    BY <1>0, <1>2, <2>1, ServerSeen, OthersSeen, SessionSeen DEF Next
<1> QED
  BY <1>1, <1>2

\* For any number of hosts, connections and versions, and whatever is written to
\* it, the server keeps MasterVector as a register that each connection writes in
\* order and without losing a vector before it is closed.
THEOREM RegisterKept == Spec => KeepsRegister
<1>1. IInv /\ OrderInv /\ HandInv /\ [Next]_vars => HandInv'
  BY HandKept DEF IInv
<1> QED
  BY <1>1, HandStarts, RegisterStarts, RegisterStep, OrderInvariance, PTL
  DEF Spec, KeepsRegister, Register!Spec

\* A host is settled: the master routine will not forget its vector any more, the
\* one stored is the latest, and no connection may still deliver another.
Settled(h) ==
  /\ masterVector[h] = latest[h]
  /\ IsMaster => master \in {"run", "done", "dead"}
  /\ \A s \in Sessions : owner[s] = h => UnderWay(s) \subseteq {latest[h]}

\* A step of the register leaves a settled host settled, unless its vector changes.
LEMMA RegisterSettles ==
  ASSUME TypeOK, OrderInv, [Register!Next]_(Register!rvars),
         NEW h \in Hosts, Settled(h), latest'[h] = latest[h]
  PROVE  Settled(h)'
<1> DEFINE U == [s \in Sessions |-> UnderWay(s)]
           Made == IsMaster /\ master \in {"run", "done", "dead"}
           Only(left) == left \subseteq {latest[h]}
<1>1. /\ owner \in [Sessions -> Hosts] /\ h \in Names /\ h # Me
      /\ masterVector \in [Names -> Versions \cup {Missing}]
      /\ current \in [Hosts -> Sessions \cup {NoSession}]
  BY NamesAssumption DEF TypeOK, Names
<1>2. \A s \in Sessions : U[s] = UnderWay(s) /\ U'[s] = UnderWay(s)'
  OBVIOUS
<1>3. /\ masterVector[h] = latest[h] /\ (IsMaster => Made)
      /\ \A s \in Sessions : owner[s] = h => Only(U[s])
  BY <1>2 DEF Settled
<1>4. SUFFICES /\ owner' = owner /\ masterVector'[h] = masterVector[h] /\ (Made => Made')
               /\ \A s \in Sessions : owner[s] = h => Only(U'[s])
  BY <1>2, <1>3 DEF Settled
<1>5. /\ UNCHANGED <<owner, current, masterVector, Made, U>> \/ Register!Next
  BY DEF Register!rvars
<1> HIDE DEF U, Made
<1>6. ASSUME NEW s \in Sessions, NEW left, U' = [U EXCEPT ![s] = left], owner[s] = h => Only(left)
      PROVE  \A t \in Sessions : owner[t] = h => Only(U'[t])
  <2>1. DOMAIN U = Sessions
    BY DEF U
  <2>2. \A t \in Sessions : U'[t] = IF t = s THEN left ELSE U[t]
    BY <1>6, <2>1
  <2> QED
    BY <1>3, <1>6, <2>2
<1>7. CASE UNCHANGED <<owner, current, masterVector, Made, U>>
  BY <1>3, <1>7
<1>8. CASE \/ \E g \in Register!Names : Register!Change(g)
           \/ \E c \in Sessions : Register!Open(c)
  <2>1. UNCHANGED <<owner, masterVector, Made, U>>
    BY <1>8 DEF Register!Change, Register!Open, U, Made
  <2> QED
    BY <1>3, <2>1
<1>9. ASSUME NEW g \in Hosts, Register!Send(g)
      PROVE  /\ owner' = owner /\ masterVector'[h] = masterVector[h] /\ (Made => Made')
             /\ \A s \in Sessions : owner[s] = h => Only(U'[s])
  <2>1. /\ UNCHANGED <<owner, masterVector, Made>> /\ current[g] # NoSession
        /\ U' = [U EXCEPT ![current[g]] = @ \cup {latest[g]}]
    BY <1>9 DEF Register!Send, U, Made
  <2>2. current[g] \in Sessions /\ owner[current[g]] = g
    BY <1>1, <2>1 DEF OrderInv, NewestIn
  <2>3. owner[current[g]] = h => Only(U[current[g]] \cup {latest[g]})
    BY <1>3, <2>2
  <2>4. U' = [U EXCEPT ![current[g]] = U[current[g]] \cup {latest[g]}]
    BY <2>1, <2>2 DEF U
  <2> HIDE DEF Only
  <2> QED
    BY <1>6, <2>1, <2>2, <2>3, <2>4
<1>10. ASSUME NEW c \in Sessions, Register!Store(c)
       PROVE  /\ owner' = owner /\ masterVector'[h] = masterVector[h] /\ (Made => Made')
              /\ \A s \in Sessions : owner[s] = h => Only(U'[s])
  <2>1. PICK v \in U[c] : /\ masterVector' = [masterVector EXCEPT ![owner[c]] = v]
                          /\ \E left \in {U[c], U[c] \ {v}} : U' = [U EXCEPT ![c] = left]
                          /\ UNCHANGED <<owner, Made>>
    BY <1>10 DEF Register!Store, U, Made
  <2>2. owner[c] = h => v = latest[h]
    BY <1>3
  <2>3. masterVector'[h] = masterVector[h]
    BY <1>1, <1>3, <2>1, <2>2
  <2>4. PICK left \in {U[c], U[c] \ {v}} : U' = [U EXCEPT ![c] = left]
    BY <2>1
  <2>5. owner[c] = h => Only(left)
    BY <1>3, <2>4
  <2> HIDE DEF Only
  <2> QED
    BY <1>6, <2>1, <2>3, <2>4, <2>5
<1>11. ASSUME NEW c \in Sessions, Register!Cut(c)
       PROVE  /\ owner' = owner /\ masterVector'[h] = masterVector[h] /\ (Made => Made')
              /\ \A s \in Sessions : owner[s] = h => Only(U'[s])
  <2>1. /\ UNCHANGED <<owner, masterVector, Made>>
        /\ \E left \in SUBSET U[c] : U' = [U EXCEPT ![c] = left]
    BY <1>11 DEF Register!Cut, U, Made
  <2>2. PICK left \in SUBSET U[c] : U' = [U EXCEPT ![c] = left]
    BY <2>1
  <2>3. owner[c] = h => Only(left)
    BY <1>3, <2>2
  <2> HIDE DEF Only
  <2> QED
    BY <1>6, <2>1, <2>2, <2>3
<1>12. CASE Register!Save
  <2>1. /\ UNCHANGED <<owner, Made, U>> /\ masterVector' = [masterVector EXCEPT ![Me] = latest[Me]]
    BY <1>12 DEF Register!Save, U, Made
  <2>2. masterVector'[h] = masterVector[h]
    BY <1>1, <2>1
  <2> QED
    BY <1>3, <2>1, <2>2
<1>13. ~Register!NewMap
  BY <1>3 DEF Register!NewMap, Made
<1>14. CASE Register!Ends
  <2>1. UNCHANGED <<owner, masterVector>> /\ Made' = IsMaster /\ U' = [c \in Sessions |-> {}]
    BY <1>14 DEF Register!Ends, U, Made
  <2>2. Made => Made'
    BY <2>1 DEF Made
  <2>3. \A s \in Sessions : Only(U'[s])
    BY <2>1
  <2> QED
    BY <2>1, <2>2, <2>3
<1> QED
  BY <1>5, <1>7, <1>8, <1>9, <1>10, <1>11, <1>12, <1>13, <1>14 DEF Register!Next

\* What StoredInTheEnd needs beside fairness: once the latest vector of a host is
\* stored, nothing else of it is under way and the master routine has made its map,
\* the host keeps its vector in the map, whatever other sessions, hosts and the
\* daemon's own client do, until the vector changes.
THEOREM SettledStays ==
  Spec => [][\A h \in Hosts : Settled(h) /\ latest'[h] = latest[h] => Settled(h)']_vars
<1>1. IInv /\ OrderInv /\ HandInv /\ [Next]_vars =>
        [\A h \in Hosts : Settled(h) /\ latest'[h] = latest[h] => Settled(h)']_vars
  <2> SUFFICES ASSUME IInv, OrderInv, HandInv, [Next]_vars,
                      NEW h \in Hosts, Settled(h), latest'[h] = latest[h]
               PROVE  Settled(h)'
    OBVIOUS
  <2>1. [Register!Next]_(Register!rvars)
    BY RegisterStep, StepInv
  <2> QED
    BY <2>1, RegisterSettles DEF IInv
<1>2. IInv /\ OrderInv /\ HandInv /\ [Next]_vars => HandInv'
  BY HandKept DEF IInv
<1> QED
  BY <1>1, <1>2, HandStarts, OrderInvariance, PTL DEF Spec

-----------------------------------------------------------------------------
(***************************************************************************)
(* The stop.                                                               *)
(***************************************************************************)
\* Both routines confirm at their ends, and a routine that serves only when told to.
ConfirmInv ==
  /\ closeReplyServer => listener \in {"done", "dead"} /\ stopReq
  /\ closeReplyMaster => master \in {"done", "dead"} /\ (IsMaster => stopReq)
  /\ interrupt => stopReq

\* A stop that is confirmed stays so.
ConfirmedStays ==
  [][closeReplyServer /\ closeReplyMaster => closeReplyServer' /\ closeReplyMaster']_vars

\* After the accept loop has confirmed the stop no connection becomes a session.
NoneAccepted ==
  [][closeReplyServer => \A s \in Sessions : pc[s] \in {"free", "waiting"} => pc'[s] \in {"free", "waiting"}]_vars

\* A session whose stopper is done gets no further line: it has the lines it had
\* buffered, takes one of them each time it reads, and ends for good.
Drains ==
  [][\A s \in Sessions : stopper[s] = "end" =>
       /\ stopper'[s] = "end" /\ closed'[s]
       /\ Len(inbox'[s]) <= Len(inbox[s])
       /\ pc[s] = "read" /\ pc'[s] \notin {"read", "ended"} => Len(inbox'[s]) < Len(inbox[s])
       /\ pc[s] = "ended" => pc'[s] = "ended"]_vars

\* Every step keeps the confirmations.
LEMMA StepConfirm == TypeOK /\ ConfirmInv /\ [Next]_vars => ConfirmInv'
<1> SUFFICES ASSUME TypeOK, ConfirmInv, [Next]_vars PROVE ConfirmInv'
  OBVIOUS
<1>1. CASE UNCHANGED serverVars
  BY <1>1 DEF serverVars, ConfirmInv
<1>2. CASE Listen \/ AcceptNothing \/ \E s \in Sessions : Accept(s)
  <2>1. CASE Listen
    <3>1. UNCHANGED <<master, interrupt, closeReplyMaster, stopReq>> /\ closeReplyServer' = stopReq
          /\ listener' = (IF stopReq THEN "done" ELSE "accept")
      BY <2>1 DEF Listen, ListenTold
    <3>2. closeReplyServer' => listener' = "done" /\ stopReq'
      BY <3>1
    <3> QED
      BY <3>1, <3>2 DEF ConfirmInv
  <2>2. CASE AcceptNothing \/ \E s \in Sessions : Accept(s)
    <3>1. UNCHANGED <<master, interrupt, closeReplyServer, closeReplyMaster, stopReq>> /\ listener = "accept"
      BY <2>2 DEF AcceptNothing, Accept
    <3> QED
      BY <3>1 DEF ConfirmInv
  <2> QED
    BY <1>2, <2>1, <2>2
<1>3. CASE Master \/ Stop
  <2>1. CASE MasterStart
    <3>1. UNCHANGED <<listener, interrupt, closeReplyServer, stopReq>> /\ closeReplyMaster' = ~IsMaster
          /\ master' = (IF IsMaster THEN "init" ELSE "done")
      BY <2>1 DEF MasterStart
    <3>2. closeReplyMaster' => ~IsMaster /\ master' = "done"
      BY <3>1
    <3> QED
      BY <3>1, <3>2 DEF ConfirmInv
  <2>2. CASE MasterInit \/ MasterInterrupt
    BY <2>2 DEF MasterInit, MasterInterrupt, ConfirmInv
  <2>3. CASE MasterEnd
    <3>1. interrupt /\ master' = "done" /\ UNCHANGED <<listener, closeReplyServer, stopReq>>
      BY <2>3 DEF MasterEnd
    <3> QED
      BY <3>1 DEF ConfirmInv
  <2>4. CASE Stop
    BY <2>4 DEF Stop, ConfirmInv
  <2> QED
    BY <1>3, <2>1, <2>2, <2>3, <2>4 DEF Master
<1>4. CASE Save \/ Others \/ (\E s \in Sessions : Session(s) \/ Stopper(s)) \/ UNCHANGED vars
  BY <1>1, <1>4 DEF vars, Save, Others, Connect, WriteVector, WriteCommand, Write, StatusChanges,
     Abandoned, Session, SessionBegin, SessionTest, ReadEmpty, ReadAnswered, ReadMapCommand,
     ReadError, Lock, LockWhen, Store, StoreVersion, Export, Reply, Stopper, StopperExit, StopperClose
<1>5. CASE \E s \in Sessions : ReadBare(s)
  BY <1>5 DEF ReadBare, ConfirmInv
<1> QED
  BY <1>2, <1>3, <1>4, <1>5 DEF Next, Listener

\* What the stop has confirmed holds from the start and in every behaviour.
LEMMA ConfirmInvariance == Spec => [](TypeOK /\ ConfirmInv)
<1>1. Init => ConfirmInv
  BY DEF Init, ConfirmInv
<1> QED
  BY <1>1, StepConfirm, TypeCorrect, PTL DEF Spec

\* Once both routines have confirmed a stop nothing takes that back, so that Stop,
\* which looks at one reply after the other, does not miss them.
THEOREM ConfirmationStays == Spec => ConfirmedStays
<1>1. TypeOK /\ ConfirmInv /\ [Next]_vars =>
        [closeReplyServer /\ closeReplyMaster => closeReplyServer' /\ closeReplyMaster']_vars
  <2> SUFFICES ASSUME ConfirmInv, Next, closeReplyServer, closeReplyMaster
               PROVE  UNCHANGED <<closeReplyServer, closeReplyMaster>>
    OBVIOUS
  <2>1. listener \in {"done", "dead"} /\ master \in {"done", "dead"}
    BY DEF ConfirmInv
  <2> QED
    BY <2>1 DEF Next, Listener, Listen, ListenTold, AcceptNothing, Accept, Master, MasterStart, MasterInit,
       MasterInterrupt, MasterEnd, Stop, Save, Others, Connect, WriteVector, WriteCommand, Write, StatusChanges,
       Abandoned, Session, SessionBegin, SessionTest, ReadEmpty, ReadAnswered, ReadMapCommand,
       ReadBare, ReadError, Lock, LockWhen, Store, StoreVersion, Export, Reply, Stopper, StopperExit, StopperClose,
       serverVars
<1> QED
  BY <1>1, ConfirmInvariance, PTL DEF Spec, ConfirmedStays

\* A confirmed stop admits nobody: connections that wait in the backlog stay there.
THEOREM NoSessionAfterStop == Spec => NoneAccepted
<1>1. TypeOK /\ ConfirmInv /\ [Next]_vars =>
        [closeReplyServer => \A s \in Sessions : pc[s] \in {"free", "waiting"} => pc'[s] \in {"free", "waiting"}]_vars
  <2> SUFFICES ASSUME TypeOK, ConfirmInv, Next, closeReplyServer,
                      NEW s \in Sessions, pc[s] \in {"free", "waiting"}
               PROVE  pc'[s] \in {"free", "waiting"}
    OBVIOUS
  <2>1. \A t \in Sessions : ~Accept(t)
    BY DEF ConfirmInv, Accept
  <2>2. CASE Listener \/ Master \/ Stop \/ Save
    BY <2>1, <2>2 DEF Listener, Listen, ListenTold, AcceptNothing, Master, MasterStart, MasterInit,
       MasterInterrupt, MasterEnd, Stop, Save, sessionVars
  <2>3. CASE Others
    BY <2>3 DEF Others, Connect, WriteVector, WriteCommand, Write, StatusChanges, Abandoned, sessionVars, TypeOK
  <2>4. ASSUME NEW t \in Sessions, Session(t) \/ Stopper(t) PROVE pc'[s] \in {"free", "waiting"}
    BY <2>4 DEF Session, SessionBegin, SessionTest, End, Read, ReadEmpty, ReadAnswered, ReadMapCommand,
       ReadError, Lock, LockWhen, Store, StoreVersion, Export, Reply, Stopper, StopperExit, StopperClose, TypeOK
  <2>5. ASSUME NEW t \in Sessions, ReadBare(t) PROVE pc'[s] \in {"free", "waiting"}
    BY <2>5 DEF ReadBare
  <2> QED
    BY <2>2, <2>3, <2>4, <2>5 DEF Next
<1> QED
  BY <1>1, ConfirmInvariance, PTL DEF Spec, NoneAccepted

\* A line more or less.
LEMMA Lengths ==
  ASSUME NEW l \in Seq(Line)
  PROVE  /\ Len(l) \in Nat
         /\ l # <<>> => Len(Tail(l)) < Len(l)
         /\ \A n \in 0 .. Len(l) : Len(SubSeq(l, 1, n)) <= Len(l)
OBVIOUS

\* A stopper is started with its session, and its last step closes the connection.
DrainInv ==
  \A s \in Sessions : /\ pc[s] \in {"free", "waiting", "new"} => stopper[s] = "none"
                      /\ stopper[s] = "end" => closed[s]

\* What a step leaves of a session it is not about.
LEMMA Unconcerned ==
  ASSUME TypeOK, NEW s \in Sessions,
         \/ Listener \/ Master \/ Stop \/ Save \/ Others \/ UNCHANGED vars
         \/ \E t \in Sessions \ {s} : Session(t) \/ Stopper(t)
  PROVE  /\ stopper'[s] = stopper[s] /\ closed'[s] = closed[s]
         /\ pc'[s] = pc[s] \/ (pc[s] \in {"free", "waiting"} /\ pc'[s] \in {"waiting", "new"})
         /\ closed[s] => inbox'[s] = inbox[s]
<1>1. CASE Listener \/ Master \/ Stop \/ Save \/ UNCHANGED vars
  BY <1>1 DEF vars, Listener, Listen, ListenTold, AcceptNothing, Accept, Master, MasterStart, MasterInit,
     MasterInterrupt, MasterEnd, Stop, Save, sessionVars, wireVars, TypeOK
<1>2. CASE Others
  <2>1. ASSUME NEW h \in Hosts, NEW l, Write(h, l)
        PROVE  UNCHANGED <<pc, stopper, closed>> /\ (closed[s] => inbox'[s] = inbox[s])
    BY <2>1 DEF Write, sessionVars, TypeOK
  <2>2. CASE \E h \in Hosts : WriteVector(h) \/ \E c \in Commands : WriteCommand(h, c)
    BY <2>1, <2>2 DEF WriteVector, WriteCommand
  <2>3. CASE \/ \E h \in Hosts : Connect(h)
             \/ \E h \in Changing : StatusChanges(h)
             \/ \E t \in Sessions : Abandoned(t)
    BY <2>3 DEF Connect, StatusChanges, Abandoned, sessionVars, TypeOK
  <2> QED
    BY <1>2, <2>2, <2>3 DEF Others
<1>3. ASSUME NEW t \in Sessions \ {s}, Session(t) \/ Stopper(t)
      PROVE  UNCHANGED <<stopper[s], closed[s], pc[s], inbox[s]>>
  BY <1>3 DEF Session, SessionBegin, SessionTest, End, Read, ReadEmpty, ReadAnswered, ReadMapCommand,
     ReadError, Lock, LockWhen, Store, StoreVersion, Export, Reply, Stopper, StopperExit, StopperClose, wireVars,
     TypeOK
<1> QED
  BY <1>1, <1>2, <1>3

\* Every step keeps the stoppers in order.
LEMMA StepDrain == TypeOK /\ DrainInv /\ [Next]_vars => DrainInv'
<1> SUFFICES ASSUME TypeOK, DrainInv, [Next]_vars, NEW s \in Sessions
             PROVE  /\ pc'[s] \in {"free", "waiting", "new"} => stopper'[s] = "none"
                    /\ stopper'[s] = "end" => closed'[s]
  BY DEF DrainInv
<1>0. /\ pc[s] \in {"free", "waiting", "new"} => stopper[s] = "none"
      /\ stopper[s] = "end" => closed[s]
  BY DEF DrainInv
<1>1. CASE \/ Listener \/ Master \/ Stop \/ Save \/ Others \/ UNCHANGED vars
           \/ \E t \in Sessions \ {s} : Session(t) \/ Stopper(t)
  BY <1>0, <1>1, Unconcerned
<1>2. CASE SessionBegin(s)
  BY <1>2 DEF SessionBegin, TypeOK
<1>3. CASE Session(s) /\ ~SessionBegin(s)
  <2>1. stopper' = stopper /\ (closed'[s] = closed[s] \/ closed'[s])
        /\ pc'[s] \notin {"free", "waiting", "new"}
    BY <1>3 DEF Session, SessionTest, End, ReadEmpty, ReadAnswered, ReadMapCommand,
       ReadError, Lock, LockWhen, Store, StoreVersion, Export, Reply, TypeOK
  <2> QED
    BY <1>0, <2>1
<1>4. CASE Stopper(s)
  BY <1>0, <1>4 DEF Stopper, StopperExit, StopperClose, TypeOK
<1>5. CASE \E t \in Sessions : ReadBare(t)
  BY <1>0, <1>5 DEF ReadBare, TypeOK
<1> QED
  BY <1>1, <1>2, <1>3, <1>4, <1>5 DEF Next

\* Whatever the peer still sends and whatever OnNewMessage does to exit, a session
\* whose stopper is done only has its buffered lines left to end with.
THEOREM SessionsDrain == Spec => Drains
<1>1. Init => DrainInv
  BY DEF Init, DrainInv
<1> DEFINE Drain(s) == /\ stopper'[s] = "end" /\ closed'[s]
                       /\ Len(inbox'[s]) <= Len(inbox[s])
                       /\ pc[s] = "read" /\ pc'[s] \notin {"read", "ended"} => Len(inbox'[s]) < Len(inbox[s])
                       /\ pc[s] = "ended" => pc'[s] = "ended"
<1>2. ASSUME TypeOK, DrainInv, [Next]_vars, NEW s \in Sessions, stopper[s] = "end" PROVE Drain(s)
  <2>0. /\ closed[s] /\ pc[s] \notin {"free", "waiting", "new"}
        /\ inbox[s] \in Seq(Line) /\ Len(inbox[s]) \in Nat
    BY <1>2, Lengths DEF DrainInv, TypeOK
  <2>1. CASE \/ Listener \/ Master \/ Stop \/ Save \/ Others \/ UNCHANGED vars
             \/ \E t \in Sessions \ {s} : Session(t) \/ Stopper(t)
    BY <1>2, <2>0, <2>1, Unconcerned
  <2>2. CASE SessionBegin(s) \/ Stopper(s)
    BY <1>2, <2>0, <2>2 DEF SessionBegin, Stopper, StopperExit, StopperClose
  <2>3. CASE SessionTest(s) \/ Lock(s) \/ Store(s) \/ Export(s) \/ Reply(s) \/ ReadError(s)
    <3>1. stopper' = stopper /\ inbox' = inbox /\ closed'[s]
          /\ (pc[s] = "read" => pc'[s] = "ended") /\ pc[s] # "ended"
      BY <1>2, <2>0, <2>3 DEF SessionTest, Lock, LockWhen, Store, StoreVersion, Export, Reply, ReadError, End,
                              wireVars, TypeOK
    <3> QED
      BY <1>2, <2>0, <3>1
  <2>4. CASE ReadEmpty(s) \/ ReadAnswered(s) \/ ReadMapCommand(s)
    <3>1. stopper' = stopper /\ closed'[s] /\ pc[s] = "read"
      BY <1>2, <2>0, <2>4 DEF ReadEmpty, ReadAnswered, ReadMapCommand, Read, End, TypeOK
    <3>2. inbox'[s] = Tail(inbox[s]) /\ inbox[s] # <<>>
      BY <1>2, <2>4 DEF ReadEmpty, ReadAnswered, ReadMapCommand, Read, TypeOK
    <3>3. Len(inbox'[s]) < Len(inbox[s]) /\ Len(inbox'[s]) \in Nat
      BY <2>0, <3>2, Lengths
    <3> QED
      BY <1>2, <2>0, <3>1, <3>3
  <2>5. CASE \E t \in Sessions : ReadBare(t)
    <3>1. stopper'[s] = "end" /\ closed'[s] /\ inbox'[s] = <<>> /\ pc'[s] = "ended"
      BY <1>2, <2>0, <2>5 DEF ReadBare, TypeOK
    <3>2. Len(inbox'[s]) = 0
      BY <3>1
    <3> QED
      BY <2>0, <3>1, <3>2
  <2> QED
    BY <1>2, <2>1, <2>2, <2>3, <2>4, <2>5 DEF Next, Session
<1>3. TypeOK /\ DrainInv /\ [Next]_vars => [\A s \in Sessions : stopper[s] = "end" => Drain(s)]_vars
  BY <1>2
<1> QED
  BY <1>1, <1>3, StepDrain, TypeCorrect, PTL DEF Spec, Drains

=============================================================================
