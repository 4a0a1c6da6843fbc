------------------------ MODULE AtellaMasterLinkProofs ------------------------
(***************************************************************************)
(* Proofs about AtellaMasterLink, for any number of masters, any bounds    *)
(* and any faults.                                                         *)
(***************************************************************************)
EXTENDS AtellaMasterLink, TLAPS

\* The index goes round the list of masters.
LEMMA NextIndex ==
  ASSUME NEW c \in Masters
  PROVE  (c + 1) % N = (IF c + 1 = N THEN 0 ELSE c + 1)
<1>1. N \in Nat /\ c \in Int /\ 0 <= c /\ c < N
  BY CountAssumption DEF Masters
<1>2. CASE c + 1 = N
  BY <1>1, <1>2
<1>3. CASE c + 1 < N
  BY <1>1, <1>3
<1> QED
  BY <1>1, <1>2, <1>3

-----------------------------------------------------------------------------
(***************************************************************************)
(* Only a routine without masters has returned; any other has its indices  *)
(* in the list.                                                            *)
(***************************************************************************)
IndexInv ==
  /\ N = 0 => pc = "returned"
  /\ pc = "returned" => N = 0 /\ stopper = "wait" /\ ~linked
  /\ N > 0 => cur \in Masters /\ msi \in Masters

(***************************************************************************)
(* How far master m is from masterServerIndex, going round the list.  In a *)
(* sweep that starts there, the masters tried are those before the current *)
(* index; when the sweep is over they are all of them.                     *)
(***************************************************************************)
Distance(m) == IF m >= msi THEN m - msi ELSE m - msi + N

SweepInv ==
  linked =>
    /\ ~warned => tried = {m \in Masters : Distance(m) < Distance(cur)}
    /\ warned => tried = Masters /\ cur = msi

IInv == TypeOK /\ IndexInv /\ SweepInv /\ ConnectedToCurrent

WireLines == {AuthLine(Code)} \cup {SetVectorLine(Me, v) : v \in Versions}

\* The routine is started with the invariant.
LEMMA InitInv == Init => IInv
<1> SUFFICES ASSUME Init PROVE IInv
  OBVIOUS
<1>1. N \in Nat /\ MaxVersion \in Nat /\ AckCapacity \in Nat
  BY CountAssumption, VersionAssumption, CapacityAssumption
<1>2. cur \in Masters \cup {-1} /\ msi \in Masters \cup {0}
  BY <1>1 DEF Init, Masters
<1>3. 0 \in Versions /\ 0 \in 0 .. AckCapacity + 1
  BY <1>1 DEF Versions
<1>4. stored \in [Masters -> Versions \cup {-1}]
  BY DEF Init
<1>5. <<>> \in Seq(WireLines)
  OBVIOUS
<1>6. TypeOK
  BY <1>2, <1>3, <1>4, <1>5 DEF Init, TypeOK, LinkStates, WireLines
<1>7. IndexInv
  BY <1>1 DEF Init, IndexInv, Masters
<1> QED
  BY <1>6, <1>7 DEF Init, IInv, SweepInv, ConnectedToCurrent

\* A dial that fails moves the sweep on by one master.
LEMMA SweepStep ==
  ASSUME TypeOK, IndexInv, SweepInv, DialFail, linked
  PROVE  SweepInv'
<1>1. N \in Nat /\ N > 0 /\ cur \in Masters /\ msi \in Masters
  BY CountAssumption DEF DialFail, DialFailTo, IndexInv
<1>2. cur' = (IF cur + 1 = N THEN 0 ELSE cur + 1)
  BY <1>1, NextIndex DEF DialFail, DialFailTo
<1>3. msi' = msi /\ linked' = linked /\ warned' = (cur' = msi)
  BY DEF DialFail, DialFailTo
<1>4. tried' = {m \in Masters : Distance(m) <= Distance(cur)}
  <2>1. CASE warned
    <3>1. tried' = {cur} /\ cur = msi
      BY <2>1 DEF DialFail, DialFailTo, SweepInv
    <3>2. \A m \in Masters : Distance(m) <= Distance(cur) <=> m = cur
      BY <1>1, <3>1 DEF Distance, Masters
    <3> QED
      BY <1>1, <3>1, <3>2
  <2>2. CASE ~warned
    <3>1. tried' = {m \in Masters : Distance(m) < Distance(cur)} \cup {cur}
      BY <2>2 DEF DialFail, DialFailTo, SweepInv
    <3>2. \A m \in Masters :
            Distance(m) <= Distance(cur) <=> (Distance(m) < Distance(cur) \/ m = cur)
      BY <1>1 DEF Distance, Masters
    <3> QED
      BY <1>1, <3>1, <3>2
  <2> QED
    BY <2>1, <2>2
<1>5. CASE cur' = msi
  <2>1. \A m \in Masters : Distance(m) <= Distance(cur)
    BY <1>1, <1>2, <1>5 DEF Distance, Masters
  <2> QED
    BY <1>3, <1>4, <1>5, <2>1 DEF SweepInv
<1>6. CASE cur' # msi
  <2>1. \A m \in Masters : Distance(m)' = Distance(m)
    BY <1>3 DEF Distance
  <2>2. Distance(cur)' = Distance(cur) + 1
    BY <1>1, <1>2, <1>3, <1>6 DEF Distance, Masters
  <2>3. \A m \in Masters : Distance(m) \in Int
    BY <1>1 DEF Distance, Masters
  <2>4. \A m \in Masters : Distance(m) <= Distance(cur) <=> Distance(m)' < Distance(cur)'
    BY <1>1, <2>1, <2>2, <2>3
  <2> QED
    BY <1>3, <1>4, <1>6, <2>4 DEF SweepInv
<1> QED
  BY <1>5, <1>6

\* Every step preserves the type invariant.
LEMMA TypeNext == TypeOK /\ IndexInv /\ [Next]_vars => TypeOK'
<1> SUFFICES ASSUME TypeOK, IndexInv, [Next]_vars PROVE TypeOK'
  OBVIOUS
<1>0. /\ N \in Nat /\ MaxVersion \in Nat /\ AckCapacity \in Nat
      /\ lines \in Seq(WireLines) /\ <<>> \in Seq(WireLines)
      /\ 0 \in 0 .. AckCapacity + 1
  BY CountAssumption, VersionAssumption, CapacityAssumption DEF TypeOK, WireLines
<1> USE <1>0 DEF routineVars, stopVars, netVars, masterVars
<1>1. CASE LoopHead \/ Wake \/ DialHead
  BY <1>1 DEF TypeOK, LoopHead, Wake, DialHead, DialHeadTold
<1>2. ASSUME NEW m \in Masters, DialOk(m) PROVE TypeOK'
  BY <1>2 DEF TypeOK, DialOk, DialOkTo, LinkStates, WireLines
<1>3. CASE DialFail
  <2>1. cur \in Masters /\ N > 0
    BY <1>3 DEF DialFail, DialFailTo, IndexInv
  <2>2. cur' \in Masters
    BY <1>3, <2>1, NextIndex DEF DialFail, DialFailTo, Masters
  <2>3. tried' \subseteq Masters
    BY <1>3, <2>1 DEF DialFail, DialFailTo, TypeOK
  <2> QED
    BY <1>3, <2>2, <2>3 DEF TypeOK, DialFail, DialFailTo, LinkStates, WireLines
<1>4. CASE SendAuth \/ SendVector
  <2>1. \E from \in {"auth", "vector"}, to \in {"loop", "vector"}, line \in WireLines :
          Send(from, line, to)
    <3>1. AuthLine(Code) \in WireLines /\ SetVectorLine(Me, query) \in WireLines
      BY DEF WireLines, TypeOK
    <3> QED
      BY <1>4, <3>1 DEF SendAuth, SendVector
  <2> PICK from \in {"auth", "vector"}, to \in {"loop", "vector"}, line \in WireLines :
             Send(from, line, to)
    BY <2>1
  <2>2. lines' \in Seq(WireLines)
    BY DEF Send, WriteDone
  <2>3. link' \in LinkStates
    BY DEF Send, WriteDone, TypeOK, LinkStates
  <2>4. pc' \in {"loop", "vector"} /\ connErr' \in BOOLEAN
    BY DEF Send, TypeOK
  <2> QED
    BY <2>2, <2>3, <2>4 DEF Send, TypeOK, WireLines
<1>5. CASE SendPanic \/ RequestStop \/ Stopper
  <2>1. CASE SendPanic \/ RequestStop
    <3>1. pc' \in {pc, "panic"} /\ stopReq' \in BOOLEAN
      BY <2>1 DEF SendPanic, RequestStop, TypeOK
    <3>2. UNCHANGED <<cur, msi, query, tried, warned, linked, connErr, conn, vect, stopper, exit,
                      netVars, masterVars>>
      BY <2>1 DEF SendPanic, RequestStop
    <3> QED
      BY <3>1, <3>2 DEF TypeOK
  <2>2. CASE StopperExit \/ StopperMark \/ StopperTest
    <3>1. /\ stopper' \in {"mark", "test", "close", "end"}
          /\ exit' \in BOOLEAN /\ connErr' \in BOOLEAN
      BY <2>2 DEF StopperExit, StopperMark, StopperTest, TypeOK
    <3>2. UNCHANGED <<routineVars, conn, vect, stopReq, netVars, masterVars>>
      BY <2>2 DEF StopperExit, StopperMark, StopperTest
    <3> QED
      BY <3>1, <3>2 DEF TypeOK
  <2>3. CASE StopperClose \/ StopperPanic
    BY <2>3 DEF TypeOK, StopperClose, StopperPanic, LinkStates, WireLines
  <2> QED
    BY <1>5, <2>1, <2>2, <2>3 DEF Stopper
<1>6. CASE MasterReads
  <2>1. Head(lines) \in WireLines /\ Tail(lines) \in Seq(WireLines)
    BY <1>6 DEF MasterReads
  <2>2. Head(lines)[1] = "set" => Head(lines)[4] \in Versions
    BY <2>1 DEF WireLines, AuthLine, SetVectorLine
  <2>3. stored' \in [Masters -> Versions \cup {-1}]
    BY <1>6, <2>2 DEF MasterReads, TypeOK
  <2>4. acks' \in 0 .. AckCapacity + 1
    BY <1>6 DEF MasterReads, TypeOK
  <2> QED
    BY <1>6, <2>1, <2>3, <2>4 DEF MasterReads, TypeOK, WireLines
<1>7. CASE VectorChanges
  BY <1>7 DEF VectorChanges, TypeOK, Versions
<1>8. ASSUME NEW m \in Masters, MasterDown(m) PROVE TypeOK'
  <2>1. up' \in [Masters -> BOOLEAN] /\ stored' \in [Masters -> Versions \cup {-1}]
    BY <1>8 DEF MasterDown, TypeOK
  <2>2. link' \in LinkStates /\ lines' \in Seq(WireLines) /\ peer' = peer /\ acks' = acks
    BY <1>8 DEF MasterDown, Lose, TypeOK, LinkStates
  <2> QED
    BY <1>8, <2>1, <2>2 DEF MasterDown, TypeOK, WireLines
<1>9. ASSUME NEW m \in Masters, MasterUp(m) PROVE TypeOK'
  BY <1>9 DEF MasterUp, TypeOK
<1>10. CASE LinkDrop \/ ResetArrives
  <2>1. link' = "reset" /\ lines' = <<>> /\ peer' = peer /\ acks' = acks
    BY <1>10 DEF LinkDrop, ResetArrives, Lose
  <2> QED
    BY <1>10, <2>1 DEF LinkDrop, ResetArrives, TypeOK, LinkStates, WireLines
<1>11. CASE UNCHANGED vars
  BY <1>11 DEF vars, TypeOK
<1> QED
  BY <1>1, <1>2, <1>3, <1>4, <1>5, <1>6, <1>7, <1>8, <1>9, <1>10, <1>11
     DEF Next, Routine, World

\* Every step keeps the indices in the list.
LEMMA IndexNext == IndexInv /\ [Next]_vars => IndexInv'
<1> SUFFICES ASSUME IndexInv, [Next]_vars PROVE IndexInv'
  OBVIOUS
<1> USE CountAssumption DEF IndexInv
<1>1. CASE DialFail
  <2>1. cur \in Masters /\ N > 0
    BY <1>1 DEF DialFail, DialFailTo
  <2>2. cur' \in Masters
    BY <1>1, <2>1, NextIndex DEF DialFail, DialFailTo, Masters
  <2> QED
    BY <1>1, <2>1, <2>2 DEF DialFail, DialFailTo, stopVars
<1>2. ASSUME NEW m \in Masters, DialOk(m) PROVE IndexInv'
  BY <1>2 DEF DialOk, DialOkTo, Masters, stopVars
<1>3. CASE LoopHead \/ Wake \/ DialHead \/ SendAuth \/ SendVector \/ SendPanic
  BY <1>3 DEF LoopHead, Wake, DialHead, DialHeadTold, SendAuth, SendVector, Send, SendPanic, stopVars
<1>4. CASE RequestStop \/ Stopper
  BY <1>4 DEF RequestStop, Stopper, StopperExit, StopperMark, StopperTest, StopperClose,
              StopperPanic, routineVars
<1>5. CASE World
  BY <1>5 DEF World, MasterReads, VectorChanges, LinkDrop, ResetArrives, MasterDown, MasterUp,
              routineVars, stopVars
<1>6. CASE UNCHANGED vars
  BY <1>6 DEF vars, routineVars, stopVars
<1> QED
  BY <1>1, <1>2, <1>3, <1>4, <1>5, <1>6 DEF Next, Routine

\* Every step keeps the account of the sweep.
LEMMA SweepNext == TypeOK /\ IndexInv /\ SweepInv /\ [Next]_vars => SweepInv'
<1> SUFFICES ASSUME TypeOK, IndexInv, SweepInv, [Next]_vars PROVE SweepInv'
  OBVIOUS
<1>1. CASE DialFail
  <2>1. CASE linked
    BY <1>1, <2>1, SweepStep
  <2>2. CASE ~linked
    BY <1>1, <2>2 DEF DialFail, DialFailTo, SweepInv
  <2> QED
    BY <2>1, <2>2
<1>2. ASSUME NEW m \in Masters, DialOk(m) PROVE SweepInv'
  <2>1. N \in Nat /\ cur \in Masters /\ cur' = cur /\ msi' = cur
    BY <1>2, CountAssumption DEF DialOk, DialOkTo
  <2>2. \A k \in Masters : ~(Distance(k)' < Distance(cur)')
    BY <2>1 DEF Distance, Masters
  <2> QED
    BY <1>2, <2>2 DEF DialOk, DialOkTo, SweepInv
<1>3. CASE UNCHANGED <<cur, msi, tried, warned, linked>>
  BY <1>3 DEF SweepInv, Distance
<1>4. CASE LoopHead \/ Wake \/ DialHead \/ SendAuth \/ SendVector \/ SendPanic
  BY <1>3, <1>4 DEF LoopHead, Wake, DialHead, DialHeadTold, SendAuth, SendVector, Send, SendPanic
<1>5. CASE RequestStop \/ Stopper
  BY <1>3, <1>5 DEF RequestStop, Stopper, StopperExit, StopperMark, StopperTest, StopperClose,
                    StopperPanic, routineVars
<1>6. CASE World
  BY <1>3, <1>6 DEF World, MasterReads, VectorChanges, LinkDrop, ResetArrives, MasterDown,
                    MasterUp, routineVars
<1>7. CASE UNCHANGED vars
  BY <1>3, <1>7 DEF vars, routineVars
<1> QED
  BY <1>1, <1>2, <1>4, <1>5, <1>6, <1>7 DEF Next, Routine

\* Every step keeps a good connection on the current master.
LEMMA ConnectionNext == ConnectedToCurrent /\ [Next]_vars => ConnectedToCurrent'
<1> SUFFICES ASSUME ConnectedToCurrent, [Next]_vars PROVE ConnectedToCurrent'
  OBVIOUS
<1> USE DEF ConnectedToCurrent
<1>1. CASE Routine
  BY <1>1 DEF Routine, LoopHead, Wake, DialHead, DialHeadTold, DialOk, DialOkTo, DialFail, DialFailTo, SendAuth, SendVector, Send,
              SendPanic, netVars
<1>2. CASE RequestStop \/ Stopper
  BY <1>2 DEF RequestStop, Stopper, StopperExit, StopperMark, StopperTest, StopperClose,
              StopperPanic, routineVars, netVars
<1>3. CASE World
  BY <1>3 DEF World, MasterReads, VectorChanges, LinkDrop, ResetArrives, MasterDown, MasterUp,
              Lose, routineVars, netVars
<1>4. CASE UNCHANGED vars
  BY <1>4 DEF vars, routineVars, netVars
<1> QED
  BY <1>1, <1>2, <1>3, <1>4 DEF Next

\* The invariant holds in every reachable state.
THEOREM Invariance == Spec => []IInv
<1>1. IInv /\ [Next]_vars => IInv'
  BY TypeNext, IndexNext, SweepNext, ConnectionNext DEF IInv
<1> QED
  BY <1>1, InitInv, PTL DEF Spec

-----------------------------------------------------------------------------
\* Every variable keeps to its values.
THEOREM TypeCorrect == Spec => []TypeOK
<1>1. IInv => TypeOK
  BY DEF IInv
<1> QED
  BY <1>1, Invariance, PTL

\* A connection believed to be good leads to the current master.
THEOREM GoodConnectionIsCurrent == Spec => []ConnectedToCurrent
<1>1. IInv => ConnectedToCurrent
  BY DEF IInv
<1> QED
  BY <1>1, Invariance, PTL

\* Once a connection has been made, giving up on all masters is logged
\* exactly when all of them have been tried, however many there are.
THEOREM SweepTriesAll == Spec => []SweepIsComplete
<1>1. IInv => SweepIsComplete
  <2> SUFFICES ASSUME IInv, linked, ~warned PROVE tried # Masters
    BY DEF IInv, SweepInv, SweepIsComplete
  <2>1. tried = {m \in Masters : Distance(m) < Distance(cur)}
    BY DEF IInv, SweepInv
  <2>2. N > 0 /\ N \in Nat
    BY CountAssumption DEF IInv, IndexInv
  <2>3. cur \in Masters /\ Distance(cur) \in Int
    BY <2>2 DEF IInv, IndexInv, Distance, Masters
  <2> QED
    BY <2>1, <2>3
<1> QED
  BY <1>1, Invariance, PTL

\* The current master changes only after a dial of it that failed.
THEOREM FailureBeforeChange == Spec => ChangesOnlyAfterFailure
<1>1. [Next]_vars => [cur' # cur => cur \in tried' /\ connErr']_vars
  <2> SUFFICES ASSUME Next, cur' # cur PROVE cur \in tried' /\ connErr'
    OBVIOUS
  <2>1. DialFail
    BY DEF Next, Routine, LoopHead, Wake, DialHead, DialHeadTold, DialOk, DialOkTo, SendAuth, SendVector, Send, SendPanic,
           RequestStop, Stopper, StopperExit, StopperMark, StopperTest, StopperClose,
           StopperPanic, World, MasterReads, VectorChanges, LinkDrop, ResetArrives,
           MasterDown, MasterUp, routineVars
  <2> QED
    BY <2>1 DEF DialFail, DialFailTo
<1> QED
  BY <1>1, PTL DEF Spec, ChangesOnlyAfterFailure

-----------------------------------------------------------------------------
(***************************************************************************)
(* The arrival of the vector.                                              *)
(***************************************************************************)
\* The first thing the stopper does is to set the flag.
Waiting == stopper = "wait" => ~exit

\* The present master has the vector the client has, and nothing under way, neither
\* on the connection nor in the hands of the routine, is older.
Arrived ==
  /\ conn = "open" /\ link = "up" /\ ~connErr /\ stopper = "wait"
  /\ pc \in {"loop", "wake", "auth", "vector"}
  /\ pc \in {"auth", "vector"} => query = vect
  /\ stored[cur] = vect
  /\ \A k \in DOMAIN lines : lines[k][1] = "set" => lines[k][4] = vect

\* The routine and the sessions, left to themselves.
Undisturbed == ~stopReq' /\ vect' = vect /\ up'[cur] /\ ~LinkDrop

ArrivedStays == [][Arrived /\ Undisturbed => Arrived' /\ cur' = cur]_vars

\* Lines of one version stay so when another of it is written.
LEMMA LineAdded ==
  ASSUME NEW l \in Seq(WireLines), NEW e \in WireLines, NEW v,
         \A k \in DOMAIN l : l[k][1] = "set" => l[k][4] = v,
         e[1] = "set" => e[4] = v
  PROVE  \A k \in DOMAIN Append(l, e) : Append(l, e)[k][1] = "set" => Append(l, e)[k][4] = v
<1>1. Len(l) \in Nat /\ DOMAIN l = 1 .. Len(l)
  OBVIOUS
<1> QED
  BY <1>1

\* ... and when the first is read, which is of that version too.
LEMMA LineRead ==
  ASSUME NEW l \in Seq(WireLines), l # <<>>, NEW v,
         \A k \in DOMAIN l : l[k][1] = "set" => l[k][4] = v
  PROVE  /\ Head(l)[1] = "set" => Head(l)[4] = v
         /\ \A k \in DOMAIN Tail(l) : Tail(l)[k][1] = "set" => Tail(l)[k][4] = v
OBVIOUS

\* A step of the routine, of the network or of a master keeps what has arrived.
LEMMA StepArrived ==
  ASSUME IInv, Waiting, Next, Arrived, Undisturbed
  PROVE  Arrived' /\ cur' = cur
<1>0. /\ ~exit /\ peer = cur /\ cur \in Masters /\ lines \in Seq(WireLines)
      /\ stored \in [Masters -> Versions \cup {-1}] /\ query \in Versions
      /\ up \in [Masters -> BOOLEAN]
  <2>1. N > 0
    BY CountAssumption DEF IInv, IndexInv, Arrived, Masters
  <2> QED
    BY <2>1 DEF Arrived, Waiting, IInv, IndexInv, ConnectedToCurrent, TypeOK, WireLines
<1>1. vect' = vect /\ ~stopReq' /\ up'[cur]
  BY DEF Undisturbed
<1>2. CASE LoopHead \/ Wake
  BY <1>0, <1>1, <1>2 DEF LoopHead, Wake, Arrived, stopVars, netVars, masterVars
<1>3. CASE DialHead \/ (\E m \in Masters : DialOk(m)) \/ DialFail \/ SendPanic
  BY <1>3 DEF DialHead, DialHeadTold, DialOk, DialOkTo, DialFail, DialFailTo, SendPanic, Arrived
<1>4. CASE SendAuth \/ SendVector
  <2>1. PICK line \in WireLines, to \in {"vector", "loop"} :
          /\ line[1] = "set" => line[4] = vect
          /\ pc' = to /\ lines' = Append(lines, line) /\ (to = "vector" => query = vect)
    <3>1. AuthLine(Code) \in WireLines /\ SetVectorLine(Me, query) \in WireLines
      BY <1>0 DEF WireLines
    <3>2. AuthLine(Code)[1] # "set" /\ SetVectorLine(Me, query)[4] = query
      BY DEF AuthLine, SetVectorLine
    <3>3. ~WriteFails /\ link = "up" /\ pc \in {"auth", "vector"} /\ query = vect
      BY <1>4 DEF SendAuth, SendVector, Send, WriteFails, Arrived
    <3>4. CASE SendAuth
      <4>1. pc' = "vector" /\ lines' = Append(lines, AuthLine(Code))
        BY <3>3, <3>4 DEF SendAuth, Send, WriteDone
      <4> QED
        BY <3>1, <3>2, <3>3, <4>1
    <3>5. CASE SendVector
      <4>1. pc' = "loop" /\ lines' = Append(lines, SetVectorLine(Me, query))
        BY <3>3, <3>5 DEF SendVector, Send, WriteDone
      <4> QED
        BY <3>1, <3>2, <3>3, <4>1
    <3> QED
      BY <1>4, <3>4, <3>5
  <2>2. \A k \in DOMAIN lines' : lines'[k][1] = "set" => lines'[k][4] = vect
    <3>1. \A k \in DOMAIN lines : lines[k][1] = "set" => lines[k][4] = vect
      BY DEF Arrived
    <3> QED
      BY <1>0, <2>1, <3>1, LineAdded
  <2>3. /\ conn' = conn /\ link' = "up" /\ connErr' = connErr
        /\ UNCHANGED <<cur, query, stopper, stored>>
    BY <1>4 DEF SendAuth, SendVector, Send, WriteDone, WriteFails, Arrived, stopVars, masterVars
  <2> QED
    BY <1>1, <2>1, <2>2, <2>3 DEF Arrived
<1>5. CASE RequestStop \/ Stopper
  BY <1>1, <1>5 DEF RequestStop, Stopper, StopperExit, StopperMark, StopperTest, StopperClose,
                    StopperPanic, Arrived
<1>6. CASE MasterReads
  <2>1. /\ Head(lines)[1] = "set" => Head(lines)[4] = vect
        /\ \A k \in DOMAIN Tail(lines) : Tail(lines)[k][1] = "set" => Tail(lines)[k][4] = vect
    <3>1. lines # <<>> /\ \A k \in DOMAIN lines : lines[k][1] = "set" => lines[k][4] = vect
      BY <1>6 DEF MasterReads, Arrived
    <3> QED
      BY <1>0, <3>1, LineRead
  <2>2. lines' = Tail(lines) /\ UNCHANGED <<routineVars, connErr, conn, stopVars, link>>
    BY <1>6 DEF MasterReads
  <2>3. stored'[cur] = vect
    <3>1. CASE Head(lines)[1] = "set"
      BY <1>0, <1>6, <2>1, <3>1 DEF MasterReads
    <3>2. CASE Head(lines)[1] # "set"
      BY <1>6, <3>2 DEF MasterReads, Arrived
    <3> QED
      BY <3>1, <3>2
  <2> QED
    BY <1>1, <2>1, <2>2, <2>3 DEF Arrived, routineVars, stopVars
<1>7. ASSUME NEW m \in Masters, MasterDown(m) \/ MasterUp(m) PROVE Arrived' /\ cur' = cur
  <2>1. UNCHANGED <<routineVars, connErr, conn, stopVars>>
    BY <1>7 DEF MasterDown, MasterUp
  <2>2. link' = link /\ lines' = lines /\ stored'[cur] = stored[cur]
    <3>1. CASE MasterDown(m)
      <4>1. m # peer
        BY <1>0, <1>1, <3>1 DEF MasterDown
      <4> QED
        BY <1>0, <3>1, <4>1 DEF MasterDown, Lose, netVars
    <3>2. CASE MasterUp(m)
      BY <3>2 DEF MasterUp, netVars
    <3> QED
      BY <1>7, <3>1, <3>2
  <2> QED
    BY <1>1, <2>1, <2>2 DEF Arrived, routineVars, stopVars
<1>8. CASE VectorChanges \/ LinkDrop \/ ResetArrives
  <2>1. vect \in Int
    BY VersionAssumption DEF IInv, TypeOK, Versions
  <2>2. ~VectorChanges
    BY <1>1, <2>1 DEF VectorChanges
  <2> QED
    BY <1>8, <2>2 DEF ResetArrives, Arrived, Undisturbed
<1> QED
  BY <1>2, <1>3, <1>4, <1>5, <1>6, <1>7, <1>8 DEF Next, Routine, World

\* However the routine, the sessions and the other masters interleave, the arrival
\* of the vector is final: until the vector changes, the master ends, the link breaks
\* or the daemon stops, the master keeps it and the routine stays with that master.
\* (What older connections of the routine may still deliver there is in AtellaServer.)
THEOREM ArrivalIsFinal == Spec => ArrivedStays
<1>1. Init => Waiting
  BY DEF Init, Waiting
<1>2. Waiting /\ [Next]_vars => Waiting'
  BY DEF Waiting, vars, Next, Routine, LoopHead, Wake, DialHead, DialHeadTold, DialOk, DialOkTo, DialFail,
         DialFailTo, SendAuth, SendVector, Send, SendPanic, RequestStop, Stopper, StopperExit, StopperMark,
         StopperTest, StopperClose, StopperPanic, World, MasterReads, VectorChanges, LinkDrop, ResetArrives,
         MasterDown, MasterUp, stopVars
<1>3. IInv /\ Waiting /\ [Next]_vars => [Arrived /\ Undisturbed => Arrived' /\ cur' = cur]_vars
  BY StepArrived
<1> QED
  BY <1>1, <1>2, <1>3, Invariance, PTL DEF Spec, ArrivedStays

=============================================================================
