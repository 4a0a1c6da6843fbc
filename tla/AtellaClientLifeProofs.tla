------------------------ MODULE AtellaClientLifeProofs ------------------------
(***************************************************************************)
(* Proofs about AtellaClientLife, for any neighbours and any number of     *)
(* reloads.                                                                *)
(***************************************************************************)
EXTENDS AtellaClientLife, TLAPS

\* A routine of a neighbour that has replied, or whose stop was undone, is known
\* to its own stopper, and the routines of later generations do not exist yet.
NeighbourInv ==
  \A g \in Generations, n \in Neighbours :
    /\ channel[g][n] \in {NoChannel, g}
    /\ exit[g][n] => channel[g][n] = g
    /\ routine[g][n] \in {"deaf", "done"} => exit[g][n]
    /\ g > gen => routine[g][n] = "none" /\ channel[g][n] = NoChannel
    /\ g < gen => routine[g][n] = "done"

\* The first reply of a master routine comes from the first one; the routines
\* of later generations do not exist yet.
MasterInv ==
  /\ gen = 0 => ~masterReply
  /\ gen = 1 /\ masterReply => routine[1][Master] = "done"
  /\ gen = 2 => routine[1][Master] = "done"
  /\ \A g \in Generations : g > gen => routine[g][Master] = "none"

\* The handler goes on when it has all the replies, and has closed the channel.
HandlerInv ==
  /\ gen = 0 => handler = "init"
  /\ handler = "init" => gen <= MaxReloads /\ (gen = 0 \/ Replied)
  /\ handler = "reload" => gen <= MaxReloads

IInv == TypeOK /\ NeighbourInv /\ MasterInv /\ HandlerInv

\* Facts about the constants.
LEMMA Constants ==
  /\ MaxReloads \in Nat /\ 1 \in Generations /\ Generations \subseteq Nat
  /\ NoChannel \notin Generations /\ Master \notin Neighbours
  /\ Neighbours \subseteq Routines /\ Master \in Routines
  /\ \A g \in Generations : g >= 1 /\ g <= MaxReloads + 1
BY BoundAssumption, RoutineAssumption DEF Generations, NoChannel, Routines

\* The client starts with the invariant.
LEMMA InitInv == Init => IInv
<1> SUFFICES ASSUME Init PROVE IInv
  OBVIOUS
<1> USE Constants
<1>1. TypeOK
  BY DEF Init, TypeOK
<1>4. \A g \in Generations, r \in Routines :
        channel[g][r] = NoChannel /\ ~exit[g][r] /\ routine[g][r] = "none"
  BY DEF Init
<1>5. gen = 0 /\ ~masterReply /\ handler = "init"
  BY DEF Init
<1>6. NeighbourInv
  BY <1>4, <1>5 DEF NeighbourInv
<1>7. MasterInv /\ HandlerInv
  BY <1>4, <1>5 DEF MasterInv, HandlerInv
<1> QED
  BY <1>1, <1>6, <1>7 DEF IInv

\* A step of a routine or of its stopper.
LEMMA RoutineInv ==
  ASSUME IInv, NEW g \in Generations, NEW r \in Routines, Step(g, r)
  PROVE  IInv'
<1> USE Constants
<1>0. /\ routine \in [Generations -> [Routines -> {"none", "start", "run", "deaf", "done", "gone"}]]
      /\ channel \in [Generations -> [Routines -> Generations \cup {NoChannel}]]
      /\ exit \in [Generations -> [Routines -> BOOLEAN]]
      /\ gen \in Generations \cup {0} /\ closed \subseteq Generations /\ masterReply \in BOOLEAN
  BY DEF IInv, TypeOK
<1>1. UNCHANGED <<gen, closed, handler>>
  BY DEF Step, Begin, BeginWith, StopperBegin, StopperExit, Reply, ReplyWith, Undone, LateReply
<1>2. \A f \in Generations, q \in Routines : f # g \/ q # r =>
        /\ routine'[f][q] = routine[f][q] /\ channel'[f][q] = channel[f][q]
        /\ exit'[f][q] = exit[f][q]
  BY <1>0 DEF Step, Begin, BeginWith, StopperBegin, StopperExit, Reply, ReplyWith, Undone, LateReply
<1>3. \/ /\ routine[g][r] = "start" /\ routine'[g][r] \in {"run", "gone"}
         /\ (r # Master => routine'[g][r] = "run")
         /\ UNCHANGED <<channel, exit, masterReply>>
      \/ /\ routine[g][r] \in {"run", "done"} /\ channel[g][r] = NoChannel
         /\ channel'[g][r] = gen /\ UNCHANGED <<routine, exit, masterReply>>
      \/ /\ channel[g][r] \in closed /\ exit'[g][r] /\ UNCHANGED <<routine, channel, masterReply>>
      \/ /\ routine[g][r] = "run" /\ exit[g][r] /\ routine'[g][r] = "done"
         /\ masterReply' = (masterReply \/ r = Master) /\ UNCHANGED <<channel, exit>>
      \/ /\ r # Master /\ UNCHANGED <<channel, exit, masterReply>>
         /\ \/ routine[g][r] = "run" /\ exit[g][r] /\ routine'[g][r] = "deaf"
            \/ routine[g][r] = "deaf" /\ routine'[g][r] = "done"
  BY <1>0 DEF Step, Begin, BeginWith, StopperBegin, StopperExit, Reply, ReplyWith, Undone, LateReply
<1>4. TypeOK'
  <2>1. /\ routine' \in [Generations -> [Routines -> {"none", "start", "run", "deaf", "done", "gone"}]]
        /\ channel' \in [Generations -> [Routines -> Generations \cup {NoChannel}]]
        /\ exit' \in [Generations -> [Routines -> BOOLEAN]]
    <3>1. CASE Begin(g, r)
      <4>1. \E v \in {"run", "gone"} : routine' = [routine EXCEPT ![g][r] = v]
        BY <3>1 DEF Begin, BeginWith
      <4> QED
        BY <1>0, <3>1, <4>1 DEF Begin, BeginWith
    <3>2. CASE StopperBegin(g, r)
      BY <1>0, <3>2 DEF StopperBegin, NoChannel
    <3>3. CASE StopperExit(g, r)
      BY <1>0, <3>3 DEF StopperExit
    <3>4. CASE Reply(g, r)
      BY <1>0, <3>4 DEF Reply, ReplyWith
    <3>5. CASE Undone(g, r) \/ LateReply(g, r)
      BY <1>0, <3>5 DEF Undone, LateReply
    <3> QED
      BY <3>1, <3>2, <3>3, <3>4, <3>5 DEF Step
  <2>2. masterReply' \in BOOLEAN
    BY <1>0, <1>3
  <2> QED
    BY <1>1, <2>1, <2>2 DEF IInv, TypeOK
<1>5. NeighbourInv'
  <2> SUFFICES ASSUME NEW f \in Generations, NEW n \in Neighbours
               PROVE  /\ channel'[f][n] \in {NoChannel, f}
                      /\ exit'[f][n] => channel'[f][n] = f
                      /\ routine'[f][n] \in {"deaf", "done"} => exit'[f][n]
                      /\ f > gen => routine'[f][n] = "none" /\ channel'[f][n] = NoChannel
                      /\ f < gen => routine'[f][n] = "done"
    BY <1>1 DEF NeighbourInv
  <2>1. /\ channel[f][n] \in {NoChannel, f}
        /\ exit[f][n] => channel[f][n] = f
        /\ routine[f][n] \in {"deaf", "done"} => exit[f][n]
        /\ f > gen => routine[f][n] = "none" /\ channel[f][n] = NoChannel
        /\ f < gen => routine[f][n] = "done"
    BY DEF IInv, NeighbourInv
  <2>2. CASE f # g \/ n # r
    BY <1>2, <2>1, <2>2
  <2>3. CASE f = g /\ n = r
    <3>1. f = gen \/ f > gen \/ f < gen
      BY <1>0
    <3> QED
      BY <1>0, <1>3, <2>1, <2>3, <3>1
  <2> QED
    BY <2>2, <2>3
<1>6. MasterInv'
  <2>1. \A f \in Generations : f > gen => routine'[f][Master] = "none"
    BY <1>2, <1>3 DEF IInv, MasterInv
  <2>2. gen = 2 => routine'[1][Master] = "done"
    BY <1>2, <1>3 DEF IInv, MasterInv
  <2>3. gen = 1 /\ masterReply' => routine'[1][Master] = "done"
    <3> SUFFICES ASSUME gen = 1, masterReply' PROVE routine'[1][Master] = "done"
      OBVIOUS
    <3>1. CASE masterReply
      BY <1>2, <1>3, <3>1 DEF IInv, MasterInv
    <3>2. CASE ~masterReply
      <4>1. r = Master /\ routine[g][r] = "run" /\ routine'[g][r] = "done"
        BY <1>3, <3>2
      <4>2. g = 1
        BY <1>0, <4>1 DEF IInv, MasterInv
      <4> QED
        BY <4>1, <4>2
    <3> QED
      BY <3>1, <3>2
  <2>4. gen = 0 => ~masterReply'
    BY <1>0, <1>3 DEF IInv, MasterInv
  <2> QED
    BY <1>1, <2>1, <2>2, <2>3, <2>4 DEF MasterInv
<1>7. HandlerInv'
  <2>1. masterReply => masterReply'
    BY <1>3
  <2>2. gen # 0 => \A n \in Neighbours : routine[gen][n] = "done" => routine'[gen][n] = "done"
    BY <1>0, <1>2, <1>3
  <2> QED
    BY <1>1, <2>1, <2>2 DEF IInv, HandlerInv, Replied
<1> QED
  BY <1>4, <1>5, <1>6, <1>7 DEF IInv

\* A step of the signal handler.
LEMMA HandlerStepInv ==
  ASSUME IInv, Handler \/ Reload \/ Stop
  PROVE  IInv'
<1> USE Constants
<1>0. /\ routine \in [Generations -> [Routines -> {"none", "start", "run", "deaf", "done", "gone"}]]
      /\ gen \in Generations \cup {0}
  BY DEF IInv, TypeOK
<1>1. CASE Restart
  <2>1. gen <= MaxReloads /\ (gen = 0 \/ Replied)
    BY <1>1 DEF Restart, IInv, HandlerInv
  <2>2. /\ gen' = gen + 1 /\ handler' = "idle" /\ UNCHANGED <<closed, channel, exit, masterReply>>
        /\ routine' = [routine EXCEPT ![gen + 1] = [r \in Routines |-> "start"]]
    BY <1>1 DEF Restart
  <2>3. gen + 1 \in Generations
    BY <1>0, <2>1 DEF Generations
  <2>4. /\ \A r \in Routines : routine'[gen + 1][r] = "start"
        /\ \A g \in Generations : g # gen + 1 => routine'[g] = routine[g]
    BY <1>0, <2>2, <2>3
  <2>5. TypeOK'
    <3>1. routine' \in [Generations -> [Routines -> {"none", "start", "run", "deaf", "done", "gone"}]]
      BY <1>0, <2>2
    <3> QED
      BY <2>2, <2>3, <3>1 DEF IInv, TypeOK
  <2>6. NeighbourInv'
    <3> SUFFICES ASSUME NEW g \in Generations, NEW n \in Neighbours
                 PROVE  /\ channel[g][n] \in {NoChannel, g}
                        /\ exit[g][n] => channel[g][n] = g
                        /\ routine'[g][n] \in {"deaf", "done"} => exit[g][n]
                        /\ g > gen + 1 => routine'[g][n] = "none" /\ channel[g][n] = NoChannel
                        /\ g < gen + 1 => routine'[g][n] = "done"
      BY <2>2 DEF NeighbourInv
    <3>1. g < gen + 1 => (g = gen /\ gen # 0) \/ g < gen
      BY <1>0
    <3>2. g > gen + 1 => g > gen
      BY <1>0
    <3>3. gen # 0 => routine[gen][n] = "done"
      BY <2>1 DEF Replied
    <3>4. CASE g = gen + 1
      <4>1. routine'[g][n] = "start" /\ ~(g > gen + 1) /\ ~(g < gen + 1)
        BY <1>0, <2>4, <3>4
      <4>2. channel[g][n] \in {NoChannel, g} /\ (exit[g][n] => channel[g][n] = g)
        BY DEF IInv, NeighbourInv
      <4> QED
        BY <4>1, <4>2
    <3>5. CASE g # gen + 1
      <4>1. routine'[g][n] = routine[g][n]
        BY <2>4, <3>5
      <4> QED
        BY <1>0, <4>1, <3>1, <3>2, <3>3 DEF IInv, NeighbourInv
    <3> QED
      BY <3>4, <3>5
  <2>7. MasterInv'
    <3>0. gen \in Nat /\ (\A g \in Generations : g > gen + 1 => g > gen /\ g # gen + 1)
      BY <1>0
    <3>1. gen + 1 = 2 => routine'[1][Master] = "done"
      BY <3>0, <2>1, <2>4 DEF IInv, MasterInv, Replied
    <3>2. \A g \in Generations : g > gen + 1 => routine'[g][Master] = "none"
      BY <3>0, <2>4 DEF IInv, MasterInv
    <3>3. gen + 1 # 0 /\ (gen + 1 = 1 => ~masterReply)
      BY <3>0 DEF IInv, MasterInv
    <3> QED
      BY <2>2, <3>1, <3>2, <3>3 DEF MasterInv
  <2>8. gen + 1 # 0
    BY <1>0
  <2> QED
    BY <2>2, <2>5, <2>6, <2>7, <2>8 DEF IInv, HandlerInv
<1>2. CASE Confirm \/ Stopped \/ Reload \/ Stop
  <2>1. UNCHANGED <<gen, routine, channel, exit, masterReply>>
    BY <1>2 DEF Confirm, ConfirmWhen, Stopped, Reload, Stop
  <2>2. TypeOK'
    <3>1. closed' \subseteq Generations
      <4>1. closed' = closed \/ (gen # 0 /\ closed' = closed \cup {gen})
        BY <1>2 DEF Confirm, ConfirmWhen, Stopped, Reload, Stop, IInv, HandlerInv
      <4> QED
        BY <1>0, <4>1 DEF IInv, TypeOK
    <3>2. handler' \in {"idle", "reload", "init", "stop", "stopped"}
      BY <1>2 DEF Confirm, ConfirmWhen, Stopped, Reload, Stop
    <3> QED
      BY <2>1, <3>1, <3>2 DEF IInv, TypeOK
  <2>3. NeighbourInv' /\ MasterInv'
    BY <2>1 DEF IInv, NeighbourInv, MasterInv
  <2>4. HandlerInv'
    BY <1>2, <2>1 DEF Confirm, ConfirmWhen, Stopped, Reload, Stop, IInv, HandlerInv, Replied
  <2> QED
    BY <2>2, <2>3, <2>4 DEF IInv
<1> QED
  BY <1>1, <1>2 DEF Handler

\* The invariant holds in every behaviour.
THEOREM Invariance == Spec => []IInv
<1>1. IInv /\ [Next]_vars => IInv'
  <2> SUFFICES ASSUME IInv, [Next]_vars PROVE IInv'
    OBVIOUS
  <2>1. CASE Next
    BY <2>1, RoutineInv, HandlerStepInv DEF Next
  <2>2. CASE UNCHANGED vars
    BY <2>2 DEF vars, IInv, TypeOK, NeighbourInv, MasterInv, HandlerInv, Replied
  <2> QED
    BY <2>1, <2>2
<1> QED
  BY <1>1, InitInv, PTL DEF Spec

\* Every variable keeps to its values.
THEOREM TypeCorrect == Spec => []TypeOK
<1>1. IInv => TypeOK
  BY DEF IInv
<1> QED
  BY <1>1, Invariance, PTL

\* However many reloads there are, none leaves a routine of an old neighbour
\* behind, and the first never starts a master routine beside the old one.
THEOREM OldRoutinesReplaced == Spec => []RoutinesReplaced
<1>1. IInv => RoutinesReplaced
  <2> SUFFICES ASSUME IInv, NEW g \in Generations, NEW r \in Routines, Alive(g, r)
               PROVE  g = gen \/ (r = Master /\ gen > 2)
    BY DEF RoutinesReplaced
  <2>0. gen \in Nat /\ g \in Nat /\ g >= 1
    BY Constants DEF IInv, TypeOK
  <2>1. CASE r \in Neighbours
    <3>1. ~(g > gen) /\ ~(g < gen)
      BY <2>1 DEF Alive, IInv, NeighbourInv
    <3> QED
      BY <2>0, <3>1
  <2>2. CASE r = Master
    <3>1. ~(g > gen)
      BY <2>2 DEF Alive, IInv, MasterInv
    <3>2. gen = 2 => g # 1
      BY <2>2 DEF Alive, IInv, MasterInv
    <3> QED
      BY <2>0, <2>2, <3>1, <3>2
  <2> QED
    BY <2>1, <2>2 DEF Routines
<1> QED
  BY <1>1, Invariance, PTL

\* However many reloads there are and however late the stoppers are started,
\* that of a neighbour's routine waits for the channel of its own generation.
THEOREM StoppersOnOwnChannel == Spec => []OwnChannel
<1>1. IInv => OwnChannel
  BY DEF IInv, NeighbourInv, OwnChannel
<1> QED
  BY <1>1, Invariance, PTL

-----------------------------------------------------------------------------
(***************************************************************************)
(* What Reload and Stop wait for.                                          *)
(***************************************************************************)
\* The present generation is there, its stoppers wait on its channel, and only a
\* master routine returns without a reply.
ReplyInv ==
  /\ handler \in {"reload", "stop"} => gen \in closed
  /\ \A g \in Generations : routine[g][Master] = "done" => masterReply
  /\ \A g \in Generations : g > gen => channel[g][Master] = NoChannel
  /\ gen > 0 =>
       /\ channel[gen][Master] \in {NoChannel, gen}
       /\ routine[gen][Master] # "deaf"
       /\ \A r \in Routines : routine[gen][r] # "none" /\ (routine[gen][r] = "gone" => r = Master)

\* Every step keeps what is waited for able to reply.
LEMMA StepReply == IInv /\ ReplyInv /\ [Next]_vars => ReplyInv'
<1> SUFFICES ASSUME IInv, ReplyInv, [Next]_vars PROVE ReplyInv'
  OBVIOUS
<1>0. /\ routine \in [Generations -> [Routines -> {"none", "start", "run", "deaf", "done", "gone"}]]
      /\ channel \in [Generations -> [Routines -> Generations \cup {NoChannel}]]
      /\ gen \in Generations \cup {0} /\ gen \in Nat /\ Master \in Routines /\ Generations \subseteq Nat
  BY Constants DEF IInv, TypeOK
<1>1. CASE UNCHANGED vars
  BY <1>1 DEF vars, ReplyInv
<1>2. ASSUME NEW g \in Generations, NEW r \in Routines, Step(g, r) PROVE ReplyInv'
  <2>1. UNCHANGED <<gen, closed, handler>>
    BY <1>2 DEF Step, Begin, BeginWith, StopperBegin, StopperExit, Reply, ReplyWith, Undone, LateReply
  <2>2. \A f \in Generations, q \in Routines : f # g \/ q # r =>
          routine'[f][q] = routine[f][q] /\ channel'[f][q] = channel[f][q]
    BY <1>0, <1>2 DEF Step, Begin, BeginWith, StopperBegin, StopperExit, Reply, ReplyWith, Undone, LateReply
  <2>3. \/ /\ routine[g][r] = "start" /\ UNCHANGED channel
           /\ routine'[g][r] \in {"run", "gone"}
           /\ routine'[g][r] = "gone" => r = Master
        \/ /\ routine[g][r] \in {"run", "done"} /\ channel'[g][r] = gen /\ UNCHANGED routine
        \/ UNCHANGED <<routine, channel>>
        \/ /\ routine'[g][r] = "done" /\ (r = Master => masterReply') /\ UNCHANGED channel
        \/ /\ routine'[g][r] = "deaf" /\ r # Master /\ UNCHANGED channel
    BY <1>0, <1>2 DEF Step, Begin, BeginWith, StopperBegin, StopperExit, Reply, ReplyWith, Undone, LateReply
  <2>4. masterReply => masterReply'
    BY <1>2 DEF Step, Begin, BeginWith, StopperBegin, StopperExit, Reply, ReplyWith, Undone, LateReply
  <2>5. \A f \in Generations : routine'[f][Master] = "done" => masterReply'
    <3> SUFFICES ASSUME NEW f \in Generations, routine'[f][Master] = "done" PROVE masterReply'
      OBVIOUS
    <3>1. routine[f][Master] = "done" => masterReply
      BY DEF ReplyInv
    <3>2. CASE f = g /\ r = Master
      BY <2>3, <2>4, <3>1, <3>2
    <3>3. CASE f # g \/ r # Master
      BY <1>0, <2>2, <2>4, <3>1, <3>3
    <3> QED
      BY <3>2, <3>3
  <2>6. \A f \in Generations : f > gen => channel'[f][Master] = NoChannel
    <3> SUFFICES ASSUME NEW f \in Generations, f > gen PROVE channel'[f][Master] = NoChannel
      OBVIOUS
    <3>1. channel[f][Master] = NoChannel /\ routine[f][Master] = "none"
      BY DEF ReplyInv, IInv, MasterInv
    <3>2. CASE f = g /\ r = Master
      BY <2>3, <3>1, <3>2
    <3>3. CASE f # g \/ r # Master
      BY <1>0, <2>2, <3>1, <3>3
    <3> QED
      BY <3>2, <3>3
  <2>7. ASSUME gen > 0
        PROVE  /\ channel'[gen][Master] \in {NoChannel, gen} /\ routine'[gen][Master] # "deaf"
               /\ \A q \in Routines : routine'[gen][q] # "none"
                                      /\ (routine'[gen][q] = "gone" => q = Master)
    <3>1. /\ gen \in Generations /\ channel[gen][Master] \in {NoChannel, gen}
          /\ routine[gen][Master] # "deaf"
          /\ \A q \in Routines : routine[gen][q] # "none" /\ (routine[gen][q] = "gone" => q = Master)
      BY <1>0, <2>7 DEF ReplyInv
    <3> QED
      BY <1>0, <2>2, <2>3, <3>1
  <2> QED
    BY <2>1, <2>5, <2>6, <2>7 DEF ReplyInv
<1>3. CASE Restart
  <2>1. /\ gen' = gen + 1 /\ gen + 1 \in Generations /\ handler' = "idle"
        /\ routine' = [routine EXCEPT ![gen + 1] = [r \in Routines |-> "start"]]
        /\ UNCHANGED <<channel, masterReply>>
    BY <1>0, <1>3, Constants DEF Restart, IInv, HandlerInv, Generations
  <2>2. /\ \A r \in Routines : routine'[gen + 1][r] = "start"
        /\ \A g \in Generations : g # gen + 1 => routine'[g] = routine[g]
    BY <1>0, <2>1
  <2>3. gen + 1 > gen /\ \A g \in Generations : g > gen + 1 => g > gen
    BY <1>0
  <2>4. channel[gen + 1][Master] = NoChannel
    BY <2>1, <2>3 DEF ReplyInv
  <2>5. \A g \in Generations : routine'[g][Master] = "done" => masterReply'
    BY <1>0, <2>1, <2>2 DEF ReplyInv
  <2>6. \A g \in Generations : g > gen' => channel'[g][Master] = NoChannel
    BY <2>1, <2>3 DEF ReplyInv
  <2> QED
    BY <1>0, <2>1, <2>2, <2>4, <2>5, <2>6 DEF ReplyInv
<1>4. CASE Confirm \/ Stopped \/ Reload \/ Stop
  <2>1. /\ UNCHANGED <<gen, routine, channel, masterReply>>
        /\ closed' \in {closed, closed \cup {gen}}
        /\ handler' \in {"reload", "stop"} => gen \in closed'
    BY <1>4 DEF Confirm, ConfirmWhen, Stopped, Reload, Stop
  <2> QED
    BY <2>1 DEF ReplyInv
<1> QED
  BY <1>1, <1>2, <1>3, <1>4 DEF Next, Handler

\* However many reloads there are, Reload and Stop wait only for routines that run
\* and whose channel is closed, for a master routine that returned without a reply,
\* or for a neighbour's routine whose stop was undone by its dial.
THEOREM RepliesCanCome == Spec => []CanReply
<1>1. Init => ReplyInv
  <2> SUFFICES ASSUME Init PROVE ReplyInv
    OBVIOUS
  <2>1. Master \in Routines
    BY Constants
  <2> QED
    BY <2>1 DEF Init, ReplyInv
<1>2. IInv /\ ReplyInv => CanReply
  <2> SUFFICES ASSUME IInv, ReplyInv, handler \in {"reload", "stop"}, NEW r \in Routines, Awaited(r)
               PROVE  /\ gen \in closed /\ channel[gen][r] \in {NoChannel, gen}
                      /\ routine[gen][r] \in {"start", "run"} \/ Deaf(r) \/ Missing(r)
    BY DEF CanReply
  <2>1. gen \in closed /\ gen \in Generations /\ gen > 0
    BY Constants DEF ReplyInv, IInv, HandlerInv, TypeOK
  <2>2. routine[gen][r] \in {"none", "start", "run", "deaf", "done", "gone"}
    BY <2>1 DEF IInv, TypeOK
  <2>3. routine[gen][r] # "none" /\ (routine[gen][r] = "gone" => r = Master)
    BY <2>1 DEF ReplyInv
  <2>4. CASE r = Master
    <3>1. routine[gen][r] # "deaf" /\ routine[gen][r] # "done" /\ channel[gen][r] \in {NoChannel, gen}
      BY <2>1, <2>4 DEF Awaited, ReplyInv
    <3> QED
      BY <2>1, <2>2, <2>3, <2>4, <3>1 DEF Missing
  <2>5. CASE r # Master
    <3>1. channel[gen][r] \in {NoChannel, gen}
      BY <2>1, <2>5 DEF IInv, NeighbourInv, Routines
    <3> QED
      BY <2>1, <2>2, <2>3, <2>5, <3>1 DEF Awaited, Deaf
  <2> QED
    BY <2>4, <2>5
<1> QED
  BY <1>1, <1>2, StepReply, Invariance, PTL DEF Spec

=============================================================================
