------------------------- MODULE AtellaNeighbourProofs -------------------------
(***************************************************************************)
(* Proofs about AtellaNeighbour, for all names, codes, limits and faults.  *)
(***************************************************************************)
EXTENDS AtellaNeighbour, TLAPS

AckAuth     == <<Ok, "ack", "auth">>
Refusal     == <<Err, "auth">>
AckHostname == <<Ok, "ack", "hostname", Peer>>
AckHost     == <<Ok, "ack", "host", Me>>

Idle           == outbox = <<>> /\ inbox = <<>>
Asks(line)     == outbox = <<line>> /\ inbox = <<>> /\ link = "up"
Answered(line) == outbox = <<>> /\ inbox = <<line>>

(***************************************************************************)
(* Where the exchange stands, from the acks that were processed: which     *)
(* line may be under way, and that nothing is only at the ends of the      *)
(* exchange or on a connection that is lost.                               *)
(***************************************************************************)
Turn ==
  \/ acked = {} /\ (Idle \/ Asks(AuthLine(Code)) \/ Answered(AckAuth) \/ Answered(Refusal))
  \/ acked = {"auth"} /\
       ((Idle /\ link # "up") \/ Asks(GetHostnameLine) \/ Answered(AckHostname))
  \/ acked = {"auth", "hostname"} /\
       ((Idle /\ link # "up") \/ Asks(SetHostLine(Me)) \/ Answered(AckHost))
  \/ acked = Exchange /\ Idle

(***************************************************************************)
(* Between two exchanges nothing is under way, and a connection believed   *)
(* to be good has carried nothing yet.                                     *)
(***************************************************************************)
ExchangeInv ==
  /\ pc = "read" => Turn /\ conn # "nil"
  /\ pc # "read" => Idle
  /\ pc = "auth" => acked = {} /\ conn # "nil"
  /\ ~connErr => conn # "nil"
  /\ pc = "check" /\ ~connErr => acked = {}
  /\ conn = "closed" => link = "none" /\ Idle

(***************************************************************************)
(* The verdict kept by the routine never exceeds the one it published, and *)
(* both go with the name of the neighbour.                                 *)
(***************************************************************************)
VerdictInv ==
  /\ pc = "read" /\ "hostname" \in acked => hostname = Peer
  /\ status => slot.status /\ hostname = Peer
  /\ slot.status => slot.hostname = Peer

IInv == TypeOK /\ ExchangeInv /\ VerdictInv

-----------------------------------------------------------------------------
(***************************************************************************)
(* What the neighbour answers to each request of the exchange.             *)
(***************************************************************************)
LEMMA AuthAnswer ==
  ASSUME NEW c
  PROVE  Reply(c, Peer, AuthLine(Code)) \in {AckAuth, Refusal}
BY DEF Reply, AuthLine, AuthReply, AckAuth, Refusal, Ok, Err

LEMMA HostnameAnswer ==
  ASSUME NEW c
  PROVE  Reply(c, Peer, GetHostnameLine) = AckHostname
BY DEF Reply, GetHostnameLine, GetReply, AckHostname, Ok

LEMMA HostAnswer ==
  ASSUME NEW c
  PROVE  Reply(c, Peer, SetHostLine(Me)) = AckHost
BY DEF Reply, SetHostLine, SetHostReply, AckHost, Ok

\* Sequences of at most one element.
LEMMA ShortSeq ==
  ASSUME NEW S, NEW x \in S
  PROVE  <<x>> \in Seq(S) /\ <<>> \in Seq(S)
OBVIOUS

\* The count of empty lines may start over.
LEMMA ZeroCount == 0 \in 0 .. EmptyLimit + 1
BY LimitAssumption

-----------------------------------------------------------------------------
\* The invariant holds of a routine Run has just started.
LEMMA InitInv == Init => IInv
<1> SUFFICES ASSUME Init PROVE IInv
  OBVIOUS
<1>1. <<>> \in Seq(RequestLines) /\ <<>> \in Seq(ReplyLines)
  OBVIOUS
<1>2. slot \in Slots
  BY DEF Init, Slots
<1>3. TypeOK
  BY <1>1, <1>2, ZeroCount DEF Init, TypeOK
<1>4. ExchangeInv /\ VerdictInv
  BY DEF Init, ExchangeInv, VerdictInv, Idle
<1> QED
  BY <1>3, <1>4 DEF IInv

\* What a lost connection leaves: the lines on their way to the neighbour are
\* gone, and a reply may be.
Lost ==
  /\ outbox' = <<>> /\ inbox' \in {inbox, <<>>}
  /\ IF link = "up" THEN link' \in {"eof", "dead", "reset"}
                    ELSE link' = link /\ inbox' = inbox

\* Losing the connection leaves the exchange where it stands.
LEMMA LossKeepsTurn ==
  ASSUME Lost, acked' = acked, TypeOK
  PROVE  /\ Turn => Turn'
         /\ Idle => Idle'
         /\ inbox' \in Seq(ReplyLines) /\ outbox' \in Seq(RequestLines)
         /\ link' \in {"none", "up", "eof", "dead", "reset"}
         /\ link = "none" => link' = "none"
<1>1. <<>> \in Seq(RequestLines) /\ <<>> \in Seq(ReplyLines)
  OBVIOUS
<1> QED
  BY <1>1 DEF Lost, Turn, Idle, Asks, Answered, TypeOK

\* Every step of the routine, its stopper, the neighbour and the network
\* preserves the invariant.
LEMMA NextInv == IInv /\ [Next]_vars => IInv'
<1> SUFFICES ASSUME IInv, [Next]_vars PROVE IInv'
  OBVIOUS
<1> USE LimitAssumption, ZeroCount DEF IInv, TypeOK, ExchangeInv, VerdictInv, routineVars, stopVars, netVars,
        peerVars
<1>1. CASE Check
  BY <1>1 DEF Check, CheckTold, Idle, Turn
<1>2. CASE DialOk
  BY <1>2 DEF DialOk, DialOkLeaving, Idle
<1>3. CASE DialFail
  BY <1>3 DEF DialFail, Idle
<1>4. CASE SendAuth
  <2>1. outbox = <<>> /\ inbox = <<>> /\ acked = {} /\ conn # "nil"
    BY <1>4 DEF SendAuth, Idle
  <2>2. outbox' \in {<<>>, <<AuthLine(Code)>>} /\ (outbox' # <<>> => link = "up")
    BY <1>4, <2>1 DEF SendAuth, Sent
  <2>3. outbox' \in Seq(RequestLines)
    BY <2>2, ShortSeq DEF RequestLines
  <2> QED
    BY <1>4, <2>1, <2>2, <2>3 DEF SendAuth, Idle, Turn, Asks
<1>5. CASE SendAuthFails
  BY <1>5 DEF SendAuthFails, Idle
<1>6. CASE ReadAckAuth
  <2>1. acked = {} /\ outbox = <<>> /\ inbox' = <<>> /\ conn = "open" /\ pc = "read"
    BY <1>6 DEF ReadAckAuth, Receive, IsAck, Line, Turn, Idle, Asks, Answered,
                AckHostname, AckHost, Ok, Err, Refusal, Exchange
  <2>2. CASE SendNext(GetHostnameLine)
    <3>1. \/ outbox' = <<GetHostnameLine>> /\ link = "up"
          \/ outbox' = <<>> /\ link # "up"
      BY <2>1, <2>2 DEF SendNext, SendNextAs, Sent
    <3>2. outbox' \in Seq(RequestLines)
      BY <3>1, ShortSeq DEF RequestLines
    <3> QED
      BY <1>6, <2>1, <2>2, <3>1, <3>2
         DEF ReadAckAuth, Receive, SendNext, SendNextAs, Turn, Idle, Asks, Exchange
  <2>3. CASE SendNextFails(hostname)
    <3>1. slot' = [status |-> FALSE, hostname |-> hostname] /\ slot' \in Slots
      BY <2>3 DEF SendNextFails, Finish, Slots
    <3>2. TypeOK'
      <4>1. /\ acked' \subseteq Exchange /\ hostname' \in {Unknown, Peer}
            /\ <<>> \in Seq(ReplyLines) /\ <<>> \in Seq(RequestLines)
        BY <1>6, <2>1 DEF ReadAckAuth, Exchange
      <4>2. pc' = "check" /\ connErr' = TRUE /\ status' = FALSE /\ outbox' = outbox
        BY <2>3 DEF SendNextFails, Finish
      <4> QED
        BY <1>6, <2>1, <3>1, <4>1, <4>2 DEF ReadAckAuth, Receive
    <3>3. ExchangeInv'
      BY <1>6, <2>1, <2>3 DEF ReadAckAuth, Receive, SendNextFails, Finish, Idle
    <3>4. VerdictInv'
      BY <1>6, <2>1, <2>3, <3>1 DEF ReadAckAuth, Receive, SendNextFails, Finish
    <3> QED
      BY <3>2, <3>3, <3>4
  <2> QED
    BY <1>6, <2>2, <2>3 DEF ReadAckAuth
<1>7. CASE ReadAckHostname
  <2>1. /\ acked = {"auth"} /\ outbox = <<>> /\ inbox' = <<>>
        /\ conn = "open" /\ pc = "read" /\ Line[4] = Peer
    BY <1>7 DEF ReadAckHostname, Receive, IsAck, Line, Turn, Idle, Asks, Answered,
                AckAuth, AckHostname, AckHost, Ok, Err, Refusal, Exchange
  <2>2. CASE SendNext(SetHostLine(Me))
    <3>1. \/ outbox' = <<SetHostLine(Me)>> /\ link = "up"
          \/ outbox' = <<>> /\ link # "up"
      BY <2>1, <2>2 DEF SendNext, SendNextAs, Sent
    <3>2. outbox' \in Seq(RequestLines)
      BY <3>1, ShortSeq DEF RequestLines
    <3> QED
      BY <1>7, <2>1, <2>2, <3>1, <3>2
         DEF ReadAckHostname, Receive, SendNext, SendNextAs, Turn, Idle, Asks, Exchange
  <2>3. CASE SendNextFails(Line[4])
    <3>1. slot' = [status |-> FALSE, hostname |-> Peer] /\ slot' \in Slots
      BY <2>1, <2>3 DEF SendNextFails, Finish, Slots
    <3>2. TypeOK'
      <4>1. /\ acked' \subseteq Exchange /\ hostname' \in {Unknown, Peer}
            /\ <<>> \in Seq(ReplyLines) /\ <<>> \in Seq(RequestLines)
        BY <1>7, <2>1 DEF ReadAckHostname, Exchange
      <4>2. pc' = "check" /\ connErr' = TRUE /\ status' = FALSE /\ outbox' = outbox
        BY <2>3 DEF SendNextFails, Finish
      <4> QED
        BY <1>7, <2>1, <3>1, <4>1, <4>2 DEF ReadAckHostname, Receive
    <3>3. ExchangeInv'
      BY <1>7, <2>1, <2>3 DEF ReadAckHostname, Receive, SendNextFails, Finish, Idle
    <3>4. VerdictInv'
      BY <1>7, <2>1, <2>3, <3>1 DEF ReadAckHostname, Receive, SendNextFails, Finish
    <3> QED
      BY <3>2, <3>3, <3>4
  <2> QED
    BY <1>7, <2>2, <2>3 DEF ReadAckHostname
<1>8. CASE ReadAckHost
  <2>1. /\ acked = {"auth", "hostname"} /\ outbox = <<>> /\ inbox' = <<>>
        /\ conn = "open" /\ pc = "read" /\ Line[4] = Me
    BY <1>8 DEF ReadAckHost, Receive, IsAck, Line, Turn, Idle, Asks, Answered,
                AckAuth, AckHostname, AckHost, Ok, Err, Refusal, Exchange
  <2> QED
    BY <1>8, <2>1 DEF ReadAckHost, Receive, Slots, Turn, Idle, Exchange
<1>9. CASE ReadRefusal
  <2>1. acked = {} /\ outbox = <<>> /\ inbox' = <<>> /\ conn = "open" /\ pc = "read"
    BY <1>9 DEF ReadRefusal, Receive, Line, Turn, Idle, Asks, Answered,
                AckAuth, AckHostname, AckHost, Ok
  <2> QED
    BY <1>9, <2>1 DEF ReadRefusal, Receive, Turn, Idle
<1>10. CASE ReadEmpty
  BY <1>10 DEF ReadEmpty, ReadEmptyCounting, Turn, Idle, Asks, Answered
<1>11. CASE ForceClose
  <2>1. outbox = <<>> /\ inbox = <<>>
    BY <1>11 DEF ForceClose, Turn, Idle, Asks, Answered
  <2> QED
    BY <1>11, <2>1 DEF ForceClose, Finish, Slots, Idle
<1>12. CASE ReadError
  <2>1. outbox = <<>> /\ inbox = <<>>
    BY <1>12 DEF ReadError, Turn, Idle, Asks, Answered
  <2> QED
    BY <1>12, <2>1 DEF ReadError, Finish, Slots, Idle
<1>13. CASE RequestStop
  BY <1>13 DEF RequestStop, Turn, Idle, Asks, Answered
<1>14. CASE StopperExit
  BY <1>14 DEF StopperExit, Turn, Idle, Asks, Answered
<1>15. CASE StopperMark
  BY <1>15 DEF StopperMark, Turn, Idle, Asks, Answered
<1>16. CASE StopperTest
  BY <1>16 DEF StopperTest, Turn, Idle, Asks, Answered
<1>17. CASE StopperClose
  BY <1>17 DEF StopperClose, Turn, Idle, Asks, Answered
<1>18. CASE StopperPanic
  BY <1>18 DEF StopperPanic, Turn, Idle
<1>19. CASE PeerReply
  <2>1. /\ outbox # <<>> /\ inbox = <<>> /\ outbox' = <<>> /\ pc = "read"
        /\ inbox' = <<Reply(peerCode, Peer, Head(outbox))>>
        /\ Head(outbox) \in RequestLines
    <3>1. PICK line \in RequestLines : outbox = <<line>> /\ inbox = <<>> /\ pc = "read"
      BY <1>19 DEF PeerReply, Turn, Idle, Asks, Answered, RequestLines
    <3>2. Head(outbox) = line /\ Tail(outbox) = <<>>
      BY <3>1
    <3> QED
      BY <1>19, <3>1, <3>2 DEF PeerReply
  <2>2. inbox' \in Seq(ReplyLines)
    <3>1. Reply(peerCode, Peer, Head(outbox)) \in ReplyLines
      BY <2>1 DEF ReplyLines
    <3> QED
      BY <2>1, <3>1, ShortSeq
  <2>3. Turn'
    <3>1. CASE acked = {} /\ Asks(AuthLine(Code))
      BY <1>19, <2>1, <3>1, AuthAnswer DEF PeerReply, Turn, Asks, Answered
    <3>2. CASE acked = {"auth"} /\ Asks(GetHostnameLine)
      BY <1>19, <2>1, <3>2, HostnameAnswer DEF PeerReply, Turn, Asks, Answered
    <3>3. CASE acked = {"auth", "hostname"} /\ Asks(SetHostLine(Me))
      BY <1>19, <2>1, <3>3, HostAnswer DEF PeerReply, Turn, Asks, Answered
    <3> QED
      BY <2>1, <3>1, <3>2, <3>3 DEF Turn, Idle, Asks, Answered
  <2> QED
    BY <1>19, <2>1, <2>2, <2>3 DEF PeerReply
<1>20. CASE PeerStart
  BY <1>20 DEF PeerStart, Turn, Idle, Asks, Answered
<1>21. CASE PeerExit
  <2>1. PICK how \in {"eof", "reset"} : Lose(how)
    BY <1>21 DEF PeerExit
  <2>2. Lost
    BY <2>1 DEF Lose, Lost
  <2>3. TypeOK'
    BY <1>21, <2>2, LossKeepsTurn DEF PeerExit
  <2>4. ExchangeInv'
    BY <1>21, <2>2, LossKeepsTurn DEF PeerExit, Idle
  <2>5. VerdictInv'
    BY <1>21 DEF PeerExit
  <2> QED
    BY <2>3, <2>4, <2>5
<1>22. CASE PeerVanish
  <2>1. Lost
    BY <1>22 DEF PeerVanish, Lose, Lost
  <2>3. TypeOK'
    BY <1>22, <2>1, LossKeepsTurn DEF PeerVanish
  <2>4. ExchangeInv'
    BY <1>22, <2>1, LossKeepsTurn DEF PeerVanish, Idle
  <2>5. VerdictInv'
    BY <1>22 DEF PeerVanish
  <2> QED
    BY <2>3, <2>4, <2>5
<1>23. CASE Keepalive
  BY <1>23 DEF Keepalive, Turn, Idle, Asks, Answered
<1>24. CASE LinkDrop
  <2>1. Lost
    BY <1>24 DEF LinkDrop, Lose, Lost
  <2> QED
    BY <1>24, <2>1, LossKeepsTurn DEF LinkDrop, Idle
<1>25. CASE PeerReconfigure
  BY <1>25 DEF PeerReconfigure, Turn, Idle, Asks, Answered
<1>26. CASE UNCHANGED vars
  BY <1>26 DEF vars, Turn, Idle, Asks, Answered
<1> QED
  BY <1>1, <1>2, <1>3, <1>4, <1>5, <1>6, <1>7, <1>8, <1>9, <1>10, <1>11, <1>12,
     <1>13, <1>14, <1>15, <1>16, <1>17, <1>18, <1>19, <1>20, <1>21, <1>22,
     <1>23, <1>24, <1>25, <1>26
     DEF Next, Routine, Dial, Auth, Read, Stopper, PeerStep, Network

\* The invariant holds in every reachable state.
THEOREM Invariance == Spec => []IInv
BY InitInv, NextInv, PTL DEF Spec

-----------------------------------------------------------------------------
\* Every variable keeps to its values.
THEOREM TypeCorrect == Spec => []TypeOK
<1>1. IInv => TypeOK
  BY DEF IInv
<1> QED
  BY <1>1, Invariance, PTL

\* At most one line is under way between the two daemons.
THEOREM OneLineUnderWay == Spec => []StopAndWait
<1>1. IInv => StopAndWait
  <2> SUFFICES ASSUME IInv PROVE StopAndWait
    OBVIOUS
  <2>1. Idle \/ (\E l : outbox = <<l>> /\ inbox = <<>>) \/ (\E l : outbox = <<>> /\ inbox = <<l>>)
    BY DEF IInv, ExchangeInv, Turn, Idle, Asks, Answered
  <2>2. Len(<<>>) = 0 /\ \A l : Len(<<l>>) = 1
    OBVIOUS
  <2>3. CASE Idle
    BY <2>2, <2>3 DEF StopAndWait, Idle
  <2>4. CASE \E l : outbox = <<l>> /\ inbox = <<>>
    BY <2>2, <2>4 DEF StopAndWait
  <2>5. CASE \E l : outbox = <<>> /\ inbox = <<l>>
    BY <2>2, <2>5 DEF StopAndWait
  <2> QED
    BY <2>1, <2>3, <2>4, <2>5
<1> QED
  BY <1>1, Invariance, PTL

\* A slot that says "up" holds the name the neighbour gave of itself.
THEOREM UpIsNamed == Spec => []UpHasName
<1>1. IInv => UpHasName
  BY DEF IInv, VerdictInv, UpHasName
<1> QED
  BY <1>1, Invariance, PTL

\* On a live connection the exchange stands still only before its first ack
\* or after its last.
THEOREM NoStallHalfWay == Spec => []ExchangeNeverStalls
<1>1. IInv => ExchangeNeverStalls
  BY DEF IInv, ExchangeInv, Turn, Idle, Asks, Answered, ExchangeNeverStalls
<1> QED
  BY <1>1, Invariance, PTL

\* Whatever the faults, a slot goes from "down" to "up" only by a whole exchange on
\* the present connection: an old status kept across a reconnection never brings a
\* refused or half-asked neighbour up.
RaisedByExchange == [][~slot.status /\ slot'.status => acked' = Exchange]_vars

\* Whatever the faults, only a whole exchange on the present connection
\* brings a slot from "down" to "up".
THEOREM OnlyExchangeRaises == Spec => RaisedByExchange
<1>1. IInv /\ [Next]_vars => [~slot.status /\ slot'.status => acked' = Exchange]_vars
  <2> SUFFICES ASSUME IInv, Next, ~slot.status, slot'.status
               PROVE  acked' = Exchange
    OBVIOUS
  <2>1. ~status
    BY DEF IInv, VerdictInv
  <2>2. CASE ReadAckHost
    <3>1. acked = {"auth", "hostname"}
      BY <2>2 DEF IInv, ExchangeInv, ReadAckHost, Receive, IsAck, Line, Turn, Idle, Asks, Answered,
                  AckAuth, AckHostname, AckHost, Ok, Err, Refusal
    <3> QED
      BY <2>2, <3>1 DEF ReadAckHost, Exchange
  <2>3. CASE ForceClose
    BY <2>1, <2>3 DEF ForceClose, Finish
  <2>4. CASE ReadAckAuth \/ ReadAckHostname \/ ReadError
    BY <2>4 DEF ReadAckAuth, ReadAckHostname, ReadError, SendNext, SendNextAs, SendNextFails, Finish
  <2>5. CASE ReadRefusal \/ ReadEmpty \/ Check \/ Dial \/ Auth \/ RequestStop
               \/ Stopper \/ PeerStep \/ Network
    BY <2>5 DEF ReadRefusal, ReadEmpty, ReadEmptyCounting, Check, CheckTold, Dial, DialOk, DialOkLeaving, DialFail, Auth, SendAuth,
                SendAuthFails, RequestStop, Stopper, StopperExit, StopperMark, StopperTest,
                StopperClose, StopperPanic, PeerStep, PeerReply, PeerStart, PeerExit,
                PeerVanish, PeerReconfigure, Network, Keepalive, LinkDrop, routineVars
  <2> QED
    BY <2>2, <2>3, <2>4, <2>5 DEF Next, Routine, Read
<1> QED
  BY <1>1, Invariance, PTL DEF Spec, RaisedByExchange

\* If the neighbour never closes a connection in an orderly way, a slot says
\* "up" only on the connection that carried the whole exchange.
THEOREM UpOnlyOnLiveExchange == Spec => UpIsCurrent
<1>1. Init => UpMeansHandshake
  BY DEF Init, UpMeansHandshake
<1>2. IInv /\ NoOrderlyClose /\ UpMeansHandshake /\ [Next]_vars => UpMeansHandshake'
  <2> SUFFICES ASSUME IInv, link # "eof", slot.status => pc = "read" /\ acked = Exchange,
                      [Next]_vars
               PROVE  slot'.status => pc' = "read" /\ acked' = Exchange
    BY DEF NoOrderlyClose, UpMeansHandshake
  <2>1. CASE Check \/ Dial \/ Auth
    BY <2>1 DEF Check, CheckTold, Dial, DialOk, DialOkLeaving, DialFail, Auth, SendAuth, SendAuthFails, netVars
  <2>2. CASE ReadAckAuth \/ ReadAckHostname \/ ReadRefusal
    <3>1. acked # Exchange
      <4>1. "host" \in acked => Idle \/ pc # "read"
        BY DEF IInv, ExchangeInv, Turn
      <4>2. "host" \notin acked
        BY <2>2, <4>1 DEF ReadAckAuth, ReadAckHostname, ReadRefusal, Receive, Idle
      <4> QED
        BY <4>2 DEF Exchange
    <3> QED
      BY <2>2, <3>1 DEF ReadAckAuth, ReadAckHostname, ReadRefusal, SendNext, SendNextAs, SendNextFails,
                        Finish, netVars
  <2>3. CASE ReadAckHost
    <3>1. acked = {"auth", "hostname"} /\ pc = "read"
      BY <2>3 DEF IInv, ExchangeInv, ReadAckHost, Receive, IsAck, Line, Turn, Idle, Asks, Answered,
                  AckAuth, AckHostname, AckHost, Ok, Err, Refusal
    <3> QED
      BY <2>3, <3>1 DEF ReadAckHost, Exchange
  <2>4. CASE ReadEmpty \/ ForceClose
    BY <2>4 DEF ReadEmpty, ReadEmptyCounting, ForceClose
  <2>5. CASE ReadError
    BY <2>5 DEF ReadError, Finish, netVars
  <2>6. CASE RequestStop \/ Stopper
    <3>1. stopper = "close" /\ conn = "nil" => pc # "read"
      BY DEF IInv, ExchangeInv
    <3> QED
      BY <2>6, <3>1 DEF RequestStop, Stopper, StopperExit, StopperMark, StopperTest, StopperClose,
                        StopperPanic, routineVars, netVars
  <2>7. CASE PeerStep
    BY <2>7 DEF PeerStep, PeerReply, PeerStart, PeerExit, PeerVanish, PeerReconfigure, Lose,
                routineVars, netVars
  <2>8. CASE Network
    BY <2>8 DEF Network, Keepalive, LinkDrop, Lose, routineVars
  <2>9. CASE UNCHANGED vars
    BY <2>9 DEF vars, routineVars, netVars
  <2> QED
    BY <2>1, <2>2, <2>3, <2>4, <2>5, <2>6, <2>7, <2>8, <2>9 DEF Next, Routine, Read
<1> QED
  BY <1>1, <1>2, Invariance, PTL DEF Spec, UpIsCurrent

-----------------------------------------------------------------------------
(***************************************************************************)
(* The routine keeps the promise of AtellaWatch.                           *)
(***************************************************************************)

\* What the neighbour has granted, by where the exchange stands.
LEMMA GrantedNow ==
  /\ inbox = <<>> => Granted = acked
  /\ inbox = <<AckAuth>> => Granted = acked \cup {"auth"}
  /\ inbox = <<AckHostname>> => Granted = acked \cup {"hostname"}
  /\ inbox = <<AckHost>> => Granted = acked \cup {"host"}
  /\ inbox = <<Refusal>> => Granted = acked
<1>1. DOMAIN <<>> = {} /\ \A l : DOMAIN <<l>> = {1} /\ <<l>>[1] = l
  OBVIOUS
<1>2. /\ AckAuth[1] = Ok /\ AckAuth[3] = "auth" /\ AckHostname[1] = Ok /\ AckHostname[3] = "hostname"
      /\ AckHost[1] = Ok /\ AckHost[3] = "host" /\ Refusal[1] # Ok
  BY DEF AckAuth, AckHostname, AckHost, Refusal, Ok, Err
<1>3. ASSUME inbox = <<>> PROVE Granted = acked
  BY <1>1, <1>3 DEF Granted
<1>4. ASSUME NEW l, inbox = <<l>> PROVE Granted = acked \cup (IF l[1] = Ok THEN {l[3]} ELSE {})
  BY <1>1, <1>4 DEF Granted
<1> QED
  BY <1>2, <1>3, <1>4

\* A step of which the watch sees nothing.
LEMMA WatchStutters ==
  ASSUME UNCHANGED <<peerUp, peerCode, slot>>, Granted' = Granted, (link' = "eof") <=> (link = "eof"),
         (pc' = "read" /\ acked' = Exchange) <=> (pc = "read" /\ acked = Exchange)
  PROVE  UNCHANGED Watch!wvars
<1>1. Verdict' = Verdict
  BY DEF Verdict
<1> QED
  BY <1>1 DEF Watch!wvars

\* The routine works on its connection: what it reads is granted already, and a
\* verdict is raised with the whole exchange, lowered, or outlives an orderly close.
LEMMA RoutineSeen ==
  ASSUME IInv, IInv', Routine
  PROVE  Watch!Next \/ UNCHANGED Watch!wvars
<1> USE DEF IInv
<1>1. CASE Check \/ SendAuth \/ SendAuthFails \/ ReadEmpty
  <2>1. /\ UNCHANGED <<peerUp, peerCode, slot, inbox, acked, link>>
        /\ pc = "read" \/ pc' = "read" => ReadEmpty \/ acked # Exchange
        /\ ReadEmpty => pc' = pc
    BY <1>1 DEF Check, CheckTold, SendAuth, SendAuthFails, ReadEmpty, ReadEmptyCounting, ExchangeInv,
       Exchange, peerVars, netVars
  <2>2. Granted' = Granted
    BY <2>1 DEF Granted
  <2> QED
    BY <2>1, <2>2, WatchStutters
<1>2. CASE Dial
  <2>1. /\ UNCHANGED <<peerUp, peerCode, slot>> /\ link' # "eof" /\ acked' = {} /\ inbox' = <<>>
        /\ pc = "dial" /\ pc' = "check"
    BY <1>2 DEF Dial, DialOk, DialOkLeaving, DialFail, peerVars
  <2>2. Granted' = {} /\ Verdict # "up" /\ Verdict' = Verdict
    BY <2>1 DEF Granted, Verdict
  <2>3. Watch!Break
    BY <2>1, <2>2 DEF Watch!Break, Watch!AnswersKept
  <2> QED
    BY <2>3 DEF Watch!Next
<1>3. CASE ReadAckAuth \/ ReadAckHostname
  <2>1. /\ UNCHANGED <<peerUp, peerCode, link>> /\ pc = "read" /\ acked # Exchange /\ "host" \notin acked'
        /\ \/ acked = {} /\ acked' = {"auth"} /\ inbox = <<AckAuth>>
           \/ acked = {"auth"} /\ acked' = {"auth", "hostname"} /\ inbox = <<AckHostname>>
        /\ inbox' = <<>>
    <3>1. pc = "read" /\ Turn /\ inbox # <<>> /\ inbox' = Tail(inbox) /\ Line[1] = Ok /\ Line[2] = "ack"
          /\ UNCHANGED <<peerUp, peerCode, link>>
      BY <1>3 DEF ReadAckAuth, ReadAckHostname, Receive, IsAck, ExchangeInv, peerVars
    <3>2. PICK l \in {AckAuth, Refusal, AckHostname, AckHost} :
            /\ inbox = <<l>>
            /\ l \in {AckAuth, Refusal} => acked = {}
            /\ l = AckHostname => acked = {"auth"}
            /\ l = AckHost => acked = {"auth", "hostname"}
      BY <3>1 DEF Turn, Idle, Asks, Answered, AckAuth, AckHostname, AckHost, Refusal
    <3>3. Line = l /\ inbox' = <<>>
      BY <3>1, <3>2 DEF Line
    <3>4. CASE ReadAckAuth
      <4>1. l = AckAuth /\ acked' = acked \cup {"auth"}
        BY <3>2, <3>3, <3>4 DEF ReadAckAuth, IsAck, AckAuth, AckHostname, AckHost, Refusal, Ok, Err
      <4> QED
        BY <3>1, <3>2, <3>3, <4>1 DEF Exchange
    <3>5. CASE ReadAckHostname
      <4>1. l = AckHostname /\ acked' = acked \cup {"hostname"}
        BY <3>2, <3>3, <3>5 DEF ReadAckHostname, IsAck, AckAuth, AckHostname, AckHost, Refusal, Ok, Err
      <4>2. acked = {"auth"}
        BY <3>2, <4>1
      <4> QED
        BY <3>1, <3>2, <3>3, <4>1, <4>2 DEF Exchange
    <3> QED
      BY <1>3, <3>4, <3>5
  <2>2. Granted' = Granted
    BY <2>1, GrantedNow DEF Granted
  <2>3. slot' = slot \/ slot'.status = FALSE
    BY <1>3 DEF ReadAckAuth, ReadAckHostname, SendNext, SendNextAs, SendNextFails, Finish
  <2>4. CASE slot' = slot
    BY <2>1, <2>2, <2>4, WatchStutters DEF Exchange
  <2>5. CASE slot'.status = FALSE
    <3>1. Verdict' = "down"
      BY <2>5 DEF Verdict
    <3>2. Watch!Lower
      BY <2>1, <2>2, <3>1 DEF Watch!Lower
    <3> QED
      BY <3>2 DEF Watch!Next
  <2> QED
    BY <2>3, <2>4, <2>5
<1>4. CASE ReadAckHost
  <2>1. /\ UNCHANGED <<peerUp, peerCode, link>> /\ acked = {"auth", "hostname"} /\ inbox = <<AckHost>>
        /\ pc' = "read" /\ acked' = Exchange /\ inbox' = <<>> /\ slot'.status = (AckHost[4] = Me)
    BY <1>4 DEF ReadAckHost, Receive, IsAck, Line, ExchangeInv, Turn, Idle, Asks, Answered,
                AckAuth, AckHostname, AckHost, Ok, Err, Refusal, Exchange, peerVars
  <2>2. Granted = Watch!Requests /\ Granted' = Granted
    <3>1. Granted = Exchange
      BY <2>1, GrantedNow DEF Exchange
    <3>2. Granted' = Exchange
      BY <2>1 DEF Granted, Exchange
    <3> QED
      BY <3>1, <3>2 DEF Exchange, Watch!Requests
  <2>3. Verdict' = "up"
    BY <2>1 DEF Verdict, AckHost
  <2>4. Watch!Raise
    BY <2>1, <2>2, <2>3 DEF Watch!Raise
  <2> QED
    BY <2>4 DEF Watch!Next
<1>5. CASE ReadRefusal
  <2>1. /\ UNCHANGED <<peerUp, peerCode, link, slot, acked, pc>> /\ inbox = <<Refusal>> /\ inbox' = <<>>
    BY <1>5 DEF ReadRefusal, Receive, Line, ExchangeInv, Turn, Idle, Asks, Answered, AckAuth, AckHostname,
                AckHost, Ok, peerVars
  <2>2. Granted' = acked' /\ Granted = acked
    BY <2>1, GrantedNow DEF Granted
  <2> QED
    BY <2>1, <2>2, WatchStutters
<1>6. CASE ForceClose \/ ReadError
  <2>1. /\ UNCHANGED <<peerUp, peerCode, acked, inbox, link>> /\ pc = "read" /\ pc' = "check"
        /\ (ReadError /\ slot'.status = FALSE) \/ (ForceClose /\ slot'.status = status)
    BY <1>6 DEF ForceClose, ReadError, Finish, peerVars, netVars
  <2>2. Granted' = Granted
    BY <2>1 DEF Granted
  <2>3. CASE slot'.status = FALSE
    <3>1. Verdict' = "down"
      BY <2>3 DEF Verdict
    <3>2. Watch!Lower
      BY <2>1, <2>2, <3>1 DEF Watch!Lower
    <3> QED
      BY <3>2 DEF Watch!Next
  <2>4. CASE slot'.status # FALSE
    <3>1. slot'.status = TRUE /\ slot.status = TRUE /\ ForceClose /\ link = "eof"
      BY <2>1, <2>4 DEF VerdictInv, TypeOK, Slots, ForceClose
    <3>2. Verdict' = "stale" /\ Verdict \in {"up", "stale"}
      BY <2>1, <3>1 DEF Verdict
    <3>3. CASE Verdict = "up"
      <4>1. Watch!Outlive
        BY <2>1, <2>2, <3>1, <3>2, <3>3 DEF Watch!Outlive
      <4> QED
        BY <4>1 DEF Watch!Next
    <3>4. CASE Verdict = "stale"
      BY <2>1, <2>2, <3>2, <3>4 DEF Watch!wvars
    <3> QED
      BY <3>2, <3>3, <3>4
  <2> QED
    BY <2>3, <2>4
<1> QED
  BY <1>1, <1>2, <1>3, <1>4, <1>5, <1>6 DEF Routine, Auth, Read

\* The stop: the connection may be closed, and what was on it is lost.
LEMMA StopSeen ==
  ASSUME IInv, RequestStop \/ Stopper
  PROVE  Watch!Next \/ UNCHANGED Watch!wvars
<1> USE DEF IInv
<1>1. CASE RequestStop \/ StopperExit \/ StopperMark \/ StopperTest \/ StopperPanic
  <2>1. /\ UNCHANGED <<peerUp, peerCode, slot, inbox, acked, link>>
        /\ pc' = pc \/ (pc # "read" /\ pc' # "read")
    BY <1>1 DEF RequestStop, StopperExit, StopperMark, StopperTest, StopperPanic, ExchangeInv,
       routineVars, peerVars, netVars
  <2>2. Granted' = Granted
    BY <2>1 DEF Granted
  <2> QED
    BY <2>1, <2>2, WatchStutters
<1>2. CASE StopperClose
  <2>1. /\ UNCHANGED <<peerUp, peerCode, slot, acked, pc>> /\ link' # "eof" /\ inbox' = <<>>
    BY <1>2 DEF StopperClose, routineVars, peerVars
  <2>2. Verdict' = Verdict /\ Granted' = acked /\ acked \subseteq Granted
    BY <2>1 DEF Verdict, Granted
  <2>3. Verdict = "up" => Granted = acked
    <3>1. Verdict = "up" => inbox = <<>>
      BY DEF Verdict, ExchangeInv, Turn, Idle, Exchange
    <3> QED
      BY <3>1, GrantedNow
  <2>4. Watch!Break
    BY <2>1, <2>2, <2>3 DEF Watch!Break, Watch!AnswersKept
  <2> QED
    BY <2>4 DEF Watch!Next
<1> QED
  BY <1>1, <1>2 DEF Stopper

\* The neighbour answers, comes and goes, and the network breaks connections.
LEMMA PeerSeen ==
  ASSUME IInv, PeerStep \/ Network
  PROVE  Watch!Next \/ UNCHANGED Watch!wvars
<1> USE DEF IInv
<1>1. UNCHANGED <<pc, slot, acked>> /\ Verdict' = Verdict
  BY DEF PeerStep, PeerReply, PeerStart, PeerExit, PeerVanish, PeerReconfigure, Network, Keepalive,
         LinkDrop, routineVars, Verdict
<1>2. Verdict = "up" => inbox = <<>>
  BY DEF Verdict, ExchangeInv, Turn, Idle, Exchange
<1>3. CASE PeerReply
  <2>1. /\ peerUp /\ UNCHANGED <<peerUp, peerCode, link>> /\ inbox = <<>>
        /\ \E line \in {AuthLine(Code), GetHostnameLine, SetHostLine(Me)} :
             outbox = <<line>> /\ inbox' = <<Reply(peerCode, Peer, line)>>
    <3>1. PICK line \in {AuthLine(Code), GetHostnameLine, SetHostLine(Me)} : outbox = <<line>> /\ inbox = <<>>
      BY <1>3 DEF PeerReply, ExchangeInv, Turn, Idle, Asks, Answered
    <3>2. Head(outbox) = line
      BY <3>1
    <3> QED
      BY <1>3, <3>1, <3>2 DEF PeerReply, peerVars
  <2>2. PICK line \in {AuthLine(Code), GetHostnameLine, SetHostLine(Me)} : inbox' = <<Reply(peerCode, Peer, line)>>
    BY <2>1
  <2>3. Granted = acked
    BY <2>1, GrantedNow
  <2>4. Granted' = acked \cup (IF inbox'[1][1] = Ok THEN {inbox'[1][3]} ELSE {})
    <3>1. DOMAIN inbox' = {1}
      BY <2>2
    <3> QED
      BY <1>1, <3>1 DEF Granted
  <2>5. inbox'[1] = Reply(peerCode, Peer, line)
    BY <2>2
  <2>6. \/ inbox'[1][1] # Ok
        \/ inbox'[1][3] \in Watch!Requests /\ (inbox'[1][3] = "auth" => peerCode = Code)
    <3>1. CASE line = AuthLine(Code)
      BY <2>5, <3>1 DEF Reply, AuthLine, AuthReply, Ok, Err, Watch!Requests
    <3>2. CASE line = GetHostnameLine
      BY <2>5, <3>2, HostnameAnswer DEF AckHostname, Watch!Requests
    <3>3. CASE line = SetHostLine(Me)
      BY <2>5, <3>3, HostAnswer DEF AckHost, Watch!Requests
    <3> QED
      BY <3>1, <3>2, <3>3
  <2>7. CASE inbox'[1][1] # Ok
    BY <1>1, <2>1, <2>3, <2>4, <2>7, WatchStutters
  <2>8. CASE inbox'[1][1] = Ok
    <3>1. Watch!Answer(inbox'[1][3])
      BY <1>1, <2>1, <2>3, <2>4, <2>6, <2>8 DEF Watch!Answer
    <3> QED
      BY <2>6, <2>8, <3>1 DEF Watch!Next
  <2> QED
    BY <2>7, <2>8
<1>4. CASE PeerStart \/ PeerReconfigure \/ Keepalive
  <2>1. inbox' = inbox /\ acked' = acked
    BY <1>1, <1>4 DEF PeerStart, PeerReconfigure, Keepalive, netVars
  <2>2. Granted' = Granted
    BY <2>1 DEF Granted
  <2>3. (link' = "eof") = (link = "eof")
    BY <1>4 DEF PeerStart, PeerReconfigure, Keepalive, netVars
  <2>4. CASE PeerStart
    <3>1. Watch!Start
      BY <1>1, <2>2, <2>3, <2>4 DEF PeerStart, Watch!Start
    <3> QED
      BY <3>1 DEF Watch!Next
  <2>5. CASE PeerReconfigure \/ Keepalive
    <3>1. peerUp' = peerUp /\ peerCode' \in PeerCodes
      BY <2>5 DEF PeerReconfigure, Keepalive, peerVars, TypeOK
    <3>2. Watch!Recode
      BY <1>1, <2>2, <2>3, <3>1 DEF Watch!Recode
    <3> QED
      BY <3>2 DEF Watch!Next
  <2> QED
    BY <1>4, <2>4, <2>5
<1>5. ASSUME NEW how \in {"eof", "dead", "reset"}, Lose(how)
      PROVE  /\ Watch!AnswersKept
             /\ (link' = "eof") \in {link = "eof", TRUE}
             /\ how # "eof" => (link' = "eof") = (link = "eof")
  <2>1. inbox' \in {inbox, <<>>} /\ (link' = link \/ (link = "up" /\ link' = how))
    BY <1>5 DEF Lose
  <2>2. Granted' = Granted \/ Granted' = acked
    BY <1>1, <2>1 DEF Granted
  <2>3. acked \subseteq Granted /\ (Verdict = "up" => Granted = acked)
    BY <1>2, GrantedNow DEF Granted
  <2> QED
    BY <2>1, <2>2, <2>3 DEF Watch!AnswersKept
<1>6. CASE PeerExit \/ PeerVanish
  <2>1. peerUp /\ peerUp' = FALSE /\ peerCode' = peerCode /\ \E how \in {"eof", "dead", "reset"} : Lose(how)
    BY <1>6 DEF PeerExit, PeerVanish
  <2>2. Watch!AnswersKept /\ (link' = "eof") \in {link = "eof", TRUE}
    BY <1>5, <2>1
  <2>3. Watch!Stop
    BY <1>1, <2>1, <2>2 DEF Watch!Stop
  <2> QED
    BY <2>3 DEF Watch!Next
<1>7. CASE LinkDrop
  <2>1. UNCHANGED <<peerUp, peerCode>> /\ Lose("reset")
    BY <1>7 DEF LinkDrop, peerVars
  <2>2. Watch!AnswersKept /\ (link' = "eof") = (link = "eof")
    BY <1>5, <2>1
  <2>3. Watch!Break
    BY <1>1, <2>1, <2>2 DEF Watch!Break
  <2> QED
    BY <2>3 DEF Watch!Next
<1> QED
  BY <1>3, <1>4, <1>6, <1>7 DEF PeerStep, Network

\* Every step of the routine, its stopper, the neighbour and the network is a
\* step of the watch or none.
LEMMA WatchStep == IInv /\ IInv' /\ [Next]_vars => [Watch!Next]_(Watch!wvars)
<1>1. ASSUME UNCHANGED vars PROVE UNCHANGED Watch!wvars
  <2>1. UNCHANGED <<peerUp, peerCode, slot, pc, acked, inbox, link>>
    BY <1>1 DEF vars, routineVars, netVars, peerVars
  <2>2. Granted' = Granted
    BY <2>1 DEF Granted
  <2> QED
    BY <2>1, <2>2, WatchStutters
<1> QED
  BY <1>1, RoutineSeen, StopSeen, PeerSeen DEF Next

\* For all names, codes, limits and faults, and with a stop at any moment, the
\* routine keeps the promise of AtellaWatch.
THEOREM WatchKept == Spec => KeepsWatch
<1>1. Init => Watch!Init
  <2> SUFFICES ASSUME Init PROVE Watch!Init
    OBVIOUS
  <2>1. Granted = {} /\ Verdict = "down"
    BY GrantedNow DEF Init, Verdict
  <2> QED
    BY <2>1 DEF Init, Watch!Init
<1> QED
  BY <1>1, WatchStep, Invariance, PTL DEF Spec, KeepsWatch, Watch!Spec

-----------------------------------------------------------------------------
\* A neighbour that never has the code it is asked for is never reported up.
THEOREM RefusedNeverUp == Spec => ([](peerCode # Code) => []~slot.status)
<1> DEFINE Refused == Verdict = "down" /\ "auth" \notin Granted
<1>1. Init => Refused
  BY GrantedNow DEF Init, Verdict
<1>2. ASSUME Refused, peerCode # Code, [Watch!Next]_(Watch!wvars) PROVE Refused'
  BY <1>2 DEF Watch!Next, Watch!wvars, Watch!Start, Watch!Recode, Watch!Answer, Watch!Stop, Watch!Break,
     Watch!Raise, Watch!Lower, Watch!Outlive, Watch!AnswersKept, Watch!Requests
<1>3. Refused => ~slot.status
  BY DEF Verdict
<1>4. IInv /\ IInv' /\ Refused /\ peerCode # Code /\ [Next]_vars => Refused'
  BY <1>2, WatchStep
<1> HIDE DEF Refused
<1> QED
  BY <1>1, <1>3, <1>4, Invariance, PTL DEF Spec

\* A neighbour that is gone: nothing of it is on its way, and neither the slot nor the
\* routine holds it for up.
Gone == ~peerUp /\ link # "up" /\ inbox = <<>> /\ ~status /\ ~slot.status

\* A neighbour that is up, on a connection that works.
Established == slot.status /\ pc = "read" /\ acked = Exchange /\ link = "up" /\ stopper = "wait"

\* What LossIsReported needs beside fairness: a neighbour that is gone stays reported
\* down as long as its daemon does not run, whatever the routine does meanwhile.
THEOREM GoneStays == Spec => [][Gone /\ ~peerUp' => Gone']_vars
<1>1. IInv /\ [Next]_vars => [Gone /\ ~peerUp' => Gone']_vars
  <2> SUFFICES ASSUME IInv, Next, Gone, ~peerUp' PROVE Gone'
    OBVIOUS
  <2>1. CASE Routine
    BY <2>1 DEF Gone, Routine, Check, CheckTold, Dial, DialOk, DialOkLeaving, DialFail, Auth, SendAuth,
       SendAuthFails, Read, ReadAckAuth, ReadAckHostname, ReadAckHost, ReadRefusal, Receive, ReadEmpty,
       ReadEmptyCounting, ForceClose, ReadError, Finish, netVars
  <2>2. CASE RequestStop \/ Stopper
    BY <2>2 DEF Gone, RequestStop, Stopper, StopperExit, StopperMark, StopperTest, StopperClose,
       StopperPanic, routineVars, netVars
  <2>3. CASE PeerStep \/ Network
    BY <2>3 DEF Gone, PeerStep, PeerReply, PeerStart, PeerExit, PeerVanish, PeerReconfigure, Network,
       Keepalive, LinkDrop, Lose, routineVars, netVars
  <2> QED
    BY <2>1, <2>2, <2>3 DEF Next
<1> QED
  BY <1>1, Invariance, PTL DEF Spec

\* What UpIsReported needs beside fairness: an up verdict stays until the routine is
\* told to stop, the neighbour goes or the network breaks the connection.  A change of
\* the neighbour's code does not touch it.
THEOREM EstablishedStays ==
  Spec => [][Established /\ ~stopReq' /\ peerUp' /\ ~LinkDrop => Established']_vars
<1>1. IInv /\ [Next]_vars => [Established /\ ~stopReq' /\ peerUp' /\ ~LinkDrop => Established']_vars
  <2> SUFFICES ASSUME IInv, Next, Established, ~stopReq', peerUp', ~LinkDrop PROVE Established'
    OBVIOUS
  <2>1. inbox = <<>> /\ conn = "open"
    BY DEF IInv, TypeOK, ExchangeInv, Turn, Idle, Established, Exchange
  <2>2. CASE Routine
    BY <2>1, <2>2 DEF Established, Routine, Check, CheckTold, Dial, DialOk, DialOkLeaving, DialFail, Auth,
       SendAuth, SendAuthFails, Read, ReadAckAuth, ReadAckHostname, ReadAckHost, ReadRefusal, Receive,
       ReadEmpty, ReadEmptyCounting, ForceClose, ReadError
  <2>3. CASE RequestStop \/ Stopper
    BY <2>3 DEF Established, RequestStop, Stopper, StopperExit, StopperMark, StopperTest, StopperClose,
       StopperPanic
  <2>4. CASE PeerStep \/ Network
    BY <2>4 DEF Established, PeerStep, PeerReply, PeerStart, PeerExit, PeerVanish, PeerReconfigure, Network,
       Keepalive, routineVars, netVars, stopVars
  <2> QED
    BY <2>2, <2>3, <2>4 DEF Next
<1> QED
  BY <1>1, Invariance, PTL DEF Spec

\* A routine that has been told to stop: its stopper is done, and it holds neither a
\* connection nor an intention to dial.
Told == stopper = "end" /\ conn # "open" /\ pc # "dial"

\* What StopAnsweredOutsideDial needs beside fairness: a routine that has been told
\* dials no more and raises no verdict, whatever the neighbour still has sent.
THEOREM ToldStays == Spec => [][Told => Told' /\ (slot'.status => slot.status)]_vars
<1> DEFINE Flagged == stopper # "wait" => exit
<1>1. Init => Flagged
  BY DEF Init
<1>2. Flagged /\ [Next]_vars => Flagged'
  BY DEF vars, Next, Routine, Check, CheckTold, Dial, DialOk, DialOkLeaving, DialFail, Auth, SendAuth,
     SendAuthFails, Read, ReadAckAuth, ReadAckHostname, ReadAckHost, ReadRefusal, ReadEmpty,
     ReadEmptyCounting, ForceClose, ReadError, RequestStop, Stopper, StopperExit, StopperMark, StopperTest,
     StopperClose, StopperPanic, PeerStep, PeerReply, PeerStart, PeerExit, PeerVanish, PeerReconfigure,
     Network, Keepalive, LinkDrop, stopVars
<1>3. Flagged /\ [Next]_vars => [Told => Told' /\ (slot'.status => slot.status)]_vars
  <2> SUFFICES ASSUME Flagged, Next, Told PROVE Told' /\ (slot'.status => slot.status)
    OBVIOUS
  <2>1. CASE Check \/ Auth
    BY <2>1 DEF Told, Check, CheckTold, Auth, SendAuth, SendAuthFails, stopVars
  <2>2. CASE Dial \/ (Read /\ ~ReadError)
    BY <2>2 DEF Told, Dial, DialOk, DialOkLeaving, DialFail, Read, ReadAckAuth, ReadAckHostname,
       ReadAckHost, ReadRefusal, Receive, ReadEmpty, ReadEmptyCounting, ForceClose
  <2>3. CASE ReadError
    BY <2>3 DEF Told, ReadError, Finish, stopVars
  <2>4. CASE RequestStop \/ Stopper
    BY <2>4 DEF Told, RequestStop, Stopper, StopperExit, StopperMark, StopperTest, StopperClose,
       StopperPanic, routineVars
  <2>5. CASE PeerStep \/ Network
    BY <2>5 DEF Told, PeerStep, PeerReply, PeerStart, PeerExit, PeerVanish, PeerReconfigure, Network,
       Keepalive, LinkDrop, routineVars, stopVars
  <2> QED
    BY <2>1, <2>2, <2>3, <2>4, <2>5 DEF Next, Routine
<1> HIDE DEF Flagged
<1> QED
  BY <1>1, <1>2, <1>3, PTL DEF Spec

=============================================================================
