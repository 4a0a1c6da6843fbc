------------------------------ MODULE AtellaWatch ------------------------------
(***************************************************************************)
(* What a daemon promises of a neighbour it watches, without connections,  *)
(* lines and goroutines.  The neighbour is reported up only when it has    *)
(* itself answered the whole exchange, and with the right code, since the  *)
(* connection was made; the answers are not lost while the verdict rests   *)
(* on them.  The one exception is a neighbour that closes its connection   *)
(* in an orderly way: then the verdict may outlive what it rests on.       *)
(***************************************************************************)
CONSTANTS
  Code,        \* the code the neighbour is asked to accept
  PeerCodes    \* those it may have

VARIABLES
  peerUp, peerCode,
  answered,    \* the requests it has granted on the present connection
  parted,      \* it has closed that connection in an orderly way
  verdict      \* "down", "up", or "stale": up for what an earlier connection brought

wvars == <<peerUp, peerCode, answered, parted, verdict>>

Requests == {"auth", "hostname", "host"}

Init ==
  /\ peerUp \in BOOLEAN /\ peerCode \in PeerCodes
  /\ answered = {} /\ parted = FALSE /\ verdict = "down"

Start ==
  /\ ~peerUp /\ peerUp' = TRUE
  /\ UNCHANGED <<peerCode, answered, parted, verdict>>

Recode ==
  /\ peerCode' \in PeerCodes
  /\ UNCHANGED <<peerUp, answered, parted, verdict>>

Answer(r) ==
  /\ peerUp /\ (r = "auth" => peerCode = Code)
  /\ answered' = answered \cup {r}
  /\ UNCHANGED <<peerUp, peerCode, parted, verdict>>

\* Answers may be lost, but none on which the verdict rests.
AnswersKept == answered' \in SUBSET answered /\ (verdict = "up" => answered' = answered)

\* The neighbour goes, with or without saying so.
Stop ==
  /\ peerUp /\ peerUp' = FALSE
  /\ AnswersKept /\ parted' \in {parted, TRUE}
  /\ UNCHANGED <<peerCode, verdict>>

\* The connection breaks or is made anew.
Break ==
  /\ AnswersKept /\ parted' \in {parted, FALSE}
  /\ UNCHANGED <<peerUp, peerCode, verdict>>

Raise ==
  /\ answered = Requests
  /\ verdict' = "up"
  /\ UNCHANGED <<peerUp, peerCode, answered, parted>>

Lower ==
  /\ verdict' = "down"
  /\ UNCHANGED <<peerUp, peerCode, answered, parted>>

Outlive ==
  /\ verdict = "up" /\ parted
  /\ verdict' = "stale"
  /\ UNCHANGED <<peerUp, peerCode, answered, parted>>

Next == \/ Start \/ Recode \/ Stop \/ Break \/ Raise \/ Lower \/ Outlive
        \/ \E r \in Requests : Answer(r)

Spec == Init /\ [][Next]_wvars

=============================================================================
