-------------------------- MODULE AtellaMasterVector --------------------------
(***************************************************************************)
(* What a master promises of MasterVector: a register per host, written    *)
(* over one connection after the other.  Each connection delivers every    *)
(* vector in order, up to those the server cuts off when it closes it;     *)
(* only the order between the connections of a host is lost.               *)
(***************************************************************************)
EXTENDS Naturals

CONSTANTS
  Connections, Hosts, Me,
  NoConnection,   \* the present connection of a host that has made none
  IsMaster,       \* whether this daemon makes a new map
  HasMasters,     \* ... and, being a master, keeps an entry of its own
  MaxVersion      \* bound on the changes of each vector

VARIABLES
  owner,      \* the host that makes a connection
  used,       \* the connections made so far
  current,    \* the one each host writes to
  cut,        \* those the server has closed
  underWay,   \* versions a connection may still deliver
  stored,     \* the version of each host in the map
  made,       \* the map has been made anew
  latest      \* the version of each host's vector

rvars == <<owner, used, current, cut, underWay, stored, made, latest>>

Names   == Hosts \cup {Me}
Missing == MaxVersion + 1

Init ==
  /\ owner \in [Connections -> Hosts] /\ used = {} /\ cut = {}
  /\ current = [h \in Hosts |-> NoConnection]
  /\ underWay = [c \in Connections |-> {}]
  /\ stored = [h \in Names |-> Missing] /\ made = FALSE
  /\ latest = [h \in Names |-> 0]

Change(h) ==
  /\ latest[h] < MaxVersion
  /\ latest' = [latest EXCEPT ![h] = @ + 1]
  /\ UNCHANGED <<owner, used, current, cut, underWay, stored, made>>

Open(c) ==
  /\ c \notin used
  /\ used' = used \cup {c}
  /\ current' = [current EXCEPT ![owner[c]] = c]
  /\ UNCHANGED <<owner, cut, underWay, stored, made, latest>>

Send(h) ==
  /\ current[h] # NoConnection /\ current[h] \notin cut
  /\ underWay' = [underWay EXCEPT ![current[h]] = @ \cup {latest[h]}]
  /\ UNCHANGED <<owner, used, current, cut, stored, made, latest>>

\* The oldest version under way arrives; it may have been written more than once.
Store(c) ==
  \E v \in underWay[c] :
    /\ \A w \in underWay[c] : v <= w
    /\ stored' = [stored EXCEPT ![owner[c]] = v]
    /\ \E left \in {underWay[c], underWay[c] \ {v}} : underWay' = [underWay EXCEPT ![c] = left]
    /\ UNCHANGED <<owner, used, current, cut, made, latest>>

\* The server closes a connection: what has not arrived may be lost, now or later.
Cut(c) ==
  /\ cut' = cut \cup {c}
  /\ \E left \in SUBSET underWay[c] : underWay' = [underWay EXCEPT ![c] = left]
  /\ UNCHANGED <<owner, used, current, stored, made, latest>>

\* The daemon's own entry.
Save ==
  /\ IsMaster /\ HasMasters
  /\ stored' = [stored EXCEPT ![Me] = latest[Me]]
  /\ UNCHANGED <<owner, used, current, cut, underWay, made, latest>>

\* Once, when the master routine starts, everything stored is forgotten.
NewMap ==
  /\ IsMaster /\ ~made
  /\ made' = TRUE
  /\ stored' = [h \in Names |-> Missing]
  /\ UNCHANGED <<owner, used, current, cut, underWay, latest>>

\* The daemon ends: all connections are closed, and what is stored stays as it is.
Ends ==
  /\ cut' = Connections /\ underWay' = [c \in Connections |-> {}] /\ made' = IsMaster
  /\ UNCHANGED <<owner, used, current, stored, latest>>

Next ==
  \/ \E h \in Names : Change(h)
  \/ \E h \in Hosts : Send(h)
  \/ \E c \in Connections : Open(c) \/ Store(c) \/ Cut(c)
  \/ Save \/ NewMap \/ Ends

Spec == Init /\ [][Next]_rvars

=============================================================================
