----------------------------- MODULE AtellaSectors -----------------------------
(***************************************************************************)
(* How an agent finds whom it watches (GetMySector and AddHost in          *)
(* AtellaClient.go, addSector in AtellaConfig.go).  In every sector that   *)
(* names it, the agent takes the host_cnt hosts after it and the host_cnt  *)
(* before it, around the ring of the sector; each of their addresses gets  *)
(* a neighbour and a slot of the status vector, which the routine of the   *)
(* neighbour finds by that address.                                        *)
(*                                                                         *)
(* The loops run in one goroutine; a step is one turn of a loop.  What     *)
(* varies is the configuration, and what a reload finds already there.     *)
(***************************************************************************)
EXTENDS Integers, Sequences, FiniteSets

CONSTANTS
  SectorNames,
  Hostnames,
  Me,          \* Agent.Hostname
  Addresses,
  Files,       \* lists of sectors that may be loaded, in any order: the
               \* loader walks a Go map
  MaxHostCnt,  \* bound on Agent.HostCnt
  MaxLoads     \* bound on the loads

\* An entry of a sector, "ip,ip hostname": its addresses and its name.
Entry  == [addresses : Seq(Addresses), hostname : Hostnames]
Sector == [name : SectorNames, hosts : Seq(Entry)]

ASSUME FilesAssumption == Files \subseteq Seq(Sector)
ASSUME CountAssumption == MaxHostCnt \in Nat /\ MaxLoads \in Nat

VARIABLES
  sectors,     \* Config.Sectors
  hostCnt,     \* Agent.HostCnt
  pc,          \* "scan" a sector, "ring" around the agent, "run", "panic"
  i, j, l,     \* the loop variables of GetMySector, i and j from 1
  todo,        \* addresses AddHost is still to add
  neighbours,  \* addresses of c.neighbours
  vector,      \* Config.Vector: the host and the sectors of each slot
  loads        \* loads so far

configVars == <<sectors, hostCnt, loads>>
vars == <<configVars, pc, i, j, l, todo, neighbours, vector>>

Slot == [host : Addresses, sectors : SUBSET SectorNames]

\* Nothing is loaded yet; hostCnt is the default.
Init ==
  /\ sectors = <<>> /\ hostCnt \in 0 .. MaxHostCnt /\ loads = 0
  /\ pc = "run" /\ i = 1 /\ j = 1 /\ l = 1 /\ todo = <<>>
  /\ neighbours = <<>> /\ vector = <<>>

-----------------------------------------------------------------------------
(***************************************************************************)
(* GetMySector: the loops over the sectors and over the hosts of one.      *)
(***************************************************************************)
Hosts == sectors[i].hosts

NextSector ==
  /\ pc = "scan" /\ i <= Len(sectors) /\ j > Len(Hosts)
  /\ i' = i + 1 /\ j' = 1
  /\ UNCHANGED <<configVars, pc, l, todo, neighbours, vector>>

NotMe ==
  /\ pc = "scan" /\ i <= Len(sectors) /\ j <= Len(Hosts) /\ Hosts[j].hostname # Me
  /\ j' = j + 1
  /\ UNCHANGED <<configVars, pc, i, l, todo, neighbours, vector>>

IsMe ==
  /\ pc = "scan" /\ i <= Len(sectors) /\ j <= Len(Hosts) /\ Hosts[j].hostname = Me
  /\ pc' = "ring" /\ l' = 1
  /\ UNCHANGED <<configVars, i, j, todo, neighbours, vector>>

\* init goes on, and Run starts the routines.
Ready ==
  /\ pc = "scan" /\ i > Len(sectors)
  /\ pc' = "run"
  /\ UNCHANGED <<configVars, i, j, l, todo, neighbours, vector>>

(***************************************************************************)
(* The loop over the distance l.  The remainder of Go has the sign of its  *)
(* left operand: with j - l + n below zero the index is negative, unless n *)
(* divides it, and the program panics.                                     *)
(***************************************************************************)
Size      == Len(Hosts)
Behind    == j - 1 - l + Size
Others(e) == IF e.hostname = Me THEN <<>> ELSE e.addresses
HostAfter  == Others(Hosts[((j - 1 + l) % Size) + 1])
HostBefore == Others(Hosts[(Behind % Size) + 1])
InRange(k) == k >= 0 \/ (-k) % Size = 0

\* One turn: found goes to AddHost, unless the index before the agent is out
\* of range.
Turn(inRange, found) ==
  /\ pc = "ring" /\ todo = <<>>
  /\ IF inRange THEN todo' = found /\ l' = l + 1 /\ UNCHANGED pc
                ELSE pc' = "panic" /\ UNCHANGED <<todo, l>>
  /\ UNCHANGED <<configVars, i, j, neighbours, vector>>

\* Variant: the length is not added before the remainder is taken.
RingNoWrap == l <= hostCnt /\ Turn(InRange(Behind - Size), HostAfter \o HostBefore)

Ring == l <= hostCnt /\ Turn(InRange(Behind), HostAfter \o HostBefore)

RingEndAt(distance) ==
  /\ pc = "ring" /\ todo = <<>> /\ l >= distance
  /\ pc' = "scan" /\ j' = j + 1
  /\ UNCHANGED <<configVars, i, l, todo, neighbours, vector>>

\* Variant: the last distance is left out.
RingEndEarly == RingEndAt(hostCnt)

RingEnd == RingEndAt(hostCnt + 1)

-----------------------------------------------------------------------------
(***************************************************************************)
(* AddHost, for one address: the first slot of that address gets the       *)
(* sector, or a new slot is appended; the neighbour is appended if there   *)
(* is none of that address.                                                *)
(***************************************************************************)
Slots(h)     == {k \in DOMAIN vector : vector[k].host = h}
FirstSlot(h) == CHOOSE k \in Slots(h) : \A m \in Slots(h) : k <= m
IsNeighbour(h) == \E k \in DOMAIN neighbours : neighbours[k] = h

AddSlot(h, s) ==
  vector' = IF Slots(h) = {}
            THEN Append(vector, [host |-> h, sectors |-> {s}])
            ELSE [vector EXCEPT ![FirstSlot(h)].sectors = @ \cup {s}]

AddUnless(there) ==
  /\ pc = "ring" /\ todo # <<>>
  /\ todo' = Tail(todo)
  /\ AddSlot(Head(todo), sectors[i].name)
  /\ neighbours' = IF there THEN neighbours ELSE Append(neighbours, Head(todo))
  /\ UNCHANGED <<configVars, pc, i, j, l>>

\* Variant: the neighbour is appended whether or not there is one.
AddTwice == AddUnless(FALSE)

Add == AddUnless(IsNeighbour(Head(todo)))

-----------------------------------------------------------------------------
(***************************************************************************)
(* New and SIGHUP: addSector has appended the sectors of the files to those*)
(* there are, and init begins with no neighbours and an empty vector.      *)
(***************************************************************************)
ReloadInto(slots, added, count) ==
  /\ pc = "run" /\ loads < MaxLoads
  /\ sectors' = sectors \o added /\ hostCnt' = count /\ loads' = loads + 1
  /\ pc' = "scan" /\ i' = 1 /\ j' = 1
  /\ neighbours' = <<>> /\ vector' = slots
  /\ UNCHANGED <<l, todo>>

\* Variant: the vector keeps the slots it has.
ReloadKeepsVector(added, count) == ReloadInto(vector, added, count)

ReloadWith(added, count) == ReloadInto(<<>>, added, count)

Reload == \E f \in Files, n \in 0 .. MaxHostCnt : ReloadWith(f, n)

Next == NextSector \/ NotMe \/ IsMe \/ Ready \/ Ring \/ RingEnd \/ Add \/ Reload

Spec == Init /\ [][Next]_vars

-----------------------------------------------------------------------------
(***************************************************************************)
(* Properties.                                                             *)
(***************************************************************************)

\* Every variable keeps to its values.
TypeOK ==
  /\ sectors \in Seq(Sector) /\ hostCnt \in 0 .. MaxHostCnt /\ loads \in 0 .. MaxLoads
  /\ pc \in {"scan", "ring", "run", "panic"}
  /\ i \in Nat \ {0} /\ j \in Nat \ {0} /\ l \in 1 .. MaxHostCnt + 1
  /\ todo \in Seq(Addresses)
  /\ neighbours \in Seq(Addresses) /\ vector \in Seq(Slot)

\* Slot k of the vector is the one of neighbour k, and no two neighbours share
\* an address: the slot a routine finds by its address is its own, and no slot
\* is left without a routine, even after a reload.
SlotPerNeighbour ==
  /\ Len(vector) = Len(neighbours)
  /\ \A k \in DOMAIN neighbours :
       /\ vector[k].host = neighbours[k]
       /\ \A m \in DOMAIN neighbours : neighbours[k] = neighbours[m] => k = m

\* The agent does not panic as long as no sector is shorter than host_cnt.
PanicsOnlyInShortSector == pc = "panic" => Len(Hosts) < hostCnt

(***************************************************************************)
(* The hosts that h is to watch in sector s, by the distance around the    *)
(* ring, with the addresses of their entries.                              *)
(***************************************************************************)
WatchedBy(h, s) ==
  LET n == Len(s.hosts)
      Near == {k \in 1 .. n : \E m \in 1 .. n, d \in 1 .. hostCnt :
                 s.hosts[m].hostname = h /\ ((k - m - d) % n = 0 \/ (m - k - d) % n = 0)}
  IN  {k \in Near : s.hosts[k].hostname # h}

AddressesOf(s, K) == UNION {{s.hosts[k].addresses[a] : a \in DOMAIN s.hosts[k].addresses} : k \in K}

\* The agent watches exactly the hosts near it in the sectors it is in, and each
\* slot names the sectors for which it is watched.
WatchesItsRing ==
  pc = "run" =>
    \A h \in Addresses :
      {s.name : s \in {sectors[k] : k \in {m \in DOMAIN sectors :
                         h \in AddressesOf(sectors[m], WatchedBy(Me, sectors[m]))}}}
        = UNION {vector[k].sectors : k \in Slots(h)}

=============================================================================
