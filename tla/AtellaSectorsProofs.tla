-------------------------- MODULE AtellaSectorsProofs --------------------------
(***************************************************************************)
(* Proofs about AtellaSectors and AtellaConfigFiles, for any files and any *)
(* number of reloads.                                                      *)
(* Inv is inductive: beside the types it says that the loop variables stay *)
(* inside the sector the agent is in, so that every index the loops use is *)
(* one of that sector.  SearchInv adds what the search has found so far,   *)
(* and StableInv what a load of the same files finds again.                *)
(***************************************************************************)
EXTENDS AtellaConfigFiles, TLAPS

Inside == pc \in {"ring", "panic"} => i <= Len(sectors) /\ j <= Len(Hosts)

Inv == TypeOK /\ Inside /\ SlotPerNeighbour /\ PanicsOnlyInShortSector

USE FilesAssumption, CountAssumption

-----------------------------------------------------------------------------
(***************************************************************************)
(* What the operators of the model return.                                 *)
(***************************************************************************)

\* A remainder lies between zero and the divisor.
LEMMA RemainderInRange == \A a \in Int, b \in Nat \ {0} : a % b \in 0 .. b - 1
  BY SMT

\* The hosts of the present sector are entries.
LEMMA HostsTyped ==
  ASSUME TypeOK, i <= Len(sectors)
  PROVE  Hosts \in Seq(Entry) /\ sectors[i].name \in SectorNames
<1>1. sectors[i] \in Sector  BY DEF TypeOK
<1>. QED  BY <1>1 DEF Sector, Hosts

\* A quotient with a remainder below the divisor is the only one.
LEMMA OneRemainder ==
  ASSUME NEW b \in Nat \ {0}, NEW q \in Int, NEW r \in 0 .. b - 1, NEW t \in 0 .. b - 1,
         NEW u \in Int, b * q + r = b * u + t
  PROVE  r = t /\ q = u
<1>1. CASE q < u
  <2>1. b * (u - q) >= b  BY <1>1
  <2>2. b * (u - q) = b * u - b * q OBVIOUS
  <2>. QED BY <2>1, <2>2
<1>2. CASE u < q
  <2>1. b * (q - u) >= b  BY <1>2
  <2>2. b * (q - u) = b * q - b * u OBVIOUS
  <2>. QED BY <2>1, <2>2
<1>. QED BY <1>1, <1>2

LEMMA Division ==
  ASSUME NEW a \in Int, NEW b \in Nat \ {0}
  PROVE  a \div b \in Int /\ a = b * (a \div b) + (a % b)
  BY SMT

\* A number leaves remainder r exactly when its difference from r is a multiple.
LEMMA SameRemainder ==
  ASSUME NEW a \in Int, NEW b \in Nat \ {0}, NEW r \in 0 .. b - 1
  PROVE  a % b = r <=> (r - a) % b = 0
<1>. DEFINE q == a \div b
            p == (r - a) \div b
            x == a % b
            y == (r - a) % b
            q1 == -q
            p1 == -p
<1>1. q \in Int /\ a = b * q + x /\ x \in 0 .. b - 1  BY Division, RemainderInRange
<1>2. r - a \in Int  OBVIOUS
<1>3. p \in Int /\ r - a = b * p + y /\ y \in 0 .. b - 1
  BY <1>2, Division, RemainderInRange
<1>. HIDE DEF q, p, x, y
<1>4. /\ q1 \in Int /\ b * q1 = -(b * q)
      /\ p1 \in Int /\ b * p1 = -(b * p)
      /\ b * p \in Int /\ b * q \in Int /\ 0 \in 0 .. b - 1
  BY <1>1, <1>3
<1>. HIDE DEF q1, p1
<1>5. q \in Int /\ p \in Int /\ q1 \in Int /\ p1 \in Int /\ x \in 0 .. b - 1 /\ y \in 0 .. b - 1
      /\ 0 \in 0 .. b - 1
  BY <1>1, <1>3, <1>4
<1>6. ASSUME x = r PROVE y = 0
  <2>1. b * p + y = b * q1 + 0  BY <1>1, <1>3, <1>4, <1>6
  <2>. QED BY <2>1, <1>5, OneRemainder
<1>7. ASSUME y = 0 PROVE x = r
  <2>1. b * q + x = b * p1 + r  BY <1>1, <1>3, <1>4, <1>7
  <2>. QED BY <2>1, <1>5, OneRemainder
<1>. QED BY <1>6, <1>7 DEF x, y

\* The indexes at distance d from index p in a ring of n, and the addresses a turn
\* of the ring finds there.
Ahead(n, p, d) == ((p - 1 + d) % n) + 1
Back(n, p, d)  == ((p - 1 - d + n) % n) + 1
FoundAt(s, p, d) ==
  LET n == Len(s.hosts)
  IN  Others(s.hosts[Ahead(n, p, d)]) \o Others(s.hosts[Back(n, p, d)])

\* The indexes are in the ring.
LEMMA IndexInRing ==
  ASSUME NEW n \in Nat \ {0}, NEW p \in 1 .. n, NEW d \in Nat
  PROVE  Ahead(n, p, d) \in 1 .. n /\ Back(n, p, d) \in 1 .. n
<1>. DEFINE x == (p - 1 + d) % n
            y == (p - 1 - d + n) % n
<1>1. p - 1 + d \in Int /\ p - 1 - d + n \in Int  OBVIOUS
<1>2. x \in 0 .. n - 1 /\ y \in 0 .. n - 1  BY <1>1, RemainderInRange
<1>. HIDE DEF x, y
<1>3. x + 1 \in 1 .. n /\ y + 1 \in 1 .. n  BY <1>2
<1>. QED  BY <1>3 DEF x, y, Ahead, Back

\* What a turn finds are addresses.
LEMMA FoundAtTyped ==
  ASSUME NEW s \in Sector, NEW p \in DOMAIN s.hosts, NEW d \in Nat
  PROVE  FoundAt(s, p, d) \in Seq(Addresses)
<1>. DEFINE n == Len(s.hosts)
<1>1. s.hosts \in Seq(Entry)  BY DEF Sector
<1>2. n \in Nat \ {0} /\ DOMAIN s.hosts = 1 .. n /\ p \in 1 .. n  BY <1>1
<1>. HIDE DEF n
<1>3. Ahead(n, p, d) \in 1 .. n /\ Back(n, p, d) \in 1 .. n  BY <1>2, IndexInRing
<1>4. s.hosts[Ahead(n, p, d)] \in Entry /\ s.hosts[Back(n, p, d)] \in Entry  BY <1>1, <1>2, <1>3
<1>5. \A e \in Entry : Others(e) \in Seq(Addresses)  BY DEF Others, Entry
<1>. QED  BY <1>4, <1>5 DEF FoundAt, n

\* A turn of the ring takes what is found there.
LEMMA TurnFinds == HostAfter \o HostBefore = FoundAt(sectors[i], j, l)
BY DEF HostAfter, HostBefore, FoundAt, Ahead, Back, Behind, Size, Hosts

\* The slot AddHost finds is a slot of that address: there is only one.
LEMMA FirstSlotIsSlot ==
  ASSUME TypeOK, SlotPerNeighbour, NEW h \in Addresses, Slots(h) # {}
  PROVE  /\ FirstSlot(h) \in DOMAIN vector
         /\ vector[FirstSlot(h)].host = h
<1>1. PICK k : k \in Slots(h)  OBVIOUS
<1>2. ASSUME NEW m \in Slots(h) PROVE m = k
  <2>1. DOMAIN vector = DOMAIN neighbours  BY DEF TypeOK, SlotPerNeighbour
  <2>2. /\ m \in DOMAIN neighbours /\ neighbours[m] = h
        /\ k \in DOMAIN neighbours /\ neighbours[k] = h
    BY <1>1, <2>1 DEF Slots, SlotPerNeighbour
  <2>. QED  BY <2>2 DEF SlotPerNeighbour
<1>3. k \in Nat /\ \A m \in Slots(h) : k <= m  BY <1>1, <1>2 DEF Slots, TypeOK
<1>4. FirstSlot(h) \in Slots(h)  BY <1>1, <1>3 DEF FirstSlot
<1>. QED  BY <1>4 DEF Slots

\* An address has a slot exactly when it has a neighbour.
LEMMA SlotIffNeighbour ==
  ASSUME TypeOK, SlotPerNeighbour, NEW h \in Addresses
  PROVE  Slots(h) = {} <=> ~IsNeighbour(h)
BY DEF Slots, IsNeighbour, SlotPerNeighbour, TypeOK

\* A new neighbour and its slot, appended together, keep the pairs.
LEMMA NewSlotKeepsPairs ==
  ASSUME TypeOK, SlotPerNeighbour, NEW h \in Addresses, ~IsNeighbour(h),
         NEW slot \in Slot, slot.host = h,
         vector' = Append(vector, slot), neighbours' = Append(neighbours, h)
  PROVE  SlotPerNeighbour'
<1>. DEFINE n == Len(neighbours)
<1>1. /\ vector \in Seq(Slot) /\ neighbours \in Seq(Addresses)
      /\ n \in Nat /\ Len(vector) = n /\ DOMAIN neighbours = 1 .. n
  BY DEF TypeOK, SlotPerNeighbour
<1>2. /\ Len(vector') = n + 1 /\ Len(neighbours') = n + 1 /\ DOMAIN neighbours' = 1 .. n + 1
      /\ vector'[n + 1] = slot /\ neighbours'[n + 1] = h
      /\ \A k \in 1 .. n : vector'[k] = vector[k] /\ neighbours'[k] = neighbours[k]
  BY <1>1
<1>3. \A k \in 1 .. n : /\ vector[k].host = neighbours[k] /\ neighbours[k] # h
                        /\ \A m \in 1 .. n : neighbours[k] = neighbours[m] => k = m
  BY <1>1 DEF SlotPerNeighbour, IsNeighbour
<1>4. \A k \in 1 .. n + 1 : k \in 1 .. n \/ k = n + 1  BY <1>1
<1>. HIDE DEF n
<1>5. \A k \in 1 .. n + 1 :
        /\ vector'[k].host = neighbours'[k]
        /\ \A m \in 1 .. n + 1 : neighbours'[k] = neighbours'[m] => k = m
  BY <1>2, <1>3, <1>4
<1>. QED  BY <1>2, <1>5 DEF SlotPerNeighbour

-----------------------------------------------------------------------------
(***************************************************************************)
(* The invariant: one step for each action.                                *)
(***************************************************************************)
LEMMA InitInv == Init => Inv
<1>. SUFFICES ASSUME Init PROVE Inv  OBVIOUS
<1>1. 0 \in 0 .. MaxLoads /\ 1 \in 1 .. MaxHostCnt + 1  OBVIOUS
<1>2. TypeOK  BY <1>1 DEF Init, TypeOK
<1>. QED  BY <1>2 DEF Init, Inv, Inside, SlotPerNeighbour, PanicsOnlyInShortSector

\* A reload with any sectors.
LEMMA ReloadInv ==
  ASSUME Inv, NEW f \in Seq(Sector), NEW n \in 0 .. MaxHostCnt, ReloadWith(f, n)
  PROVE  Inv'
<1>. USE DEF Inv, ReloadWith, ReloadInto
<1>1. sectors' \in Seq(Sector)  BY DEF TypeOK
<1>2. loads' \in 0 .. MaxLoads  BY CountAssumption DEF TypeOK
<1>3. TypeOK'  BY <1>1, <1>2 DEF TypeOK
<1>. QED  BY <1>3 DEF Inside, SlotPerNeighbour, PanicsOnlyInShortSector

LEMMA NextInv == Inv /\ [Next]_vars => Inv'
<1>. SUFFICES ASSUME Inv, [Next]_vars PROVE Inv'  OBVIOUS
<1>. USE DEF Inv
<1>1. CASE NextSector
  <2>1. TypeOK'  BY <1>1 DEF NextSector, TypeOK, configVars
  <2>. QED  BY <1>1, <2>1 DEF NextSector, Inside, SlotPerNeighbour, PanicsOnlyInShortSector, configVars
<1>2. CASE NotMe
  <2>1. TypeOK'  BY <1>2 DEF NotMe, TypeOK, configVars
  <2>. QED  BY <1>2, <2>1 DEF NotMe, Inside, SlotPerNeighbour, PanicsOnlyInShortSector, configVars
<1>3. CASE IsMe
  <2>1. 1 \in 1 .. MaxHostCnt + 1  OBVIOUS
  <2>2. TypeOK'  BY <1>3, <2>1 DEF IsMe, TypeOK, configVars
  <2>. QED  BY <1>3, <2>2 DEF IsMe, Inside, SlotPerNeighbour, PanicsOnlyInShortSector, configVars, Hosts
<1>4. CASE Ready
  <2>1. TypeOK'  BY <1>4 DEF Ready, TypeOK, configVars
  <2>. QED  BY <1>4, <2>1 DEF Ready, Inside, SlotPerNeighbour, PanicsOnlyInShortSector, configVars
<1>5. CASE Ring
  <2>. USE <1>5 DEF Ring, Turn, configVars
  <2>1. i <= Len(sectors) /\ j <= Len(Hosts)  BY DEF Inside
  <2>2. CASE InRange(Behind)
    <3>1. todo' = FoundAt(sectors[i], j, l)  BY <2>2, TurnFinds
    <3>2. sectors[i] \in Sector /\ j \in DOMAIN sectors[i].hosts /\ l \in Nat
      BY <2>1, HostsTyped DEF TypeOK, Hosts
    <3>3. todo' \in Seq(Addresses)  BY <3>1, <3>2, FoundAtTyped
    <3>4. l' \in 1 .. MaxHostCnt + 1  BY <2>2 DEF TypeOK
    <3>5. TypeOK'  BY <2>2, <3>3, <3>4 DEF TypeOK
    <3>. QED  BY <2>2, <3>5 DEF Inside, SlotPerNeighbour, PanicsOnlyInShortSector, Hosts
  <2>3. CASE ~InRange(Behind)
    <3>1. TypeOK'  BY <2>3 DEF TypeOK
    <3>2. Behind < 0 /\ Size = Len(Hosts) /\ Size \in Nat
      BY <2>1, <2>3, HostsTyped DEF InRange, Behind, Size, TypeOK
    <3>3. Len(Hosts) < hostCnt  BY <3>2 DEF Behind, TypeOK
    <3>. QED  BY <2>1, <2>3, <3>1, <3>3 DEF Inside, SlotPerNeighbour, PanicsOnlyInShortSector, Hosts
  <2>. QED  BY <2>2, <2>3
<1>6. CASE RingEnd
  <2>1. TypeOK'  BY <1>6 DEF RingEnd, RingEndAt, TypeOK, configVars
  <2>. QED  BY <1>6, <2>1 DEF RingEnd, RingEndAt, Inside, SlotPerNeighbour, PanicsOnlyInShortSector, configVars
<1>7. CASE Add
  <2>. DEFINE h == Head(todo)
              s == sectors[i].name
  <2>. USE <1>7 DEF Add, AddUnless, AddSlot, configVars
  <2>1. i <= Len(sectors) /\ j <= Len(Hosts)  BY DEF Inside
  <2>2. h \in Addresses /\ todo' \in Seq(Addresses)  BY DEF TypeOK
  <2>3. s \in SectorNames  BY <2>1, HostsTyped
  <2>4. CASE Slots(h) = {}
    <3>1. ~IsNeighbour(h)  BY <2>2, <2>4, SlotIffNeighbour
    <3>2. vector' = Append(vector, [host |-> h, sectors |-> {s}])  BY <2>4
    <3>3. neighbours' = Append(neighbours, h)  BY <3>1
    <3>4. [host |-> h, sectors |-> {s}] \in Slot  BY <2>2, <2>3 DEF Slot
    <3>5. vector' \in Seq(Slot) /\ neighbours' \in Seq(Addresses)
      BY <2>2, <3>2, <3>3, <3>4 DEF TypeOK
    <3>6. TypeOK'  BY <2>2, <3>5 DEF TypeOK
    <3>7. SlotPerNeighbour'
      BY <2>2, <3>1, <3>2, <3>3, <3>4, NewSlotKeepsPairs
    <3>. QED  BY <3>6, <3>7 DEF Inside, PanicsOnlyInShortSector, Hosts
  <2>5. CASE Slots(h) # {}
    <3>. DEFINE k == FirstSlot(h)
    <3>1. k \in DOMAIN vector /\ IsNeighbour(h)
      BY <2>2, <2>5, FirstSlotIsSlot, SlotIffNeighbour
    <3>2. vector' = [vector EXCEPT ![k].sectors = @ \cup {s}] /\ neighbours' = neighbours
      BY <2>5, <3>1
    <3>3. vector[k] \in Slot  BY <3>1 DEF TypeOK
    <3>4. [vector[k] EXCEPT !.sectors = @ \cup {s}] \in Slot  BY <2>3, <3>3 DEF Slot
    <3>5. vector' \in Seq(Slot)  BY <3>1, <3>2, <3>4 DEF TypeOK
    <3>6. TypeOK'  BY <2>2, <3>2, <3>5 DEF TypeOK
    <3>7. /\ Len(vector') = Len(vector)
          /\ \A m \in DOMAIN vector : vector'[m].host = vector[m].host
      BY <3>1, <3>2, <3>3 DEF TypeOK, Slot
    <3>8. SlotPerNeighbour'  BY <3>2, <3>7 DEF TypeOK, SlotPerNeighbour
    <3>. QED  BY <3>6, <3>8 DEF Inside, PanicsOnlyInShortSector, Hosts
  <2>. QED  BY <2>4, <2>5
<1>8. CASE Reload
  <2>. PICK f \in Files, n \in 0 .. MaxHostCnt : ReloadWith(f, n)  BY <1>8 DEF Reload
  <2>1. f \in Seq(Sector)  BY FilesAssumption
  <2>. QED  BY <2>1, ReloadInv
<1>9. CASE UNCHANGED vars
  <2>1. TypeOK'  BY <1>9 DEF vars, configVars, TypeOK
  <2>. QED  BY <1>9, <2>1 DEF vars, configVars, Inside, SlotPerNeighbour, PanicsOnlyInShortSector, Hosts
<1>. QED  BY <1>1, <1>2, <1>3, <1>4, <1>5, <1>6, <1>7, <1>8, <1>9 DEF Next

-----------------------------------------------------------------------------
(***************************************************************************)
(* The theorems.                                                           *)
(***************************************************************************)

\* The inductive invariant holds in every behaviour.
THEOREM Invariance == Spec => []Inv
  BY InitInv, NextInv, PTL DEF Spec

\* Every variable keeps to its values.
THEOREM TypeCorrect == Spec => []TypeOK
<1>1. Inv => TypeOK  BY DEF Inv
<1>. QED  BY <1>1, Invariance, PTL

\* Neighbours and slots of the vector correspond one to one, whatever the
\* sectors repeat and however often the configuration is reloaded.
THEOREM OneSlotPerNeighbour == Spec => []SlotPerNeighbour
<1>1. Inv => SlotPerNeighbour  BY DEF Inv
<1>. QED  BY <1>1, Invariance, PTL

\* With sectors at least as long as host_cnt the search never panics.
THEOREM NoPanicInLongSectors == Spec => []PanicsOnlyInShortSector
<1>1. Inv => PanicsOnlyInShortSector  BY DEF Inv
<1>. QED  BY <1>1, Invariance, PTL

-----------------------------------------------------------------------------
(***************************************************************************)
(* What the search has found.  A place of the search is an address that a  *)
(* turn of the ring finds; the places are ordered as the loops come to     *)
(* them.  At every moment the neighbours and the names in their slots are  *)
(* those of the places passed so far.                                      *)
(***************************************************************************)
Place    == [sector : Nat, entry : Nat, distance : Nat, index : Nat]
Batch(z) == FoundAt(sectors[z.sector], z.entry, z.distance)
At(z)    == Batch(z)[z.index]
Places   ==
  {z \in Place :
     /\ z.sector \in DOMAIN sectors /\ z.entry \in DOMAIN sectors[z.sector].hosts
     /\ sectors[z.sector].hosts[z.entry].hostname = Me
     /\ z.distance \in 1 .. hostCnt /\ z.index \in DOMAIN Batch(z)}

\* The search comes to place y before place z.
Earlier(y, z) ==
  \/ y.sector < z.sector
  \/ y.sector = z.sector /\ y.entry < z.entry
  \/ y.sector = z.sector /\ y.entry = z.entry /\ y.distance < z.distance
  \/ y.sector = z.sector /\ y.entry = z.entry /\ y.distance = z.distance /\ y.index < z.index

\* The search is past place z: AddHost has been called for its address.
InRing == pc \in {"ring", "panic"}
Passed(z) ==
  \/ z.sector < i
  \/ z.sector = i /\ z.entry < j
  \/ z.sector = i /\ z.entry = j /\ InRing /\ z.distance < l - 1
  \/ /\ z.sector = i /\ z.entry = j /\ InRing /\ z.distance = l - 1
     /\ z.index <= Len(Batch(z)) - Len(todo)

\* What is still to be added is the end of what the last turn found, and the
\* agent runs with the search at its end.
Cursor ==
  /\ pc \in {"scan", "run"} => todo = <<>>
  /\ pc = "run" => i > Len(sectors)
  /\ pc = "ring" => Hosts[j].hostname = Me
  /\ pc = "ring" /\ todo # <<>> =>
       LET b == FoundAt(sectors[i], j, l - 1)
       IN  /\ l - 1 \in 1 .. hostCnt /\ Len(todo) <= Len(b)
           /\ \A x \in DOMAIN todo : todo[x] = b[Len(b) - Len(todo) + x]

HasName(h, x) == \E k \in DOMAIN vector : vector[k].host = h /\ x \in vector[k].sectors

\* The neighbours and the names in their slots are those found so far, and the
\* neighbours are in the order in which they were found first.
FoundSoFar ==
  /\ \A h \in Addresses : IsNeighbour(h) <=> \E z \in Places : Passed(z) /\ At(z) = h
  /\ \A h \in Addresses, x \in SectorNames :
       HasName(h, x) <=> \E z \in Places : Passed(z) /\ At(z) = h /\ sectors[z.sector].name = x
  /\ \A u, v \in DOMAIN neighbours : u < v =>
       \A z \in Places : At(z) = neighbours[v] =>
         \E y \in Places : At(y) = neighbours[u] /\ Earlier(y, z)

SearchInv == Inv /\ Cursor /\ FoundSoFar

\* What is at a place.
LEMMA PlaceTyped ==
  ASSUME TypeOK, NEW z \in Places
  PROVE  /\ Batch(z) \in Seq(Addresses) /\ z.index \in 1 .. Len(Batch(z)) /\ At(z) \in Addresses
         /\ sectors[z.sector].name \in SectorNames
         /\ z.sector \in 1 .. Len(sectors) /\ z.entry \in 1 .. Len(sectors[z.sector].hosts)
         /\ z.distance \in 1 .. hostCnt /\ hostCnt \in Nat
         /\ z.sector \in Nat /\ z.entry \in Nat /\ z.distance \in Nat /\ z.index \in Nat
<1>1. sectors[z.sector] \in Sector /\ z.sector \in 1 .. Len(sectors)  BY DEF Places, TypeOK
<1>2. /\ z.entry \in DOMAIN sectors[z.sector].hosts /\ z.distance \in Nat
      /\ z.index \in DOMAIN Batch(z)
      /\ z.sector \in Nat /\ z.entry \in Nat /\ z.index \in Nat
  BY DEF Places, Place
<1>3. Batch(z) \in Seq(Addresses)  BY <1>1, <1>2, FoundAtTyped DEF Batch
<1>4. z.index \in 1 .. Len(Batch(z)) /\ At(z) \in Addresses  BY <1>2, <1>3 DEF At
<1>5. sectors[z.sector].name \in SectorNames /\ sectors[z.sector].hosts \in Seq(Entry)
  BY <1>1 DEF Sector
<1>. QED  BY <1>1, <1>2, <1>3, <1>4, <1>5 DEF Places, TypeOK

\* The search passes the places in their order.
LEMMA PassedInOrder ==
  ASSUME TypeOK, NEW y \in Places, NEW z \in Places, Passed(y), ~Passed(z)
  PROVE  Earlier(y, z)
<1>. DEFINE ly == Len(Batch(y))
            lz == Len(Batch(z))
            t  == Len(todo)
<1>1. /\ y.sector \in Nat /\ y.entry \in Nat /\ y.distance \in Nat /\ y.index \in Nat
      /\ z.sector \in Nat /\ z.entry \in Nat /\ z.distance \in Nat /\ z.index \in Nat
      /\ ly \in Nat /\ lz \in Nat /\ t \in Nat /\ i \in Nat /\ j \in Nat /\ l \in Nat
  BY PlaceTyped DEF TypeOK
<1>2. y.sector = z.sector /\ y.entry = z.entry /\ y.distance = z.distance => ly = lz
  BY DEF Batch
<1>. HIDE DEF ly, lz, t
<1>3. y.sector <= i /\ i <= z.sector  BY <1>1 DEF Passed
<1>4. y.sector = z.sector => y.sector = i /\ y.entry <= j /\ j <= z.entry
  BY <1>1, <1>3 DEF Passed
<1>5. y.sector = z.sector /\ y.entry = z.entry =>
        y.entry = j /\ InRing /\ y.distance <= l - 1 /\ l - 1 <= z.distance
  BY <1>1, <1>3, <1>4 DEF Passed
<1>6. y.sector = z.sector /\ y.entry = z.entry /\ y.distance = z.distance => y.index < z.index
  <2>. SUFFICES ASSUME y.sector = z.sector, y.entry = z.entry, y.distance = z.distance
                PROVE  y.index < z.index
    OBVIOUS
  <2>1. y.sector = i /\ y.entry = j /\ InRing /\ y.distance = l - 1 /\ ly = lz
    BY <1>1, <1>2, <1>4, <1>5
  <2>2. y.index <= ly - t  BY <1>1, <2>1 DEF Passed, ly, t
  <2>3. ~(z.index <= lz - t)  BY <1>1, <2>1 DEF Passed, lz, t
  <2>. QED  BY <1>1, <2>1, <2>2, <2>3
<1>. QED  BY <1>1, <1>3, <1>4, <1>5, <1>6 DEF Earlier

\* A step that calls AddHost for no address, and leaves the configuration, the
\* neighbours and the vector alone, keeps what has been found.
LEMMA NothingFound ==
  ASSUME FoundSoFar, UNCHANGED <<configVars, neighbours, vector>>,
         \A z \in Places : Passed(z)' <=> Passed(z)
  PROVE  FoundSoFar'
<1>1. Places' = Places  BY DEF Places, Batch, configVars
<1>2. \A z \in Places : At(z)' = At(z)  BY DEF At, Batch, configVars
<1>3. \A h \in Addresses : IsNeighbour(h)' = IsNeighbour(h)  BY DEF IsNeighbour
<1>4. \A h \in Addresses, x \in SectorNames : HasName(h, x)' = HasName(h, x)  BY DEF HasName
<1>5. sectors' = sectors /\ neighbours' = neighbours  BY DEF configVars
<1>. QED  BY <1>1, <1>2, <1>3, <1>4, <1>5 DEF FoundSoFar

\* AddHost is called for the first address that is still to be added: that is
\* the place the search passes.
LEMMA AddPasses ==
  ASSUME SearchInv, Add
  PROVE  \E z \in Places :
           /\ At(z) = Head(todo) /\ z.sector = i /\ ~Passed(z)
           /\ \A y \in Places : Passed(y)' <=> (Passed(y) \/ y = z)
           /\ \A y \in Places : Earlier(y, z) => Passed(y)
<1>. DEFINE b == FoundAt(sectors[i], j, l - 1)
            z == [sector |-> i, entry |-> j, distance |-> l - 1, index |-> Len(b) - Len(todo) + 1]
<1>1. /\ pc = "ring" /\ todo \in Seq(Addresses) /\ todo # <<>> /\ todo' = Tail(todo)
      /\ UNCHANGED <<configVars, pc, i, j, l>>
      /\ i \in Nat \ {0} /\ j \in Nat \ {0} /\ l \in Nat
  BY DEF SearchInv, Inv, TypeOK, Add, AddUnless
<1>2. /\ i \in DOMAIN sectors /\ j \in DOMAIN sectors[i].hosts
      /\ sectors[i] \in Sector /\ sectors[i].hosts[j].hostname = Me
  <2>1. i <= Len(sectors) /\ j <= Len(Hosts) /\ Hosts[j].hostname = Me
    BY <1>1 DEF SearchInv, Inv, Inside, Cursor
  <2>. QED  BY <1>1, <2>1, HostsTyped DEF SearchInv, Inv, TypeOK, Hosts
<1>3. /\ l - 1 \in 1 .. hostCnt /\ Len(todo) <= Len(b)
      /\ \A x \in DOMAIN todo : todo[x] = b[Len(b) - Len(todo) + x]
  BY <1>1 DEF SearchInv, Cursor
<1>4. l - 1 \in Nat  BY <1>3 DEF SearchInv, Inv, TypeOK
<1>5. b \in Seq(Addresses)  BY <1>2, <1>4, FoundAtTyped
<1>6. /\ Len(todo) \in Nat \ {0} /\ 1 \in DOMAIN todo /\ Head(todo) = todo[1]
      /\ Len(todo') = Len(todo) - 1 /\ Len(b) \in Nat
  BY <1>1, <1>5
<1>. HIDE DEF b
<1>7. z.index \in DOMAIN b /\ z.index \in Nat /\ b[z.index] = Head(todo)
  BY <1>3, <1>5, <1>6
<1>8. Batch(z) = b  BY DEF Batch, b
<1>9. z \in Places /\ At(z) = Head(todo)
  BY <1>1, <1>2, <1>3, <1>4, <1>7, <1>8 DEF Places, Place, At
<1>10. ~Passed(z)  BY <1>1, <1>4, <1>6, <1>8 DEF Passed
<1>11. ASSUME NEW y \in Places PROVE Passed(y)' <=> (Passed(y) \/ y = z)
  <2>1. Batch(y)' = Batch(y)  BY <1>1 DEF Batch, configVars
  <2>2. /\ y.sector \in Nat /\ y.entry \in Nat /\ y.distance \in Nat /\ y.index \in Nat
        /\ Len(Batch(y)) \in Nat
    BY PlaceTyped DEF SearchInv, Inv
  <2>3. y = z <=> y.sector = i /\ y.entry = j /\ y.distance = l - 1 /\ y.index = Len(b) - Len(todo) + 1
    BY DEF Places, Place
  <2>4. InRing /\ InRing'  BY <1>1 DEF InRing
  <2>5. y.sector = i /\ y.entry = j /\ y.distance = l - 1 => Batch(y) = b  BY DEF Batch, b
  <2>. QED  BY <1>1, <1>6, <2>1, <2>2, <2>3, <2>4, <2>5 DEF Passed
<1>12. ASSUME NEW y \in Places, Earlier(y, z) PROVE Passed(y)
  <2>1. /\ y.sector \in Nat /\ y.entry \in Nat /\ y.distance \in Nat /\ y.index \in Nat
    BY PlaceTyped DEF SearchInv, Inv
  <2>2. InRing  BY <1>1 DEF InRing
  <2>3. y.sector = i /\ y.entry = j /\ y.distance = l - 1 => Batch(y) = b  BY DEF Batch, b
  <2>. QED  BY <1>1, <1>6, <1>12, <2>1, <2>2, <2>3 DEF Passed, Earlier
<1>. HIDE DEF z
<1>13. z.sector = i  BY DEF z
<1>. QED  BY <1>9, <1>10, <1>11, <1>12, <1>13

\* The other steps of the search pass no place and keep the cursor.
LEMMA SearchPassesNothing ==
  ASSUME SearchInv, NextSector \/ NotMe \/ IsMe \/ Ready \/ Ring \/ RingEnd
  PROVE  /\ UNCHANGED <<configVars, neighbours, vector>>
         /\ \A z \in Places : Passed(z)' <=> Passed(z)
         /\ Cursor'
<1>. USE DEF SearchInv, Inv
<1>1. UNCHANGED <<configVars, neighbours, vector>>
  BY DEF NextSector, NotMe, IsMe, Ready, Ring, Turn, RingEnd, RingEndAt
<1>2. UNCHANGED <<sectors, hostCnt>>  BY <1>1 DEF configVars
<1>3. i \in Nat /\ j \in Nat /\ l \in Nat /\ todo \in Seq(Addresses) /\ hostCnt \in Nat  BY DEF TypeOK
<1>4. \A z \in Places :
        /\ z.sector \in Nat \ {0} /\ z.entry \in Nat \ {0} /\ z.distance \in Nat \ {0} /\ z.index \in Nat \ {0}
        /\ z.index <= Len(Batch(z)) /\ Len(Batch(z)) \in Nat /\ Batch(z)' = Batch(z)
        /\ z.sector <= Len(sectors) /\ z.entry <= Len(sectors[z.sector].hosts)
        /\ z.distance <= hostCnt
        /\ sectors[z.sector].hosts[z.entry].hostname = Me
  BY <1>2, PlaceTyped DEF Batch, Places
<1>5. CASE NextSector
  <2>. USE <1>5 DEF NextSector
  <2>1. Cursor'  BY <1>2 DEF Cursor
  <2>2. ~InRing /\ ~InRing'  BY DEF InRing
  <2>3. \A z \in Places : Passed(z)' <=> Passed(z)  BY <1>3, <1>4, <2>2 DEF Passed, Hosts, TypeOK
  <2>. QED  BY <1>1, <2>1, <2>3
<1>6. CASE NotMe
  <2>. USE <1>6 DEF NotMe
  <2>1. Cursor'  BY <1>2 DEF Cursor
  <2>2. ~InRing /\ ~InRing'  BY DEF InRing
  <2>3. \A z \in Places : Passed(z)' <=> Passed(z)  BY <1>3, <1>4, <2>2 DEF Passed, Hosts, TypeOK
  <2>. QED  BY <1>1, <2>1, <2>3
<1>7. CASE IsMe
  <2>. USE <1>7 DEF IsMe
  <2>1. Cursor'  BY <1>2 DEF Cursor, Hosts
  <2>2. ~InRing  BY DEF InRing
  <2>3. \A z \in Places : Passed(z)' <=> Passed(z)  BY <1>3, <1>4, <2>2 DEF Passed
  <2>. QED  BY <1>1, <2>1, <2>3
<1>8. CASE Ready
  <2>. USE <1>8 DEF Ready
  <2>1. Cursor'  BY <1>2 DEF Cursor
  <2>2. ~InRing /\ ~InRing'  BY DEF InRing
  <2>3. \A z \in Places : Passed(z)' <=> Passed(z)  BY <1>3, <1>4, <2>2 DEF Passed
  <2>. QED  BY <1>1, <2>1, <2>3
<1>9. CASE Ring
  <2>. USE <1>9 DEF Ring, Turn
  <2>1. InRing /\ InRing' /\ i' = i /\ j' = j  BY DEF InRing
  <2>2. CASE InRange(Behind)
    <3>1. todo' = FoundAt(sectors[i], j, l) /\ l' = l + 1 /\ pc' = "ring" /\ l \in 1 .. hostCnt
      BY <2>2, TurnFinds DEF TypeOK
    <3>2. \A x \in DOMAIN todo' : x = Len(todo') - Len(todo') + x
      <4>1. /\ sectors[i] \in Sector /\ j \in DOMAIN sectors[i].hosts
        BY HostsTyped DEF Inside, Hosts, TypeOK
      <4>2. todo' \in Seq(Addresses)  BY <1>3, <3>1, <4>1, FoundAtTyped
      <4>. QED  BY <4>2
    <3>3. l' - 1 = l  BY <1>3, <3>1
    <3>4. Cursor'  BY <1>2, <2>1, <3>1, <3>2, <3>3 DEF Cursor, Hosts
    <3>5. \A z \in Places : z.sector = i /\ z.entry = j /\ z.distance = l => Batch(z) = todo'
      BY <3>1 DEF Batch
    <3>6. todo = <<>> /\ Len(todo) = 0  OBVIOUS
    <3>7. \A z \in Places : Passed(z)' <=> Passed(z)
      BY <1>3, <1>4, <2>1, <3>1, <3>3, <3>5, <3>6 DEF Passed
    <3>. QED  BY <1>1, <3>4, <3>7
  <2>3. CASE ~InRange(Behind)
    <3>1. pc' = "panic" /\ todo' = todo /\ l' = l  BY <2>3
    <3>2. Cursor'  BY <3>1 DEF Cursor
    <3>3. \A z \in Places : Passed(z)' <=> Passed(z)  BY <1>3, <1>4, <2>1, <3>1 DEF Passed
    <3>. QED  BY <1>1, <3>2, <3>3
  <2>. QED  BY <2>2, <2>3
<1>10. CASE RingEnd
  <2>. USE <1>10 DEF RingEnd, RingEndAt
  <2>1. Cursor'  BY <1>2 DEF Cursor
  <2>2. InRing /\ ~InRing' /\ Len(todo) = 0  BY DEF InRing
  <2>3. \A z \in Places : Passed(z)' <=> Passed(z)  BY <1>3, <1>4, <2>2 DEF Passed
  <2>. QED  BY <1>1, <2>1, <2>3
<1>. QED  BY <1>5, <1>6, <1>7, <1>8, <1>9, <1>10

\* AddHost makes its address a neighbour, if it was none, and leaves the others.
LEMMA AddNeighbour ==
  ASSUME TypeOK, Add
  PROVE  /\ Head(todo) \in Addresses
         /\ \A g \in Addresses : IsNeighbour(g)' <=> (IsNeighbour(g) \/ g = Head(todo))
         /\ \/ neighbours' = neighbours
            \/ ~IsNeighbour(Head(todo)) /\ neighbours' = Append(neighbours, Head(todo))
<1>. DEFINE h == Head(todo)
<1>1. h \in Addresses /\ neighbours \in Seq(Addresses)  BY DEF TypeOK, Add, AddUnless
<1>. HIDE DEF h
<1>2. CASE IsNeighbour(h)
  <2>1. neighbours' = neighbours  BY <1>2 DEF Add, AddUnless, h
  <2>. QED  BY <1>1, <1>2, <2>1 DEF IsNeighbour, h
<1>3. CASE ~IsNeighbour(h)
  <2>1. neighbours' = Append(neighbours, h)  BY <1>3 DEF Add, AddUnless, h
  <2>2. /\ DOMAIN neighbours = 1 .. Len(neighbours) /\ DOMAIN neighbours' = 1 .. Len(neighbours) + 1
        /\ Len(neighbours) \in Nat
        /\ \A k \in 1 .. Len(neighbours) : neighbours'[k] = neighbours[k]
        /\ neighbours'[Len(neighbours) + 1] = h
    BY <1>1, <2>1
  <2>3. \A k : k \in 1 .. Len(neighbours) + 1 <=> (k \in 1 .. Len(neighbours) \/ k = Len(neighbours) + 1)
    BY <2>2
  <2>4. ASSUME NEW g \in Addresses PROVE IsNeighbour(g)' <=> (IsNeighbour(g) \/ g = h)
    BY <2>2, <2>3 DEF IsNeighbour
  <2>. QED  BY <1>1, <1>3, <2>1, <2>4 DEF h
<1>. QED  BY <1>2, <1>3

\* AddHost adds the name of the sector to the slot of its address, and leaves
\* the other names.
LEMMA AddName ==
  ASSUME SearchInv, Add, NEW g \in Addresses, NEW x \in SectorNames
  PROVE  HasName(g, x)' <=> (HasName(g, x) \/ (g = Head(todo) /\ x = sectors[i].name))
<1>. DEFINE h == Head(todo)
            s == sectors[i].name
<1>. USE DEF SearchInv, Inv
<1>1. h \in Addresses  BY AddNeighbour
<1>2. s \in SectorNames /\ vector \in Seq(Slot)
  BY HostsTyped DEF Inside, TypeOK, Add, AddUnless
<1>3. vector' = IF Slots(h) = {} THEN Append(vector, [host |-> h, sectors |-> {s}])
                ELSE [vector EXCEPT ![FirstSlot(h)].sectors = @ \cup {s}]
  BY DEF Add, AddUnless, AddSlot
<1>. HIDE DEF h, s
<1>4. CASE Slots(h) = {}
  <2>. DEFINE n == Len(vector)
              e == [host |-> h, sectors |-> {s}]
  <2>1. e \in Slot /\ e.host = h /\ e.sectors = {s}  BY <1>1, <1>2 DEF Slot
  <2>. HIDE DEF e
  <2>2. vector' = Append(vector, e)  BY <1>3, <1>4 DEF e
  <2>3. /\ n \in Nat /\ DOMAIN vector = 1 .. n /\ DOMAIN vector' = 1 .. n + 1
        /\ \A k \in 1 .. n : vector'[k] = vector[k]
        /\ vector'[n + 1] = e
    BY <1>2, <2>1, <2>2
  <2>4. \A k : k \in 1 .. n + 1 <=> (k \in 1 .. n \/ k = n + 1)  BY <2>3
  <2>. QED  BY <2>1, <2>3, <2>4 DEF HasName, h, s
<1>5. CASE Slots(h) # {}
  <2>. DEFINE k == FirstSlot(h)
  <2>1. k \in DOMAIN vector /\ vector[k].host = h  BY <1>1, <1>5, FirstSlotIsSlot
  <2>. HIDE DEF k
  <2>2. vector' = [vector EXCEPT ![k].sectors = @ \cup {s}]  BY <1>3, <1>5 DEF k
  <2>3. vector[k] \in Slot  BY <1>2, <2>1
  <2>4. /\ DOMAIN vector' = DOMAIN vector
        /\ \A m \in DOMAIN vector : m # k => vector'[m] = vector[m]
        /\ vector'[k].host = h /\ vector'[k].sectors = vector[k].sectors \cup {s}
    BY <1>2, <2>1, <2>2, <2>3 DEF Slot
  <2>. QED  BY <2>1, <2>4 DEF HasName, h, s
<1>. QED  BY <1>4, <1>5

\* What AddHost is called for is found.
LEMMA AddFinds == ASSUME SearchInv, Add PROVE FoundSoFar'
<1>. DEFINE h == Head(todo)
<1>1. PICK z \in Places : /\ At(z) = h /\ z.sector = i /\ ~Passed(z)
                          /\ \A y \in Places : Passed(y)' <=> (Passed(y) \/ y = z)
  BY AddPasses
<1>2. UNCHANGED <<sectors, hostCnt>>  BY DEF Add, AddUnless, configVars
<1>3. Places' = Places  BY <1>2 DEF Places, Batch
<1>4. \A y \in Places : At(y)' = At(y)  BY <1>2 DEF At, Batch
<1>5. /\ h \in Addresses
      /\ \A g \in Addresses : IsNeighbour(g)' <=> (IsNeighbour(g) \/ g = h)
      /\ neighbours' = neighbours \/ (~IsNeighbour(h) /\ neighbours' = Append(neighbours, h))
  BY AddNeighbour DEF SearchInv, Inv
<1>. HIDE DEF h
<1>6. \A g \in Addresses : IsNeighbour(g)' <=> \E y \in Places' : Passed(y)' /\ At(y)' = g
  BY <1>1, <1>3, <1>4, <1>5 DEF SearchInv, FoundSoFar
<1>7. ASSUME NEW g \in Addresses, NEW x \in SectorNames
      PROVE  HasName(g, x)' <=> \E y \in Places' : Passed(y)' /\ At(y)' = g /\ sectors'[y.sector].name = x
  <2>1. HasName(g, x)' <=> (HasName(g, x) \/ (g = h /\ x = sectors[i].name))  BY AddName DEF h
  <2>2. HasName(g, x) <=> \E y \in Places : Passed(y) /\ At(y) = g /\ sectors[y.sector].name = x
    BY DEF SearchInv, FoundSoFar
  <2>. QED  BY <1>1, <1>2, <1>3, <1>4, <2>1, <2>2
<1>8. \A u, v \in DOMAIN neighbours' : u < v =>
        \A y \in Places' : At(y)' = neighbours'[v] =>
          \E q \in Places' : At(q)' = neighbours'[u] /\ Earlier(q, y)
  <2>1. CASE neighbours' = neighbours
    BY <1>3, <1>4, <2>1 DEF SearchInv, FoundSoFar
  <2>2. CASE ~IsNeighbour(h) /\ neighbours' = Append(neighbours, h)
    <3>. DEFINE n == Len(neighbours)
    <3>1. /\ n \in Nat /\ DOMAIN neighbours = 1 .. n /\ DOMAIN neighbours' = 1 .. n + 1
          /\ \A k \in 1 .. n : neighbours'[k] = neighbours[k] /\ neighbours[k] \in Addresses
          /\ neighbours'[n + 1] = h
      BY <1>5, <2>2 DEF SearchInv, Inv, TypeOK
    <3>. HIDE DEF n
    <3>. SUFFICES ASSUME NEW u \in 1 .. n + 1, NEW v \in 1 .. n + 1, u < v,
                         NEW y \in Places, At(y) = neighbours'[v]
                  PROVE  \E q \in Places : At(q) = neighbours'[u] /\ Earlier(q, y)
      BY <1>3, <1>4, <3>1
    <3>2. u \in 1 .. n /\ (v \in 1 .. n \/ v = n + 1)  BY <3>1
    <3>3. CASE v \in 1 .. n
      BY <3>1, <3>2, <3>3 DEF SearchInv, FoundSoFar
    <3>4. CASE v = n + 1
      <4>1. IsNeighbour(neighbours[u]) /\ neighbours[u] \in Addresses  BY <3>1, <3>2 DEF IsNeighbour
      <4>2. PICK q \in Places : Passed(q) /\ At(q) = neighbours[u]
        BY <4>1 DEF SearchInv, FoundSoFar
      <4>3. ~Passed(y)  BY <1>5, <2>2, <3>1, <3>4 DEF SearchInv, FoundSoFar
      <4>4. Earlier(q, y)  BY <4>2, <4>3, PassedInOrder DEF SearchInv, Inv
      <4>. QED  BY <3>1, <3>2, <4>2, <4>4
    <3>. QED  BY <3>2, <3>3, <3>4
  <2>. QED  BY <1>5, <2>1, <2>2
<1>. QED  BY <1>6, <1>7, <1>8 DEF FoundSoFar

\* After AddHost what is left is still the end of what the turn found.
LEMMA AddKeepsCursor == ASSUME SearchInv, Add PROVE Cursor'
<1>. DEFINE b == FoundAt(sectors[i], j, l - 1)
<1>1. /\ pc = "ring" /\ todo \in Seq(Addresses) /\ todo # <<>> /\ todo' = Tail(todo)
      /\ UNCHANGED <<sectors, hostCnt, pc, i, j, l>> /\ Hosts[j].hostname = Me
  BY DEF SearchInv, Inv, TypeOK, Add, AddUnless, configVars, Cursor
<1>2. /\ l - 1 \in 1 .. hostCnt /\ Len(todo) <= Len(b)
      /\ \A x \in DOMAIN todo : todo[x] = b[Len(b) - Len(todo) + x]
  BY <1>1 DEF SearchInv, Cursor
<1>3. b \in Seq(Addresses)
  <2>1. sectors[i] \in Sector /\ j \in DOMAIN sectors[i].hosts
    BY <1>1, HostsTyped DEF SearchInv, Inv, Inside, Hosts, TypeOK
  <2>2. l - 1 \in Nat  BY <1>2 DEF SearchInv, Inv, TypeOK
  <2>. QED  BY <2>1, <2>2, FoundAtTyped
<1>4. b' = b  BY <1>1
<1>. HIDE DEF b
<1>5. /\ Len(todo) \in Nat \ {0} /\ Len(b) \in Nat /\ Len(todo') = Len(todo) - 1
      /\ DOMAIN todo' = 1 .. Len(todo) - 1
      /\ \A x \in 1 .. Len(todo) - 1 : todo'[x] = todo[x + 1] /\ x + 1 \in DOMAIN todo /\ x \in Nat
  BY <1>1, <1>3
<1>6. Len(todo') <= Len(b) /\ \A x \in DOMAIN todo' : todo'[x] = b[Len(b) - Len(todo') + x]
  <2>1. \A x \in 1 .. Len(todo) - 1 : Len(b) - Len(todo) + (x + 1) = Len(b) - Len(todo') + x
    BY <1>5
  <2>2. ASSUME NEW x \in 1 .. Len(todo) - 1
        PROVE  todo'[x] = b[Len(b) - Len(todo) + (x + 1)]
    BY <1>2, <1>5
  <2>3. Len(todo') <= Len(b)  BY <1>2, <1>5
  <2>. QED  BY <1>5, <2>1, <2>2, <2>3
<1>. QED  BY <1>1, <1>2, <1>4, <1>6 DEF Cursor, Hosts, b

\* A reload starts the search again, with nothing found.
LEMMA ReloadFindsNothing ==
  ASSUME SearchInv, NEW f \in Seq(Sector), NEW n \in 0 .. MaxHostCnt, ReloadWith(f, n)
  PROVE  SearchInv'
<1>1. Inv'  BY ReloadInv DEF SearchInv
<1>2. /\ todo' = <<>> /\ pc' = "scan" /\ i' = 1 /\ j' = 1
      /\ neighbours' = <<>> /\ vector' = <<>>
  BY DEF ReloadWith, ReloadInto, SearchInv, Cursor
<1>3. Cursor'  BY <1>2 DEF Cursor
<1>4. ASSUME NEW z \in Places' PROVE ~Passed(z)'
  <2>1. /\ sectors' \in Seq(Sector) /\ z.sector \in DOMAIN sectors'
        /\ z.entry \in DOMAIN sectors'[z.sector].hosts
    BY <1>1 DEF Inv, TypeOK, Places
  <2>2. sectors'[z.sector] \in Sector /\ z.sector \in Nat \ {0}  BY <2>1
  <2>3. z.entry \in Nat \ {0}  BY <2>1, <2>2 DEF Sector
  <2>4. ~InRing'  BY <1>2 DEF InRing
  <2>. QED  BY <1>2, <2>2, <2>3, <2>4 DEF Passed
<1>5. FoundSoFar'  BY <1>2, <1>4 DEF FoundSoFar, IsNeighbour, HasName
<1>. QED  BY <1>1, <1>3, <1>5 DEF SearchInv

LEMMA SearchInit == Init => SearchInv
<1>. SUFFICES ASSUME Init PROVE SearchInv  OBVIOUS
<1>1. Cursor  BY DEF Init, Cursor
<1>2. Places = {}  BY DEF Init, Places
<1>3. FoundSoFar  BY <1>2 DEF Init, FoundSoFar, IsNeighbour, HasName
<1>. QED  BY <1>1, <1>3, InitInv DEF SearchInv

\* The steps of the search.
LEMMA SearchStep ==
  ASSUME SearchInv, NextSector \/ NotMe \/ IsMe \/ Ready \/ Ring \/ RingEnd \/ Add
  PROVE  SearchInv'
<1>1. Inv'  BY NextInv DEF SearchInv, Next
<1>2. CASE NextSector \/ NotMe \/ IsMe \/ Ready \/ Ring \/ RingEnd
  BY <1>1, <1>2, SearchPassesNothing, NothingFound DEF SearchInv
<1>3. CASE Add
  BY <1>1, <1>3, AddFinds, AddKeepsCursor DEF SearchInv
<1>. QED  BY <1>2, <1>3

LEMMA SearchStutter == ASSUME SearchInv, UNCHANGED vars PROVE SearchInv'
<1>1. Inv'  BY NextInv DEF SearchInv
<1>2. \A z \in Places : Passed(z)' <=> Passed(z)  BY DEF Passed, InRing, Batch, vars, configVars
<1>3. FoundSoFar'  BY <1>2, NothingFound DEF SearchInv, vars, configVars
<1>4. Cursor'  BY DEF SearchInv, Cursor, Hosts, vars, configVars
<1>. QED  BY <1>1, <1>3, <1>4 DEF SearchInv

LEMMA SearchNext == SearchInv /\ [Next]_vars => SearchInv'
<1>1. ASSUME SearchInv, Reload PROVE SearchInv'
  <2>1. PICK f \in Files, n \in 0 .. MaxHostCnt : ReloadWith(f, n)  BY <1>1 DEF Reload
  <2>2. f \in Seq(Sector)  BY FilesAssumption
  <2>. QED  BY <1>1, <2>1, <2>2, ReloadFindsNothing
<1>. QED  BY <1>1, SearchStep, SearchStutter DEF Next

-----------------------------------------------------------------------------
(***************************************************************************)
(* What is found around the ring.                                          *)
(***************************************************************************)

\* A multiple of b stays one when the sign is changed and b is taken away.
LEMMA MultipleBack ==
  ASSUME NEW a \in Int, NEW b \in Nat \ {0}, a % b = 0
  PROVE  (-a - b) % b = 0
<1>. DEFINE q == a \div b
            c == -a - b
            u == c \div b
            y == c % b
            q1 == -q - 1
<1>1. q \in Int /\ a = b * q + 0  BY Division
<1>2. c \in Int  OBVIOUS
<1>3. u \in Int /\ c = b * u + y /\ y \in 0 .. b - 1  BY <1>2, Division, RemainderInRange
<1>. HIDE DEF q, u, y
<1>4. b * q1 = -(b * q) - b /\ b * q \in Int  BY <1>1
<1>5. b * u + y = b * q1 + 0  BY <1>1, <1>3, <1>4
<1>6. q1 \in Int /\ u \in Int /\ y \in 0 .. b - 1 /\ 0 \in 0 .. b - 1  BY <1>1, <1>3
<1>. HIDE DEF q1
<1>. QED  BY <1>5, <1>6, OneRemainder DEF y

\* An index the ring comes to is the one at that distance, ahead or behind.
LEMMA RingIndex ==
  ASSUME NEW n \in Nat \ {0}, NEW p \in 1 .. n, NEW k \in 1 .. n, NEW d \in Nat
  PROVE  /\ Ahead(n, p, d) = k <=> (k - p - d) % n = 0
         /\ Back(n, p, d) = k <=> (p - k - d) % n = 0
<1>. DEFINE r == k - 1
            x == (p - 1 + d) % n
            y == (p - 1 - d + n) % n
            v == p - k - d
            w == k - 1 - (p - 1 - d + n)
<1>1. r \in 0 .. n - 1 /\ p - 1 + d \in Int /\ p - 1 - d + n \in Int /\ v \in Int /\ w \in Int
  OBVIOUS
<1>2. x = r <=> (r - (p - 1 + d)) % n = 0  BY <1>1, SameRemainder
<1>3. y = r <=> (r - (p - 1 - d + n)) % n = 0  BY <1>1, SameRemainder
<1>4. r - (p - 1 + d) = k - p - d /\ w = -v - n /\ v = -w - n  OBVIOUS
<1>5. v % n = 0 <=> w % n = 0  BY <1>1, <1>4, MultipleBack
<1>6. x \in Int /\ y \in Int  BY <1>1, RemainderInRange
<1>7. (x + 1 = k <=> x = r) /\ (y + 1 = k <=> y = r)
  <2>. HIDE DEF x, y
  <2>. QED  BY <1>6
<1>. QED  BY <1>2, <1>3, <1>4, <1>5, <1>7 DEF Ahead, Back

\* Two sequences in a row: where the members of each are.
LEMMA ConcatParts ==
  ASSUME NEW X, NEW S \in Seq(X), NEW T \in Seq(X)
  PROVE  /\ \A a \in DOMAIN S : a \in DOMAIN (S \o T) /\ (S \o T)[a] = S[a]
         /\ \A a \in DOMAIN T : Len(S) + a \in DOMAIN (S \o T) /\ (S \o T)[Len(S) + a] = T[a]
         /\ \A a \in DOMAIN (S \o T) : a \in DOMAIN S \/ \E x \in DOMAIN T : a = Len(S) + x
<1>. DEFINE U == S \o T
<1>1. /\ Len(S) \in Nat /\ Len(T) \in Nat
      /\ DOMAIN S = 1 .. Len(S) /\ DOMAIN T = 1 .. Len(T) /\ DOMAIN U = 1 .. Len(S) + Len(T)
      /\ \A a \in 1 .. Len(S) : U[a] = S[a]
      /\ \A a \in 1 .. Len(S) + Len(T) : a > Len(S) => U[a] = T[a - Len(S)]
  OBVIOUS
<1>. HIDE DEF U
<1>2. ASSUME NEW a \in DOMAIN T PROVE Len(S) + a \in DOMAIN U /\ U[Len(S) + a] = T[a]
  <2>1. Len(S) + a \in 1 .. Len(S) + Len(T) /\ Len(S) + a > Len(S) /\ (Len(S) + a) - Len(S) = a
    BY <1>1
  <2>. QED  BY <1>1, <2>1
<1>3. ASSUME NEW a \in DOMAIN U PROVE a \in DOMAIN S \/ \E x \in DOMAIN T : a = Len(S) + x
  <2>1. CASE a <= Len(S)  BY <1>1, <2>1
  <2>2. CASE a > Len(S)
    <3>1. a - Len(S) \in DOMAIN T /\ a = Len(S) + (a - Len(S))  BY <1>1, <2>2
    <3>. QED  BY <3>1
  <2>. QED  BY <1>1, <2>1, <2>2
<1>4. \A a \in DOMAIN S : a \in DOMAIN U /\ U[a] = S[a]  BY <1>1
<1>. QED  BY <1>2, <1>3, <1>4 DEF U

\* A turn finds the addresses of the other hosts at that distance.
LEMMA TurnFindsRing ==
  ASSUME NEW s \in Sector, NEW p \in DOMAIN s.hosts, NEW d \in Nat, NEW h \in Addresses
  PROVE  (\E a \in DOMAIN FoundAt(s, p, d) : FoundAt(s, p, d)[a] = h)
           <=> \E k \in 1 .. Len(s.hosts) :
                 /\ (k - p - d) % Len(s.hosts) = 0 \/ (p - k - d) % Len(s.hosts) = 0
                 /\ s.hosts[k].hostname # Me
                 /\ \E a \in DOMAIN s.hosts[k].addresses : s.hosts[k].addresses[a] = h
<1>. DEFINE n == Len(s.hosts)
            x == Ahead(n, p, d)
            y == Back(n, p, d)
            Has(k) == s.hosts[k].hostname # Me
                        /\ \E a \in DOMAIN s.hosts[k].addresses : s.hosts[k].addresses[a] = h
<1>1. s.hosts \in Seq(Entry) /\ n \in Nat \ {0} /\ DOMAIN s.hosts = 1 .. n /\ p \in 1 .. n
  BY DEF Sector
<1>2. x \in 1 .. n /\ y \in 1 .. n
  <2>. HIDE DEF n
  <2>. QED  BY <1>1, IndexInRing
<1>3. FoundAt(s, p, d) = Others(s.hosts[x]) \o Others(s.hosts[y])  BY DEF FoundAt
<1>. HIDE DEF n
<1>4. ASSUME NEW k \in 1 .. n
      PROVE  (x = k <=> (k - p - d) % n = 0) /\ (y = k <=> (p - k - d) % n = 0)
  <2>1. n \in Nat \ {0} /\ p \in 1 .. n  BY <1>1
  <2>2. x = k <=> (k - p - d) % n = 0  BY <2>1, RingIndex
  <2>3. y = k <=> (p - k - d) % n = 0  BY <2>1, RingIndex
  <2>. QED  BY <2>2, <2>3
<1>. HIDE DEF x, y
<1>5. ASSUME NEW k \in 1 .. n
      PROVE  /\ Others(s.hosts[k]) \in Seq(Addresses)
             /\ (\E a \in DOMAIN Others(s.hosts[k]) : Others(s.hosts[k])[a] = h) <=> Has(k)
  <2>1. s.hosts[k] \in Entry  BY <1>1
  <2>. QED  BY <2>1 DEF Others, Entry
<1>6. (\E a \in DOMAIN FoundAt(s, p, d) : FoundAt(s, p, d)[a] = h) <=> Has(x) \/ Has(y)
  <2>. DEFINE S == Others(s.hosts[x])
              T == Others(s.hosts[y])
  <2>1. /\ S \in Seq(Addresses) /\ T \in Seq(Addresses)
        /\ (\E a \in DOMAIN S : S[a] = h) <=> Has(x)
        /\ (\E a \in DOMAIN T : T[a] = h) <=> Has(y)
    BY <1>2, <1>5
  <2>. HIDE DEF S, T, Has
  <2>2. (\E a \in DOMAIN (S \o T) : (S \o T)[a] = h)
          <=> (\E a \in DOMAIN S : S[a] = h) \/ (\E a \in DOMAIN T : T[a] = h)
    <3>1. /\ \A a \in DOMAIN S : a \in DOMAIN (S \o T) /\ (S \o T)[a] = S[a]
          /\ \A a \in DOMAIN T : Len(S) + a \in DOMAIN (S \o T) /\ (S \o T)[Len(S) + a] = T[a]
          /\ \A a \in DOMAIN (S \o T) : a \in DOMAIN S \/ \E z \in DOMAIN T : a = Len(S) + z
      BY <2>1, ConcatParts
    <3>. DEFINE U == S \o T
    <3>2. /\ \A a \in DOMAIN S : a \in DOMAIN U /\ U[a] = S[a]
          /\ \A a \in DOMAIN T : Len(S) + a \in DOMAIN U /\ U[Len(S) + a] = T[a]
          /\ \A a \in DOMAIN U : a \in DOMAIN S \/ \E z \in DOMAIN T : a = Len(S) + z
      BY <3>1
    <3>. HIDE DEF U
    <3>. QED  BY <3>2 DEF U
  <2>. QED  BY <1>3, <2>1, <2>2 DEF S, T
<1>7. Has(x) \/ Has(y) <=> \E k \in 1 .. n : ((k - p - d) % n = 0 \/ (p - k - d) % n = 0) /\ Has(k)
  BY <1>2, <1>4
<1>. QED  BY <1>6, <1>7 DEF n

\* The places of a sector hold the addresses of the hosts the agent is to watch
\* in it.
LEMMA PlacesOfSector ==
  ASSUME TypeOK, NEW m \in DOMAIN sectors, NEW h \in Addresses
  PROVE  h \in AddressesOf(sectors[m], WatchedBy(Me, sectors[m]))
           <=> \E z \in Places : z.sector = m /\ At(z) = h
<1>. DEFINE s == sectors[m]
            n == Len(s.hosts)
            Has(k) == \E a \in DOMAIN s.hosts[k].addresses : s.hosts[k].addresses[a] = h
            Near(p, d, k) == (k - p - d) % n = 0 \/ (p - k - d) % n = 0
<1>1. s \in Sector /\ m \in Nat /\ hostCnt \in Nat  BY DEF TypeOK
<1>2. s.hosts \in Seq(Entry) /\ DOMAIN s.hosts = 1 .. n  BY <1>1 DEF Sector
<1>. HIDE DEF s
<1>3. h \in AddressesOf(s, WatchedBy(Me, s))
        <=> \E k \in 1 .. n, p \in 1 .. n, d \in 1 .. hostCnt :
              s.hosts[p].hostname = Me /\ Near(p, d, k) /\ s.hosts[k].hostname # Me /\ Has(k)
  <2>1. \A k : k \in WatchedBy(Me, s)
               <=> /\ k \in 1 .. n /\ s.hosts[k].hostname # Me
                   /\ \E p \in 1 .. n, d \in 1 .. hostCnt : s.hosts[p].hostname = Me /\ Near(p, d, k)
    BY DEF WatchedBy
  <2>2. h \in AddressesOf(s, WatchedBy(Me, s)) <=> \E k \in WatchedBy(Me, s) : Has(k)
    BY DEF AddressesOf
  <2>. HIDE DEF Has, Near, n
  <2>. QED  BY <2>1, <2>2
<1>4. ASSUME NEW p \in 1 .. n, NEW d \in 1 .. hostCnt
      PROVE  (\E a \in DOMAIN FoundAt(s, p, d) : FoundAt(s, p, d)[a] = h)
               <=> \E k \in 1 .. n : Near(p, d, k) /\ s.hosts[k].hostname # Me /\ Has(k)
  <2>1. d \in Nat /\ p \in DOMAIN s.hosts  BY <1>1, <1>2
  <2>. QED  BY <1>1, <2>1, TurnFindsRing
<1>5. h \in AddressesOf(s, WatchedBy(Me, s))
        <=> \E p \in 1 .. n, d \in 1 .. hostCnt :
              s.hosts[p].hostname = Me /\ \E a \in DOMAIN FoundAt(s, p, d) : FoundAt(s, p, d)[a] = h
  <2>. HIDE DEF Has, Near, n
  <2>. QED  BY <1>3, <1>4
<1>6. ASSUME NEW p \in 1 .. n, NEW d \in 1 .. hostCnt, s.hosts[p].hostname = Me,
             NEW a \in DOMAIN FoundAt(s, p, d), FoundAt(s, p, d)[a] = h
      PROVE  \E z \in Places : z.sector = m /\ At(z) = h
  <2>. DEFINE z == [sector |-> m, entry |-> p, distance |-> d, index |-> a]
  <2>1. d \in Nat /\ p \in DOMAIN s.hosts /\ p \in Nat  BY <1>1, <1>2
  <2>2. FoundAt(s, p, d) \in Seq(Addresses)  BY <1>1, <2>1, FoundAtTyped
  <2>3. a \in Nat  BY <2>2
  <2>4. Batch(z) = FoundAt(s, p, d)  BY DEF Batch, s
  <2>5. z \in Places  BY <1>1, <1>6, <2>1, <2>3, <2>4 DEF Places, Place, s
  <2>6. At(z) = h  BY <1>6, <2>4 DEF At
  <2>. QED  BY <2>5, <2>6
<1>7. ASSUME NEW z \in Places, z.sector = m, At(z) = h
      PROVE  \E p \in 1 .. n, d \in 1 .. hostCnt :
               s.hosts[p].hostname = Me /\ \E a \in DOMAIN FoundAt(s, p, d) : FoundAt(s, p, d)[a] = h
  BY <1>2, <1>7 DEF Places, Batch, At, s
<1>8. h \in AddressesOf(s, WatchedBy(Me, s)) <=> \E z \in Places : z.sector = m /\ At(z) = h
  <2>. HIDE DEF n
  <2>. QED  BY <1>5, <1>6, <1>7
<1>. QED  BY <1>8 DEF s

\* When the agent runs, all places have been passed.
LEMMA AllFound ==
  ASSUME SearchInv, pc = "run"
  PROVE  WatchesItsRing
<1>1. \A z \in Places : Passed(z)
  BY PlaceTyped DEF SearchInv, Inv, TypeOK, Cursor, Passed
<1>. SUFFICES ASSUME NEW h \in Addresses
              PROVE  {s.name : s \in {sectors[k] : k \in {m \in DOMAIN sectors :
                                        h \in AddressesOf(sectors[m], WatchedBy(Me, sectors[m]))}}}
                       = UNION {vector[k].sectors : k \in Slots(h)}
  BY DEF WatchesItsRing
<1>. DEFINE Watching == {m \in DOMAIN sectors : h \in AddressesOf(sectors[m], WatchedBy(Me, sectors[m]))}
            Names    == {s.name : s \in {sectors[k] : k \in Watching}}
            Given    == UNION {vector[k].sectors : k \in Slots(h)}
<1>2. \A x : x \in Names <=> \E m \in Watching : sectors[m].name = x  OBVIOUS
<1>3. \A m \in DOMAIN sectors : m \in Watching <=> \E z \in Places : z.sector = m /\ At(z) = h
  BY PlacesOfSector DEF SearchInv, Inv
<1>4. Watching \subseteq DOMAIN sectors /\ \A z \in Places : z.sector \in DOMAIN sectors
  BY DEF Places
<1>. HIDE DEF Watching
<1>5. \A x : x \in Names <=> \E z \in Places : At(z) = h /\ sectors[z.sector].name = x
  BY <1>2, <1>3, <1>4
<1>6. \A x : x \in Given <=> HasName(h, x)  BY DEF HasName, Slots
<1>7. Names \subseteq SectorNames /\ Given \subseteq SectorNames
  <2>1. Names \subseteq SectorNames  BY <1>5, PlaceTyped DEF SearchInv, Inv
  <2>2. \A k \in DOMAIN vector : vector[k] \in Slot  BY DEF SearchInv, Inv, TypeOK
  <2>3. Given \subseteq SectorNames  BY <2>2 DEF Slots, Slot
  <2>. QED  BY <2>1, <2>3
<1>8. \A x \in SectorNames :
        HasName(h, x) <=> \E z \in Places : At(z) = h /\ sectors[z.sector].name = x
  BY <1>1 DEF SearchInv, FoundSoFar
<1>. HIDE DEF Names, Given
<1>9. Names = Given  BY <1>5, <1>6, <1>7, <1>8
<1>. QED  BY <1>9 DEF Names, Given, Watching

\* Whatever the files say and however often they are loaded, a running agent
\* watches exactly the hosts near it around the ring of each of its sectors, and
\* the slots of the vector name those sectors.
THEOREM WatchesWhomItShould == Spec => []WatchesItsRing
<1>1. SearchInv => WatchesItsRing  BY AllFound DEF WatchesItsRing
<1>. QED  BY <1>1, SearchInit, SearchNext, PTL DEF Spec

-----------------------------------------------------------------------------
(***************************************************************************)
(* The loading of the files.                                               *)
(***************************************************************************)

\* Of the files read so far, those that name a channel leave it with the timeout
\* of the agent, and so do all of them once they are read.
FollowsUpTo(k) ==
  \A c \in ChannelNames :
    (\E m \in DOMAIN disk : m < k /\ c \in DOMAIN disk[m].channels)
      /\ (\A m \in DOMAIN disk : m < k /\ c \in DOMAIN disk[m].channels => disk[m].channels[c] = Unnamed)
    => channels[c] = timeout

LoaderTypes ==
  /\ disk \in Seq(File) /\ next \in Nat /\ loads \in Nat
  /\ added \in Seq(Sector) /\ count \in 0 .. MaxHostCnt

LoaderInv ==
  /\ LoaderTypes
  /\ next > 0 /\ OnlyMainNamesTimeout => FollowsUpTo(next)
  /\ ChannelsFollowAgent

LEMMA LoaderStarts == LoaderInit => LoaderInv
BY DefaultAssumption, DiskAssumption, CountAssumption
   DEF LoaderInit, Init, LoaderInv, LoaderTypes, ChannelsFollowAgent, Loaded

\* A file is read.
LEMMA FileRead == ASSUME LoaderInv, LoadFile PROVE LoaderInv'
<1>1. LoaderTypes' /\ next' = next + 1 /\ disk' = disk /\ loads' = loads
  <2>1. disk[next] \in File /\ next \in Nat
    BY DEF LoadFile, LoadFileWith, LoaderInv, LoaderTypes
  <2>2. disk[next].sectors \in Seq(Sector) /\ disk[next].hostCnt \in 0 .. MaxHostCnt \cup {Unnamed}
    BY <2>1 DEF File
  <2>3. added' \in Seq(Sector)
    BY <2>2 DEF LoadFile, LoadFileWith, LoaderInv, LoaderTypes
  <2>4. count' \in 0 .. MaxHostCnt
    BY <2>2 DEF LoadFile, LoadFileWith, LoaderInv, LoaderTypes, Named
  <2> QED
    BY <2>1, <2>3, <2>4 DEF LoadFile, LoadFileWith, LoaderInv, LoaderTypes, vars, configVars
<1>2. OnlyMainNamesTimeout' => FollowsUpTo(next)'
  <2> SUFFICES ASSUME OnlyMainNamesTimeout, NEW c \in ChannelNames,
                      NEW m \in DOMAIN disk, m < next + 1, c \in DOMAIN disk[m].channels,
                      \A n \in DOMAIN disk : n < next + 1 /\ c \in DOMAIN disk[n].channels
                                               => disk[n].channels[c] = Unnamed
               PROVE  channels'[c] = timeout'
    BY <1>1 DEF OnlyMainNamesTimeout, FollowsUpTo
  <2>1. next \in DOMAIN disk /\ DOMAIN disk \subseteq Nat \ {0} /\ next \in Nat
    BY DEF LoadFile, LoadFileWith, LoaderInv, LoaderTypes
  <2>2. channels'[c] = IF c \in DOMAIN disk[next].channels
                       THEN Named(disk[next].channels[c], timeout') ELSE channels[c]
    BY DEF LoadFile, LoadFileWith, Channels
  <2>3. CASE c \in DOMAIN disk[next].channels
    BY <2>1, <2>2, <2>3 DEF Named
  <2>4. CASE c \notin DOMAIN disk[next].channels
    <3>1. m < next /\ next > 1
      BY <2>1, <2>4
    <3>2. timeout' = timeout
      BY <2>1, <3>1 DEF OnlyMainNamesTimeout, LoadFile, LoadFileWith, Named
    <3>3. channels[c] = timeout
      BY <2>1, <3>1 DEF LoaderInv, FollowsUpTo
    <3> QED
      BY <2>2, <2>4, <3>2, <3>3
  <2> QED
    BY <2>3, <2>4
<1>3. ~Loaded'
  BY <1>1 DEF Loaded, LoaderInv, LoaderTypes
<1> QED
  BY <1>1, <1>2, <1>3 DEF LoaderInv, ChannelsFollowAgent

\* The other steps of the loader, and those of the search.
LEMMA LoaderStep == ASSUME LoaderInv, LoadBegin \/ LoadEnd \/ Select PROVE LoaderInv'
<1> USE DEF LoaderInv
<1>1. CASE LoadBegin
  <2>1. LoaderTypes'
    BY <1>1, DiskAssumption DEF LoadBegin, LoaderTypes, vars, configVars
  <2>2. FollowsUpTo(next)'
    BY <1>1, <2>1 DEF LoadBegin, FollowsUpTo, LoaderTypes
  <2>3. ~Loaded'
    BY <1>1 DEF LoadBegin, Loaded
  <2> QED
    BY <2>1, <2>2, <2>3 DEF ChannelsFollowAgent
<1>2. CASE LoadEnd
  <2>1. LoaderTypes' /\ next' = 0 /\ UNCHANGED <<disk, channels, timeout>>
    BY <1>2 DEF LoadEnd, ReloadWith, ReloadInto, LoaderTypes
  <2>2. next > 0 /\ \A m \in DOMAIN disk : m < next
    BY <1>2 DEF LoadEnd, LoaderTypes
  <2>3. ChannelsFollowAgent'
    BY <2>1, <2>2 DEF ChannelsFollowAgent, OnlyMainNamesTimeout, FollowsUpTo
  <2> QED
    BY <2>1, <2>3
<1>3. CASE Select
  <2>1. UNCHANGED loaderVars /\ loads' = loads
    BY <1>3 DEF Select, NextSector, NotMe, IsMe, Ready, Ring, Turn, RingEnd, RingEndAt, Add, AddUnless, configVars
  <2> QED
    BY <2>1 DEF loaderVars, LoaderTypes, FollowsUpTo, ChannelsFollowAgent, OnlyMainNamesTimeout, Loaded
<1> QED
  BY <1>1, <1>2, <1>3

\* If only the main file names net_timeout, every channel that does not name its
\* own has the timeout of the agent, whatever the files say and in however many
\* loads.
THEOREM Follows == LoaderSpec => []ChannelsFollowAgent
<1>1. LoaderInv /\ [LoaderNext]_<<vars, loaderVars>> => LoaderInv'
  <2>1. ASSUME LoaderInv, UNCHANGED <<vars, loaderVars>> PROVE LoaderInv'
    BY <2>1 DEF vars, configVars, loaderVars, LoaderInv, LoaderTypes, FollowsUpTo, ChannelsFollowAgent,
                OnlyMainNamesTimeout, Loaded
  <2> QED
    BY <2>1, FileRead, LoaderStep DEF LoaderNext
<1>2. LoaderInv => ChannelsFollowAgent
  BY DEF LoaderInv
<1> QED
  BY <1>1, <1>2, LoaderStarts, PTL DEF LoaderSpec

\* The loader takes the search of AtellaSectors over as it is: what is proved of
\* the search of any sectors can be used for the loader.
LEMMA LoaderImplements ==
  ASSUME Files = Seq(Sector)
  PROVE  LoaderSpec => Spec
<1>1. LoaderInv /\ [LoaderNext]_<<vars, loaderVars>> => LoaderInv' /\ [Next]_vars
  <2>1. ASSUME LoaderInv, UNCHANGED <<vars, loaderVars>> PROVE LoaderInv'
    BY <2>1 DEF vars, configVars, loaderVars, LoaderInv, LoaderTypes, FollowsUpTo, ChannelsFollowAgent,
                OnlyMainNamesTimeout, Loaded
  <2>2. ASSUME LoaderInv, LoadEnd PROVE Reload
    BY <2>2 DEF LoadEnd, Reload, LoaderInv, LoaderTypes
  <2>3. LoadBegin \/ LoadFile => UNCHANGED vars
    BY DEF LoadBegin, LoadFile, LoadFileWith
  <2>4. Select => Next
    BY DEF Select, Next
  <2> QED
    BY <2>1, <2>2, <2>3, <2>4, FileRead, LoaderStep DEF LoaderNext, Next
<1>2. LoaderInit => Init /\ LoaderInv
  BY LoaderStarts DEF LoaderInit
<1> QED
  BY <1>1, <1>2, PTL DEF LoaderSpec, Spec

-----------------------------------------------------------------------------
(***************************************************************************)
(* A load of the same files again.  A setting has the value of the last    *)
(* file that names it, or the one it had: N[m] is what file m names, and   *)
(* the files before k are read.                                            *)
(***************************************************************************)
LastNamed(N, k, old, new) ==
  \/ new = old /\ \A m \in DOMAIN N : m < k => N[m] = Unnamed
  \/ \E m \in DOMAIN N :
       /\ m < k /\ N[m] = new /\ new # Unnamed
       /\ \A n \in DOMAIN N : m < n /\ n < k => N[n] = Unnamed

TimeoutsOf(files) == [m \in DOMAIN files |-> files[m].timeout]
CountsOf(files)   == [m \in DOMAIN files |-> files[m].hostCnt]
ChannelIn(files, c, t) ==
  [m \in DOMAIN files |->
     IF c \in DOMAIN files[m].channels THEN Named(files[m].channels[c], t) ELSE Unnamed]

OnlyMainIn(files) == \A m \in DOMAIN files : m > 1 => files[m].timeout = Unnamed

\* The settings after the files before k, which were oldt, oldn and oldc.
ReadUpTo(files, k, oldt, oldn, oldc, t, n, ch) ==
  /\ LastNamed(TimeoutsOf(files), k, oldt, t)
  /\ LastNamed(CountsOf(files), k, oldn, n)
  /\ OnlyMainIn(files) =>
       \A c \in ChannelNames : LastNamed(ChannelIn(files, c, t), k, oldc[c], ch[c])

\* One more file is read.
LEMMA OneMoreFile ==
  ASSUME NEW N, DOMAIN N \subseteq Nat, NEW k \in DOMAIN N, NEW old, NEW new,
         LastNamed(N, k, old, new)
  PROVE  LastNamed(N, k + 1, old, Named(N[k], new))
<1>1. \A m \in DOMAIN N : m < k + 1 <=> (m < k \/ m = k)  OBVIOUS
<1>2. k < k + 1 /\ \A n \in DOMAIN N : ~(k < n /\ n < k + 1)  OBVIOUS
<1>3. CASE N[k] = Unnamed
  BY <1>1, <1>3 DEF LastNamed, Named
<1>4. CASE N[k] # Unnamed
  BY <1>2, <1>4 DEF LastNamed, Named
<1>. QED  BY <1>3, <1>4

\* Reading the same files again changes nothing.
LEMMA ReadAgain ==
  ASSUME NEW N, DOMAIN N \subseteq Nat, NEW k \in Nat, NEW old, NEW a, NEW b,
         LastNamed(N, k, old, a), LastNamed(N, k, a, b)
  PROVE  a = b
<1>1. CASE \A m \in DOMAIN N : m < k => N[m] = Unnamed
  BY <1>1 DEF LastNamed
<1>2. CASE \E m \in DOMAIN N : m < k /\ N[m] # Unnamed
  <2>1. PICK m \in DOMAIN N : /\ m < k /\ N[m] = a /\ a # Unnamed
                              /\ \A n \in DOMAIN N : m < n /\ n < k => N[n] = Unnamed
    BY <1>2 DEF LastNamed
  <2>2. PICK n \in DOMAIN N : /\ n < k /\ N[n] = b /\ b # Unnamed
                              /\ \A q \in DOMAIN N : n < q /\ q < k => N[q] = Unnamed
    BY <1>2 DEF LastNamed
  <2>3. m = n  BY <2>1, <2>2
  <2>. QED  BY <2>1, <2>2, <2>3
<1>. QED  BY <1>1, <1>2

\* The settings of the load before, and those of this one.
Settled(files, t, n, ch) ==
  \E oldt, oldn, oldc : ReadUpTo(files, Len(files) + 1, oldt, oldn, oldc, t, n, ch)

SettingsTyped ==
  /\ next \in 0 .. Len(disk) + 1
  /\ timeout \in Timeouts /\ channels \in [ChannelNames -> Timeouts \cup {Unnamed}]
  /\ before # <<>> => before.files \in Seq(File) /\ before.channels \in [ChannelNames -> Timeouts \cup {Unnamed}]

SettingsRead ==
  /\ next > 0 => /\ pc = "run"
                 /\ \E oldt, oldn, oldc :
                      /\ ReadUpTo(disk, next, oldt, oldn, oldc, timeout, count, channels)
                      /\ before # <<>> => oldt = before.timeout /\ oldn = before.count /\ oldc = before.channels
                 /\ before # <<>> => Settled(before.files, before.timeout, before.count, before.channels)
  /\ Loaded => /\ Settled(disk, timeout, count, channels)
               /\ hostCnt = count
               /\ before # <<>> /\ disk = before.files =>
                    /\ timeout = before.timeout /\ count = before.count
                    /\ OnlyMainNamesTimeout => channels = before.channels

SettingsInv == LoaderInv /\ SettingsTyped /\ SettingsRead

\* All files are read, and the agent begins its search.
LEMMA SettingsSettle == ASSUME SettingsInv, LoadEnd PROVE SettingsInv'
<1>1. /\ LoaderInv' /\ next' = 0 /\ hostCnt' = count
      /\ UNCHANGED <<disk, timeout, count, channels, before>>
  BY LoaderStep DEF SettingsInv, LoadEnd, ReloadWith, ReloadInto
<1>2. SettingsTyped'  BY <1>1 DEF SettingsInv, SettingsTyped, LoaderInv, LoaderTypes
<1>3. next = Len(disk) + 1 /\ disk \in Seq(File) /\ next > 0
  BY DEF SettingsInv, SettingsTyped, LoaderInv, LoaderTypes, LoadEnd
<1>4. PICK oldt, oldn, oldc :
        /\ ReadUpTo(disk, next, oldt, oldn, oldc, timeout, count, channels)
        /\ before # <<>> => oldt = before.timeout /\ oldn = before.count /\ oldc = before.channels
  BY <1>3 DEF SettingsInv, SettingsRead
<1>5. Settled(disk, timeout, count, channels)  BY <1>3, <1>4 DEF Settled
<1>6. ASSUME before # <<>>, disk = before.files
      PROVE  /\ timeout = before.timeout /\ count = before.count
             /\ OnlyMainNamesTimeout => channels = before.channels
  <2>1. PICK ot, on, oc :
          ReadUpTo(disk, next, ot, on, oc, before.timeout, before.count, before.channels)
    BY <1>3, <1>6 DEF SettingsInv, SettingsRead, Settled
  <2>2. ReadUpTo(disk, next, before.timeout, before.count, before.channels, timeout, count, channels)
    BY <1>4, <1>6
  <2>3. DOMAIN disk \subseteq Nat /\ next \in Nat  BY <1>3
  <2>4. DOMAIN TimeoutsOf(disk) \subseteq Nat /\ DOMAIN CountsOf(disk) \subseteq Nat
    BY <2>3 DEF TimeoutsOf, CountsOf
  <2>5. before.timeout = timeout
    BY <2>1, <2>2, <2>3, <2>4, ReadAgain DEF ReadUpTo
  <2>6. before.count = count
    BY <2>1, <2>2, <2>3, <2>4, ReadAgain DEF ReadUpTo
  <2>7. ASSUME OnlyMainNamesTimeout PROVE channels = before.channels
    <3>1. OnlyMainIn(disk)  BY <2>7 DEF OnlyMainNamesTimeout, OnlyMainIn
    <3>2. ASSUME NEW c \in ChannelNames PROVE before.channels[c] = channels[c]
      <4>1. DOMAIN ChannelIn(disk, c, timeout) \subseteq Nat  BY <2>3 DEF ChannelIn
      <4>2. /\ LastNamed(ChannelIn(disk, c, timeout), next, oc[c], before.channels[c])
            /\ LastNamed(ChannelIn(disk, c, timeout), next, before.channels[c], channels[c])
        BY <2>1, <2>2, <2>5, <3>1 DEF ReadUpTo
      <4>. QED  BY <2>3, <4>1, <4>2, ReadAgain
    <3>. QED  BY <1>6, <3>2 DEF SettingsInv, SettingsTyped
  <2>. QED  BY <2>5, <2>6, <2>7
<1>7. SettingsRead'
  BY <1>1, <1>5, <1>6 DEF SettingsRead, OnlyMainNamesTimeout
<1>. QED  BY <1>1, <1>2, <1>7 DEF SettingsInv

\* A file is read.
LEMMA SettingsOfFile == ASSUME SettingsInv, LoadFile PROVE SettingsInv'
<1>1. /\ LoaderInv' /\ next' = next + 1 /\ next \in DOMAIN disk
      /\ UNCHANGED <<disk, before, pc, loads>>
  BY FileRead DEF SettingsInv, LoadFile, LoadFileWith, vars, configVars
<1>2. /\ disk \in Seq(File) /\ next \in Nat \ {0} /\ disk[next] \in File
  BY <1>1 DEF SettingsInv, LoaderInv, LoaderTypes
<1>3. /\ timeout' = Named(disk[next].timeout, timeout)
      /\ count' = Named(disk[next].hostCnt, count)
      /\ channels' = [c \in ChannelNames |-> IF c \in DOMAIN disk[next].channels
                                            THEN Named(disk[next].channels[c], timeout') ELSE channels[c]]
  BY DEF LoadFile, LoadFileWith, Channels
<1>4. timeout' \in Timeouts
  BY <1>2, <1>3 DEF SettingsInv, SettingsTyped, File, Named
<1>5. channels' \in [ChannelNames -> Timeouts \cup {Unnamed}]
  <2>1. \A c \in DOMAIN disk[next].channels : disk[next].channels[c] \in Timeouts \cup {Unnamed}
    BY <1>2 DEF File
  <2>. QED  BY <1>3, <1>4, <2>1 DEF SettingsInv, SettingsTyped, Named
<1>6. SettingsTyped'
  BY <1>1, <1>2, <1>4, <1>5 DEF SettingsInv, SettingsTyped
<1>7. PICK oldt, oldn, oldc :
        /\ ReadUpTo(disk, next, oldt, oldn, oldc, timeout, count, channels)
        /\ before # <<>> => oldt = before.timeout /\ oldn = before.count /\ oldc = before.channels
  BY <1>2 DEF SettingsInv, SettingsRead
<1>8. LastNamed(TimeoutsOf(disk), next + 1, oldt, timeout')
  <2>1. DOMAIN TimeoutsOf(disk) = DOMAIN disk /\ TimeoutsOf(disk)[next] = disk[next].timeout
    BY <1>1 DEF TimeoutsOf
  <2>2. DOMAIN disk \subseteq Nat  BY <1>2
  <2>. QED  BY <1>1, <1>3, <1>7, <2>1, <2>2, OneMoreFile DEF ReadUpTo
<1>9. LastNamed(CountsOf(disk), next + 1, oldn, count')
  <2>1. DOMAIN CountsOf(disk) = DOMAIN disk /\ CountsOf(disk)[next] = disk[next].hostCnt
    BY <1>1 DEF CountsOf
  <2>2. DOMAIN disk \subseteq Nat  BY <1>2
  <2>. QED  BY <1>1, <1>3, <1>7, <2>1, <2>2, OneMoreFile DEF ReadUpTo
<1>10. ASSUME OnlyMainIn(disk), NEW c \in ChannelNames
       PROVE  LastNamed(ChannelIn(disk, c, timeout'), next + 1, oldc[c], channels'[c])
  <2>. DEFINE N == ChannelIn(disk, c, timeout')
  <2>1. /\ DOMAIN N = DOMAIN disk /\ DOMAIN disk \subseteq Nat \ {0}
        /\ N[next] = IF c \in DOMAIN disk[next].channels
                     THEN Named(disk[next].channels[c], timeout') ELSE Unnamed
    BY <1>1, <1>2 DEF ChannelIn
  <2>2. channels'[c] = Named(N[next], channels[c])
    <3>1. Named(disk[next].channels[c], timeout') # Unnamed
      BY <1>4, DefaultAssumption DEF Named
    <3>. QED  BY <1>3, <2>1, <3>1 DEF Named
  <2>3. LastNamed(ChannelIn(disk, c, timeout), next, oldc[c], channels[c])
    BY <1>7, <1>10 DEF ReadUpTo
  <2>4. LastNamed(N, next, oldc[c], channels[c])
    <3>1. CASE next = 1
      <4>1. \A m \in DOMAIN disk : ~(m < next)  BY <2>1, <3>1
      <4>2. DOMAIN ChannelIn(disk, c, timeout) = DOMAIN disk  BY DEF ChannelIn
      <4>3. channels[c] = oldc[c]  BY <2>3, <4>1, <4>2 DEF LastNamed
      <4>. HIDE DEF N
      <4>. QED  BY <2>1, <4>1, <4>3 DEF LastNamed
    <3>2. CASE next > 1
      <4>1. timeout' = timeout  BY <1>1, <1>3, <1>10, <3>2 DEF OnlyMainIn, Named
      <4>. QED  BY <2>3, <4>1
    <3>. QED  BY <1>2, <3>1, <3>2
  <2>. HIDE DEF N
  <2>5. DOMAIN N \subseteq Nat /\ next \in DOMAIN N  BY <1>1, <2>1
  <2>6. LastNamed(N, next + 1, oldc[c], Named(N[next], channels[c]))  BY <2>4, <2>5, OneMoreFile
  <2>. QED  BY <2>2, <2>6 DEF N
<1>11. ReadUpTo(disk, next + 1, oldt, oldn, oldc, timeout', count', channels')
  BY <1>8, <1>9, <1>10 DEF ReadUpTo
<1>12. ~Loaded' /\ next' > 0  BY <1>1, <1>2 DEF Loaded
<1>13. pc = "run" /\ (before # <<>> => Settled(before.files, before.timeout, before.count, before.channels))
  BY <1>2 DEF SettingsInv, SettingsRead
<1>14. SettingsRead'
  BY <1>1, <1>7, <1>11, <1>12, <1>13 DEF SettingsRead
<1>. QED  BY <1>1, <1>6, <1>14 DEF SettingsInv

\* A load begins, from the settings there are.
LEMMA SettingsKept == ASSUME SettingsInv, LoadBegin PROVE SettingsInv'
<1>1. /\ LoaderInv' /\ next = 0 /\ next' = 1 /\ pc' = "run"
      /\ UNCHANGED <<timeout, count, channels>>
      /\ before' = IF loads = 0 THEN <<>> ELSE Result
  BY LoaderStep DEF SettingsInv, LoadBegin, vars, configVars
<1>2. disk' \in Seq(File) /\ disk \in Seq(File)
  BY <1>1 DEF SettingsInv, LoaderInv, LoaderTypes
<1>3. before' # <<>> =>
        /\ loads > 0
        /\ before'.files = disk /\ before'.timeout = timeout /\ before'.count = count
        /\ before'.channels = channels
  BY <1>1 DEF Result, SettingsInv, LoaderInv, LoaderTypes
<1>4. SettingsTyped'
  BY <1>1, <1>2, <1>3 DEF SettingsInv, SettingsTyped
<1>5. ReadUpTo(disk', 1, timeout, count, channels, timeout, count, channels)
  <2>1. \A m \in DOMAIN disk' : ~(m < 1)  BY <1>2
  <2>2. \A c \in ChannelNames : DOMAIN ChannelIn(disk', c, timeout) = DOMAIN disk'  BY DEF ChannelIn
  <2>3. DOMAIN TimeoutsOf(disk') = DOMAIN disk' /\ DOMAIN CountsOf(disk') = DOMAIN disk'
    BY DEF TimeoutsOf, CountsOf
  <2>. QED  BY <2>1, <2>2, <2>3 DEF ReadUpTo, LastNamed
<1>6. before' # <<>> => Settled(disk, timeout, count, channels)
  BY <1>1, <1>3 DEF SettingsInv, SettingsRead, Loaded
<1>7. ~Loaded'  BY <1>1 DEF Loaded
<1>8. SettingsRead'
  BY <1>1, <1>3, <1>5, <1>6, <1>7 DEF SettingsRead
<1>. QED  BY <1>1, <1>4, <1>8 DEF SettingsInv

\* The search leaves the settings alone, and no search goes on while files are
\* read.
LEMMA SettingsAlone ==
  ASSUME SettingsInv, Select \/ UNCHANGED <<vars, loaderVars>>
  PROVE  SettingsInv'
<1>1. UNCHANGED loaderVars /\ UNCHANGED <<hostCnt, loads>> /\ (pc = "run" => pc' = "run")
  BY DEF Select, NextSector, NotMe, IsMe, Ready, Ring, Turn, RingEnd, RingEndAt, Add, AddUnless, vars, configVars
<1>2. LoaderInv'
  <2>1. CASE Select  BY <2>1, LoaderStep DEF SettingsInv
  <2>2. CASE UNCHANGED <<vars, loaderVars>>
    BY <2>2 DEF SettingsInv, vars, configVars, loaderVars, LoaderInv, LoaderTypes, FollowsUpTo, ChannelsFollowAgent,
                OnlyMainNamesTimeout, Loaded
  <2>. QED  BY <2>1, <2>2
<1>3. /\ disk' = disk /\ next' = next /\ timeout' = timeout /\ count' = count
      /\ channels' = channels /\ before' = before /\ hostCnt' = hostCnt /\ loads' = loads
  BY <1>1 DEF loaderVars
<1>4. SettingsTyped'  BY <1>3 DEF SettingsInv, SettingsTyped
<1>5. SettingsRead'  BY <1>1, <1>3 DEF SettingsInv, SettingsRead, Loaded, OnlyMainNamesTimeout
<1>. QED  BY <1>2, <1>4, <1>5 DEF SettingsInv

-----------------------------------------------------------------------------
(***************************************************************************)
(* The sectors are there twice after such a load.  What the first of them  *)
(* gave, in the load before, is found again in the same order; the second  *)
(* ones then add nothing.                                                  *)
(***************************************************************************)

\* Every sector of the files is among these sectors.
AllAmong(files, secs) ==
  \A k \in DOMAIN files : \A q \in DOMAIN files[k].sectors :
    \E m \in DOMAIN secs : secs[m] = files[k].sectors[q]

SectorsRead ==
  /\ next > 0 =>
       /\ \A m \in DOMAIN added : \E k \in DOMAIN disk : \E q \in DOMAIN disk[k].sectors :
            added[m] = disk[k].sectors[q]
       /\ \A k \in DOMAIN disk : k < next => \A q \in DOMAIN disk[k].sectors :
            \E m \in DOMAIN added : added[m] = disk[k].sectors[q]
       /\ before # <<>> =>
            /\ AllAmong(before.files, sectors)
            /\ neighbours = before.neighbours /\ vector = before.vector /\ hostCnt = before.count
  /\ Loaded => AllAmong(disk, sectors)

\* What the load before has found: all that is in the first n0 sectors, and the
\* others repeat these.
FoundBefore(n0) ==
  /\ \A m \in DOMAIN sectors : \E m0 \in DOMAIN sectors : m0 <= n0 /\ sectors[m0] = sectors[m]
  /\ before.neighbours \in Seq(Addresses) /\ before.vector \in Seq(Slot)
  /\ \A h \in Addresses :
       (\E k \in DOMAIN before.neighbours : before.neighbours[k] = h)
         <=> \E z \in Places : z.sector <= n0 /\ At(z) = h
  /\ \A h \in Addresses, x \in SectorNames :
       (\E k \in DOMAIN before.vector : before.vector[k].host = h /\ x \in before.vector[k].sectors)
         <=> \E z \in Places : z.sector <= n0 /\ At(z) = h /\ sectors[z.sector].name = x
  /\ \A u, v \in DOMAIN before.neighbours : u < v =>
       \A z \in Places : z.sector <= n0 /\ At(z) = before.neighbours[v] =>
         \E y \in Places : At(y) = before.neighbours[u] /\ Earlier(y, z)
  /\ Len(before.vector) = Len(before.neighbours)
  /\ \A k \in DOMAIN before.neighbours :
       /\ before.vector[k].host = before.neighbours[k]
       /\ \A m \in DOMAIN before.neighbours : before.neighbours[k] = before.neighbours[m] => k = m

\* The neighbours found so far are the first of those of the load before.
FoundAgain ==
  Loaded /\ before # <<>> /\ disk = before.files =>
    /\ \E n0 \in Nat : FoundBefore(n0)
    /\ Len(neighbours) <= Len(before.neighbours)
    /\ \A k \in DOMAIN neighbours : neighbours[k] = before.neighbours[k]

StableInv == SearchInv /\ SettingsInv /\ SectorsRead /\ FoundAgain

\* A file is read.
LEMMA SectorsOfFile ==
  ASSUME StableInv, LoadFile
  PROVE  StableInv'
<1>1. SettingsInv' /\ UNCHANGED vars  BY SettingsOfFile DEF StableInv, LoadFile, LoadFileWith
<1>2. SearchInv'  BY <1>1, SearchStutter DEF StableInv
<1>3. /\ next \in DOMAIN disk /\ next' = next + 1 /\ disk' = disk /\ before' = before
      /\ added' = added \o disk[next].sectors
      /\ UNCHANGED <<sectors, neighbours, vector, hostCnt, loads>>
  BY DEF LoadFile, LoadFileWith, vars, configVars
<1>4. disk \in Seq(File) /\ next \in Nat \ {0} /\ added \in Seq(Sector)
  BY <1>3 DEF StableInv, SettingsInv, LoaderInv, LoaderTypes
<1>. DEFINE new == disk[next].sectors
<1>5. new \in Seq(Sector)
  <2>1. disk[next] \in File  BY <1>3, <1>4
  <2>. QED  BY <2>1 DEF File
<1>. HIDE DEF new
<1>6. /\ \A m \in DOMAIN added : m \in DOMAIN added' /\ added'[m] = added[m]
      /\ \A q \in DOMAIN new : Len(added) + q \in DOMAIN added' /\ added'[Len(added) + q] = new[q]
      /\ \A m \in DOMAIN added' : m \in DOMAIN added \/ \E q \in DOMAIN new : m = Len(added) + q
  <2>1. added' = added \o new  BY <1>3 DEF new
  <2>. QED  BY <1>4, <1>5, <2>1, ConcatParts
<1>7. \A m \in DOMAIN added' : \E k \in DOMAIN disk : \E q \in DOMAIN disk[k].sectors :
        added'[m] = disk[k].sectors[q]
  <2>. SUFFICES ASSUME NEW m \in DOMAIN added'
                PROVE  \E k \in DOMAIN disk : \E q \in DOMAIN disk[k].sectors :
                         added'[m] = disk[k].sectors[q]
    OBVIOUS
  <2>1. CASE m \in DOMAIN added  BY <1>4, <1>6, <2>1 DEF StableInv, SectorsRead
  <2>2. ASSUME NEW q \in DOMAIN new, m = Len(added) + q
        PROVE  \E k \in DOMAIN disk : \E p \in DOMAIN disk[k].sectors :
                 added'[m] = disk[k].sectors[p]
    <3>1. added'[m] = disk[next].sectors[q] /\ q \in DOMAIN disk[next].sectors
      BY <1>6, <2>2 DEF new
    <3>. QED  BY <1>3, <3>1
  <2>. QED  BY <1>6, <2>1, <2>2
<1>8. \A k \in DOMAIN disk : k < next + 1 => \A q \in DOMAIN disk[k].sectors :
        \E m \in DOMAIN added' : added'[m] = disk[k].sectors[q]
  <2>. SUFFICES ASSUME NEW k \in DOMAIN disk, k < next + 1, NEW q \in DOMAIN disk[k].sectors
                PROVE  \E m \in DOMAIN added' : added'[m] = disk[k].sectors[q]
    OBVIOUS
  <2>1. CASE k = next  BY <1>6, <2>1 DEF new
  <2>2. CASE k < next
    <3>1. \E m \in DOMAIN added : added[m] = disk[k].sectors[q]
      BY <1>4, <2>2 DEF StableInv, SectorsRead
    <3>. QED  BY <1>6, <3>1
  <2>. QED  BY <1>4, <2>1, <2>2
<1>9. ~Loaded' /\ next' > 0  BY <1>3, <1>4 DEF Loaded
<1>10. before # <<>> =>
         /\ AllAmong(before.files, sectors)
         /\ neighbours = before.neighbours /\ vector = before.vector /\ hostCnt = before.count
  BY <1>4 DEF StableInv, SectorsRead
<1>11. SectorsRead'  BY <1>3, <1>7, <1>8, <1>9, <1>10 DEF SectorsRead
<1>. QED  BY <1>1, <1>2, <1>9, <1>11 DEF StableInv, FoundAgain

\* A load begins.
LEMMA LoadRemembers == ASSUME StableInv, LoadBegin PROVE StableInv'
<1>1. SettingsInv' /\ UNCHANGED vars  BY SettingsKept DEF StableInv, LoadBegin
<1>2. SearchInv'  BY <1>1, SearchStutter DEF StableInv
<1>3. /\ next = 0 /\ next' = 1 /\ added' = <<>>
      /\ before' = IF loads = 0 THEN <<>> ELSE Result
      /\ UNCHANGED <<sectors, neighbours, vector, hostCnt, loads>>
  BY DEF LoadBegin, vars, configVars
<1>4. ~Loaded'  BY <1>3 DEF Loaded
<1>5. disk' \in Seq(File)  BY <1>1 DEF SettingsInv, LoaderInv, LoaderTypes
<1>6. ASSUME before' # <<>>
      PROVE  /\ AllAmong(before'.files, sectors)
             /\ neighbours = before'.neighbours /\ vector = before'.vector /\ hostCnt = before'.count
  <2>1. Loaded
    BY <1>3, <1>6 DEF Loaded, StableInv, SettingsInv, LoaderInv, LoaderTypes
  <2>2. before' = Result  BY <1>3, <2>1 DEF Loaded
  <2>3. hostCnt = count /\ AllAmong(disk, sectors)
    BY <2>1 DEF StableInv, SettingsInv, SettingsRead, SectorsRead
  <2>. QED  BY <2>2, <2>3 DEF Result
<1>7. SectorsRead'  BY <1>3, <1>4, <1>5, <1>6 DEF SectorsRead
<1>. QED  BY <1>1, <1>2, <1>4, <1>7 DEF StableInv, FoundAgain

\* All files are read, and the agent begins its search.
LEMMA SearchRemembers == ASSUME StableInv, LoadEnd PROVE StableInv'
<1>1. SettingsInv'  BY SettingsSettle DEF StableInv
<1>2. /\ added \in Seq(Sector) /\ count \in 0 .. MaxHostCnt /\ disk \in Seq(File)
      /\ sectors \in Seq(Sector) /\ pc = "run"
  BY DEF StableInv, SettingsInv, LoaderInv, LoaderTypes, SearchInv, Inv, TypeOK, LoadEnd, ReloadWith, ReloadInto
<1>3. SearchInv'  BY <1>2, ReloadFindsNothing DEF StableInv, LoadEnd
<1>4. /\ sectors' = sectors \o added /\ hostCnt' = count /\ next' = 0
      /\ neighbours' = <<>> /\ disk' = disk /\ before' = before
      /\ next > Len(disk)
  BY <1>2 DEF LoadEnd, ReloadWith, ReloadInto
<1>0. next > 0 /\ next \in Nat /\ DOMAIN disk = 1 .. Len(disk)
  BY <1>2, <1>4 DEF StableInv, SettingsInv, LoaderInv, LoaderTypes
<1>. PICK n0 \in Nat : n0 = Len(sectors)  BY <1>2
<1>5. /\ DOMAIN sectors = 1 .. n0
      /\ \A m \in DOMAIN sectors : m \in DOMAIN sectors' /\ sectors'[m] = sectors[m]
      /\ \A m \in DOMAIN added : n0 + m \in DOMAIN sectors' /\ sectors'[n0 + m] = added[m]
      /\ \A m \in DOMAIN sectors' : m \in DOMAIN sectors \/ \E x \in DOMAIN added : m = n0 + x
      /\ \A m \in DOMAIN sectors' : m \in Nat /\ m >= 1
  <2>1. \A m \in DOMAIN sectors' : m \in Nat /\ m >= 1  BY <1>3 DEF SearchInv, Inv, TypeOK
  <2>2. /\ \A m \in DOMAIN sectors : m \in DOMAIN sectors' /\ sectors'[m] = sectors[m]
        /\ \A m \in DOMAIN added :
             Len(sectors) + m \in DOMAIN sectors' /\ sectors'[Len(sectors) + m] = added[m]
        /\ \A m \in DOMAIN sectors' :
             m \in DOMAIN sectors \/ \E x \in DOMAIN added : m = Len(sectors) + x
    <3>1. sectors \in Seq(Sector) /\ added \in Seq(Sector) /\ sectors' = sectors \o added
      BY <1>2, <1>4
    <3>. QED  BY <3>1, ConcatParts
  <2>3. DOMAIN sectors = 1 .. n0  BY <1>2
  <2>. QED  BY <2>1, <2>2, <2>3
<1>6. AllAmong(disk, sectors')
  <2>. SUFFICES ASSUME NEW k \in DOMAIN disk, NEW q \in DOMAIN disk[k].sectors
                PROVE  \E m \in DOMAIN sectors' : sectors'[m] = disk[k].sectors[q]
    BY DEF AllAmong
  <2>1. k < next  BY <1>0, <1>2, <1>4
  <2>2. PICK m \in DOMAIN added : added[m] = disk[k].sectors[q]
    BY <1>0, <2>1 DEF StableInv, SectorsRead
  <2>. QED  BY <1>5, <2>2
<1>7. SectorsRead'  BY <1>4, <1>6 DEF SectorsRead
<1>8. ASSUME before # <<>>, disk = before.files
      PROVE  FoundBefore(n0)'
  <2>1. /\ neighbours = before.neighbours /\ vector = before.vector /\ hostCnt = before.count
        /\ AllAmong(disk, sectors)
        /\ \A m \in DOMAIN added : \E k \in DOMAIN disk : \E q \in DOMAIN disk[k].sectors :
             added[m] = disk[k].sectors[q]
    BY <1>0, <1>8 DEF StableInv, SectorsRead
  <2>2. hostCnt' = hostCnt
    <3>1. Loaded'  BY <1>4 DEF Loaded, LoadEnd, ReloadWith, ReloadInto, StableInv, SettingsInv, LoaderInv, LoaderTypes
    <3>2. count' = before'.count  BY <1>1, <1>4, <1>8, <3>1 DEF SettingsInv, SettingsRead
    <3>3. count' = count  BY DEF LoadEnd
    <3>. QED  BY <1>4, <2>1, <3>2, <3>3
  <2>3. \A m \in DOMAIN sectors' : \E m0 \in DOMAIN sectors' : m0 <= n0 /\ sectors'[m0] = sectors'[m]
    <3>. SUFFICES ASSUME NEW m \in DOMAIN sectors'
                  PROVE  \E m0 \in DOMAIN sectors : sectors[m0] = sectors'[m]
      BY <1>5
    <3>1. CASE m \in DOMAIN sectors  BY <1>5, <3>1
    <3>2. ASSUME NEW x \in DOMAIN added, m = n0 + x
          PROVE  \E m0 \in DOMAIN sectors : sectors[m0] = sectors'[m]
      <4>1. sectors'[m] = added[x]  BY <1>5, <3>2
      <4>. QED  BY <2>1, <4>1 DEF AllAmong
    <3>. QED  BY <1>5, <3>1, <3>2
  <2>4. \A z : (z \in Places' /\ z.sector <= n0) <=> z \in Places
    <3>1. \A z \in Place : z.sector \in DOMAIN sectors =>
                            sectors'[z.sector] = sectors[z.sector] /\ Batch(z)' = Batch(z)
      BY <1>5 DEF Batch
    <3>2. \A z \in Place : (z.sector \in DOMAIN sectors' /\ z.sector <= n0) <=> z.sector \in DOMAIN sectors
      BY <1>5
    <3>. QED  BY <1>5, <2>2, <3>1, <3>2 DEF Places
  <2>5. \A z \in Places : At(z)' = At(z) /\ sectors'[z.sector] = sectors[z.sector]
    BY <1>5 DEF At, Batch, Places
  <2>6. \A z \in Places : Passed(z)
    BY <1>2, PlaceTyped DEF StableInv, SearchInv, Inv, TypeOK, Cursor, Passed
  <2>7. /\ before.neighbours \in Seq(Addresses) /\ before.vector \in Seq(Slot)
        /\ Len(before.vector) = Len(before.neighbours)
        /\ \A k \in DOMAIN before.neighbours :
             /\ before.vector[k].host = before.neighbours[k]
             /\ \A m \in DOMAIN before.neighbours : before.neighbours[k] = before.neighbours[m] => k = m
    BY <2>1 DEF StableInv, SearchInv, Inv, TypeOK, SlotPerNeighbour
  <2>8. \A h \in Addresses :
          (\E k \in DOMAIN before.neighbours : before.neighbours[k] = h) <=> \E z \in Places : At(z) = h
    BY <2>1, <2>6 DEF StableInv, SearchInv, FoundSoFar, IsNeighbour
  <2>9. \A h \in Addresses, x \in SectorNames :
          (\E k \in DOMAIN before.vector : before.vector[k].host = h /\ x \in before.vector[k].sectors)
            <=> \E z \in Places : At(z) = h /\ sectors[z.sector].name = x
    BY <2>1, <2>6 DEF StableInv, SearchInv, FoundSoFar, HasName
  <2>10. \A u, v \in DOMAIN before.neighbours : u < v =>
           \A z \in Places : At(z) = before.neighbours[v] =>
             \E y \in Places : At(y) = before.neighbours[u] /\ Earlier(y, z)
    BY <2>1 DEF StableInv, SearchInv, FoundSoFar
  <2>11. before' = before  BY <1>4
  <2>12. \A h \in Addresses :
           (\E k \in DOMAIN before.neighbours : before.neighbours[k] = h)
             <=> \E z \in Places' : z.sector <= n0 /\ At(z)' = h
    BY <2>4, <2>5, <2>8
  <2>13. \A h \in Addresses, x \in SectorNames :
           (\E k \in DOMAIN before.vector : before.vector[k].host = h /\ x \in before.vector[k].sectors)
             <=> \E z \in Places' : z.sector <= n0 /\ At(z)' = h /\ sectors'[z.sector].name = x
    BY <2>4, <2>5, <2>9
  <2>14. \A u, v \in DOMAIN before.neighbours : u < v =>
           \A z \in Places' : z.sector <= n0 /\ At(z)' = before.neighbours[v] =>
             \E y \in Places' : At(y)' = before.neighbours[u] /\ Earlier(y, z)
    BY <2>4, <2>5, <2>10
  <2>. QED  BY <2>3, <2>7, <2>11, <2>12, <2>13, <2>14 DEF FoundBefore
<1>9. FoundAgain'
  <2>. SUFFICES ASSUME before # <<>>, disk = before.files PROVE FoundAgain'
    BY <1>4 DEF FoundAgain
  <2>1. FoundBefore(n0)'  BY <1>8
  <2>2. Len(neighbours') = 0 /\ DOMAIN neighbours' = {} /\ before.neighbours \in Seq(Addresses)
    BY <1>4, <2>1 DEF FoundBefore
  <2>3. Len(neighbours') <= Len(before'.neighbours)  BY <1>4, <2>2
  <2>4. \E n \in Nat : FoundBefore(n)'  BY <2>1
  <2>. QED  BY <2>2, <2>3, <2>4 DEF FoundAgain
<1>. QED  BY <1>1, <1>3, <1>7, <1>9 DEF StableInv

\* What is at a place is also at that place of a sector equal to its own.
LEMMA SamePlace ==
  ASSUME NEW z \in Places, NEW m \in DOMAIN sectors, sectors[m] = sectors[z.sector], m \in Nat
  PROVE  \E y \in Places : y.sector = m /\ At(y) = At(z)
<1>. DEFINE y == [sector |-> m, entry |-> z.entry, distance |-> z.distance, index |-> z.index]
<1>1. Batch(y) = Batch(z)  BY DEF Batch
<1>2. y \in Places  BY <1>1 DEF Places, Place
<1>3. At(y) = At(z)  BY <1>1 DEF At
<1>. QED  BY <1>2, <1>3

\* A new neighbour is the next one of those of the load before.
LEMMA NextOfBefore ==
  ASSUME SearchInv, Add, ~IsNeighbour(Head(todo)), NEW n0 \in Nat, FoundBefore(n0),
         Len(neighbours) <= Len(before.neighbours),
         \A k \in DOMAIN neighbours : neighbours[k] = before.neighbours[k]
  PROVE  /\ Len(neighbours) + 1 \in DOMAIN before.neighbours
         /\ before.neighbours[Len(neighbours) + 1] = Head(todo)
<1>. DEFINE h == Head(todo)
            n == Len(neighbours)
            N == before.neighbours
<1>1. PICK z \in Places : /\ At(z) = h /\ z.sector = i /\ ~Passed(z)
                          /\ \A y \in Places : Passed(y)' <=> (Passed(y) \/ y = z)
                          /\ \A y \in Places : Earlier(y, z) => Passed(y)
  BY AddPasses
<1>2. /\ h \in Addresses /\ sectors \in Seq(Sector) /\ i \in DOMAIN sectors /\ i \in Nat
      /\ neighbours \in Seq(Addresses) /\ N \in Seq(Addresses)
  BY <1>1, AddNeighbour DEF SearchInv, Inv, TypeOK, Places, FoundBefore
<1>3. n \in Nat /\ DOMAIN neighbours = 1 .. n /\ Len(N) \in Nat /\ DOMAIN N = 1 .. Len(N) /\ n <= Len(N)
  BY <1>2
<1>. HIDE DEF h, n, N
<1>4. i <= n0
  <2>. SUFFICES ASSUME ~(i <= n0) PROVE FALSE  OBVIOUS
  <2>1. PICK m0 \in DOMAIN sectors : m0 <= n0 /\ sectors[m0] = sectors[i]
    BY <1>2 DEF FoundBefore
  <2>2. m0 \in Nat /\ m0 < i  BY <1>2, <2>1
  <2>3. PICK y \in Places : y.sector = m0 /\ At(y) = h
    BY <1>1, <2>1, <2>2, SamePlace
  <2>4. Passed(y)  BY <2>2, <2>3 DEF Passed
  <2>. QED  BY <1>2, <2>3, <2>4 DEF SearchInv, FoundSoFar, h
<1>5. PICK q \in DOMAIN N : N[q] = h
  BY <1>1, <1>2, <1>4 DEF FoundBefore, N
<1>6. q > n
  <2>. SUFFICES ASSUME q <= n PROVE FALSE  BY <1>3
  <2>1. q \in DOMAIN neighbours /\ neighbours[q] = h  BY <1>3, <1>5 DEF N
  <2>. QED  BY <2>1 DEF IsNeighbour, h
<1>7. ~(q > n + 1)
  <2>. SUFFICES ASSUME q > n + 1 PROVE FALSE  OBVIOUS
  <2>1. n + 1 \in DOMAIN N /\ n + 1 < q  BY <1>3
  <2>2. PICK y \in Places : At(y) = N[n + 1] /\ Earlier(y, z)
    BY <1>1, <1>4, <1>5, <2>1 DEF FoundBefore, N
  <2>3. IsNeighbour(N[n + 1])
    <3>1. Passed(y) /\ N[n + 1] \in Addresses  BY <1>1, <1>2, <2>1, <2>2
    <3>. QED  BY <2>2, <3>1 DEF SearchInv, FoundSoFar
  <2>4. PICK k \in DOMAIN neighbours : neighbours[k] = N[n + 1]  BY <2>3 DEF IsNeighbour
  <2>5. k \in DOMAIN N /\ k # n + 1 /\ N[k] = N[n + 1]  BY <1>3, <2>4 DEF N
  <2>. QED  BY <2>1, <2>5 DEF FoundBefore, N
<1>8. q = n + 1  BY <1>3, <1>5, <1>6, <1>7
<1>. QED  BY <1>5, <1>8 DEF h, n, N

\* The search goes on.
LEMMA SearchFindsAgain == ASSUME StableInv, Select PROVE StableInv'
<1>1. SettingsInv'  BY SettingsAlone DEF StableInv
<1>2. SearchInv'  BY SearchStep DEF StableInv, Select
<1>3. /\ UNCHANGED loaderVars /\ UNCHANGED configVars /\ pc # "run"
      /\ (UNCHANGED <<neighbours, vector>> \/ Add)
  BY DEF Select, NextSector, NotMe, IsMe, Ready, Ring, Turn, RingEnd, RingEndAt, Add, AddUnless
<1>4. /\ sectors' = sectors /\ hostCnt' = hostCnt /\ loads' = loads
      /\ disk' = disk /\ next' = next /\ added' = added /\ before' = before
  BY <1>3 DEF loaderVars, configVars
<1>5. next = 0
  BY <1>3 DEF StableInv, SettingsInv, SettingsRead, SettingsTyped, LoaderInv, LoaderTypes
<1>6. SectorsRead'  BY <1>4, <1>5 DEF StableInv, SectorsRead, Loaded
<1>7. ASSUME Loaded, before # <<>>, disk = before.files
      PROVE  /\ \E n0 \in Nat : FoundBefore(n0)'
             /\ Len(neighbours') <= Len(before.neighbours)
             /\ \A k \in DOMAIN neighbours' : neighbours'[k] = before.neighbours[k]
  <2>1. PICK n0 \in Nat : FoundBefore(n0)  BY <1>7 DEF StableInv, FoundAgain
  <2>2. /\ Len(neighbours) <= Len(before.neighbours)
        /\ \A k \in DOMAIN neighbours : neighbours[k] = before.neighbours[k]
    BY <1>7 DEF StableInv, FoundAgain
  <2>3. FoundBefore(n0)'
    <3>1. Places' = Places  BY <1>4 DEF Places, Batch
    <3>2. \A z \in Places : At(z)' = At(z)  BY <1>4 DEF At, Batch
    <3>. QED  BY <1>4, <2>1, <3>1, <3>2 DEF FoundBefore
  <2>4. CASE neighbours' = neighbours  BY <2>2, <2>3, <2>4
  <2>5. CASE Add /\ neighbours' # neighbours
    <3>1. /\ ~IsNeighbour(Head(todo)) /\ neighbours' = Append(neighbours, Head(todo))
          /\ Head(todo) \in Addresses
      BY <2>5, AddNeighbour DEF StableInv, SearchInv, Inv
    <3>2. /\ Len(neighbours) + 1 \in DOMAIN before.neighbours
          /\ before.neighbours[Len(neighbours) + 1] = Head(todo)
      BY <2>1, <2>2, <2>5, <3>1, NextOfBefore DEF StableInv
    <3>3. neighbours \in Seq(Addresses) /\ before.neighbours \in Seq(Addresses)
      BY <2>1 DEF StableInv, SearchInv, Inv, TypeOK, FoundBefore
    <3>4. /\ Len(neighbours') = Len(neighbours) + 1
          /\ \A k \in DOMAIN neighbours' :
               \/ k \in DOMAIN neighbours /\ neighbours'[k] = neighbours[k]
               \/ k = Len(neighbours) + 1 /\ neighbours'[k] = Head(todo)
      BY <3>1, <3>3
    <3>. QED  BY <2>2, <2>3, <3>2, <3>3, <3>4
  <2>. QED  BY <1>3, <2>4, <2>5
<1>8. FoundAgain'  BY <1>4, <1>7 DEF FoundAgain, Loaded
<1>. QED  BY <1>1, <1>2, <1>6, <1>8 DEF StableInv

LEMMA StableStutter == ASSUME StableInv, UNCHANGED <<vars, loaderVars>> PROVE StableInv'
<1>1. SettingsInv'  BY SettingsAlone DEF StableInv
<1>2. SearchInv'  BY SearchStutter DEF StableInv
<1>3. /\ sectors' = sectors /\ hostCnt' = hostCnt /\ loads' = loads
      /\ neighbours' = neighbours /\ vector' = vector
      /\ disk' = disk /\ next' = next /\ added' = added /\ before' = before
  BY DEF vars, configVars, loaderVars
<1>4. SectorsRead'  BY <1>3 DEF StableInv, SectorsRead, Loaded
<1>5. Places' = Places /\ \A z \in Places : At(z)' = At(z)  BY <1>3 DEF Places, At, Batch
<1>6. \A n0 \in Nat : FoundBefore(n0) => FoundBefore(n0)'  BY <1>3, <1>5 DEF FoundBefore
<1>7. FoundAgain'  BY <1>3, <1>6 DEF StableInv, FoundAgain, Loaded
<1>. QED  BY <1>1, <1>2, <1>4, <1>7 DEF StableInv

LEMMA StableInit == LoaderInit => StableInv
<1>. SUFFICES ASSUME LoaderInit PROVE StableInv  OBVIOUS
<1>1. SearchInv /\ LoaderInv  BY SearchInit, LoaderStarts DEF LoaderInit
<1>2. next = 0 /\ loads = 0 /\ before = <<>> /\ disk \in Seq(File)
  BY DiskAssumption DEF LoaderInit, Init
<1>3. SettingsTyped  BY <1>2, DefaultAssumption DEF LoaderInit, SettingsTyped
<1>. QED  BY <1>1, <1>2, <1>3 DEF StableInv, SettingsInv, SettingsRead, SectorsRead, FoundAgain, Loaded

LEMMA StableNext == StableInv /\ [LoaderNext]_<<vars, loaderVars>> => StableInv'
BY SectorsOfFile, LoadRemembers, SearchRemembers, SearchFindsAgain, StableStutter DEF LoaderNext

\* At the end of the search all neighbours of the load before are found again,
\* and their slots have the names they had.
LEMMA AgainTheSame ==
  ASSUME StableInv, Loaded, pc = "run", before # <<>>, disk = before.files
  PROVE  neighbours = before.neighbours /\ vector = before.vector
<1>. DEFINE N == before.neighbours
            V == before.vector
<1>1. PICK n0 \in Nat : FoundBefore(n0)  BY DEF StableInv, FoundAgain
<1>2. Len(neighbours) <= Len(N) /\ \A k \in DOMAIN neighbours : neighbours[k] = N[k]
  BY DEF StableInv, FoundAgain
<1>3. /\ neighbours \in Seq(Addresses) /\ N \in Seq(Addresses)
      /\ vector \in Seq(Slot) /\ V \in Seq(Slot)
      /\ Len(vector) = Len(neighbours) /\ Len(V) = Len(N)
  BY <1>1 DEF StableInv, SearchInv, Inv, TypeOK, SlotPerNeighbour, FoundBefore
<1>4. \A z \in Places : Passed(z)
  BY PlaceTyped DEF StableInv, SearchInv, Inv, TypeOK, Cursor, Passed
<1>5. \A k \in DOMAIN N : N[k] \in Addresses  BY <1>3
<1>6. \A k \in DOMAIN N, m \in DOMAIN N : N[k] = N[m] => k = m  BY <1>1 DEF FoundBefore
<1>7. ASSUME NEW k \in DOMAIN N PROVE k \in DOMAIN neighbours
  <2>1. \E z \in Places : At(z) = N[k]  BY <1>1, <1>5, <1>7 DEF FoundBefore
  <2>2. IsNeighbour(N[k])  BY <1>4, <1>5, <2>1 DEF StableInv, SearchInv, FoundSoFar
  <2>3. PICK m \in DOMAIN neighbours : neighbours[m] = N[k]  BY <2>2 DEF IsNeighbour
  <2>4. m \in DOMAIN N /\ N[m] = N[k]  BY <1>2, <1>3, <2>3
  <2>. QED  BY <1>6, <2>3, <2>4
<1>. HIDE DEF N, V
<1>8. Len(N) = Len(neighbours)
  <2>1. CASE Len(N) = 0  BY <1>2, <1>3, <2>1
  <2>2. CASE Len(N) # 0
    <3>1. Len(N) \in DOMAIN N  BY <1>3, <2>2
    <3>2. Len(N) \in DOMAIN neighbours  BY <1>7, <3>1
    <3>. QED  BY <1>2, <1>3, <3>2
  <2>. QED  BY <2>1, <2>2
<1>9. neighbours = N  BY <1>2, <1>3, <1>8
<1>10. ASSUME NEW k \in DOMAIN N PROVE vector[k] = V[k]
  <2>1. k \in DOMAIN vector /\ k \in DOMAIN V /\ vector[k] \in Slot /\ V[k] \in Slot  BY <1>3, <1>8
  <2>2. /\ vector[k].host = N[k]
        /\ \A m \in DOMAIN vector : vector[m].host = N[k] => m = k
    BY <1>3, <1>6, <1>8, <1>9 DEF StableInv, SearchInv, Inv, SlotPerNeighbour
  <2>3. /\ V[k].host = N[k]
        /\ \A m \in DOMAIN V : V[m].host = N[k] => m = k
    <3>1. DOMAIN V = DOMAIN N  BY <1>3
    <3>2. \A m \in DOMAIN N : V[m].host = N[m]  BY <1>1 DEF FoundBefore, N, V
    <3>. QED  BY <1>6, <3>1, <3>2
  <2>4. ASSUME NEW x \in SectorNames
        PROVE  x \in vector[k].sectors <=> x \in V[k].sectors
    <3>1. x \in vector[k].sectors <=> HasName(N[k], x)  BY <2>1, <2>2 DEF HasName
    <3>2. HasName(N[k], x) <=> \E z \in Places : At(z) = N[k] /\ sectors[z.sector].name = x
      BY <1>4, <1>5 DEF StableInv, SearchInv, FoundSoFar, N
    <3>3. (\E z \in Places : At(z) = N[k] /\ sectors[z.sector].name = x)
            <=> \E z \in Places : z.sector <= n0 /\ At(z) = N[k] /\ sectors[z.sector].name = x
      <4>. SUFFICES ASSUME NEW z \in Places, At(z) = N[k], sectors[z.sector].name = x
                    PROVE  \E y \in Places : y.sector <= n0 /\ At(y) = N[k] /\ sectors[y.sector].name = x
        OBVIOUS
      <4>1. z.sector \in DOMAIN sectors  BY DEF Places
      <4>2. PICK m0 \in DOMAIN sectors : m0 <= n0 /\ sectors[m0] = sectors[z.sector]
        BY <1>1, <4>1 DEF FoundBefore
      <4>3. m0 \in Nat  BY DEF StableInv, SearchInv, Inv, TypeOK
      <4>4. PICK y \in Places : y.sector = m0 /\ At(y) = At(z)  BY <4>2, <4>3, SamePlace
      <4>. QED  BY <4>2, <4>4
    <3>4. (\E m \in DOMAIN V : V[m].host = N[k] /\ x \in V[m].sectors)
            <=> \E z \in Places : z.sector <= n0 /\ At(z) = N[k] /\ sectors[z.sector].name = x
      BY <1>1, <1>5 DEF FoundBefore, N, V
    <3>5. x \in V[k].sectors <=> \E m \in DOMAIN V : V[m].host = N[k] /\ x \in V[m].sectors
      BY <2>1, <2>3
    <3>. QED  BY <3>1, <3>2, <3>3, <3>4, <3>5
  <2>5. vector[k].sectors = V[k].sectors
    <3>1. vector[k].sectors \subseteq SectorNames /\ V[k].sectors \subseteq SectorNames
      BY <2>1 DEF Slot
    <3>. QED  BY <2>4, <3>1
  <2>. QED  BY <2>1, <2>2, <2>3, <2>5 DEF Slot
<1>11. vector = V  BY <1>3, <1>8, <1>10
<1>. QED  BY <1>9, <1>11 DEF N, V

\* A load of the files that were loaded before gives the settings, the
\* neighbours and the slots there were, whatever the files say and in however
\* many loads; a channel may differ only where a file after the first names
\* net_timeout.
THEOREM ReloadStable == LoaderSpec => []ReloadIsStable
<1>1. StableInv => ReloadIsStable
  BY AgainTheSame DEF StableInv, SettingsInv, SettingsRead, ReloadIsStable
<1>. QED  BY <1>1, StableInit, StableNext, PTL DEF LoaderSpec

\* The properties of the search hold also when it is driven by the files, with
\* no assumption on the sectors these bring.
THEOREM LoaderSearches ==
  LoaderSpec => [](SlotPerNeighbour /\ PanicsOnlyInShortSector /\ WatchesItsRing)
<1>1. StableInv => SlotPerNeighbour /\ PanicsOnlyInShortSector /\ WatchesItsRing
  <2>1. SearchInv => WatchesItsRing  BY AllFound DEF WatchesItsRing
  <2>. QED  BY <2>1 DEF StableInv, SearchInv, Inv
<1>. QED  BY <1>1, StableInit, StableNext, PTL DEF LoaderSpec

=============================================================================
