----------------------------- MODULE ArpProofs -----------------------------
(***************************************************************************)
(* Proofs about Arp, for every table, pool and set of hosts: RightAddress  *)
(* whenever a frame comes, QueuesSound if none comes within etharp_tmr.    *)
(* First the slot find_entry chooses, the least of an order on the finite  *)
(* set of slots; then what find_entry, update_arp_entry and etharp_query   *)
(* make of a table; then the invariant and its steps.                      *)
(***************************************************************************)
EXTENDS Arp, FiniteSetTheorems, FunctionTheorems, TLAPS

(***************************************************************************)
(* A finite set with a strict order has an element nothing comes before.   *)
(* The sets of what comes before an element are well-founded by inclusion. *)
(***************************************************************************)
LEMMA FirstExists ==
    ASSUME NEW S, IsFiniteSet(S), S # {}, NEW R,
           \A x \in S : <<x, x>> \notin R,
           \A x, y, z \in S : <<x, y>> \in R /\ <<y, z>> \in R => <<x, z>> \in R
    PROVE  \E x \in S : \A y \in S : <<y, x>> \notin R
<1> DEFINE Before(x) == {y \in S : <<y, x>> \in R}
           F == {Before(x) : x \in S}
           O == StrictSubsetOrdering(S)
<1>1. F \subseteq FiniteSubsetsOf(S) /\ F # {}
  <2>1. F \subseteq SUBSET S /\ F # {}
    <3>1. \A x \in S : Before(x) \in SUBSET S
      OBVIOUS
    <3>2. PICK x : x \in S
      OBVIOUS
    <3>3. Before(x) \in F
      BY <3>2
    <3> HIDE DEF Before
    <3>4. QED
      BY <3>1, <3>3
  <2>2. FiniteSubsetsOf(S) = SUBSET S
    BY FS_FiniteSubsetsOfFinite
  <2>3. QED
    BY <2>1, <2>2
<1>2. IsWellFoundedOn(O, FiniteSubsetsOf(S))
  BY FS_StrictSubsetOrderingWellFounded
<1>3. \E m \in F : \A n \in F : ~(<<n, m>> \in O)
  <2> HIDE DEF F, O
  <2>1. QED
    BY <1>1, <1>2, WFMin
<1>4. PICK x \in S : \A y \in S : <<Before(y), Before(x)>> \notin O
  <2> HIDE DEF Before, O
  <2>1. QED
    BY <1>3
<1>5. ASSUME NEW y \in S, <<y, x>> \in R PROVE FALSE
  <2>1. Before(y) \subseteq Before(x) /\ y \in Before(x) /\ y \notin Before(y)
    BY <1>5
  <2>2. <<Before(y), Before(x)>> \in O
    BY <2>1 DEF StrictSubsetOrdering
  <2>3. QED
    BY <1>4, <2>2
<1>6. QED
  BY <1>5

\* The slots, and every set of them, are finite.
LEMMA SlotsFinite ==
    ASSUME NEW S \in SUBSET Slots
    PROVE  IsFiniteSet(S)
<1>1. IsFiniteSet(Slots)
  BY ArpAssumption, FS_Interval DEF Slots
<1>2. QED
  BY <1>1, FS_Subset

\* The first of some slots is one of them.
LEMMA MinFacts ==
    ASSUME NEW S \in SUBSET Slots, S # {}
    PROVE  Min(S) \in S
<1> DEFINE R == {p \in S \X S : p[1] < p[2]}
<1>1. \A x \in S : x \in Int
  BY ArpAssumption DEF Slots
<1>2. \A x, y \in S : <<x, y>> \in R <=> x < y
  OBVIOUS
<1>3. IsFiniteSet(S)
  BY SlotsFinite
<1> HIDE DEF R
<1>4. PICK x \in S : \A y \in S : <<y, x>> \notin R
  <2>1. \A y \in S : <<y, y>> \notin R
    BY <1>1, <1>2
  <2>2. \A y, z, w \in S : <<y, z>> \in R /\ <<z, w>> \in R => <<y, w>> \in R
    BY <1>1, <1>2
  <2>3. QED
    BY <1>3, <2>1, <2>2, FirstExists
<1>5. ASSUME NEW y \in S PROVE x <= y
  <2>1. ~(y < x)
    BY <1>2, <1>4
  <2>2. QED
    BY <1>1, <2>1
<1>6. QED
  BY <1>5 DEF Min

-----------------------------------------------------------------------------
(* The table, and what is to hold of it between two frames.                *)

Table == [tab : [Slots -> Entry], free : [Nodes -> 0..2], hit : Slots]

\* The fields of an entry.
LEMMA EntryFields ==
    ASSUME NEW e \in Entry
    PROVE  /\ e.state \in {"empty", "pending", "stable"}
           /\ e.ip \in Hosts \cup {"any"} /\ e.mac \in Macs
           /\ e.ctime \in 0..Ctimes-1
           /\ e.q \in Seq([node : Nodes, dst : Hosts])
BY DEF Entry

\* Of some entries the oldest is one of them.
LEMMA OldestFacts ==
    ASSUME NEW a \in Table, NEW S \in SUBSET Slots, S # {}
    PROVE  Oldest(a, S) \in S
<1> DEFINE Older(i, j) == \/ a.tab[j].ctime < a.tab[i].ctime
                          \/ a.tab[j].ctime = a.tab[i].ctime /\ j < i
           R == {p \in S \X S : Older(p[1], p[2])}
<1>1. \A x \in S : x \in Int /\ a.tab[x].ctime \in Int
  <2>1. ASSUME NEW x \in S PROVE x \in Int /\ a.tab[x].ctime \in Int
    <3>1. a.tab[x] \in Entry
      BY DEF Table
    <3>2. QED
      BY <3>1, EntryFields, ArpAssumption DEF Slots
  <2>2. QED
    BY <2>1
<1>2. \A x, y \in S : <<x, y>> \in R <=> Older(x, y)
  OBVIOUS
<1>3. IsFiniteSet(S)
  BY SlotsFinite
<1>4. \A y \in S : ~Older(y, y)
  BY <1>1
<1>5. \A y, z, w \in S : Older(y, z) /\ Older(z, w) => Older(y, w)
  BY <1>1
<1>6. \A y, z \in S : y # z /\ ~Older(y, z) => Older(z, y)
  BY <1>1
<1> HIDE DEF R
<1>7. PICK x \in S : \A y \in S : <<y, x>> \notin R
  <2> HIDE DEF Older
  <2>1. QED
    BY <1>2, <1>3, <1>4, <1>5, FirstExists
<1>8. \A y \in S \ {x} : Older(x, y)
  <2> HIDE DEF Older
  <2>1. QED
    BY <1>2, <1>6, <1>7
<1>9. QED
  BY <1>8 DEF Oldest

\* The slot that find_entry recycles.
LEMMA VictimFacts ==
    ASSUME NEW a \in Table
    PROVE  Victim(a) \in Slots
<1>1. \A st : InState(a, st) \in SUBSET Slots
  BY DEF InState
<1>2. Idle(a) \in SUBSET Slots
  BY <1>1 DEF Idle
<1>3. CASE InState(a, "empty") # {}
  BY <1>1, <1>3, MinFacts DEF Victim
<1>4. CASE InState(a, "empty") = {} /\ InState(a, "stable") # {}
  BY <1>1, <1>4, OldestFacts DEF Victim
<1>5. CASE InState(a, "empty") = {} /\ InState(a, "stable") = {} /\ Idle(a) # {}
  BY <1>1, <1>2, <1>5, OldestFacts DEF Victim
<1>6. CASE InState(a, "empty") = {} /\ InState(a, "stable") = {} /\ Idle(a) = {}
  <2>1. 0 \in Slots
    BY ArpAssumption DEF Slots
  <2>2. a.tab[0].state \in {"empty", "pending", "stable"}
    <3>1. a.tab[0] \in Entry
      BY <2>1 DEF Table
    <3>2. QED
      BY <3>1, EntryFields
  <2>3. InState(a, "pending") # {}
    BY <1>6, <2>1, <2>2 DEF InState
  <2>4. QED
    BY <1>1, <1>6, <2>3, OldestFacts DEF Victim
<1>7. QED
  BY <1>3, <1>4, <1>5, <1>6

\* No two entries of one address, and none of no address.
OneEntry(a) ==
    \A i, j \in Slots :
       /\ a.tab[i].state # "empty" => a.tab[i].ip \in Hosts
       /\ a.tab[i].state # "empty" /\ a.tab[j].state # "empty"
             /\ a.tab[i].ip = a.tab[j].ip => i = j

\* A stable entry has the address m gives for its host.
Right(a, m) ==
    \A i \in Slots : a.tab[i].state = "stable" => a.tab[i].mac = m[a.tab[i].ip]

Queued(a, n) ==
    \E i \in Slots : \E j \in DOMAIN a.tab[i].q : a.tab[i].q[j].node = n

(***************************************************************************)
(* QueuesSound without its counting: the queue entries are in one place    *)
(* each, and those that are in none are in the pool, once.                 *)
(***************************************************************************)
QueuesOK(a) ==
    /\ \A i \in Slots : a.tab[i].q # <<>> => a.tab[i].state = "pending"
    /\ \A i \in Slots : \A j \in DOMAIN a.tab[i].q : a.tab[i].q[j].dst = a.tab[i].ip
    /\ \A i, k \in Slots : \A j \in DOMAIN a.tab[i].q, l \in DOMAIN a.tab[k].q :
          a.tab[i].q[j].node = a.tab[k].q[l].node => i = k /\ j = l
    /\ \A n \in Nodes : a.free[n] = IF Queued(a, n) THEN 0 ELSE 1

\* What holds of the table whenever a frame comes.
Sane(a) == a \in Table /\ OneEntry(a)

\* A second memp_free is recorded, not a third.
LEMMA MinTwo ==
    ASSUME NEW x \in 0..2
    PROVE  Min({2, x + 1}) \in 0..2 /\ (x = 0 => Min({2, x + 1}) = 1)
<1>1. CASE x = 0
  <2>1. 1 \in {2, 1} /\ \A y \in {2, 1} : 1 <= y
    OBVIOUS
  <2>2. \A z \in {2, 1} : (\A y \in {2, 1} : z <= y) => z = 1
    OBVIOUS
  <2>3. Min({2, 1}) = 1
    BY <2>1, <2>2 DEF Min
  <2>4. QED
    BY <1>1, <2>3
<1>2. CASE x # 0
  <2>1. 2 \in {2, x + 1} /\ \A y \in {2, x + 1} : 2 <= y
    BY <1>2
  <2>2. \A z \in {2, x + 1} : (\A y \in {2, x + 1} : z <= y) => z = 2
    BY <1>2
  <2>3. Min({2, x + 1}) = 2
    BY <2>1, <2>2 DEF Min
  <2>4. QED
    BY <1>2, <2>3
<1>3. QED
  BY <1>1, <1>2

\* free_etharp_q keeps the pool's type; an empty queue frees nothing.
LEMMA FreeQType ==
    ASSUME NEW free \in [Nodes -> 0..2], NEW q
    PROVE  /\ FreeQ(free, q) \in [Nodes -> 0..2]
           /\ q = <<>> => FreeQ(free, q) = free
<1>1. \A n \in Nodes : Min({2, free[n] + 1}) \in 0..2
  BY MinTwo
<1>2. FreeQ(free, q) \in [Nodes -> 0..2]
  BY <1>1 DEF FreeQ
<1>3. ASSUME q = <<>> PROVE FreeQ(free, q) = free
  <2>1. \A n : ~(\E j \in DOMAIN q : q[j].node = n)
    BY <1>3
  <2>2. QED
    BY <2>1 DEF FreeQ
<1>4. QED
  BY <1>2, <1>3

(***************************************************************************)
(* A queue that is freed and emptied: its queue entries, which were in no  *)
(* other queue, are back in the pool once.                                 *)
(***************************************************************************)
LEMMA QueueFreed ==
    ASSUME NEW a \in Table, QueuesOK(a), NEW i \in Slots, NEW b \in Table,
           b.tab[i].q = <<>>, \A j \in Slots \ {i} : b.tab[j] = a.tab[j],
           b.free = FreeQ(a.free, a.tab[i].q)
    PROVE  QueuesOK(b)
<1> DEFINE In(n) == \E j \in DOMAIN a.tab[i].q : a.tab[i].q[j].node = n
<1>1. DOMAIN b.tab[i].q = {}
  OBVIOUS
<1>2. ASSUME NEW n \in Nodes, In(n)
      PROVE  ~Queued(b, n) /\ b.free[n] = 1
  <2>1. PICK j \in DOMAIN a.tab[i].q : a.tab[i].q[j].node = n
    BY <1>2
  <2>2. \A k \in Slots \ {i} : \A l \in DOMAIN a.tab[k].q : a.tab[k].q[l].node # n
    BY <2>1 DEF QueuesOK
  <2>3. ~Queued(b, n)
    BY <1>1, <2>2 DEF Queued
  <2>4. a.free[n] = 0
    BY <2>1 DEF QueuesOK, Queued
  <2>5. b.free[n] = Min({2, a.free[n] + 1})
    BY <2>1 DEF FreeQ
  <2>6. QED
    BY <2>3, <2>4, <2>5, MinTwo
<1>3. ASSUME NEW n \in Nodes, ~In(n)
      PROVE  (Queued(b, n) <=> Queued(a, n)) /\ b.free[n] = a.free[n]
  <2>1. b.free[n] = a.free[n]
    BY <1>3 DEF FreeQ
  <2>2. Queued(b, n) <=> Queued(a, n)
    BY <1>1, <1>3 DEF Queued
  <2>3. QED
    BY <2>1, <2>2
<1>4. \A n \in Nodes : b.free[n] = IF Queued(b, n) THEN 0 ELSE 1
  <2> HIDE DEF In
  <2>1. \A n \in Nodes : a.free[n] = IF Queued(a, n) THEN 0 ELSE 1
    BY DEF QueuesOK
  <2>2. QED
    BY <1>2, <1>3, <2>1
<1>5. \A k \in Slots : b.tab[k].q # <<>> => k # i /\ b.tab[k] = a.tab[k]
  OBVIOUS
<1>6. \A k \in Slots : \A j \in DOMAIN b.tab[k].q : k # i /\ b.tab[k] = a.tab[k]
  BY <1>1
<1>7. \A k \in Slots : b.tab[k].q # <<>> => b.tab[k].state = "pending"
  BY <1>5 DEF QueuesOK
<1>8. \A k \in Slots : \A j \in DOMAIN b.tab[k].q : b.tab[k].q[j].dst = b.tab[k].ip
  BY <1>6 DEF QueuesOK
<1>9. \A h, k \in Slots : \A j \in DOMAIN b.tab[h].q, l \in DOMAIN b.tab[k].q :
          b.tab[h].q[j].node = b.tab[k].q[l].node => h = k /\ j = l
  BY <1>6 DEF QueuesOK
<1>10. QED
  BY <1>4, <1>7, <1>8, <1>9 DEF QueuesOK

\* A step that moves no queue entry.
LEMMA QueuesSame ==
    ASSUME NEW a \in Table, QueuesOK(a), NEW b \in Table, b.free = a.free,
           \A i \in Slots : /\ b.tab[i].q = a.tab[i].q
                            /\ a.tab[i].q # <<>> => /\ b.tab[i].state = "pending"
                                                    /\ b.tab[i].ip = a.tab[i].ip
    PROVE  QueuesOK(b)
<1>1. \A n : Queued(b, n) <=> Queued(a, n)
  BY DEF Queued
<1>2. \A n \in Nodes : b.free[n] = IF Queued(b, n) THEN 0 ELSE 1
  BY <1>1 DEF QueuesOK
<1>3. \A i \in Slots : \A j \in DOMAIN a.tab[i].q : a.tab[i].q # <<>>
  OBVIOUS
<1>4. QED
  BY <1>2, <1>3 DEF QueuesOK

-----------------------------------------------------------------------------
(* find_entry, update_arp_entry and etharp_query.                          *)

\* Entries that are empty, or whose address is new, keep the table's order.
LEMMA OneEntryKept ==
    ASSUME NEW a \in Table, OneEntry(a), NEW b \in Table, NEW i \in Slots,
           \A j \in Slots \ {i} : b.tab[j] = a.tab[j],
           b.tab[i].state # "empty" =>
              /\ b.tab[i].ip \in Hosts
              /\ \A j \in Slots \ {i} : a.tab[j].state # "empty" =>
                                            a.tab[j].ip # b.tab[i].ip
    PROVE  OneEntry(b)
BY DEF OneEntry

\* A recycled slot is empty and has the new address; its queue is freed.
LEMMA RecycledFacts ==
    ASSUME NEW a, Sane(a), NEW i \in Slots, NEW ip \in Hosts
    PROVE  LET b == Recycled(a, i, ip)
           IN  /\ Sane(b)
               /\ QueuesOK(a) => QueuesOK(b)
               /\ b.tab[i].state = "empty" /\ b.tab[i].ip = ip
               /\ \A j \in Slots \ {i} : b.tab[j] = a.tab[j]
<1> DEFINE b == Recycled(a, i, ip)
           e == [a.tab[i] EXCEPT !.state = "empty", !.ip = ip, !.ctime = 0,
                                 !.q = QueueLeft(a.tab[i])]
<1>1. a \in Table /\ a.tab \in [Slots -> Entry] /\ a.tab[i] \in Entry
      /\ a.free \in [Nodes -> 0..2] /\ OneEntry(a)
  BY DEF Sane, Table
<1>2. /\ QueueLeft(a.tab[i]) \in Seq([node : Nodes, dst : Hosts])
      /\ QueuesOK(a) => QueueLeft(a.tab[i]) = <<>>
  <2>1. <<>> \in Seq([node : Nodes, dst : Hosts])
    OBVIOUS
  <2>2. a.tab[i].q \in Seq([node : Nodes, dst : Hosts])
    BY <1>1, EntryFields
  <2>3. QED
    BY <2>1, <2>2 DEF QueueLeft, QueuesOK
<1>3. 0 \in 0..Ctimes-1
  BY ArpAssumption
<1>4. e \in Entry /\ e.state = "empty" /\ e.ip = ip /\ e.q = QueueLeft(a.tab[i])
  BY <1>1, <1>2, <1>3 DEF Entry
<1>5. b.tab = [a.tab EXCEPT ![i] = e] /\ b.hit = i
  BY DEF Recycled
<1>6. b.free \in {a.free, FreeQ(a.free, a.tab[i].q)}
  BY DEF Recycled
<1>7. ASSUME QueuesOK(a) PROVE b.free = FreeQ(a.free, a.tab[i].q)
  <2>1. CASE a.tab[i].state = "pending"
    BY <2>1 DEF Recycled
  <2>2. CASE a.tab[i].state # "pending"
    <3>1. a.tab[i].q = <<>>
      BY <1>7, <2>2 DEF QueuesOK
    <3>2. b.free = a.free
      BY <2>2 DEF Recycled
    <3>3. QED
      BY <1>1, <3>1, <3>2, FreeQType
  <2>3. QED
    BY <2>1, <2>2
<1> HIDE DEF e
<1>8. b.tab \in [Slots -> Entry] /\ b.free \in [Nodes -> 0..2]
  BY <1>1, <1>4, <1>5, <1>6, FreeQType
<1>9. b = [tab |-> b.tab, free |-> b.free, hit |-> b.hit]
  BY DEF Recycled
<1>10. /\ b.tab[i].state = "empty" /\ b.tab[i].ip = ip
       /\ b.tab[i].q = QueueLeft(a.tab[i])
       /\ \A j \in Slots \ {i} : b.tab[j] = a.tab[j]
  BY <1>1, <1>4, <1>5
<1> HIDE DEF b
<1>11. b \in Table
  BY <1>5, <1>8, <1>9 DEF Table
<1>12. OneEntry(b)
  BY <1>1, <1>10, <1>11, OneEntryKept
<1>13. ASSUME QueuesOK(a) PROVE QueuesOK(b)
  BY <1>1, <1>2, <1>7, <1>10, <1>11, <1>13, QueueFreed
<1>14. QED
  BY <1>10, <1>11, <1>12, <1>13 DEF Sane, b

(***************************************************************************)
(* find_entry returns the one entry of the address, if there is one, or an *)
(* empty one that is to become it.  Nobody else's entry becomes stable.    *)
(***************************************************************************)
Found(a, f, ip, hard) ==
    /\ Sane(f.arp)
    /\ QueuesOK(a) => QueuesOK(f.arp)
    /\ \A j \in Slots : f.arp.tab[j].state = "stable" => f.arp.tab[j] = a.tab[j]
    /\ \/ /\ f.i \in Slots
          /\ f.arp.tab[f.i].ip = ip
          /\ \A j \in Slots \ {f.i} : f.arp.tab[j].state # "empty" => f.arp.tab[j].ip # ip
       \/ /\ f.i = None /\ ~hard
          /\ f.arp = a
          /\ \A j \in Slots : a.tab[j].state # "empty" => a.tab[j].ip # ip

\* What find_entry returns.
LEMMA FindFacts ==
    ASSUME NEW a, Sane(a), NEW ip \in Hosts, NEW hard \in BOOLEAN
    PROVE  Found(a, FindEntry(a, ip, hard), ip, hard)
<1>1. /\ a \in Table /\ OneEntry(a) /\ a.hit \in Slots
      /\ Matching(a, ip) \in SUBSET Slots
  BY DEF Sane, Table, Matching
<1> DEFINE f == FindEntry(a, ip, hard)
           m == Min(Matching(a, ip))
<1>2. CASE CacheHit(a, ip)
  <2>1. f.i = a.hit /\ f.arp = a
    BY <1>2 DEF FindEntry
  <2>2. a.tab[a.hit].state = "stable" /\ a.tab[a.hit].ip = ip
    BY <1>2 DEF CacheHit
  <2>3. \A j \in Slots \ {a.hit} : a.tab[j].state # "empty" => a.tab[j].ip # ip
    BY <1>1, <2>2 DEF OneEntry
  <2> HIDE DEF f
  <2>4. QED
    BY <1>1, <2>1, <2>2, <2>3 DEF Found, f
<1>3. CASE ~CacheHit(a, ip) /\ Matching(a, ip) # {}
  <2>1. f.i = m /\ f.arp = [a EXCEPT !.hit = m]
    BY <1>3 DEF FindEntry
  <2>2. m \in Matching(a, ip) /\ m \in Slots
    BY <1>1, <1>3, MinFacts
  <2> HIDE DEF m
  <2>3. a.tab[m].state # "empty" /\ a.tab[m].ip = ip
    BY <2>2 DEF Matching
  <2> DEFINE b == [a EXCEPT !.hit = m]
  <2>4. b \in Table /\ b.tab = a.tab /\ b.free = a.free
    BY <1>1, <2>2 DEF Table
  <2> HIDE DEF b
  <2>5. OneEntry(b) /\ (QueuesOK(a) => QueuesOK(b))
    BY <1>1, <2>4 DEF OneEntry, QueuesOK, Queued
  <2>6. \A j \in Slots \ {m} : a.tab[j].state # "empty" => a.tab[j].ip # ip
    BY <1>1, <2>2, <2>3 DEF OneEntry
  <2>7. f.i = m /\ f.arp = b
    BY <2>1 DEF b
  <2> HIDE DEF f
  <2>8. QED
    BY <2>2, <2>3, <2>4, <2>5, <2>6, <2>7 DEF Found, Sane, f
<1>4. CASE ~CacheHit(a, ip) /\ Matching(a, ip) = {}
  <2>1. \A j \in Slots : a.tab[j].state # "empty" => a.tab[j].ip # ip
    BY <1>4 DEF Matching
  <2>2. CASE ~hard /\ InState(a, "empty") = {}
    <3>1. f.i = None /\ f.arp = a
      BY <1>4, <2>2 DEF FindEntry
    <3> HIDE DEF f
    <3>2. QED
      BY <2>1, <2>2, <3>1 DEF Found, f
  <2>3. CASE ~(~hard /\ InState(a, "empty") = {})
    <3> DEFINE v == Victim(a)
               b == Recycled(a, v, ip)
    <3>1. f.i = v /\ f.arp = b
      BY <1>4, <2>3 DEF FindEntry
    <3>2. v \in Slots
      BY <1>1, VictimFacts
    <3> HIDE DEF v
    <3>3. /\ Sane(b) /\ (QueuesOK(a) => QueuesOK(b))
          /\ b.tab[v].state = "empty" /\ b.tab[v].ip = ip
          /\ \A j \in Slots \ {v} : b.tab[j] = a.tab[j]
      BY <3>2, RecycledFacts
    <3> HIDE DEF b, f
    <3>4. QED
      BY <2>1, <3>1, <3>2, <3>3 DEF Found, f
  <2>4. QED
    BY <2>2, <2>3
<1>5. QED
  BY <1>2, <1>3, <1>4

\* The addresses announced, after ip has announced mac.
Told(m, ip, mac) == [h \in Hosts |-> IF h = ip THEN mac ELSE m[h]]

\* Only the entry of the host that announced an address need follow.
LEMMA RightKept ==
    ASSUME NEW a \in Table, OneEntry(a), NEW m, Right(a, m), NEW b \in Table,
           OneEntry(b), NEW ip \in Hosts, NEW mac,
           \A j \in Slots : b.tab[j].state = "stable" =>
              \/ b.tab[j].ip = ip /\ b.tab[j].mac = mac
              \/ b.tab[j].ip # ip /\ b.tab[j] = a.tab[j]
    PROVE  Right(b, Told(m, ip, mac))
<1> SUFFICES ASSUME NEW j \in Slots, b.tab[j].state = "stable"
             PROVE  b.tab[j].mac = Told(m, ip, mac)[b.tab[j].ip]
  BY DEF Right
<1>1. b.tab[j].ip \in Hosts
  BY DEF OneEntry
<1>2. CASE b.tab[j].ip = ip /\ b.tab[j].mac = mac
  BY <1>2 DEF Told
<1>3. CASE b.tab[j].ip # ip /\ b.tab[j] = a.tab[j]
  <2>1. a.tab[j].mac = m[a.tab[j].ip]
    BY <1>3 DEF Right
  <2>2. QED
    BY <1>1, <1>3, <2>1 DEF Told
<1>4. QED
  BY <1>2, <1>3

\* update_arp_entry.
LEMMA UpdateFacts ==
    ASSUME NEW a, Sane(a), NEW m, Right(a, m), NEW ip \in Hosts,
           NEW mac \in Macs, NEW hard \in BOOLEAN
    PROVE  /\ Sane(Update(a, ip, mac, hard))
           /\ QueuesOK(a) => QueuesOK(Update(a, ip, mac, hard))
           /\ Right(Update(a, ip, mac, hard), Told(m, ip, mac))
<1> DEFINE f == FindEntry(a, ip, hard)
           c == f.arp
           i == f.i
           b == Update(a, ip, mac, hard)
<1>1. Found(a, f, ip, hard)
  BY FindFacts
<1>2. ip # "any"
  BY ArpAssumption
<1>3. a \in Table /\ OneEntry(a)
  BY DEF Sane
<1>4. CASE i = None
  <2>1. b = a
    BY <1>4 DEF Update
  <2>2. i \notin Slots
    BY <1>4, ArpAssumption DEF None, Slots
  <2>3. \A j \in Slots : a.tab[j].state # "empty" => a.tab[j].ip # ip
    BY <1>1, <2>2 DEF Found
  <2>4. \A j \in Slots : a.tab[j].state = "stable" => a.tab[j].ip # ip
    BY <2>3
  <2>5. Right(a, Told(m, ip, mac))
    BY <1>3, <2>4, RightKept
  <2>6. QED
    BY <2>1, <2>5
<1>5. CASE i # None
  <2>1. /\ i \in Slots /\ Sane(c) /\ c.tab[i].ip = ip
        /\ QueuesOK(a) => QueuesOK(c)
        /\ \A j \in Slots : c.tab[j].state = "stable" => c.tab[j] = a.tab[j]
        /\ \A j \in Slots \ {i} : c.tab[j].state # "empty" => c.tab[j].ip # ip
    <3> HIDE DEF f
    <3>1. QED
      BY <1>1, <1>5 DEF Found
  <2>2. b = [c EXCEPT
              !.tab[i] = [@ EXCEPT !.state = "stable", !.mac = mac, !.ctime = 0,
                                   !.q = <<>>],
              !.free = FreeQ(@, c.tab[i].q)]
    BY <1>2, <1>5 DEF Update
  <2> HIDE DEF f
  <2>3. /\ c \in Table /\ c.tab \in [Slots -> Entry] /\ c.free \in [Nodes -> 0..2]
        /\ c.tab[i] \in Entry /\ OneEntry(c) /\ c.hit \in Slots
    BY <2>1 DEF Sane, Table
  <2> DEFINE e == [c.tab[i] EXCEPT !.state = "stable", !.mac = mac, !.ctime = 0,
                                   !.q = <<>>]
  <2>4. 0 \in 0..Ctimes-1 /\ <<>> \in Seq([node : Nodes, dst : Hosts])
    BY ArpAssumption
  <2>5. /\ e \in Entry /\ e.state = "stable" /\ e.ip = ip /\ e.mac = mac
        /\ e.q = <<>>
    BY <2>1, <2>3, <2>4 DEF Entry
  <2> HIDE DEF c, i
  <2>6. b = [tab |-> [c.tab EXCEPT ![i] = e], free |-> FreeQ(c.free, c.tab[i].q),
             hit |-> c.hit]
    BY <2>2, <2>3 DEF Table
  <2> HIDE DEF e, b
  <2>7. /\ b.tab = [c.tab EXCEPT ![i] = e] /\ b.free = FreeQ(c.free, c.tab[i].q)
        /\ b.hit = c.hit
    BY <2>6
  <2>8. b \in Table
    <3>1. [c.tab EXCEPT ![i] = e] \in [Slots -> Entry]
      BY <2>3, <2>5
    <3>2. FreeQ(c.free, c.tab[i].q) \in [Nodes -> 0..2]
      BY <2>3, FreeQType
    <3>3. QED
      BY <2>3, <2>6, <3>1, <3>2 DEF Table
  <2>9. b.tab[i] = e /\ \A j \in Slots \ {i} : b.tab[j] = c.tab[j]
    BY <2>1, <2>3, <2>7
  <2>10. ASSUME QueuesOK(a) PROVE QueuesOK(b)
    BY <2>1, <2>3, <2>5, <2>7, <2>8, <2>9, <2>10, QueueFreed
  <2>11. OneEntry(b)
    BY <2>1, <2>3, <2>5, <2>8, <2>9, OneEntryKept
  <2>12. \A j \in Slots : b.tab[j].state = "stable" =>
              \/ b.tab[j].ip = ip /\ b.tab[j].mac = mac
              \/ b.tab[j].ip # ip /\ b.tab[j] = a.tab[j]
    BY <2>1, <2>5, <2>9
  <2>13. Right(b, Told(m, ip, mac))
    BY <1>3, <2>8, <2>11, <2>12, RightKept
  <2>14. QED
    BY <2>8, <2>10, <2>11, <2>13 DEF Sane, b
<1>6. QED
  BY <1>4, <1>5

\* What is appended to a queue comes last, and the rest stays where it was.
LEMMA AppendFacts ==
    ASSUME NEW T, NEW s \in Seq(T), NEW x \in T
    PROVE  /\ DOMAIN Append(s, x) = 1..Len(s)+1
           /\ Append(s, x)[Len(s) + 1] = x
           /\ \A j \in 1..Len(s) : Append(s, x)[j] = s[j]
OBVIOUS

\* A packet is queued with a queue entry from the pool.
LEMMA QueueAppended ==
    ASSUME NEW a \in Table, QueuesOK(a), NEW b \in Table, NEW i \in Slots,
           NEW n \in Nodes, a.free[n] > 0,
           \A j \in Slots \ {i} : b.tab[j] = a.tab[j],
           b.tab[i].state = "pending", b.tab[i].ip = a.tab[i].ip,
           a.tab[i].ip \in Hosts,
           b.tab[i].q = Append(a.tab[i].q, [node |-> n, dst |-> a.tab[i].ip]),
           b.free = [a.free EXCEPT ![n] = @ - 1]
    PROVE  QueuesOK(b)
<1> DEFINE q == a.tab[i].q
           p == b.tab[i].q
<1>1. q \in Seq([node : Nodes, dst : Hosts]) /\ a.free \in [Nodes -> 0..2]
  <2>1. a.tab[i] \in Entry /\ a.free \in [Nodes -> 0..2]
    BY DEF Table
  <2>2. QED
    BY <2>1, EntryFields
<1>2. ~Queued(a, n) /\ a.free[n] = 1
  BY DEF QueuesOK
<1>3. /\ Len(q) \in Nat /\ DOMAIN q = 1..Len(q) /\ DOMAIN p = 1..Len(q)+1
      /\ \A j \in DOMAIN q : j \in DOMAIN p /\ p[j] = q[j]
      /\ p[Len(q) + 1].node = n /\ p[Len(q) + 1].dst = a.tab[i].ip
      /\ Len(q) + 1 \in DOMAIN p
      /\ \A j \in DOMAIN p : j \in DOMAIN q \/ j = Len(q) + 1
  <2>1. Len(q) \in Nat /\ DOMAIN q = 1..Len(q)
    BY <1>1
  <2>2. /\ DOMAIN p = 1..Len(q)+1
        /\ p[Len(q) + 1] = [node |-> n, dst |-> a.tab[i].ip]
        /\ \A j \in 1..Len(q) : p[j] = q[j]
    <3> DEFINE x == [node |-> n, dst |-> a.tab[i].ip]
    <3>1. x \in [node : Nodes, dst : Hosts] /\ p = Append(q, x)
      OBVIOUS
    <3> HIDE DEF x, q, p
    <3>2. DOMAIN p = 1..Len(q)+1 /\ p[Len(q) + 1] = x
      BY <1>1, <3>1, AppendFacts
    <3>3. \A j \in 1..Len(q) : p[j] = q[j]
      BY <1>1, <3>1, AppendFacts
    <3>4. QED
      BY <3>2, <3>3 DEF x
  <2>3. QED
    BY <2>1, <2>2
<1> DEFINE l == Len(q) + 1
<1> HIDE DEF q, p, l
<1>4. ASSUME NEW k \in Slots, NEW j \in DOMAIN b.tab[k].q
      PROVE  \/ j \in DOMAIN a.tab[k].q /\ b.tab[k].q[j] = a.tab[k].q[j]
             \/ k = i /\ j = l /\ b.tab[k].q[j].node = n
                /\ b.tab[k].q[j].dst = b.tab[k].ip
  <2>1. CASE k = i
    BY <1>3, <2>1 DEF p, q, l
  <2>2. CASE k # i
    BY <2>2
  <2>3. QED
    BY <2>1, <2>2
<1>5. ASSUME NEW k \in Slots, NEW j \in DOMAIN a.tab[k].q
      PROVE  a.tab[k].q[j].node # n
  BY <1>2 DEF Queued
<1>6. ASSUME NEW k \in Slots, NEW j \in DOMAIN a.tab[k].q
      PROVE  j \in DOMAIN b.tab[k].q /\ b.tab[k].q[j] = a.tab[k].q[j]
  <2>1. CASE k = i
    BY <1>3, <2>1 DEF p, q
  <2>2. CASE k # i
    BY <2>2
  <2>3. QED
    BY <2>1, <2>2
<1>7. \A k \in Slots : b.tab[k].ip = a.tab[k].ip
  OBVIOUS
<1>8. \A k \in Slots : b.tab[k].q # <<>> => b.tab[k].state = "pending"
  BY DEF QueuesOK
<1>9. \A k \in Slots : \A j \in DOMAIN b.tab[k].q : b.tab[k].q[j].dst = b.tab[k].ip
  BY <1>4, <1>7 DEF QueuesOK
<1>10. ASSUME NEW h \in Slots, NEW k \in Slots,
              NEW j \in DOMAIN b.tab[h].q, NEW g \in DOMAIN b.tab[k].q,
              b.tab[h].q[j].node = b.tab[k].q[g].node
       PROVE  h = k /\ j = g
  <2>1. CASE j \in DOMAIN a.tab[h].q /\ b.tab[h].q[j] = a.tab[h].q[j]
    <3>1. b.tab[h].q[j].node # n
      BY <1>5, <2>1
    <3>2. g \in DOMAIN a.tab[k].q /\ b.tab[k].q[g] = a.tab[k].q[g]
      BY <1>4, <1>10, <3>1
    <3>3. QED
      BY <1>10, <2>1, <3>2 DEF QueuesOK
  <2>2. CASE h = i /\ j = l /\ b.tab[h].q[j].node = n
    <3>1. b.tab[k].q[g].node = n
      BY <1>10, <2>2
    <3>2. ~(g \in DOMAIN a.tab[k].q /\ b.tab[k].q[g] = a.tab[k].q[g])
      BY <1>5, <3>1
    <3>3. k = i /\ g = l
      BY <1>4, <3>2
    <3>4. QED
      BY <2>2, <3>3
  <2>3. QED
    BY <1>4, <2>1, <2>2
<1>11. ASSUME NEW x \in Nodes
       PROVE  b.free[x] = IF Queued(b, x) THEN 0 ELSE 1
  <2>1. CASE x = n
    <3>1. Queued(b, n)
      BY <1>3 DEF Queued, p
    <3>2. b.free[n] = 0
      BY <1>1, <1>2
    <3>3. QED
      BY <2>1, <3>1, <3>2
  <2>2. CASE x # n
    <3>1. b.free[x] = a.free[x]
      BY <1>1, <2>2
    <3>2. Queued(b, x) <=> Queued(a, x)
      BY <1>4, <1>6, <2>2 DEF Queued
    <3>3. QED
      BY <3>1, <3>2 DEF QueuesOK
  <2>3. QED
    BY <2>1, <2>2
<1>12. QED
  BY <1>8, <1>9, <1>10, <1>11 DEF QueuesOK

\* etharp_query.
LEMMA QueryFacts ==
    ASSUME NEW a, Sane(a), NEW m, Right(a, m), NEW ip \in Hosts,
           NEW memory \in BOOLEAN
    PROVE  /\ Sane(Query(a, ip, memory))
           /\ QueuesOK(a) => QueuesOK(Query(a, ip, memory))
           /\ Right(Query(a, ip, memory), m)
<1> DEFINE f == FindEntry(a, ip, TRUE)
           c == f.arp
           i == f.i
           spare == {n \in Nodes : c.free[n] > 0}
           n == CHOOSE x \in spare : TRUE
           asked == [c EXCEPT !.tab[i] = Asked(@)]
           b == [asked EXCEPT !.tab[i].q = Append(@, [node |-> n, dst |-> ip]),
                              !.free[n] = @ - 1]
<1>1. Query(a, ip, memory) = IF c.tab[i].state = "stable" THEN c
                             ELSE IF memory /\ spare # {} THEN b ELSE asked
  BY DEF Query
<1>2. Found(a, f, ip, TRUE)
  BY FindFacts
<1> HIDE DEF f
<1>3. /\ i \in Slots /\ Sane(c) /\ c.tab[i].ip = ip
      /\ QueuesOK(a) => QueuesOK(c)
      /\ \A j \in Slots : c.tab[j].state = "stable" => c.tab[j] = a.tab[j]
      /\ \A j \in Slots \ {i} : c.tab[j].state # "empty" => c.tab[j].ip # ip
  BY <1>2 DEF Found
<1> HIDE DEF c, i
<1>4. /\ c \in Table /\ c.tab \in [Slots -> Entry] /\ c.free \in [Nodes -> 0..2]
      /\ c.tab[i] \in Entry /\ OneEntry(c) /\ c.hit \in Slots
      /\ c.tab[i].q \in Seq([node : Nodes, dst : Hosts])
  BY <1>3, EntryFields DEF Sane, Table
<1>5. Right(c, m)
  BY <1>3 DEF Right
<1> DEFINE e == [c.tab[i] EXCEPT !.state = "pending"]
<1>6. e \in Entry /\ e.state = "pending" /\ e.ip = ip /\ e.q = c.tab[i].q
  BY <1>3, <1>4 DEF Entry
<1>7. asked = [tab |-> [c.tab EXCEPT ![i] = e], free |-> c.free, hit |-> c.hit]
  BY <1>3, <1>4 DEF Table, Asked
<1> HIDE DEF asked, e
<1>8. /\ asked.tab \in [Slots -> Entry] /\ asked.free = c.free /\ asked.hit = c.hit
      /\ asked.tab[i] = e /\ \A j \in Slots \ {i} : asked.tab[j] = c.tab[j]
  BY <1>3, <1>4, <1>6, <1>7
<1>9. asked \in Table
  BY <1>4, <1>7, <1>8 DEF Table
<1>10. CASE c.tab[i].state = "stable"
  BY <1>1, <1>3, <1>5, <1>10
<1>11. ASSUME c.tab[i].state # "stable"
       PROVE  Sane(asked) /\ Right(asked, m) /\ (QueuesOK(a) => QueuesOK(asked))
  <2>1. OneEntry(asked)
    BY <1>3, <1>4, <1>6, <1>8, <1>9, OneEntryKept
  <2>2. \A j \in Slots : /\ asked.tab[j].q = c.tab[j].q
                          /\ asked.tab[j].ip = c.tab[j].ip
                          /\ asked.tab[j].state \in {"pending", c.tab[j].state}
    BY <1>3, <1>6, <1>8
  <2>3. ASSUME QueuesOK(a) PROVE QueuesOK(asked)
    <3>1. QueuesOK(c)
      BY <1>3, <2>3
    <3>2. \A j \in Slots : c.tab[j].q # <<>> => asked.tab[j].state = "pending"
      BY <2>2, <3>1 DEF QueuesOK
    <3>3. QED
      BY <1>4, <1>8, <1>9, <2>2, <3>1, <3>2, QueuesSame
  <2>4. Right(asked, m)
    BY <1>5, <1>6, <1>8 DEF Right
  <2>5. QED
    BY <1>9, <2>1, <2>3, <2>4 DEF Sane
<1>12. CASE c.tab[i].state # "stable" /\ ~(memory /\ spare # {})
  BY <1>1, <1>11, <1>12
<1>13. CASE c.tab[i].state # "stable" /\ memory /\ spare # {}
  <2>1. n \in spare
    BY <1>13
  <2>2. n \in Nodes /\ c.free[n] > 0
    BY <2>1
  <2> HIDE DEF n, spare
  <2> DEFINE x == [node |-> n, dst |-> ip]
             g == [e EXCEPT !.q = Append(@, x)]
  <2>3. x \in [node : Nodes, dst : Hosts]
    BY <2>2
  <2> HIDE DEF x
  <2>4. Append(c.tab[i].q, x) \in Seq([node : Nodes, dst : Hosts])
    BY <1>4, <2>3
  <2>5. /\ g \in Entry /\ g.state = "pending" /\ g.ip = ip
        /\ g.q = Append(c.tab[i].q, x)
    BY <1>6, <2>4 DEF Entry
  <2>6. b = [tab |-> [asked.tab EXCEPT ![i] = g],
             free |-> [asked.free EXCEPT ![n] = @ - 1], hit |-> asked.hit]
    <3>1. [asked.tab EXCEPT ![i].q = Append(@, x)] = [asked.tab EXCEPT ![i] = g]
      BY <1>3, <1>8
    <3>2. asked = [tab |-> asked.tab, free |-> asked.free, hit |-> asked.hit]
      BY <1>9 DEF Table
    <3>3. b = [asked EXCEPT !.tab = [asked.tab EXCEPT ![i].q = Append(@, x)],
                            !.free = [asked.free EXCEPT ![n] = @ - 1]]
      BY DEF x
    <3> HIDE DEF b, g
    <3>4. QED
      BY <3>1, <3>2, <3>3
  <2> HIDE DEF b, g
  <2>7. /\ b.tab \in [Slots -> Entry] /\ b.hit = asked.hit
        /\ b.tab[i] = g /\ \A j \in Slots \ {i} : b.tab[j] = asked.tab[j]
        /\ b.free = [asked.free EXCEPT ![n] = @ - 1]
    BY <1>3, <1>8, <2>5, <2>6
  <2>8. b.free \in [Nodes -> 0..2]
    BY <1>4, <1>8, <2>2, <2>7
  <2>9. b \in Table
    BY <1>4, <1>8, <2>6, <2>7, <2>8 DEF Table
  <2>10. OneEntry(b)
    BY <1>3, <1>4, <1>8, <2>5, <2>7, <2>9, OneEntryKept
  <2>11. ASSUME QueuesOK(a) PROVE QueuesOK(b)
    <3>1. QueuesOK(asked) /\ asked.free[n] > 0
      BY <1>8, <1>11, <1>13, <2>2, <2>11
    <3>2. /\ b.tab[i].state = "pending" /\ b.tab[i].ip = asked.tab[i].ip
          /\ asked.tab[i].ip \in Hosts /\ asked.tab[i].ip = ip
          /\ asked.tab[i].q = c.tab[i].q
      BY <1>6, <1>8, <2>5, <2>7
    <3>3. b.tab[i].q = Append(asked.tab[i].q, [node |-> n, dst |-> asked.tab[i].ip])
      BY <2>5, <2>7, <3>2 DEF x
    <3>4. QED
      BY <1>3, <1>9, <2>2, <2>7, <2>9, <3>1, <3>2, <3>3, QueueAppended
  <2>12. Right(b, m)
    BY <1>11, <1>13, <2>5, <2>7 DEF Right
  <2>13. QED
    BY <1>1, <1>13, <2>9, <2>10, <2>11, <2>12 DEF Sane, spare, b
<1>14. QED
  BY <1>10, <1>12, <1>13

-----------------------------------------------------------------------------
(***************************************************************************)
(* The invariant, in two parts.  The addresses are right whenever a frame  *)
(* comes; the queues are sound if none comes within etharp_tmr.  Between   *)
(* the freeing of a queue and q = NULL the queue is taken for empty, and a *)
(* slot is emptied only without one.                                       *)
(***************************************************************************)
Settled == IF tmr.at = "clear" THEN [arp EXCEPT !.tab[tmr.i].q = <<>>] ELSE arp

TmrType == [at : {"idle", "count", "free", "clear", "empty"}, i : Slots]

AddressInv ==
    /\ arp \in Table /\ tmr \in TmrType /\ announced \in [Hosts -> Macs]
    /\ OneEntry(arp)
    /\ Right(arp, announced)

QueueInv ==
    /\ QueuesOK(Settled)
    /\ tmr.at = "empty" => arp.tab[tmr.i].q = <<>>

\* The statement etharp_tmr goes on with.
LEMMA NextSlotType ==
    ASSUME tmr \in TmrType
    PROVE  NextSlot \in TmrType /\ NextSlot.at \in {"idle", "count"}
<1>1. tmr.i \in Slots /\ 0 \in Slots
  BY ArpAssumption DEF TmrType, Slots
<1>2. ASSUME tmr.i # TableSize - 1 PROVE tmr.i + 1 \in Slots
  BY <1>1, <1>2, ArpAssumption DEF Slots
<1>3. QED
  BY <1>1, <1>2 DEF TmrType, NextSlot

\* The empty table satisfies it.
LEMMA InitInv ==
    ASSUME Init
    PROVE  AddressInv /\ QueueInv
<1>1. PICK mac \in Macs : arp =
         [tab |-> [i \in Slots |-> [state |-> "empty", ip |-> "any", mac |-> mac,
                                    ctime |-> 0, q |-> <<>>]],
          free |-> [n \in Nodes |-> 1], hit |-> 0]
  BY DEF Init
<1>2. /\ tmr = [at |-> "idle", i |-> 0] /\ announced \in [Hosts -> Macs]
      /\ Settled = arp
  BY DEF Init, Settled
<1>3. 0 \in Slots /\ 0 \in 0..Ctimes-1
  BY ArpAssumption DEF Slots
<1>4. <<>> \in Seq([node : Nodes, dst : Hosts])
  OBVIOUS
<1>5. \A i \in Slots : /\ arp.tab[i].state = "empty" /\ arp.tab[i].q = <<>>
                       /\ DOMAIN arp.tab[i].q = {}
  BY <1>1
<1>6. arp \in Table
  <2>1. [state |-> "empty", ip |-> "any", mac |-> mac, ctime |-> 0, q |-> <<>>] \in Entry
    BY <1>3, <1>4 DEF Entry
  <2>2. QED
    BY <1>1, <1>3, <2>1 DEF Table
<1>7. OneEntry(arp) /\ Right(arp, announced)
  BY <1>5 DEF OneEntry, Right
<1>8. QueuesOK(arp)
  <2>1. \A n \in Nodes : ~Queued(arp, n) /\ arp.free[n] = 1
    BY <1>1, <1>5 DEF Queued
  <2>2. QED
    BY <1>5, <2>1 DEF QueuesOK
<1>9. tmr \in TmrType /\ tmr.at # "empty"
  BY <1>2, <1>3 DEF TmrType
<1>10. QED
  BY <1>2, <1>6, <1>7, <1>8, <1>9 DEF AddressInv, QueueInv

\* A frame keeps the first part, and between two calls of etharp_tmr the second.
LEMMA EthInterruptInv ==
    ASSUME AddressInv, EthInterrupt
    PROVE  AddressInv' /\ (tmr.at = "idle" /\ QueueInv => QueueInv')
<1> DEFINE Kept == /\ Sane(arp') /\ Right(arp', announced')
                   /\ announced' \in [Hosts -> Macs]
                   /\ QueuesOK(arp) => QueuesOK(arp')
<1>1. Sane(arp) /\ Right(arp, announced) /\ announced \in [Hosts -> Macs]
  BY DEF AddressInv, Sane
<1>2. SUFFICES Kept
  <2>1. tmr' = tmr /\ tmr \in TmrType
    BY DEF EthInterrupt, AddressInv
  <2>2. tmr.at = "idle" => Settled = arp /\ Settled' = arp'
    BY <2>1 DEF Settled
  <2>3. tmr.at = "idle" /\ QueueInv => QueueInv'
    BY <1>2, <2>1, <2>2 DEF QueueInv
  <2>4. QED
    BY <1>2, <2>1, <2>3 DEF AddressInv, Sane
<1>3. PICK mac \in Macs :
          \/ \E ip \in Hosts \cup {"any"}, for_us \in BOOLEAN : ArpInput(ip, mac, for_us)
          \/ \E src \in Hosts \cup {"outside"}, answer, memory \in BOOLEAN :
                IpInput(src, mac, answer, memory)
  BY DEF EthInterrupt
<1>4. \A ip : Told(announced, ip, mac) \in [Hosts -> Macs]
  BY <1>1 DEF Told
<1>5. \A ip : ip \notin Hosts => Told(announced, ip, mac) = announced
  BY <1>1 DEF Told
<1>6. ASSUME NEW ip \in Hosts \cup {"any"}, NEW for_us \in BOOLEAN,
             ArpInput(ip, mac, for_us)
      PROVE  Kept
  <2>1. arp' = Update(arp, ip, mac, for_us) /\ announced' = Told(announced, ip, mac)
    BY <1>6 DEF ArpInput, Announce, Told
  <2>2. CASE ip \in Hosts
    BY <1>1, <1>4, <2>1, <2>2, UpdateFacts
  <2>3. CASE ip \notin Hosts
    <3>1. arp' = arp
      BY <2>1, <2>3 DEF Update
    <3>2. QED
      BY <1>1, <1>4, <1>5, <2>1, <2>3, <3>1
  <2>4. QED
    BY <2>2, <2>3
<1>7. ASSUME NEW src \in Hosts \cup {"outside"}, NEW answer \in BOOLEAN,
             NEW memory \in BOOLEAN, IpInput(src, mac, answer, memory)
      PROVE  Kept
  <2> DEFINE a == IF src \in Hosts THEN Update(arp, src, mac, FALSE) ELSE arp
             dst == IF src \in Hosts THEN src ELSE Gateway
  <2>1. /\ arp' = IF answer THEN Query(a, dst, memory) ELSE a
        /\ announced' = Told(announced, src, mac)
    BY <1>7 DEF IpInput, Announce, Told
  <2>2. Sane(a) /\ Right(a, announced') /\ (QueuesOK(arp) => QueuesOK(a))
    <3>1. CASE src \in Hosts
      BY <1>1, <2>1, <3>1, UpdateFacts
    <3>2. CASE src \notin Hosts
      BY <1>1, <1>5, <2>1, <3>2
    <3>3. QED
      BY <3>1, <3>2
  <2>3. dst \in Hosts
    BY ArpAssumption
  <2> HIDE DEF a, dst
  <2>4. Sane(arp') /\ Right(arp', announced') /\ (QueuesOK(arp) => QueuesOK(arp'))
    BY <2>1, <2>2, <2>3, QueryFacts
  <2>5. QED
    BY <1>4, <2>1, <2>4
<1>8. QED
  BY <1>3, <1>6, <1>7

\* A statement of etharp_tmr keeps both.
LEMMA TimerInv ==
    ASSUME AddressInv, Timer
    PROVE  AddressInv' /\ (QueueInv => QueueInv')
<1> DEFINE i == tmr.i
<1>1. /\ arp \in Table /\ arp.tab \in [Slots -> Entry] /\ arp.free \in [Nodes -> 0..2]
      /\ arp.hit \in Slots /\ tmr \in TmrType /\ i \in Slots
      /\ arp.tab[i] \in Entry /\ announced \in [Hosts -> Macs]
      /\ OneEntry(arp) /\ Right(arp, announced)
      /\ arp = [tab |-> arp.tab, free |-> arp.free, hit |-> arp.hit]
  BY DEF AddressInv, Table, TmrType
<1>2. CASE TmrStart
  <2>1. /\ arp' = arp /\ announced' = announced /\ tmr' = [at |-> "count", i |-> 0]
        /\ tmr.at = "idle"
    BY <1>2 DEF TmrStart
  <2>2. tmr' \in TmrType
    BY <2>1, ArpAssumption DEF TmrType, Slots
  <2>3. Settled' = Settled
    BY <2>1 DEF Settled
  <2>4. QED
    BY <2>1, <2>2, <2>3 DEF AddressInv, QueueInv
<1>3. CASE TmrCount
  <2> DEFINE e == [arp.tab[i] EXCEPT !.ctime = (@ + 1) % Ctimes]
  <2>1. /\ tmr.at = "count" /\ announced' = announced
        /\ arp' = [arp EXCEPT !.tab[i] = e]
        /\ tmr' = IF Old(e) THEN [tmr EXCEPT !.at = "free"] ELSE NextSlot
    BY <1>3 DEF TmrCount
  <2>2. e \in Entry /\ e.state = arp.tab[i].state /\ e.ip = arp.tab[i].ip
        /\ e.mac = arp.tab[i].mac /\ e.q = arp.tab[i].q
    <3>1. arp.tab[i].ctime \in 0..Ctimes-1
      BY <1>1, EntryFields
    <3>2. (arp.tab[i].ctime + 1) % Ctimes \in 0..Ctimes-1
      BY <3>1, ArpAssumption
    <3>3. QED
      BY <1>1, <3>2 DEF Entry
  <2> HIDE DEF e, i
  <2>3. tmr' \in TmrType /\ tmr'.at \in {"idle", "count", "free"}
    BY <1>1, <2>1, NextSlotType DEF TmrType
  <2>4. arp' = [tab |-> [arp.tab EXCEPT ![i] = e], free |-> arp.free, hit |-> arp.hit]
    BY <1>1, <2>1
  <2>5. /\ arp'.tab = [arp.tab EXCEPT ![i] = e] /\ arp'.free = arp.free
        /\ arp' \in Table
    BY <1>1, <2>2, <2>4 DEF Table
  <2>6. \A j \in Slots : /\ arp'.tab[j].state = arp.tab[j].state
                         /\ arp'.tab[j].ip = arp.tab[j].ip
                         /\ arp'.tab[j].mac = arp.tab[j].mac
                         /\ arp'.tab[j].q = arp.tab[j].q
    BY <1>1, <2>2, <2>5
  <2>7. OneEntry(arp') /\ Right(arp', announced')
    BY <1>1, <2>1, <2>6 DEF OneEntry, Right
  <2>8. ASSUME QueueInv PROVE QueueInv'
    <3>1. QueuesOK(arp)
      BY <2>1, <2>8 DEF QueueInv, Settled
    <3>2. \A j \in Slots : arp.tab[j].q # <<>> => arp.tab[j].state = "pending"
      BY <3>1 DEF QueuesOK
    <3>3. QueuesOK(arp')
      BY <1>1, <2>5, <2>6, <3>1, <3>2, QueuesSame
    <3>4. Settled' = arp'
      BY <2>3 DEF Settled
    <3>5. QED
      BY <2>3, <3>3, <3>4 DEF QueueInv
  <2>9. QED
    BY <1>1, <2>1, <2>3, <2>5, <2>7, <2>8 DEF AddressInv
<1>4. CASE TmrFree
  <2>1. /\ QueueInv => QueuesOK(arp)
        /\ announced' = announced /\ tmr.at = "free"
    BY <1>4 DEF TmrFree, QueueInv, Settled
  <2>2. CASE arp.tab[i].q = <<>>
    <3>1. arp' = arp /\ tmr' = [tmr EXCEPT !.at = "empty"]
      BY <1>4, <2>2 DEF TmrFree
    <3>2. tmr' \in TmrType /\ tmr'.at = "empty" /\ tmr'.i = i
      BY <1>1, <3>1 DEF TmrType
    <3>3. Settled' = arp'
      BY <3>2 DEF Settled
    <3>4. arp'.tab[tmr'.i].q = <<>>
      BY <2>2, <3>1, <3>2
    <3>5. QED
      BY <1>1, <2>1, <3>1, <3>2, <3>3, <3>4 DEF AddressInv, QueueInv
  <2>3. CASE arp.tab[i].q # <<>>
    <3>1. /\ arp' = [arp EXCEPT !.free = FreeQ(@, arp.tab[i].q)]
          /\ tmr' = [tmr EXCEPT !.at = "clear"]
      BY <1>4, <2>3 DEF TmrFree
    <3>2. tmr' \in TmrType /\ tmr'.at = "clear" /\ tmr'.i = i
      BY <1>1, <3>1 DEF TmrType
    <3>3. FreeQ(arp.free, arp.tab[i].q) \in [Nodes -> 0..2]
      BY <1>1, FreeQType
    <3> HIDE DEF i
    <3>4. arp' = [tab |-> arp.tab, free |-> FreeQ(arp.free, arp.tab[i].q),
                  hit |-> arp.hit]
      BY <1>1, <3>1
    <3>5. arp' \in Table /\ arp'.tab = arp.tab
      BY <1>1, <3>3, <3>4 DEF Table
    <3>6. OneEntry(arp') /\ Right(arp', announced')
      BY <1>1, <2>1, <3>5 DEF OneEntry, Right
    <3> DEFINE b == Settled'
               e == [arp.tab[i] EXCEPT !.q = <<>>]
    <3>7. <<>> \in Seq([node : Nodes, dst : Hosts])
      OBVIOUS
    <3>8. e \in Entry /\ e.q = <<>>
      BY <1>1, <3>7 DEF Entry
    <3>9. b = [arp' EXCEPT !.tab[i].q = <<>>]
      BY <3>2 DEF Settled
    <3>10. b = [tab |-> [arp.tab EXCEPT ![i] = e],
                free |-> FreeQ(arp.free, arp.tab[i].q), hit |-> arp.hit]
      BY <1>1, <3>4, <3>9
    <3> HIDE DEF b, e
    <3>11. /\ b \in Table /\ b.free = FreeQ(arp.free, arp.tab[i].q)
           /\ b.tab[i].q = <<>> /\ \A j \in Slots \ {i} : b.tab[j] = arp.tab[j]
      BY <1>1, <3>3, <3>8, <3>10 DEF Table
    <3>12. ASSUME QueueInv PROVE QueuesOK(b)
      BY <1>1, <2>1, <3>11, <3>12, QueueFreed
    <3>13. QED
      BY <1>1, <2>1, <3>2, <3>5, <3>6, <3>12 DEF AddressInv, QueueInv, b
  <2>4. QED
    BY <2>2, <2>3
<1>5. CASE TmrClear
  <2>1. /\ tmr.at = "clear" /\ arp' = [arp EXCEPT !.tab[i].q = <<>>]
        /\ tmr' = [tmr EXCEPT !.at = "empty"] /\ announced' = announced
    BY <1>5 DEF TmrClear
  <2>2. tmr' \in TmrType /\ tmr'.at = "empty" /\ tmr'.i = i
    BY <1>1, <2>1 DEF TmrType
  <2>3. Settled' = arp' /\ Settled = arp'
    BY <2>1, <2>2 DEF Settled
  <2>4. QueueInv => QueuesOK(Settled')
    BY <2>3 DEF QueueInv
  <2> DEFINE e == [arp.tab[i] EXCEPT !.q = <<>>]
  <2>5. <<>> \in Seq([node : Nodes, dst : Hosts])
    OBVIOUS
  <2>6. /\ e \in Entry /\ e.q = <<>> /\ e.state = arp.tab[i].state
        /\ e.ip = arp.tab[i].ip /\ e.mac = arp.tab[i].mac
    BY <1>1, <2>5 DEF Entry
  <2> HIDE DEF i
  <2>7. arp' = [tab |-> [arp.tab EXCEPT ![i] = e], free |-> arp.free, hit |-> arp.hit]
    BY <1>1, <2>1
  <2> HIDE DEF e
  <2>8. arp' \in Table /\ arp'.tab = [arp.tab EXCEPT ![i] = e]
    BY <1>1, <2>6, <2>7 DEF Table
  <2>9. \A j \in Slots : /\ arp'.tab[j].state = arp.tab[j].state
                         /\ arp'.tab[j].ip = arp.tab[j].ip
                         /\ arp'.tab[j].mac = arp.tab[j].mac
    BY <1>1, <2>6, <2>8
  <2>10. OneEntry(arp') /\ Right(arp', announced')
    BY <1>1, <2>1, <2>9 DEF OneEntry, Right
  <2>11. arp'.tab[tmr'.i].q = <<>>
    BY <1>1, <2>2, <2>6, <2>8
  <2>12. QED
    BY <1>1, <2>1, <2>2, <2>4, <2>8, <2>10, <2>11 DEF AddressInv, QueueInv
<1>6. CASE TmrEmpty
  <2>1. /\ tmr.at = "empty" /\ arp' = [arp EXCEPT !.tab[i].state = "empty"]
        /\ tmr' = NextSlot /\ announced' = announced
    BY <1>6 DEF TmrEmpty
  <2>2. tmr' \in TmrType /\ tmr'.at \in {"idle", "count"}
    BY <1>1, <2>1, NextSlotType
  <2>3. /\ QueueInv => QueuesOK(arp) /\ arp.tab[i].q = <<>>
        /\ Settled' = arp'
    BY <2>1, <2>2 DEF QueueInv, Settled
  <2> DEFINE e == [arp.tab[i] EXCEPT !.state = "empty"]
  <2>4. e \in Entry /\ e.q = arp.tab[i].q /\ e.state = "empty"
    BY <1>1 DEF Entry
  <2> HIDE DEF i
  <2>5. arp' = [tab |-> [arp.tab EXCEPT ![i] = e], free |-> arp.free, hit |-> arp.hit]
    BY <1>1, <2>1
  <2> HIDE DEF e
  <2>6. /\ arp' \in Table /\ arp'.tab = [arp.tab EXCEPT ![i] = e]
        /\ arp'.free = arp.free
    BY <1>1, <2>4, <2>5 DEF Table
  <2>7. arp'.tab[i] = e /\ \A j \in Slots \ {i} : arp'.tab[j] = arp.tab[j]
    BY <1>1, <2>6
  <2>8. OneEntry(arp')
    BY <1>1, <2>4, <2>6, <2>7, OneEntryKept
  <2>9. Right(arp', announced')
    BY <1>1, <2>1, <2>4, <2>7 DEF Right
  <2>10. ASSUME QueueInv PROVE QueuesOK(arp')
    <3>1. \A j \in Slots :
             /\ arp'.tab[j].q = arp.tab[j].q
             /\ arp.tab[j].q # <<>> => /\ arp'.tab[j].state = "pending"
                                       /\ arp'.tab[j].ip = arp.tab[j].ip
      BY <2>3, <2>4, <2>7, <2>10 DEF QueuesOK
    <3>2. QED
      BY <1>1, <2>3, <2>6, <2>10, <3>1, QueuesSame
  <2>11. QED
    BY <1>1, <2>1, <2>2, <2>3, <2>6, <2>8, <2>9, <2>10 DEF AddressInv, QueueInv
<1>7. QED
  BY <1>2, <1>3, <1>4, <1>5, <1>6 DEF Timer

-----------------------------------------------------------------------------
\* No queue is longer than the pool has queue entries.
LEMMA QueueBound ==
    ASSUME NEW a \in Table, QueuesOK(a), NEW i \in Slots
    PROVE  /\ Cardinality(Nodes) \in Nat
           /\ DOMAIN a.tab[i].q \subseteq 1..Cardinality(Nodes)
<1> DEFINE q == a.tab[i].q
           f == [j \in 1..Len(q) |-> q[j].node]
<1>1. q \in Seq([node : Nodes, dst : Hosts])
  <2>1. a.tab[i] \in Entry
    BY DEF Table
  <2>2. QED
    BY <2>1, EntryFields
<1>2. \A j, l \in DOMAIN q : q[j].node = q[l].node => j = l
  BY DEF QueuesOK
<1> HIDE DEF q
<1>3. /\ Len(q) \in Nat /\ DOMAIN q = 1..Len(q)
      /\ \A j \in 1..Len(q) : q[j].node \in Nodes
  <2> DEFINE T == [node : Nodes, dst : Hosts]
  <2>1. \A x \in T : x.node \in Nodes
    OBVIOUS
  <2>2. q \in Seq(T)
    BY <1>1
  <2> HIDE DEF T
  <2>3. Len(q) \in Nat /\ DOMAIN q = 1..Len(q) /\ \A j \in 1..Len(q) : q[j] \in T
    BY <2>2
  <2>4. QED
    BY <2>1, <2>3
<1>4. f \in [1..Len(q) -> Nodes] /\ \A j, l \in 1..Len(q) : f[j] = f[l] => j = l
  BY <1>2, <1>3
<1> HIDE DEF f
<1>5. f \in Injection(1..Len(q), Nodes)
  BY <1>4, Fun_IsInj
<1>6. IsFiniteSet(Nodes)
  BY ArpAssumption
<1>7. Cardinality(1..Len(q)) <= Cardinality(Nodes)
  BY <1>5, <1>6, FS_Injection
<1>8. Cardinality(1..Len(q)) = Len(q)
  BY <1>3, FS_Interval
<1>9. Cardinality(Nodes) \in Nat
  BY <1>6, FS_CardinalityType
<1>10. QED
  BY <1>3, <1>7, <1>8, <1>9 DEF q

\* A queue entry is in one place, or in none.
LEMMA PlacesFacts ==
    ASSUME arp \in Table, QueuesOK(arp), NEW n \in Nodes
    PROVE  Cardinality(Places(n)) = IF Queued(arp, n) THEN 1 ELSE 0
<1>1. CASE Queued(arp, n)
  <2>1. PICK i \in Slots : \E j \in DOMAIN arp.tab[i].q : arp.tab[i].q[j].node = n
    BY <1>1 DEF Queued
  <2>2. PICK j \in DOMAIN arp.tab[i].q : arp.tab[i].q[j].node = n
    BY <2>1
  <2>3. j \in 1..Cardinality(Nodes)
    BY QueueBound
  <2>4. <<i, j>> \in Places(n)
    BY <2>2, <2>3 DEF Places
  <2>5. ASSUME NEW p \in Places(n) PROVE p = <<i, j>>
    <3>1. /\ p[1] \in Slots /\ p[2] \in DOMAIN arp.tab[p[1]].q
          /\ arp.tab[p[1]].q[p[2]].node = n /\ p = <<p[1], p[2]>>
      BY DEF Places
    <3>2. p[1] = i /\ p[2] = j
      BY <2>2, <3>1 DEF QueuesOK
    <3>3. QED
      BY <3>1, <3>2
  <2>6. Places(n) = {<<i, j>>}
    BY <2>4, <2>5
  <2>7. QED
    BY <1>1, <2>6, FS_Singleton
<1>2. CASE ~Queued(arp, n)
  <2>1. Places(n) = {}
    BY <1>2 DEF Places, Queued
  <2>2. QED
    BY <1>2, <2>1, FS_EmptySet
<1>3. QED
  BY <1>1, <1>2

\* The second part is what QueuesSound says.
LEMMA QueueInvSound ==
    ASSUME AddressInv, QueueInv
    PROVE  QueuesSound
<1> SUFFICES ASSUME tmr.at # "clear"
             PROVE  /\ \A i \in Slots :
                          /\ arp.tab[i].q # <<>> => arp.tab[i].state = "pending"
                          /\ \A j \in DOMAIN arp.tab[i].q :
                                arp.tab[i].q[j].dst = arp.tab[i].ip
                    /\ \A n \in Nodes : arp.free[n] + Cardinality(Places(n)) = 1
  BY DEF QueuesSound
<1>1. QueuesOK(arp) /\ arp \in Table
  BY DEF QueueInv, Settled, AddressInv
<1>2. ASSUME NEW n \in Nodes
      PROVE  arp.free[n] + Cardinality(Places(n)) = 1
  <2>1. arp.free[n] = IF Queued(arp, n) THEN 0 ELSE 1
    BY <1>1 DEF QueuesOK
  <2>2. QED
    BY <1>1, <2>1, PlacesFacts
<1>3. QED
  BY <1>1, <1>2 DEF QueuesOK

\* The first part is what TypeOK and RightAddress say.
LEMMA AddressInvRight ==
    ASSUME AddressInv
    PROVE  TypeOK /\ RightAddress
<1>1. TypeOK
  BY DEF AddressInv, TypeOK, Table, TmrType
<1>2. ASSUME NEW i \in Slots, arp.tab[i].state # "empty"
      PROVE  Matching(arp, arp.tab[i].ip) = {i}
  BY <1>2 DEF AddressInv, OneEntry, Matching
<1>3. ASSUME NEW i \in Slots, arp.tab[i].state = "stable"
      PROVE  arp.tab[i].mac = announced[arp.tab[i].ip]
  BY <1>3 DEF AddressInv, Right
<1>4. QED
  BY <1>1, <1>2, <1>3 DEF RightAddress

\* The first part is an invariant, whether or not frames come within etharp_tmr.
LEMMA AddressInvariant == Spec => []AddressInv
<1>1. Init => AddressInv
  BY InitInv
<1>2. AddressInv /\ [Next]_vars => AddressInv'
  <2> SUFFICES ASSUME AddressInv, [Next]_vars
               PROVE  AddressInv'
    OBVIOUS
  <2>1. CASE EthInterrupt
    BY <2>1, EthInterruptInv
  <2>2. CASE Timer
    BY <2>2, TimerInv
  <2>3. CASE UNCHANGED vars
    BY <2>3 DEF vars, AddressInv
  <2>4. QED
    BY <2>1, <2>2, <2>3 DEF Next
<1>3. QED
  BY <1>1, <1>2, PTL DEF Spec

(***************************************************************************)
(* The variables of the ARP table have their types, also when the Ethernet *)
(* interrupt comes within etharp_tmr: find_entry always returns a slot of  *)
(* the table or none, however full it is.                                  *)
(***************************************************************************)
THEOREM ArpTypes == Spec => []TypeOK
<1>1. AddressInv => TypeOK
  BY AddressInvRight
<1>2. QED
  BY <1>1, AddressInvariant, PTL

(***************************************************************************)
(* For any table, any hosts and any pool: no host has two entries in the   *)
(* table and a stable entry has the address its host announced last, also  *)
(* when frames are handled within etharp_tmr, as the priorities allow.     *)
(***************************************************************************)
THEOREM AddressesRight == Spec => []RightAddress
<1>1. AddressInv => RightAddress
  BY AddressInvRight
<1>2. QED
  BY <1>1, AddressInvariant, PTL

(***************************************************************************)
(* For any table, any hosts and any pool: if no frame is handled within    *)
(* etharp_tmr, as its authors assume ("the ARP cache is protected from     *)
(* concurrent access", etharp.c:1120), a packet is queued for its own      *)
(* destination and each queue entry is in one queue or in the pool, once.  *)
(* With frames within etharp_tmr it is false: the run Arp_preempt.         *)
(***************************************************************************)
THEOREM QueuesStaySound ==
    ASSUME ~Preempt
    PROVE  Spec => []QueuesSound
<1>1. Init => QueueInv
  BY InitInv
<1>2. AddressInv /\ QueueInv /\ [Next]_vars => QueueInv'
  <2> SUFFICES ASSUME AddressInv, QueueInv, [Next]_vars
               PROVE  QueueInv'
    OBVIOUS
  <2>1. CASE EthInterrupt
    <3>1. tmr.at = "idle"
      BY <2>1 DEF EthInterrupt
    <3>2. QED
      BY <2>1, <3>1, EthInterruptInv
  <2>2. CASE Timer
    BY <2>2, TimerInv
  <2>3. CASE UNCHANGED vars
    BY <2>3 DEF vars, QueueInv, Settled
  <2>4. QED
    BY <2>1, <2>2, <2>3 DEF Next
<1>3. AddressInv /\ QueueInv => QueuesSound
  BY QueueInvSound
<1>4. QED
  BY <1>1, <1>2, <1>3, AddressInvariant, PTL DEF Spec

=============================================================================
