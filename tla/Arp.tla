-------------------------------- MODULE Arp --------------------------------
(***************************************************************************)
(* The ARP table of the updater's IP stack, lwip-1.3.1/src/netif/etharp.c, *)
(* as the two interrupts of stm32f1xx_it.c use it.  ETH_IRQHandler passes  *)
(* a received frame to ethernet_input, which updates the table and sends   *)
(* the answer by it; SysTick_Handler lets the entries age, etharp_tmr.     *)
(* SysTick has the lowest priority, so that a frame may be handled between *)
(* any two statements of etharp_tmr, and never the other way round; lwIP   *)
(* is built without locks (NO_SYS, SYS_LIGHTWEIGHT_PROT 0).                *)
(*                                                                         *)
(* An address is a host of the local network, "outside" of it, or "any"    *)
(* for an address that is no host's.  The packets queued on an entry are   *)
(* known by their destination and by the etharp_q_entry that holds them.   *)
(***************************************************************************)
EXTENDS Integers, Sequences, FiniteSetsExt

CONSTANTS
    TableSize,      \* ARP_TABLE_SIZE
    MaxAge,         \* ARP_MAXAGE
    MaxPending,     \* ARP_MAXPENDING
    Ctimes,         \* the values of ctime, a u8_t: 256
    Nodes,          \* the pool MEMP_ARP_QUEUE
    Hosts, Gateway,
    Macs,           \* the addresses a host may have, one after the other
    Preempt         \* whether a frame may arrive within etharp_tmr

ASSUME ArpAssumption ==
    /\ TableSize \in Nat \ {0}
    /\ MaxAge \in 1..Ctimes-1 /\ MaxPending \in 1..Ctimes-1 /\ Ctimes \in Nat
    /\ IsFiniteSet(Nodes)
    /\ Gateway \in Hosts /\ {"any", "outside"} \cap Hosts = {}
    /\ Preempt \in BOOLEAN

VARIABLES
    arp,        \* the table, how often each node is in its pool, the cached slot
    tmr,        \* the statement etharp_tmr has come to, and its i
    announced   \* history: the address each host has used last

vars == <<arp, tmr, announced>>

Slots == 0..TableSize-1
None == -1

Entry == [state : {"empty", "pending", "stable"}, ip : Hosts \cup {"any"},
          mac : Macs, ctime : 0..Ctimes-1, q : Seq([node : Nodes, dst : Hosts])]

\* Every variable has its type.
TypeOK ==
    /\ arp.tab \in [Slots -> Entry]
    /\ arp.free \in [Nodes -> 0..2]
    /\ arp.hit \in Slots
    /\ tmr.at \in {"idle", "count", "free", "clear", "empty"} /\ tmr.i \in Slots
    /\ announced \in [Hosts -> Macs]

\* The table is zero, and every queue entry is in the pool once.
Init ==
    /\ announced \in [Hosts -> Macs]
    /\ \E m \in Macs : arp =
         [tab |-> [i \in Slots |-> [state |-> "empty", ip |-> "any", mac |-> m,
                                    ctime |-> 0, q |-> <<>>]],
          free |-> [n \in Nodes |-> 1],
          hit |-> 0]
    /\ tmr = [at |-> "idle", i |-> 0]

-----------------------------------------------------------------------------
\* free_etharp_q, and the memp_free of update_arp_entry.
FreeQ(free, q) ==
    [n \in Nodes |-> IF \E j \in DOMAIN q : q[j].node = n
                     THEN Min({2, free[n] + 1}) ELSE free[n]]

(***************************************************************************)
(* find_entry.  The slot of the last call, if it is stable and has the     *)
(* address; otherwise the first slot that has it; otherwise a new entry:   *)
(* an empty slot, or, if `hard', the oldest stable, the oldest pending     *)
(* without packets, the oldest pending one.  Of equally old ones, the last.*)
(***************************************************************************)
InState(a, st) == {i \in Slots : a.tab[i].state = st}

Matching(a, ip) == {i \in Slots : a.tab[i].state # "empty" /\ a.tab[i].ip = ip}

Oldest(a, S) ==
    CHOOSE i \in S : \A j \in S \ {i} :
       \/ a.tab[j].ctime < a.tab[i].ctime
       \/ a.tab[j].ctime = a.tab[i].ctime /\ j < i

Idle(a) == {i \in InState(a, "pending") : a.tab[i].q = <<>>}

Victim(a) ==
    IF InState(a, "empty") # {} THEN Min(InState(a, "empty"))
    ELSE IF InState(a, "stable") # {} THEN Oldest(a, InState(a, "stable"))
    ELSE IF Idle(a) # {} THEN Oldest(a, Idle(a))
    ELSE Oldest(a, InState(a, "pending"))

\* Mutated form: the queue is freed and the pointer to it kept.
QueueKept(e) == e.q

\* The queue of a recycled slot: only that of a pending one is freed.
QueueLeft(e) == IF e.state = "pending" THEN <<>> ELSE e.q

Recycled(a, i, ip) ==
    [tab |-> [a.tab EXCEPT ![i] = [@ EXCEPT !.state = "empty", !.ip = ip, !.ctime = 0,
                                            !.q = QueueLeft(a.tab[i])]],
     free |-> IF a.tab[i].state = "pending" THEN FreeQ(a.free, a.tab[i].q) ELSE a.free,
     hit |-> i]

\* Mutated form: the slot of the last call is taken for the right one.
CacheTrusted(a, ip) == a.tab[a.hit].state = "stable"

CacheHit(a, ip) == a.tab[a.hit].state = "stable" /\ a.tab[a.hit].ip = ip

FindEntry(a, ip, hard) ==
    IF CacheHit(a, ip) THEN [i |-> a.hit, arp |-> a]
    ELSE IF Matching(a, ip) # {}
    THEN [i |-> Min(Matching(a, ip)), arp |-> [a EXCEPT !.hit = Min(Matching(a, ip))]]
    ELSE IF ~hard /\ InState(a, "empty") = {} THEN [i |-> None, arp |-> a]
    ELSE [i |-> Victim(a), arp |-> Recycled(a, Victim(a), ip)]

(***************************************************************************)
(* update_arp_entry: the entry becomes stable, and the packets queued on   *)
(* it are sent to its address and freed.  Also without `hard' it takes an  *)
(* empty slot.                                                             *)
(***************************************************************************)
Update(a, ip, mac, hard) ==
    LET f == FindEntry(a, ip, hard) IN
    IF ip = "any" \/ f.i = None THEN a
    ELSE [f.arp EXCEPT
            !.tab[f.i] = [@ EXCEPT !.state = "stable", !.mac = mac, !.ctime = 0,
                                   !.q = <<>>],
            !.free = FreeQ(@, f.arp.tab[f.i].q)]

\* Mutated form: each further packet renews a pending entry.
AskedAgain(e) == [e EXCEPT !.state = "pending", !.ctime = 0]

\* An empty entry becomes pending; the request for its address is sent each time.
Asked(e) == [e EXCEPT !.state = "pending"]

(***************************************************************************)
(* etharp_query for a packet to a host: a stable entry sends it at once; a *)
(* pending one asks for the address again and queues a copy, if there is   *)
(* memory for it and a queue entry is left, and drops it otherwise.        *)
(***************************************************************************)
Query(a, ip, memory) ==
    LET f == FindEntry(a, ip, TRUE)
        spare == {n \in Nodes : f.arp.free[n] > 0}
        n == CHOOSE x \in spare : TRUE
        asked == [f.arp EXCEPT !.tab[f.i] = Asked(@)]
    IN IF f.arp.tab[f.i].state = "stable" THEN f.arp
       ELSE IF memory /\ spare # {}
       THEN [asked EXCEPT !.tab[f.i].q = Append(@, [node |-> n, dst |-> ip]),
                          !.free[n] = @ - 1]
       ELSE asked

-----------------------------------------------------------------------------
(***************************************************************************)
(* ethernet_input.  etharp_arp_input makes an entry of the sender at any   *)
(* price if the message is for us.  etharp_ip_input does so if it costs    *)
(* nothing, before the packet goes to ip_input, whose answer (of UDP, ICMP *)
(* or TCP) comes back as etharp_output: to the sender or to the gateway.   *)
(***************************************************************************)
Announce(ip, mac) ==
    announced' = [h \in Hosts |-> IF h = ip THEN mac ELSE announced[h]]

ArpInput(ip, mac, for_us) ==
    /\ arp' = Update(arp, ip, mac, for_us)
    /\ Announce(ip, mac)

IpInput(src, mac, answer, memory) ==
    /\ LET a == IF src \in Hosts THEN Update(arp, src, mac, FALSE) ELSE arp
           dst == IF src \in Hosts THEN src ELSE Gateway
       IN arp' = IF answer THEN Query(a, dst, memory) ELSE a
    /\ Announce(src, mac)

EthInterrupt ==
    /\ tmr.at = "idle" \/ Preempt
    /\ \E mac \in Macs :
          \/ \E ip \in Hosts \cup {"any"}, for_us \in BOOLEAN :
                ArpInput(ip, mac, for_us)
          \/ \E src \in Hosts \cup {"outside"}, answer, memory \in BOOLEAN :
                IpInput(src, mac, answer, memory)
    /\ UNCHANGED tmr

-----------------------------------------------------------------------------
(***************************************************************************)
(* SysTick_Handler, lwip_periodic_handle and etharp_tmr, one statement at  *)
(* a time: start; count and test; free the queue; q = NULL; state = EMPTY. *)
(***************************************************************************)
Old(e) ==
    \/ e.state = "stable" /\ e.ctime >= MaxAge
    \/ e.state = "pending" /\ e.ctime >= MaxPending

\* Mutated form: i <= ARP_TABLE_SIZE.
NextSlotBeyond == IF tmr.i = TableSize THEN [at |-> "idle", i |-> 0]
                                       ELSE [at |-> "count", i |-> tmr.i + 1]

NextSlot == IF tmr.i = TableSize - 1 THEN [at |-> "idle", i |-> 0]
                                     ELSE [at |-> "count", i |-> tmr.i + 1]

TmrStart ==
    /\ tmr.at = "idle"
    /\ tmr' = [at |-> "count", i |-> 0]
    /\ UNCHANGED <<arp, announced>>

TmrCount ==
    LET counted == [arp.tab[tmr.i] EXCEPT !.ctime = (@ + 1) % Ctimes] IN
    /\ tmr.at = "count"
    /\ arp' = [arp EXCEPT !.tab[tmr.i] = counted]
    /\ tmr' = IF Old(counted) THEN [tmr EXCEPT !.at = "free"] ELSE NextSlot
    /\ UNCHANGED announced

TmrFree ==
    /\ tmr.at = "free"
    /\ \/ /\ arp.tab[tmr.i].q # <<>>
          /\ arp' = [arp EXCEPT !.free = FreeQ(@, arp.tab[tmr.i].q)]
          /\ tmr' = [tmr EXCEPT !.at = "clear"]
       \/ /\ arp.tab[tmr.i].q = <<>>
          /\ tmr' = [tmr EXCEPT !.at = "empty"]
          /\ UNCHANGED arp
    /\ UNCHANGED announced

TmrClear ==
    /\ tmr.at = "clear"
    /\ arp' = [arp EXCEPT !.tab[tmr.i].q = <<>>]
    /\ tmr' = [tmr EXCEPT !.at = "empty"]
    /\ UNCHANGED announced

TmrEmpty ==
    /\ tmr.at = "empty"
    /\ arp' = [arp EXCEPT !.tab[tmr.i].state = "empty"]
    /\ tmr' = NextSlot
    /\ UNCHANGED announced

Timer == TmrStart \/ TmrCount \/ TmrFree \/ TmrClear \/ TmrEmpty

Next == EthInterrupt \/ Timer

\* SysTick keeps coming, and the Ethernet interrupt leaves it time to run.
Spec == Init /\ [][Next]_vars /\ WF_vars(Timer)

-----------------------------------------------------------------------------
(***************************************************************************)
(* No host has two entries, of which one could be stale, and a stable one  *)
(* has the address the host announced last.                                *)
(***************************************************************************)
RightAddress ==
    \A i \in Slots : LET e == arp.tab[i] IN
       /\ e.state # "empty" => Matching(arp, e.ip) = {i}
       /\ e.state = "stable" => e.mac = announced[e.ip]

(***************************************************************************)
(* A queued packet is on the entry of its destination, which is pending,   *)
(* and its queue entry is in one queue and not in the pool ("no queued     *)
(* packets should exist on stable entries", etharp.c:371; "the ARP cache   *)
(* is protected from concurrent access", etharp.c:1120).  So no packet     *)
(* goes to a wrong host, no queue entry is freed twice and none is lost.   *)
(* Within etharp_tmr, between the freeing and q = NULL, it need not hold.  *)
(***************************************************************************)
Places(n) == {p \in Slots \X (1..Cardinality(Nodes)) :
                 LET q == arp.tab[p[1]].q IN p[2] \in DOMAIN q /\ q[p[2]].node = n}

QueuesSound ==
    tmr.at # "clear" =>
       /\ \A i \in Slots : LET e == arp.tab[i] IN
             /\ e.q # <<>> => e.state = "pending"
             /\ \A j \in DOMAIN e.q : e.q[j].dst = e.ip
       /\ \A n \in Nodes : arp.free[n] + Cardinality(Places(n)) = 1

(***************************************************************************)
(* A host does not stay pending, however many packets are sent to it: the  *)
(* query is given up and the queue entries are returned.                   *)
(***************************************************************************)
PendingEnds ==
    LET Pending(h) == \E i \in Matching(arp, h) : arp.tab[i].state = "pending"
    IN \A h \in Hosts : Pending(h) ~> ~Pending(h)

=============================================================================
