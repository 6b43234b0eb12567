------------------------------ MODULE EthRing ------------------------------
(***************************************************************************)
(* The Ethernet port of the updater: the DMA's receive and transmit rings, *)
(* lwip-1.3.1/port/ethernetif.c, and the interrupt that empties the first  *)
(* and fills the second, ETH_IRQHandler of stm32f1xx_it.c.                 *)
(*                                                                         *)
(* The CPU and the DMA share the rings and nothing else: a descriptor      *)
(* belongs to the one or to the other by its OWN bit.  Each runs at its    *)
(* own pace; the interrupt handler is a process of which every access to   *)
(* a descriptor or to a register of the DMA is a step.  Only accesses to a *)
(* descriptor the CPU owns are joined: the DMA leaves it alone.            *)
(*                                                                         *)
(* Frames are numbered as the MAC accepts them, modulo Numbers; no code    *)
(* sees the numbers.  A frame is "plain" (ARP, ICMP, a datagram nobody     *)
(* listens to), a "datagram" for one of the two callbacks of ethernet.c,   *)
(* or "long": of more than the ETH_MAX_PACKET_SIZE bytes of a buffer, a    *)
(* full frame with a VLAN tag for instance, which the DMA puts into two    *)
(* descriptors.  Frames with errors the MAC drops by itself, as            *)
(* ETH_StructInit and eth_config configure it.                             *)
(***************************************************************************)
EXTENDS Integers, Sequences

CONSTANTS
    NRx, NTx,       \* ETH_RXBUFNB, ETH_TXBUFNB
    FifoLen,        \* what the MAC's receive FIFO holds
    Numbers,        \* the modulus of the frame numbers
    Kinds,          \* the frames that may arrive
    Burst           \* the frames that can arrive between two accesses to DMASR

ASSUME RingAssumption ==
    /\ NRx \in Nat \ {0} /\ NTx \in Nat \ {0} /\ FifoLen \in Nat
    /\ Numbers \in Nat /\ Numbers > NRx + FifoLen
    /\ Kinds \subseteq {"plain", "datagram", "long"}
    /\ Burst \in Nat

VARIABLES
    rx,             \* the receive descriptors: DMA, or the segment received
    get,            \* DMARxDescToGet
    put,            \* the DMA's next receive descriptor
    fifo,           \* segments the DMA has still to store
    rstop,          \* the receive process is suspended
    rbus,           \* RBUS of DMASR, which says that it was
    pending,        \* R and NIS of DMASR: the interrupt is requested
    irq,            \* what the handler does next
    held,           \* the frame in the pbuf of low_level_input
    late,           \* segments stored in the handler's last window, if none since
    nin, nout,      \* history: numbers of the next frame accepted, and taken
    tx,             \* the transmit descriptors
    set,            \* DMATxDescToSet
    out,            \* the DMA's next transmit descriptor
    tstop,          \* the transmit process is suspended
    tbus            \* TBUS of DMASR

rxVars == <<rx, get, put, fifo, rstop, rbus, held, nin, nout>>
irqVars == <<pending, irq, late>>
txVars == <<tx, set, out, tstop, tbus>>
vars == <<rxVars, irqVars, txVars>>

DMA == [n |-> 0, kind |-> "dma"]    \* OWN is set
NoFrame == [n |-> 0, kind |-> "none"]
Segment == [n : 0..Numbers-1, kind : {"plain", "datagram", "part"}]
Steps == {"idle", "test", "input", "give", "stack", "hung", "clear_r", "clear_nis",
          "rbus", "clear_rbus", "poll_rx", "own", "tbus", "clear_tbus", "poll_tx"}

\* Every variable has its type.
TypeOK ==
    /\ rx \in [0..NRx-1 -> Segment \cup {DMA}]
    /\ get \in 0..NRx-1 /\ put \in 0..NRx-1
    /\ fifo \in Seq(Segment) /\ Len(fifo) <= FifoLen
    /\ rstop \in BOOLEAN /\ rbus \in BOOLEAN
    /\ tstop \in BOOLEAN /\ tbus \in BOOLEAN /\ pending \in BOOLEAN
    /\ irq \in Steps
    /\ held \in Segment \cup {NoFrame}
    /\ late \in 0..Burst
    /\ nin \in 0..Numbers-1 /\ nout \in 0..Numbers-1
    /\ tx \in [0..NTx-1 -> {"cpu", "dma", "overwritten"}]
    /\ set \in 0..NTx-1 /\ out \in 0..NTx-1

\* ETH_DMARxDescChainInit and ETH_DMATxDescChainInit: circles, all at their head.
RxInit == rx = [i \in 0..NRx-1 |-> DMA] /\ get = 0 /\ put = 0

TxInit == tx = [i \in 0..NTx-1 |-> "cpu"] /\ set = 0 /\ out = 0

\* low_level_init.
Init ==
    /\ RxInit /\ TxInit
    /\ fifo = <<>> /\ rstop = FALSE /\ rbus = FALSE
    /\ tstop = FALSE /\ tbus = FALSE
    /\ pending = FALSE /\ irq = "idle" /\ held = NoFrame /\ late = 0
    /\ nin = 0 /\ nout = 0

-----------------------------------------------------------------------------
(***************************************************************************)
(* The hardware.  A frame that finds no room in the FIFO is lost; one that *)
(* does makes a suspended receive process look at its descriptor again, as *)
(* a poll demand of the CPU does; RBUS and TBUS stay set until the CPU     *)
(* clears them.  The transmit process waits for a poll demand.             *)
(***************************************************************************)
SegmentsOf(kind) ==
    IF kind = "long" THEN <<[n |-> nin, kind |-> "part"],
                            [n |-> (nin + 1) % Numbers, kind |-> "part"]>>
                     ELSE <<[n |-> nin, kind |-> kind]>>

Arrive(kind) ==
    /\ Len(fifo) + Len(SegmentsOf(kind)) <= FifoLen
    /\ fifo' = fifo \o SegmentsOf(kind)
    /\ nin' = (nin + Len(SegmentsOf(kind))) % Numbers
    /\ rstop' = FALSE
    /\ UNCHANGED <<rx, get, put, rbus, held, nout, irqVars, txVars>>

Lose == Len(fifo) = FifoLen /\ UNCHANGED vars

InWindow == irq \in {"clear_r", "clear_nis"}

\* The DMA stores a segment and requests an interrupt, or suspends.
DmaReceive ==
    /\ fifo # <<>> /\ ~rstop
    /\ \/ /\ rx[put] = DMA
          /\ InWindow => late < Burst
          /\ rx' = [rx EXCEPT ![put] = Head(fifo)]
          /\ put' = (put + 1) % NRx
          /\ fifo' = Tail(fifo)
          /\ pending' = TRUE
          /\ late' = IF InWindow THEN late + 1 ELSE 0
          /\ UNCHANGED <<rstop, rbus>>
       \/ /\ rx[put] # DMA
          /\ rstop' = TRUE /\ rbus' = TRUE
          /\ UNCHANGED <<rx, put, fifo, pending, late>>
    /\ UNCHANGED <<get, held, nin, nout, irq, txVars>>

\* The DMA sends the frame of its descriptor, or suspends.
DmaTransmit ==
    /\ ~tstop
    /\ \/ /\ tx[out] # "cpu"
          /\ tx' = [tx EXCEPT ![out] = "cpu"]
          /\ out' = (out + 1) % NTx
          /\ UNCHANGED <<tstop, tbus>>
       \/ /\ tx[out] = "cpu"
          /\ tstop' = TRUE /\ tbus' = TRUE
          /\ UNCHANGED <<tx, out>>
    /\ UNCHANGED <<rxVars, irqVars, set>>

-----------------------------------------------------------------------------
(***************************************************************************)
(* ETH_IRQHandler.  ETH_GetRxPktSize is 0 for a descriptor of the DMA, and *)
(* for one that holds only part of a frame.                                *)
(***************************************************************************)
Ready == rx[get].kind \in {"plain", "datagram"}

Enter ==
    /\ irq = "idle" /\ pending
    /\ irq' = "test"
    /\ UNCHANGED <<rxVars, pending, late, txVars>>

Test ==
    /\ irq = "test"
    /\ irq' = IF Ready THEN "input" ELSE "clear_r"
    /\ late' = 0
    /\ UNCHANGED <<rxVars, pending, txVars>>

\* Mutated form: the pointer to the next descriptor is not advanced.
RxPktStays == get' = get

\* Mutated form: the last descriptor is not chained to the first.
RxPktUnchained == get' = get + 1

\* ETH_RxPkt_ChainMode takes the next descriptor; Test has seen it to be ready.
ETH_RxPkt_ChainMode == get' = (get + 1) % NRx

(***************************************************************************)
(* low_level_input up to the copy into a pbuf.  With no pbuf to be had the *)
(* frame is dropped.                                                       *)
(***************************************************************************)
LowLevelInput(memory) ==
    /\ irq = "input"
    /\ ETH_RxPkt_ChainMode
    /\ held' = IF memory THEN rx[get] ELSE NoFrame
    /\ nout' = (nout + 1) % Numbers
    /\ irq' = "give"
    /\ UNCHANGED <<rx, put, fifo, rstop, rbus, nin, pending, late, txVars>>

Taken == (get + NRx - 1) % NRx      \* frame.descriptor

\* Mutated form: one frame for each interrupt.
Once == "clear_r"

\* The loop of ETH_IRQHandler.
Again == "test"

\* low_level_input returns; without a pbuf ethernetif_input has nothing to do.
Returned == IF held = NoFrame THEN Again ELSE "stack"

\* Mutated form: without a pbuf low_level_input returns without a look at RBUS.
GiveAndReturn ==
    /\ irq = "give"
    /\ rx' = [rx EXCEPT ![Taken] = DMA]
    /\ irq' = IF held = NoFrame THEN Again ELSE "rbus"
    /\ UNCHANGED <<get, put, fifo, rstop, rbus, held, nin, nout, pending, late, txVars>>

\* The rest of low_level_input: the descriptor goes back to the DMA...
Give ==
    /\ irq = "give"
    /\ rx' = [rx EXCEPT ![Taken] = DMA]
    /\ irq' = "rbus"
    /\ UNCHANGED <<get, put, fifo, rstop, rbus, held, nin, nout, pending, late, txVars>>

\* Mutated form: the poll demand is left out.
NotResumed == UNCHANGED rstop

\* The poll demand, a write to DMARPDR.
Resumed == rstop' = FALSE

(***************************************************************************)
(* ... and if RBUS is set the CPU clears it and resumes the reception.     *)
(***************************************************************************)
ResumeRx ==
    /\ \/ /\ irq = "rbus"
          /\ irq' = IF rbus THEN "clear_rbus" ELSE Returned
          /\ UNCHANGED <<rstop, rbus>>
       \/ /\ irq = "clear_rbus"
          /\ irq' = "poll_rx" /\ rbus' = FALSE
          /\ UNCHANGED rstop
       \/ /\ irq = "poll_rx"
          /\ irq' = Returned /\ Resumed
          /\ UNCHANGED rbus
    /\ UNCHANGED <<rx, get, put, fifo, held, nin, nout, pending, late, txVars>>

(***************************************************************************)
(* A datagram for one of the callbacks is the end: udp_recv was given a    *)
(* function of one parameter, which lwIP calls with the arguments (NULL,   *)
(* pcb, p, ...), so that `while(0 == pbuf_free(p))' frees NULL for ever.   *)
(***************************************************************************)
InCallback == held.kind = "datagram"

\* ethernetif_input has passed the frame on to lwIP, which returns.
StackReturn ==
    /\ irq = "stack"
    /\ irq' = IF InCallback THEN "hung" ELSE Again
    /\ held' = NoFrame
    /\ UNCHANGED <<rx, get, put, fifo, rstop, rbus, nin, nout, pending, late, txVars>>

(***************************************************************************)
(* low_level_output, for an answer of lwIP.  The frame is copied into the  *)
(* buffer of the next descriptor before anyone looks at its OWN bit.       *)
(***************************************************************************)
LowLevelOutput ==
    /\ irq = "stack"
    /\ tx' = [tx EXCEPT ![set] = IF @ = "cpu" THEN @ ELSE "overwritten"]
    /\ irq' = "own"
    /\ UNCHANGED <<set, out, tstop, tbus, rxVars, pending, late>>

\* Mutated form: the next descriptor is selected even when this one is taken.
TxPktAhead ==
    /\ irq = "own"
    /\ tx' = IF tx[set] = "cpu" THEN [tx EXCEPT ![set] = "dma"] ELSE tx
    /\ set' = (set + 1) % NTx
    /\ irq' = IF tx[set] = "cpu" THEN "tbus" ELSE "stack"
    /\ UNCHANGED <<out, tstop, tbus, rxVars, pending, late>>

(***************************************************************************)
(* ETH_TxPkt_ChainMode up to the OWN bit, with its last statement, which   *)
(* moves a pointer only the CPU knows; ETH_ERROR reaches no caller.        *)
(***************************************************************************)
ETH_TxPkt_ChainMode ==
    /\ irq = "own"
    /\ \/ /\ tx[set] = "cpu"
          /\ tx' = [tx EXCEPT ![set] = "dma"]
          /\ set' = (set + 1) % NTx
          /\ irq' = "tbus"
       \/ /\ tx[set] # "cpu"
          /\ irq' = "stack"
          /\ UNCHANGED <<tx, set>>
    /\ UNCHANGED <<out, tstop, tbus, rxVars, pending, late>>

\* The end of ETH_TxPkt_ChainMode: if TBUS is set, clear it and resume.
ResumeTx ==
    /\ \/ /\ irq = "tbus"
          /\ irq' = IF tbus THEN "clear_tbus" ELSE "stack"
          /\ UNCHANGED <<tstop, tbus>>
       \/ /\ irq = "clear_tbus"
          /\ irq' = "poll_tx" /\ tbus' = FALSE
          /\ UNCHANGED tstop
       \/ /\ irq = "poll_tx"
          /\ irq' = "stack" /\ tstop' = FALSE
          /\ UNCHANGED tbus
    /\ UNCHANGED <<tx, set, out, rxVars, pending, late>>

\* The handler's two ETH_DMAClearITPendingBit: each ends the request.
Clear ==
    /\ InWindow
    /\ pending' = FALSE
    /\ irq' = IF irq = "clear_r" THEN "clear_nis" ELSE "idle"
    /\ UNCHANGED <<rxVars, late, txVars>>

Input == \E memory \in BOOLEAN : LowLevelInput(memory)

Handler ==
    \/ Enter \/ Test \/ Input \/ Give \/ ResumeRx \/ StackReturn \/ Clear
    \/ ETH_TxPkt_ChainMode \/ ResumeTx

Receive == \E kind \in Kinds : Arrive(kind)

Next ==
    \/ Receive \/ Lose \/ DmaReceive \/ DmaTransmit
    \/ Handler \/ LowLevelOutput

(***************************************************************************)
(* The handler and the DMA do not stop, and lwIP returns, having sent some *)
(* finite number of answers.  In a quiet network no frame need ever        *)
(* arrive; in a busy one there is always another.                          *)
(***************************************************************************)
QuietSpec ==
    /\ Init /\ [][Next]_vars
    /\ WF_vars(Handler) /\ SF_vars(StackReturn)
    /\ WF_vars(DmaReceive) /\ WF_vars(DmaTransmit)

BusySpec == QuietSpec /\ WF_vars(Receive)

-----------------------------------------------------------------------------
(***************************************************************************)
(* Frames reach lwIP in the order of their arrival, none twice and none    *)
(* overwritten while it waits: from DMARxDescToGet on, the ring holds the  *)
(* oldest frames not yet taken, then only descriptors of the DMA, and the  *)
(* DMA stores next behind the last of them.  While low_level_input holds   *)
(* a descriptor, the DMA does not touch it.                                *)
(***************************************************************************)
At(k) == (get + k) % NRx

RxInOrder ==
    \E c \in 0..NRx :
       /\ put = At(c)
       /\ irq = "give" => c < NRx /\ rx[Taken] # DMA
       /\ \A k \in 0..NRx-1 :
             k < c => rx[At(k)] # DMA /\ rx[At(k)].n = (nout + k) % Numbers
       /\ \A k \in 0..NRx-1 :
             k >= c /\ ~(irq = "give" /\ At(k) = Taken) => rx[At(k)] = DMA
       /\ \A k \in 1..Len(fifo) : fifo[k].n = (nout + c + k - 1) % Numbers

(***************************************************************************)
(* The DMA owns the transmit descriptors from its own up to the one that   *)
(* is set next.  A full ring overwrites only the frame that is transmitted *)
(* next, never one queued behind it.                                       *)
(***************************************************************************)
TxInOrder ==
    \E c \in 0..NTx :
       /\ set = (out + c) % NTx
       /\ \A k \in 0..NTx-1 : (k < c) <=> (tx[(out + k) % NTx] # "cpu")
       /\ \A k \in 0..NTx-1 :
             tx[k] = "overwritten" => k = out /\ c = NTx

(***************************************************************************)
(* A whole frame at the head of the ring is taken, unless the handler      *)
(* hangs in a callback ("This function should be called when a packet is   *)
(* ready to be read from the interface", ethernetif.c:275).                *)
(***************************************************************************)
HeadTaken == Ready ~> irq \in {"give", "hung"}

(***************************************************************************)
(* Reception does not stay suspended while a descriptor is free, and what  *)
(* was queued for transmission is transmitted.                             *)
(***************************************************************************)
RingsMove ==
    /\ (rstop /\ rx[put] = DMA) ~> ~rstop
    /\ \A i \in 0..NTx-1 : tx[i] # "cpu" ~> tx[i] = "cpu"

(***************************************************************************)
(* A frame waits unannounced for one reason only: when the handler has     *)
(* returned, a whole frame at the head of the ring still requests the      *)
(* interrupt, unless one was stored between the handler's last look at the *)
(* ring and its ETH_DMAClearITPendingBit calls, and none since.  Nothing   *)
(* else that the DMA and the handler do to each other loses a request, and *)
(* the next frame brings it back.                                          *)
(***************************************************************************)
WokenUp == irq = "idle" /\ Ready => pending \/ late > 0

(***************************************************************************)
(* No resumption is missed, wherever between the handler's accesses the    *)
(* DMA suspends, resumes by itself or suspends again: while one of its     *)
(* processes is suspended before a descriptor it could use, the handler is *)
(* on its way to the poll demand, and the flag that takes it there is set. *)
(***************************************************************************)
NoMissedResume ==
    /\ rstop /\ rx[put] = DMA =>
          irq = "poll_rx" \/ (irq \in {"rbus", "clear_rbus"} /\ rbus)
    /\ tstop /\ tx[out] # "cpu" =>
          irq = "poll_tx" \/ (irq \in {"tbus", "clear_tbus"} /\ tbus)

=============================================================================
