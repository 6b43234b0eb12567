--------------------------- MODULE EthRingProofs ---------------------------
(***************************************************************************)
(* Proofs about the receive and transmit rings, for every number of        *)
(* descriptors: frames are taken in the order of their arrival, none twice *)
(* and none overwritten (FramesInOrder), a full transmit ring spoils only  *)
(* the frame that is transmitted next (AnswersInOrder), and the handler    *)
(* misses no process of the DMA that it has to resume (ResumptionsSeen).   *)
(***************************************************************************)
EXTENDS EthRing, TLAPS

-----------------------------------------------------------------------------
(* Counting around a ring.                                                 *)

\* A sum below twice the modulus.
LEMMA ModOnce ==
    ASSUME NEW N \in Nat \ {0}, NEW a \in Nat, a < 2 * N
    PROVE  a % N = IF a < N THEN a ELSE a - N
OBVIOUS

(***************************************************************************)
(* The k-th position from a on, in a ring of N.  The facts below are all   *)
(* the proofs use of it.                                                   *)
(***************************************************************************)
Pos(a, k, N) == (a + k) % N

\* Pos without the remainder.
LEMMA PosValue ==
    ASSUME NEW N \in Nat \ {0}, NEW a \in 0..N-1, NEW k \in 0..N
    PROVE  Pos(a, k, N) = IF a + k < N THEN a + k ELSE a + k - N
<1>1. a + k \in Nat /\ a + k < 2 * N
  OBVIOUS
<1>2. (a + k) % N = IF a + k < N THEN a + k ELSE (a + k) - N
  BY <1>1, ModOnce
<1>3. QED
  BY <1>2 DEF Pos

\* A position is one of the ring.
LEMMA PosType ==
    ASSUME NEW N \in Nat \ {0}, NEW a \in 0..N-1, NEW k \in 0..N
    PROVE  Pos(a, k, N) \in 0..N-1
BY PosValue

\* Nought and N positions on, one is where one began.
LEMMA PosRound ==
    ASSUME NEW N \in Nat \ {0}, NEW a \in 0..N-1
    PROVE  Pos(a, 0, N) = a /\ Pos(a, N, N) = a
BY PosValue

\* Different distances lead to different positions.
LEMMA PosInjective ==
    ASSUME NEW N \in Nat \ {0}, NEW a \in 0..N-1,
           NEW j \in 0..N-1, NEW k \in 0..N-1, j # k
    PROVE  Pos(a, j, N) # Pos(a, k, N)
BY PosValue

\* One step, before or after the others.
LEMMA PosNext ==
    ASSUME NEW N \in Nat \ {0}, NEW a \in 0..N-1, NEW k \in 0..N-1
    PROVE  /\ Pos(a, 1, N) \in 0..N-1
           /\ Pos(Pos(a, 1, N), k, N) = Pos(a, k + 1, N)
           /\ Pos(Pos(a, k, N), 1, N) = Pos(a, k + 1, N)
<1>1. 1 \in 0..N /\ k \in 0..N /\ k + 1 \in 0..N
  OBVIOUS
<1>2. /\ Pos(a, 1, N) = IF a + 1 < N THEN a + 1 ELSE a + 1 - N
      /\ Pos(a, 1, N) \in 0..N-1
  BY <1>1, PosValue, PosType
<1>3. /\ Pos(a, k, N) = IF a + k < N THEN a + k ELSE a + k - N
      /\ Pos(a, k, N) \in 0..N-1
  BY <1>1, PosValue, PosType
<1>4. Pos(a, k + 1, N) = IF a + (k + 1) < N THEN a + (k + 1) ELSE a + (k + 1) - N
  BY <1>1, PosValue
<1> DEFINE b == Pos(a, 1, N)
           c == Pos(a, k, N)
<1>5. Pos(b, k, N) = IF b + k < N THEN b + k ELSE b + k - N
  BY <1>1, <1>2, PosValue
<1>6. Pos(c, 1, N) = IF c + 1 < N THEN c + 1 ELSE c + 1 - N
  BY <1>1, <1>3, PosValue
<1>7. QED
  BY <1>2, <1>3, <1>4, <1>5, <1>6

\* The position before the next one: a again, N - 1 positions on.
LEMMA PosBefore ==
    ASSUME NEW N \in Nat \ {0}, NEW a \in 0..N-1
    PROVE  Pos(Pos(a, 1, N), N - 1, N) = a
<1>1. N - 1 \in 0..N-1 /\ N - 1 + 1 = N
  OBVIOUS
<1>2. QED
  BY <1>1, PosNext, PosRound

-----------------------------------------------------------------------------
(* The types.                                                              *)

\* A descriptor that holds a segment is not the DMA's.
LEMMA SegmentFacts ==
    ASSUME NEW s \in Segment
    PROVE  s # DMA /\ s # NoFrame /\ s.n \in 0..Numbers-1
BY DEF Segment, DMA, NoFrame

\* The segments of a frame that arrives, and their numbers.
LEMMA SegmentsOfFacts ==
    ASSUME TypeOK, NEW kind \in Kinds
    PROVE  LET s == SegmentsOf(kind)
           IN  /\ s \in Seq(Segment)
               /\ Len(s) \in {1, 2}
               /\ s[1].n = nin
               /\ Len(s) = 2 => s[2].n = Pos(nin, 1, Numbers)
<1>1. /\ Numbers \in Nat \ {0} /\ nin \in 0..Numbers-1
      /\ kind \in {"plain", "datagram", "long"}
  BY RingAssumption DEF TypeOK
<1>2. Pos(nin, 1, Numbers) \in 0..Numbers-1
  BY <1>1, PosType
<1>3. CASE kind = "long"
  <2>1. SegmentsOf(kind) = <<[n |-> nin, kind |-> "part"],
                             [n |-> Pos(nin, 1, Numbers), kind |-> "part"]>>
    BY <1>3 DEF SegmentsOf, Pos
  <2>2. /\ [n |-> nin, kind |-> "part"] \in Segment
        /\ [n |-> Pos(nin, 1, Numbers), kind |-> "part"] \in Segment
    BY <1>1, <1>2 DEF Segment
  <2>3. QED
    BY <2>1, <2>2
<1>4. CASE kind # "long"
  <2>1. SegmentsOf(kind) = <<[n |-> nin, kind |-> kind]>>
    BY <1>4 DEF SegmentsOf
  <2>2. [n |-> nin, kind |-> kind] \in Segment
    BY <1>1, <1>4 DEF Segment
  <2>3. QED
    BY <2>1, <2>2
<1>5. QED
  BY <1>3, <1>4

\* low_level_init leaves every variable with its type.
LEMMA TypeInit == Init => TypeOK
<1> SUFFICES ASSUME Init PROVE TypeOK
  OBVIOUS
<1>1. NRx \in Nat \ {0} /\ NTx \in Nat \ {0} /\ FifoLen \in Nat /\ Burst \in Nat
      /\ Numbers \in Nat /\ Numbers >= 1
  BY RingAssumption
<1>2. rx \in [0..NRx-1 -> Segment \cup {DMA}]
  BY DEF Init, RxInit
<1>3. tx \in [0..NTx-1 -> {"cpu", "dma", "overwritten"}]
  BY DEF Init, TxInit
<1>4. fifo \in Seq(Segment) /\ Len(fifo) <= FifoLen
  BY <1>1 DEF Init
<1>5. /\ get \in 0..NRx-1 /\ put \in 0..NRx-1 /\ set \in 0..NTx-1 /\ out \in 0..NTx-1
      /\ nin \in 0..Numbers-1 /\ nout \in 0..Numbers-1 /\ late \in 0..Burst
  BY <1>1 DEF Init, RxInit, TxInit
<1>6. QED
  BY <1>2, <1>3, <1>4, <1>5 DEF Init, TypeOK, Steps

\* What the DMA does to the receive ring.
LEMMA DmaReceiveType == TypeOK /\ DmaReceive => TypeOK'
<1> SUFFICES ASSUME TypeOK, DmaReceive PROVE TypeOK'
  OBVIOUS
<1>1. fifo \in Seq(Segment) /\ fifo # <<>> /\ Len(fifo) <= FifoLen /\ FifoLen \in Nat
  BY RingAssumption DEF TypeOK, DmaReceive
<1>2. Head(fifo) \in Segment /\ Tail(fifo) \in Seq(Segment) /\ Len(Tail(fifo)) <= FifoLen
  BY <1>1
<1>3. Pos(put, 1, NRx) \in 0..NRx-1
  BY RingAssumption, PosNext DEF TypeOK
<1>4. rx' \in [0..NRx-1 -> Segment \cup {DMA}]
  BY <1>2 DEF TypeOK, DmaReceive
<1>5. put' \in 0..NRx-1
  BY <1>3 DEF TypeOK, DmaReceive, Pos
<1>6. fifo' \in Seq(Segment) /\ Len(fifo') <= FifoLen
  BY <1>1, <1>2 DEF DmaReceive
<1>7. late' \in 0..Burst
  BY RingAssumption DEF TypeOK, DmaReceive
<1>8. rstop' \in BOOLEAN /\ rbus' \in BOOLEAN /\ pending' \in BOOLEAN
  BY DEF TypeOK, DmaReceive
<1>9. QED
  BY <1>4, <1>5, <1>6, <1>7, <1>8 DEF TypeOK, DmaReceive, txVars

\* What the DMA does to the transmit ring.
LEMMA DmaTransmitType == TypeOK /\ DmaTransmit => TypeOK'
<1> SUFFICES ASSUME TypeOK, DmaTransmit PROVE TypeOK'
  OBVIOUS
<1>1. Pos(out, 1, NTx) \in 0..NTx-1
  BY RingAssumption, PosNext DEF TypeOK
<1>2. out' \in 0..NTx-1
  BY <1>1 DEF TypeOK, DmaTransmit, Pos
<1>3. /\ tx' \in [0..NTx-1 -> {"cpu", "dma", "overwritten"}]
      /\ tstop' \in BOOLEAN /\ tbus' \in BOOLEAN
  BY DEF TypeOK, DmaTransmit
<1>4. QED
  BY <1>2, <1>3 DEF TypeOK, DmaTransmit, rxVars, irqVars

\* A frame arrives.
LEMMA ArriveType ==
    ASSUME TypeOK, NEW kind \in Kinds, Arrive(kind)
    PROVE  TypeOK'
<1> DEFINE s == SegmentsOf(kind)
<1>1. s \in Seq(Segment) /\ Len(s) \in {1, 2}
  BY SegmentsOfFacts
<1> HIDE DEF s
<1>2. fifo' \in Seq(Segment) /\ Len(fifo') <= FifoLen
  <2>1. /\ fifo \in Seq(Segment) /\ fifo' = fifo \o s
        /\ Len(fifo) + Len(s) <= FifoLen
    BY DEF TypeOK, Arrive, s
  <2>2. QED
    BY <1>1, <2>1
<1>3. nin' \in 0..Numbers-1
  <2>1. Numbers \in Nat \ {0} /\ nin + Len(s) \in Nat
    BY <1>1, RingAssumption DEF TypeOK
  <2>2. nin' = (nin + Len(s)) % Numbers
    BY DEF Arrive, s
  <2>3. QED
    BY <2>1, <2>2
<1>4. QED
  BY <1>2, <1>3 DEF TypeOK, Arrive, irqVars, txVars

\* The copy of an answer of lwIP.
LEMMA LowLevelOutputType == TypeOK /\ LowLevelOutput => TypeOK'
<1> SUFFICES ASSUME TypeOK, LowLevelOutput PROVE TypeOK'
  OBVIOUS
<1>1. tx' \in [0..NTx-1 -> {"cpu", "dma", "overwritten"}]
  BY DEF TypeOK, LowLevelOutput
<1>2. irq' \in Steps
  BY DEF LowLevelOutput, Steps
<1>3. QED
  BY <1>1, <1>2 DEF TypeOK, LowLevelOutput, rxVars

\* The answer is queued, or not.
LEMMA TxPktType == TypeOK /\ ETH_TxPkt_ChainMode => TypeOK'
<1> SUFFICES ASSUME TypeOK, ETH_TxPkt_ChainMode PROVE TypeOK'
  OBVIOUS
<1>1. Pos(set, 1, NTx) \in 0..NTx-1
  BY RingAssumption, PosNext DEF TypeOK
<1>2. set' \in 0..NTx-1
  BY <1>1 DEF TypeOK, ETH_TxPkt_ChainMode, Pos
<1>3. tx' \in [0..NTx-1 -> {"cpu", "dma", "overwritten"}]
  BY DEF TypeOK, ETH_TxPkt_ChainMode
<1>4. irq' \in Steps
  BY DEF ETH_TxPkt_ChainMode, Steps
<1>5. QED
  BY <1>2, <1>3, <1>4 DEF TypeOK, ETH_TxPkt_ChainMode, rxVars

\* The looks at RBUS and TBUS, and what follows from them.
LEMMA ResumeType ==
    ASSUME TypeOK, ResumeRx \/ ResumeTx
    PROVE  TypeOK'
<1>1. CASE ResumeRx
  <2>1. irq' \in Steps
    BY <1>1 DEF ResumeRx, Returned, Again, Steps
  <2>2. rstop' \in BOOLEAN /\ rbus' \in BOOLEAN
    BY <1>1 DEF TypeOK, ResumeRx, Resumed
  <2>3. QED
    BY <1>1, <2>1, <2>2 DEF TypeOK, ResumeRx, txVars
<1>2. CASE ResumeTx
  <2>1. irq' \in Steps
    BY <1>2 DEF ResumeTx, Steps
  <2>2. tstop' \in BOOLEAN /\ tbus' \in BOOLEAN
    BY <1>2 DEF TypeOK, ResumeTx
  <2>3. QED
    BY <1>2, <2>1, <2>2 DEF TypeOK, ResumeTx, rxVars
<1>3. QED
  BY <1>1, <1>2

\* The copy into a pbuf.
LEMMA InputType ==
    ASSUME TypeOK, irq = "input" => Ready, NEW memory \in BOOLEAN,
           LowLevelInput(memory)
    PROVE  TypeOK'
<1>1. Pos(get, 1, NRx) \in 0..NRx-1 /\ Pos(nout, 1, Numbers) \in 0..Numbers-1
  <2>1. /\ NRx \in Nat \ {0} /\ get \in 0..NRx-1 /\ 1 \in 0..NRx
        /\ Numbers \in Nat \ {0} /\ nout \in 0..Numbers-1 /\ 1 \in 0..Numbers
    BY RingAssumption DEF TypeOK
  <2>2. QED
    BY <2>1, PosType
<1>2. get' \in 0..NRx-1 /\ nout' \in 0..Numbers-1
  BY <1>1 DEF LowLevelInput, ETH_RxPkt_ChainMode, Pos
<1>3. rx[get] \in Segment
  BY DEF TypeOK, LowLevelInput, Ready, DMA
<1>4. held' \in Segment \cup {NoFrame}
  BY <1>3 DEF LowLevelInput
<1>5. QED
  BY <1>2, <1>4 DEF TypeOK, LowLevelInput, Steps, txVars

\* The descriptor's return to the DMA.
LEMMA GiveType == TypeOK /\ Give => TypeOK'
<1> SUFFICES ASSUME TypeOK, Give PROVE TypeOK'
  OBVIOUS
<1>1. rx' \in [0..NRx-1 -> Segment \cup {DMA}]
  BY DEF TypeOK, Give
<1>2. irq' \in Steps
  BY DEF Give, Steps
<1>3. QED
  BY <1>1, <1>2 DEF TypeOK, Give, txVars

\* The other steps of the handler.
LEMMA HandlerType ==
    ASSUME TypeOK, Enter \/ Test \/ StackReturn \/ Clear
    PROVE  TypeOK'
<1>1. CASE Enter
  BY <1>1 DEF TypeOK, Enter, Steps, rxVars, txVars
<1>2. CASE Test
  <2>1. irq' \in Steps /\ late' \in 0..Burst
    BY <1>2, RingAssumption DEF Test, Steps
  <2>2. QED
    BY <1>2, <2>1 DEF TypeOK, Test, rxVars, txVars
<1>3. CASE StackReturn
  <2>1. irq' \in Steps /\ held' \in Segment \cup {NoFrame}
    BY <1>3 DEF StackReturn, Steps, Again
  <2>2. QED
    BY <1>3, <2>1 DEF TypeOK, StackReturn, txVars
<1>4. CASE Clear
  <2>1. irq' \in Steps
    BY <1>4 DEF Clear, Steps
  <2>2. late' \in 0..Burst
    BY <1>4, RingAssumption DEF TypeOK, Clear
  <2>3. pending' \in BOOLEAN
    BY <1>4 DEF TypeOK, Clear
  <2>4. QED
    BY <1>4, <2>1, <2>2, <2>3 DEF TypeOK, Clear, rxVars, txVars
<1>5. QED
  BY <1>1, <1>2, <1>3, <1>4

-----------------------------------------------------------------------------
(* The receive ring.                                                       *)

(***************************************************************************)
(* RxInOrder for a known number c of frames in the ring, and what it needs *)
(* to be inductive: the next frame that arrives will have the next number. *)
(***************************************************************************)
RxRing(c) ==
    /\ put = Pos(get, c, NRx)
    /\ irq = "give" => c < NRx /\ rx[Pos(get, NRx - 1, NRx)] # DMA
    /\ \A k \in 0..NRx-1 :
          k < c => /\ rx[Pos(get, k, NRx)] # DMA
                   /\ rx[Pos(get, k, NRx)].n = Pos(nout, k, Numbers)
    /\ \A k \in 0..NRx-1 :
          k >= c /\ ~(irq = "give" /\ k = NRx - 1) => rx[Pos(get, k, NRx)] = DMA
    /\ \A k \in 1..Len(fifo) : fifo[k].n = Pos(nout, c + k - 1, Numbers)
    /\ nin = Pos(nout, c + Len(fifo), Numbers)

\* A frame that the handler is about to copy is still in the ring.
InputInv == irq = "input" => Ready

RxInv == InputInv /\ \E c \in 0..NRx : RxRing(c)

\* RxRing says what RxInOrder says.
LEMMA RxRingInOrder ==
    ASSUME TypeOK, NEW c \in 0..NRx, RxRing(c)
    PROVE  RxInOrder
<1>1. /\ NRx \in Nat \ {0} /\ get \in 0..NRx-1 /\ nout \in 0..Numbers-1
      /\ Numbers \in Nat \ {0} /\ Len(fifo) \in Nat /\ c \in Nat
  BY RingAssumption DEF TypeOK
<1>2. \A k : At(k) = Pos(get, k, NRx)
  BY DEF At, Pos
<1>3. Taken = Pos(get, NRx - 1, NRx)
  <2>1. get + NRx - 1 = get + (NRx - 1)
    BY <1>1
  <2>2. QED
    BY <2>1 DEF Taken, Pos
<1>4. \A k \in 0..NRx-1 : k # NRx - 1 => At(k) # Taken
  <2>1. NRx - 1 \in 0..NRx-1
    BY <1>1
  <2>2. QED
    BY <1>1, <1>2, <1>3, <2>1, PosInjective
<1>5. \A k \in 1..Len(fifo) : Pos(nout, c + k - 1, Numbers) = (nout + c + k - 1) % Numbers
  <2>1. \A k \in 1..Len(fifo) : nout + (c + k - 1) = nout + c + k - 1
    BY <1>1
  <2>2. QED
    BY <2>1 DEF Pos
<1>6. \A k : Pos(nout, k, Numbers) = (nout + k) % Numbers
  BY DEF Pos
<1>7. put = At(c) /\ (irq = "give" => c < NRx /\ rx[Taken] # DMA)
  BY <1>2, <1>3 DEF RxRing
<1>8. \A k \in 0..NRx-1 :
        k < c => rx[At(k)] # DMA /\ rx[At(k)].n = (nout + k) % Numbers
  BY <1>2, <1>6 DEF RxRing
<1>9. ASSUME NEW k \in 0..NRx-1, k >= c, ~(irq = "give" /\ At(k) = Taken)
       PROVE  rx[At(k)] = DMA
  BY <1>2, <1>3, <1>9 DEF RxRing
<1>10. \A k \in 1..Len(fifo) : fifo[k].n = (nout + c + k - 1) % Numbers
  BY <1>5 DEF RxRing
<1>11. QED
  BY <1>7, <1>8, <1>9, <1>10 DEF RxInOrder

\* Both rings are empty at first.
LEMMA RxInit0 == Init => RxInv
<1> SUFFICES ASSUME Init PROVE RxInv
  OBVIOUS
<1>1. NRx \in Nat \ {0} /\ Numbers \in Nat \ {0}
  BY RingAssumption
<1>2. 0 \in 0..NRx-1 /\ 0 \in 0..NRx /\ 0 \in 0..Numbers-1
  BY <1>1
<1>3. Pos(0, 0, NRx) = 0 /\ Pos(0, 0, Numbers) = 0
  BY <1>1, <1>2, PosRound
<1>4. \A k \in 0..NRx-1 : Pos(0, k, NRx) \in 0..NRx-1
  <2>1. \A k \in 0..NRx-1 : k \in 0..NRx
    BY <1>1
  <2>2. QED
    BY <1>1, <1>2, <2>1, PosType
<1>5. RxRing(0)
  BY <1>1, <1>3, <1>4 DEF Init, RxInit, RxRing
<1>6. QED
  BY <1>2, <1>5 DEF RxInv, InputInv, Init

\* A step that leaves the ring, and what has been taken from it, alone.
LEMMA RxQuiet ==
    ASSUME RxInv, UNCHANGED <<rx, get, put, fifo, nin, nout>>,
           \/ irq' = irq
           \/ /\ irq # "give" /\ irq' # "give"
              /\ irq' = "input" => Ready
    PROVE  RxInv'
<1>1. PICK c \in 0..NRx : RxRing(c)
  BY DEF RxInv
<1>2. RxRing(c)'
  BY <1>1 DEF RxRing
<1>3. InputInv'
  BY DEF RxInv, InputInv, Ready
<1>4. QED
  BY <1>2, <1>3 DEF RxInv

\* A frame arrives: its segments have the next numbers.
LEMMA RxArrive ==
    ASSUME TypeOK, RxInv, NEW kind \in Kinds, Arrive(kind)
    PROVE  RxInv'
<1>1. PICK c \in 0..NRx : RxRing(c)
  BY DEF RxInv
<1> DEFINE s == SegmentsOf(kind)
           l == c + Len(fifo)
<1>2. /\ s \in Seq(Segment) /\ Len(s) \in {1, 2} /\ s[1].n = nin
      /\ Len(s) = 2 => s[2].n = Pos(nin, 1, Numbers)
  BY SegmentsOfFacts
<1>3. /\ fifo \in Seq(Segment) /\ Len(fifo) \in Nat /\ Len(fifo) + Len(s) <= FifoLen
      /\ fifo' = fifo \o s /\ nin' = (nin + Len(s)) % Numbers
      /\ UNCHANGED <<rx, get, put, nout, irq>>
  BY DEF TypeOK, Arrive, irqVars
<1>4. /\ Numbers \in Nat \ {0} /\ nout \in 0..Numbers-1 /\ nin \in 0..Numbers-1
      /\ NRx \in Nat /\ FifoLen \in Nat /\ Numbers > NRx + FifoLen
  BY RingAssumption DEF TypeOK
<1> HIDE DEF s
<1>5. l \in Nat /\ l + Len(s) <= NRx + FifoLen /\ nin = Pos(nout, l, Numbers)
  <2>1. nin = Pos(nout, l, Numbers)
    BY <1>1 DEF RxRing
  <2>2. l \in Nat /\ l + Len(s) <= NRx + FifoLen
    BY <1>2, <1>3, <1>4
  <2>3. QED
    BY <2>1, <2>2
<1>6. Pos(nin, 1, Numbers) = Pos(nout, l + 1, Numbers)
  <2>1. l \in 0..Numbers-1
    BY <1>2, <1>4, <1>5
  <2>2. QED
    BY <1>4, <1>5, <2>1, PosNext
<1>7. nin' = Pos(nout, l + Len(s), Numbers)
  <2>1. CASE Len(s) = 1
    BY <1>3, <1>6, <2>1 DEF Pos
  <2>2. CASE Len(s) = 2
    <3>1. l + 1 \in 0..Numbers-1 /\ 1 \in 0..Numbers-1 /\ l + 1 + 1 = l + 2
      BY <1>2, <1>4, <1>5, <2>2
    <3>2. Pos(Pos(nin, 1, Numbers), 1, Numbers) = Pos(nin, 2, Numbers)
      BY <1>4, <3>1, PosNext
    <3>3. Pos(Pos(nout, l + 1, Numbers), 1, Numbers) = Pos(nout, l + 2, Numbers)
      BY <1>4, <3>1, PosNext
    <3>4. nin' = Pos(nin, 2, Numbers)
      BY <1>3, <2>2 DEF Pos
    <3>5. QED
      BY <1>6, <2>2, <3>2, <3>3, <3>4
  <2>3. QED
    BY <1>2, <2>1, <2>2
<1>8. Len(fifo') = Len(fifo) + Len(s)
  BY <1>2, <1>3
<1>9. ASSUME NEW k \in 1..Len(fifo')
      PROVE  fifo'[k].n = Pos(nout, c + k - 1, Numbers)
  <2>1. CASE k <= Len(fifo)
    <3>1. k \in 1..Len(fifo) /\ fifo'[k] = fifo[k]
      BY <1>2, <1>3, <2>1
    <3>2. QED
      BY <1>1, <3>1 DEF RxRing
  <2>2. CASE k = Len(fifo) + 1
    <3>1. fifo'[k] = s[1] /\ c + k - 1 = l
      BY <1>2, <1>3, <1>4, <2>2
    <3>2. QED
      BY <1>2, <1>5, <3>1
  <2>3. CASE k = Len(fifo) + 2 /\ Len(s) = 2
    <3>1. fifo'[k] = s[2] /\ c + k - 1 = l + 1
      BY <1>2, <1>3, <1>4, <2>3
    <3>2. QED
      BY <1>2, <1>6, <2>3, <3>1
  <2>4. k \in Nat /\ k >= 1 /\ k <= Len(fifo) + Len(s)
    BY <1>2, <1>3, <1>8
  <2>5. k <= Len(fifo) \/ k = Len(fifo) + 1 \/ (k = Len(fifo) + 2 /\ Len(s) = 2)
    <3>1. ASSUME NEW f \in Nat, NEW m \in {1, 2}, k <= f + m
          PROVE  k <= f \/ k = f + 1 \/ (k = f + 2 /\ m = 2)
      BY <2>4, <3>1
    <3>2. QED
      BY <1>2, <1>3, <2>4, <3>1
  <2>6. QED
    BY <2>1, <2>2, <2>3, <2>5
<1>10. l + Len(s) = c + Len(fifo')
  BY <1>2, <1>3, <1>4, <1>8
<1>11. RxRing(c)'
  BY <1>1, <1>3, <1>7, <1>9, <1>10 DEF RxRing
<1>12. InputInv'
  BY <1>3 DEF RxInv, InputInv, Ready
<1>13. QED
  BY <1>11, <1>12 DEF RxInv

(***************************************************************************)
(* The DMA stores a segment behind the last frame of the ring.  A full     *)
(* ring, and a descriptor that low_level_input holds, are not the DMA's.   *)
(***************************************************************************)
LEMMA RxStore ==
    ASSUME TypeOK, RxInv, DmaReceive, rx[put] = DMA
    PROVE  RxInv'
<1>1. PICK c \in 0..NRx : RxRing(c)
  BY DEF RxInv
<1>2. /\ NRx \in Nat \ {0} /\ get \in 0..NRx-1 /\ put \in 0..NRx-1
      /\ Numbers \in Nat \ {0} /\ nout \in 0..Numbers-1 /\ c \in Nat
      /\ rx \in [0..NRx-1 -> Segment \cup {DMA}]
      /\ fifo \in Seq(Segment) /\ Len(fifo) \in Nat /\ fifo # <<>>
  BY RingAssumption DEF TypeOK, DmaReceive
<1>3. /\ rx' = [rx EXCEPT ![put] = Head(fifo)] /\ put' = Pos(put, 1, NRx)
      /\ fifo' = Tail(fifo) /\ UNCHANGED <<get, nin, nout, irq>>
  BY DEF DmaReceive, Pos
<1>4. /\ Head(fifo) = fifo[1] /\ Head(fifo) \in Segment /\ Len(fifo) >= 1
      /\ Len(fifo') = Len(fifo) - 1
      /\ \A k \in 1..Len(fifo') : k + 1 \in 1..Len(fifo) /\ fifo'[k] = fifo[k + 1]
  BY <1>2, <1>3
<1>5. c < NRx
  <2>1. ASSUME c = NRx PROVE FALSE
    <3>1. put = get /\ Pos(get, 0, NRx) = get
      BY <1>1, <1>2, <2>1, PosRound DEF RxRing
    <3>2. 0 \in 0..NRx-1 /\ 0 < c
      BY <1>2, <2>1
    <3>3. rx[get] # DMA
      BY <1>1, <3>1, <3>2 DEF RxRing
    <3>4. QED
      BY <3>1, <3>3
  <2>2. QED
    BY <1>2, <2>1
<1>6. c \in 0..NRx-1 /\ c + 1 \in 0..NRx /\ put = Pos(get, c, NRx)
  BY <1>1, <1>2, <1>5 DEF RxRing
<1>7. put' = Pos(get, c + 1, NRx)
  BY <1>2, <1>3, <1>6, PosNext
<1>8. ASSUME NEW k \in 0..NRx-1, k # c
      PROVE  rx'[Pos(get, k, NRx)] = rx[Pos(get, k, NRx)]
  <2>1. k \in 0..NRx
    BY <1>2
  <2>2. Pos(get, k, NRx) # put /\ Pos(get, k, NRx) \in 0..NRx-1
    BY <1>2, <1>6, <1>8, <2>1, PosInjective, PosType
  <2>3. QED
    BY <1>2, <1>3, <2>2
<1>9. /\ rx'[Pos(get, c, NRx)] # DMA
      /\ rx'[Pos(get, c, NRx)].n = Pos(nout, c, Numbers)
  <2>1. rx'[put] = fifo[1] /\ fifo[1] \in Segment
    BY <1>2, <1>3, <1>4
  <2>2. fifo[1].n = Pos(nout, c + 1 - 1, Numbers)
    BY <1>1, <1>4 DEF RxRing
  <2>3. c + 1 - 1 = c
    BY <1>2
  <2>4. QED
    BY <1>6, <2>1, <2>2, <2>3, SegmentFacts
<1>10. irq = "give" => c + 1 < NRx /\ rx'[Pos(get, NRx - 1, NRx)] # DMA
  <2>1. SUFFICES ASSUME irq = "give"
                 PROVE  c + 1 < NRx /\ rx'[Pos(get, NRx - 1, NRx)] # DMA
    OBVIOUS
  <2>2. rx[Pos(get, NRx - 1, NRx)] # DMA
    BY <1>1, <2>1 DEF RxRing
  <2>3. c # NRx - 1
    BY <1>6, <2>2
  <2>4. NRx - 1 \in 0..NRx-1 /\ c + 1 < NRx
    BY <1>2, <1>5, <2>3
  <2>5. QED
    BY <1>8, <2>2, <2>3, <2>4
<1>11. ASSUME NEW k \in 0..NRx-1, k < c + 1
       PROVE  /\ rx'[Pos(get, k, NRx)] # DMA
              /\ rx'[Pos(get, k, NRx)].n = Pos(nout, k, Numbers)
  <2>1. CASE k = c
    BY <1>9, <2>1
  <2>2. CASE k # c
    <3>1. k < c
      BY <1>2, <1>11, <2>2
    <3>2. QED
      BY <1>1, <1>8, <2>2, <3>1 DEF RxRing
  <2>3. QED
    BY <2>1, <2>2
<1>12. ASSUME NEW k \in 0..NRx-1, k >= c + 1, ~(irq = "give" /\ k = NRx - 1)
       PROVE  rx'[Pos(get, k, NRx)] = DMA
  <2>1. k # c /\ k >= c
    BY <1>2, <1>12
  <2>2. QED
    BY <1>1, <1>8, <1>12, <2>1 DEF RxRing
<1>13. ASSUME NEW k \in 1..Len(fifo')
       PROVE  fifo'[k].n = Pos(nout, (c + 1) + k - 1, Numbers)
  <2>1. fifo[k + 1].n = Pos(nout, c + (k + 1) - 1, Numbers) /\ fifo'[k] = fifo[k + 1]
    BY <1>1, <1>4 DEF RxRing
  <2>2. c + (k + 1) - 1 = (c + 1) + k - 1
    BY <1>2, <1>4
  <2>3. QED
    BY <2>1, <2>2
<1>14. nin = Pos(nout, (c + 1) + Len(fifo'), Numbers)
  <2>1. (c + 1) + Len(fifo') = c + Len(fifo)
    BY <1>2, <1>4
  <2>2. QED
    BY <1>1, <2>1 DEF RxRing
<1>15. RxRing(c + 1)'
  BY <1>3, <1>7, <1>10, <1>11, <1>12, <1>13, <1>14 DEF RxRing
<1>16. InputInv'
  <2>1. SUFFICES ASSUME irq = "input" PROVE Ready'
    BY <1>3 DEF InputInv
  <2>2. Ready
    BY <2>1 DEF RxInv, InputInv
  <2>3. get # put
    BY <2>2 DEF Ready, DMA
  <2>4. QED
    BY <1>2, <1>3, <2>2, <2>3 DEF Ready
<1>17. QED
  BY <1>6, <1>15, <1>16 DEF RxInv

\* low_level_input takes the oldest frame, and holds its descriptor.
LEMMA RxTake ==
    ASSUME TypeOK, RxInv, NEW memory \in BOOLEAN, LowLevelInput(memory)
    PROVE  RxInv'
<1>1. PICK c \in 0..NRx : RxRing(c)
  BY DEF RxInv
<1>2. /\ NRx \in Nat \ {0} /\ get \in 0..NRx-1 /\ 0 \in 0..NRx-1
      /\ Numbers \in Nat \ {0} /\ nout \in 0..Numbers-1 /\ c \in Nat
      /\ Len(fifo) \in Nat /\ Len(fifo) <= FifoLen /\ FifoLen \in Nat
      /\ Numbers > NRx + FifoLen
  BY RingAssumption DEF TypeOK
<1>3. /\ get' = Pos(get, 1, NRx) /\ nout' = Pos(nout, 1, Numbers) /\ irq' = "give"
      /\ UNCHANGED <<rx, put, fifo, nin>> /\ irq = "input"
  BY DEF LowLevelInput, ETH_RxPkt_ChainMode, Pos
<1>4. rx[get] # DMA /\ Pos(get, 0, NRx) = get
  BY <1>2, <1>3, PosRound DEF RxInv, InputInv, Ready, DMA
<1>5. c >= 1
  <2>1. ASSUME c = 0 PROVE FALSE
    <3>1. 0 >= c
      BY <2>1
    <3>2. QED
      BY <1>1, <1>2, <1>3, <1>4, <3>1 DEF RxRing
  <2>2. QED
    BY <1>2, <2>1
<1>6. c - 1 \in 0..NRx-1 /\ c - 1 \in 0..NRx /\ c - 1 \in Nat /\ (c - 1) + 1 = c
  BY <1>2, <1>5
<1>7. ASSUME NEW k \in 0..NRx-1
      PROVE  Pos(get', k, NRx) = Pos(get, k + 1, NRx)
  BY <1>2, <1>3, PosNext
<1>8. ASSUME NEW k \in 0..Numbers-1
      PROVE  Pos(nout', k, Numbers) = Pos(nout, k + 1, Numbers)
  BY <1>2, <1>3, PosNext
<1>9. put' = Pos(get', c - 1, NRx)
  BY <1>1, <1>3, <1>6, <1>7 DEF RxRing
<1>10. Pos(get', NRx - 1, NRx) = get
  BY <1>2, <1>3, PosBefore
<1>11. ASSUME NEW k \in 0..NRx-1, k < c - 1
       PROVE  /\ rx[Pos(get', k, NRx)] # DMA
              /\ rx[Pos(get', k, NRx)].n = Pos(nout', k, Numbers)
  <2>1. k + 1 \in 0..NRx-1 /\ k + 1 < c /\ k \in 0..Numbers-1
    BY <1>2, <1>6, <1>11
  <2>2. QED
    BY <1>1, <1>7, <1>8, <2>1 DEF RxRing
<1>12. ASSUME NEW k \in 0..NRx-1, k >= c - 1, k # NRx - 1
       PROVE  rx[Pos(get', k, NRx)] = DMA
  <2>1. k + 1 \in 0..NRx-1 /\ k + 1 >= c
    BY <1>2, <1>12
  <2>2. QED
    BY <1>1, <1>3, <1>7, <2>1 DEF RxRing
<1>13. ASSUME NEW k \in 1..Len(fifo)
       PROVE  fifo[k].n = Pos(nout', (c - 1) + k - 1, Numbers)
  <2>1. (c - 1) + k - 1 \in 0..Numbers-1 /\ ((c - 1) + k - 1) + 1 = c + k - 1
    BY <1>2, <1>5
  <2>2. QED
    BY <1>1, <1>8, <2>1 DEF RxRing
<1>14. nin = Pos(nout', (c - 1) + Len(fifo), Numbers)
  <2>1. (c - 1) + Len(fifo) \in 0..Numbers-1 /\ ((c - 1) + Len(fifo)) + 1 = c + Len(fifo)
    BY <1>2, <1>5
  <2>2. QED
    BY <1>1, <1>8, <2>1 DEF RxRing
<1>15. c - 1 < NRx
  BY <1>2
<1>16. RxRing(c - 1)'
  BY <1>3, <1>4, <1>9, <1>10, <1>11, <1>12, <1>13, <1>14, <1>15 DEF RxRing
<1>17. InputInv'
  BY <1>3 DEF InputInv
<1>18. QED
  BY <1>6, <1>16, <1>17 DEF RxInv

\* low_level_input gives its descriptor back.
LEMMA RxGive ==
    ASSUME TypeOK, RxInv, Give
    PROVE  RxInv'
<1>1. PICK c \in 0..NRx : RxRing(c)
  BY DEF RxInv
<1>2. /\ NRx \in Nat \ {0} /\ get \in 0..NRx-1 /\ NRx - 1 \in 0..NRx-1
      /\ rx \in [0..NRx-1 -> Segment \cup {DMA}] /\ c \in Nat
  BY RingAssumption DEF TypeOK
<1>3. Taken = Pos(get, NRx - 1, NRx) /\ Taken \in 0..NRx-1
  <2>1. get + NRx - 1 = get + (NRx - 1) /\ NRx - 1 \in 0..NRx
    BY <1>2
  <2>2. Taken = Pos(get, NRx - 1, NRx)
    BY <2>1 DEF Taken, Pos
  <2>3. QED
    BY <1>2, <2>1, <2>2, PosType
<1>4. /\ rx' = [rx EXCEPT ![Taken] = DMA] /\ irq' = "rbus"
      /\ UNCHANGED <<get, put, fifo, nin, nout>> /\ irq = "give"
  BY DEF Give
<1>5. c < NRx
  BY <1>1, <1>4 DEF RxRing
<1>6. rx'[Pos(get, NRx - 1, NRx)] = DMA
  BY <1>2, <1>3, <1>4
<1>7. ASSUME NEW k \in 0..NRx-1, k # NRx - 1
      PROVE  rx'[Pos(get, k, NRx)] = rx[Pos(get, k, NRx)]
  <2>1. k \in 0..NRx
    BY <1>2
  <2>2. Pos(get, k, NRx) # Taken /\ Pos(get, k, NRx) \in 0..NRx-1
    BY <1>2, <1>3, <1>7, <2>1, PosInjective, PosType
  <2>3. QED
    BY <1>2, <1>4, <2>2
<1>8. \A k \in 0..NRx-1 : k < c => k # NRx - 1
  BY <1>2, <1>5
<1>9. \A k \in 0..NRx-1 :
         k < c => /\ rx'[Pos(get, k, NRx)] # DMA
                  /\ rx'[Pos(get, k, NRx)].n = Pos(nout, k, Numbers)
  BY <1>1, <1>7, <1>8 DEF RxRing
<1>10. \A k \in 0..NRx-1 : k >= c => rx'[Pos(get, k, NRx)] = DMA
  BY <1>1, <1>6, <1>7 DEF RxRing
<1>11. RxRing(c)'
  BY <1>1, <1>4, <1>9, <1>10 DEF RxRing
<1>12. QED
  BY <1>4, <1>11 DEF RxInv, InputInv

-----------------------------------------------------------------------------
(* The transmit ring.                                                      *)

\* TxInOrder for a known number c of frames in the ring.
TxRing(c) ==
    /\ set = Pos(out, c, NTx)
    /\ \A k \in 0..NTx-1 : (k < c) <=> (tx[Pos(out, k, NTx)] # "cpu")
    /\ \A k \in 0..NTx-1 : tx[k] = "overwritten" => k = out /\ c = NTx

TxInv == \E c \in 0..NTx : TxRing(c)

\* TxInv says what TxInOrder says.
LEMMA TxRingInOrder == TxInv <=> TxInOrder
BY DEF TxInv, TxInOrder, TxRing, Pos

\* At first the CPU owns every descriptor.
LEMMA TxInit0 == Init => TxInv
<1> SUFFICES ASSUME Init PROVE TxInv
  OBVIOUS
<1>1. NTx \in Nat \ {0} /\ 0 \in 0..NTx-1 /\ 0 \in 0..NTx
  BY RingAssumption
<1>2. Pos(0, 0, NTx) = 0
  BY <1>1, PosRound
<1>3. \A k \in 0..NTx-1 : Pos(0, k, NTx) \in 0..NTx-1 /\ ~(k < 0)
  <2>1. \A k \in 0..NTx-1 : k \in 0..NTx
    BY <1>1
  <2>2. QED
    BY <1>1, <2>1, PosType
<1>4. TxRing(0)
  BY <1>2, <1>3 DEF Init, TxInit, TxRing
<1>5. QED
  BY <1>1, <1>4 DEF TxInv

\* A step that leaves the transmit ring alone.
LEMMA TxQuiet ==
    ASSUME TxInv, UNCHANGED <<tx, set, out>>
    PROVE  TxInv'
BY DEF TxInv, TxRing

\* The DMA sends its frame: the ring holds one less, and the next one is first.
LEMMA TxSend ==
    ASSUME TypeOK, TxInv, DmaTransmit
    PROVE  TxInv'
<1>1. PICK c \in 0..NTx : TxRing(c)
  BY DEF TxInv
<1>2. /\ NTx \in Nat \ {0} /\ out \in 0..NTx-1 /\ 0 \in 0..NTx-1 /\ c \in Nat
      /\ tx \in [0..NTx-1 -> {"cpu", "dma", "overwritten"}]
  BY RingAssumption DEF TypeOK
<1>3. CASE UNCHANGED <<tx, set, out>>
  BY <1>3, TxQuiet
<1>4. ASSUME tx[out] # "cpu", tx' = [tx EXCEPT ![out] = "cpu"],
             out' = Pos(out, 1, NTx), UNCHANGED set
      PROVE  TxInv'
  <2>1. Pos(out, 0, NTx) = out
    BY <1>2, PosRound
  <2>2. 0 < c
    BY <1>1, <1>2, <1>4, <2>1 DEF TxRing
  <2>3. c - 1 \in 0..NTx-1 /\ c - 1 \in 0..NTx /\ (c - 1) + 1 = c
    BY <1>2, <2>2
  <2>4. ASSUME NEW k \in 0..NTx-1
        PROVE  Pos(out', k, NTx) = Pos(out, k + 1, NTx)
    BY <1>2, <1>4, PosNext
  <2>5. set' = Pos(out', c - 1, NTx)
    BY <1>1, <1>4, <2>3, <2>4 DEF TxRing
  <2>6. ASSUME NEW k \in 0..NTx-1
        PROVE  (k < c - 1) <=> (tx'[Pos(out', k, NTx)] # "cpu")
    <3>1. CASE k = NTx - 1
      <4>1. Pos(out', k, NTx) = out
        BY <1>2, <1>4, <3>1, PosBefore
      <4>2. tx'[out] = "cpu"
        BY <1>2, <1>4
      <4>3. ~(k < c - 1)
        BY <1>2, <3>1
      <4>4. QED
        BY <4>1, <4>2, <4>3
    <3>2. CASE k # NTx - 1
      <4>1. k + 1 \in 0..NTx-1 /\ k + 1 \in 0..NTx /\ k + 1 # 0
        BY <1>2, <3>2
      <4>2. Pos(out, k + 1, NTx) # out /\ Pos(out, k + 1, NTx) \in 0..NTx-1
        BY <1>2, <2>1, <4>1, PosInjective, PosType
      <4>3. tx'[Pos(out', k, NTx)] = tx[Pos(out, k + 1, NTx)]
        BY <1>2, <1>4, <2>4, <4>2
      <4>4. (k + 1 < c) <=> (tx[Pos(out, k + 1, NTx)] # "cpu")
        BY <1>1, <4>1 DEF TxRing
      <4>5. (k < c - 1) <=> (k + 1 < c)
        BY <1>2
      <4>6. QED
        BY <4>3, <4>4, <4>5
    <3>3. QED
      BY <3>1, <3>2
  <2>7. ASSUME NEW k \in 0..NTx-1
        PROVE  tx'[k] # "overwritten"
    <3>1. CASE k = out
      BY <1>2, <1>4, <3>1
    <3>2. CASE k # out
      BY <1>1, <1>2, <1>4, <3>2 DEF TxRing
    <3>3. QED
      BY <3>1, <3>2
  <2>8. TxRing(c - 1)'
    BY <2>5, <2>6, <2>7 DEF TxRing
  <2>9. QED
    BY <2>3, <2>8 DEF TxInv
<1>5. QED
  BY <1>3, <1>4 DEF DmaTransmit, Pos

(***************************************************************************)
(* The copy of low_level_output: a buffer of the CPU, or, in a full ring,  *)
(* that of the frame transmitted next.                                     *)
(***************************************************************************)
LEMMA TxCopy ==
    ASSUME TypeOK, TxInv, LowLevelOutput
    PROVE  TxInv'
<1>1. PICK c \in 0..NTx : TxRing(c)
  BY DEF TxInv
<1>2. /\ NTx \in Nat \ {0} /\ out \in 0..NTx-1 /\ set \in 0..NTx-1 /\ 0 \in 0..NTx-1
      /\ tx \in [0..NTx-1 -> {"cpu", "dma", "overwritten"}] /\ c \in Nat
  BY RingAssumption DEF TypeOK
<1>3. set = Pos(out, c, NTx) /\ Pos(out, 0, NTx) = out /\ out' = out
  BY <1>1, <1>2, PosRound DEF TxRing, LowLevelOutput
<1>4. CASE tx[set] = "cpu"
  <2>1. tx' = tx /\ set' = set
    BY <1>2, <1>4 DEF LowLevelOutput
  <2>2. QED
    BY <1>3, <2>1, TxQuiet
<1>5. CASE tx[set] # "cpu"
  <2>1. tx' = [tx EXCEPT ![set] = "overwritten"] /\ set' = set
    BY <1>2, <1>5 DEF LowLevelOutput
  <2>2. c = NTx
    <3>1. ASSUME c # NTx PROVE FALSE
      <4>1. c \in 0..NTx-1 /\ ~(c < c)
        BY <1>2, <3>1
      <4>2. QED
        BY <1>1, <1>3, <1>5, <4>1 DEF TxRing
    <3>2. QED
      BY <3>1
  <2>3. set = out
    BY <1>2, <1>3, <2>2, PosRound
  <2>4. ASSUME NEW k \in 0..NTx-1
        PROVE  (k < c) <=> (tx'[Pos(out, k, NTx)] # "cpu")
    <3>1. k < c /\ k \in 0..NTx
      BY <1>2, <2>2
    <3>2. tx[Pos(out, k, NTx)] # "cpu" /\ Pos(out, k, NTx) \in 0..NTx-1
      BY <1>1, <1>2, <3>1, PosType DEF TxRing
    <3>3. tx'[Pos(out, k, NTx)] # "cpu"
      BY <1>2, <2>1, <3>2
    <3>4. QED
      BY <3>1, <3>3
  <2>5. ASSUME NEW k \in 0..NTx-1, tx'[k] = "overwritten"
        PROVE  k = out
    BY <1>1, <1>2, <2>1, <2>3, <2>5 DEF TxRing
  <2>6. TxRing(c)'
    BY <1>3, <2>1, <2>2, <2>4, <2>5 DEF TxRing
  <2>7. QED
    BY <2>6 DEF TxInv
<1>6. QED
  BY <1>4, <1>5

\* A descriptor of the CPU gets the frame; without one nothing is queued.
LEMMA TxQueue ==
    ASSUME TypeOK, TxInv, ETH_TxPkt_ChainMode
    PROVE  TxInv'
<1>1. PICK c \in 0..NTx : TxRing(c)
  BY DEF TxInv
<1>2. /\ NTx \in Nat \ {0} /\ out \in 0..NTx-1 /\ set \in 0..NTx-1 /\ 0 \in 0..NTx-1
      /\ tx \in [0..NTx-1 -> {"cpu", "dma", "overwritten"}] /\ c \in Nat
  BY RingAssumption DEF TypeOK
<1>3. set = Pos(out, c, NTx) /\ Pos(out, 0, NTx) = out /\ out' = out
  BY <1>1, <1>2, PosRound DEF TxRing, ETH_TxPkt_ChainMode
<1>4. CASE tx[set] = "cpu"
  <2>1. tx' = [tx EXCEPT ![set] = "dma"] /\ set' = Pos(set, 1, NTx)
    BY <1>4 DEF ETH_TxPkt_ChainMode, Pos
  <2>2. c # NTx
    <3>1. ASSUME c = NTx PROVE FALSE
      <4>1. set = out /\ 0 < c
        BY <1>2, <1>3, <3>1, PosRound
      <4>2. QED
        BY <1>1, <1>2, <1>3, <1>4, <4>1 DEF TxRing
    <3>2. QED
      BY <3>1
  <2>3. c \in 0..NTx-1 /\ c + 1 \in 0..NTx
    BY <1>2, <2>2
  <2>4. set' = Pos(out, c + 1, NTx)
    BY <1>2, <1>3, <2>1, <2>3, PosNext
  <2>5. ASSUME NEW k \in 0..NTx-1
        PROVE  (k < c + 1) <=> (tx'[Pos(out, k, NTx)] # "cpu")
    <3>1. CASE k = c
      <4>1. tx'[set] = "dma"
        BY <1>2, <2>1
      <4>2. k < c + 1
        BY <1>2, <3>1
      <4>3. QED
        BY <1>3, <3>1, <4>1, <4>2
    <3>2. CASE k # c
      <4>1. k \in 0..NTx
        BY <1>2
      <4>2. Pos(out, k, NTx) # set /\ Pos(out, k, NTx) \in 0..NTx-1
        BY <1>2, <1>3, <2>3, <3>2, <4>1, PosInjective, PosType
      <4>3. tx'[Pos(out, k, NTx)] = tx[Pos(out, k, NTx)]
        BY <1>2, <2>1, <4>2
      <4>4. (k < c + 1) <=> (k < c)
        BY <1>2, <3>2
      <4>5. QED
        BY <1>1, <4>3, <4>4 DEF TxRing
    <3>3. QED
      BY <3>1, <3>2
  <2>6. ASSUME NEW k \in 0..NTx-1
        PROVE  tx'[k] # "overwritten"
    BY <1>1, <1>2, <2>1, <2>2 DEF TxRing
  <2>7. TxRing(c + 1)'
    BY <1>3, <2>4, <2>5, <2>6 DEF TxRing
  <2>8. QED
    BY <2>3, <2>7 DEF TxInv
<1>5. CASE tx[set] # "cpu"
  <2>1. UNCHANGED <<tx, set, out>>
    BY <1>5 DEF ETH_TxPkt_ChainMode
  <2>2. QED
    BY <2>1, TxQuiet
<1>6. QED
  BY <1>4, <1>5

-----------------------------------------------------------------------------
(* The theorems.                                                           *)

RingInv == TypeOK /\ RxInv /\ TxInv

\* Every step of the CPU and of the DMA keeps both rings in order.
LEMMA RingStep == RingInv /\ [Next]_vars => RingInv'
<1> SUFFICES ASSUME RingInv, [Next]_vars PROVE RingInv'
  OBVIOUS
<1>0. TypeOK /\ RxInv /\ InputInv /\ TxInv
  BY DEF RingInv, RxInv
<1>1. ASSUME NEW kind \in Kinds, Arrive(kind)
      PROVE  RingInv'
  <2>1. UNCHANGED <<tx, set, out>>
    BY <1>1 DEF Arrive, txVars
  <2>2. QED
    BY <1>0, <1>1, <2>1, ArriveType, RxArrive, TxQuiet DEF RingInv
<1>2. CASE DmaReceive
  <2>1. UNCHANGED <<tx, set, out>>
    BY <1>2 DEF DmaReceive, txVars
  <2>2. CASE rx[put] = DMA
    BY <1>0, <1>2, <2>1, <2>2, DmaReceiveType, RxStore, TxQuiet DEF RingInv
  <2>3. CASE rx[put] # DMA
    <3>1. UNCHANGED <<rx, get, put, fifo, nin, nout, irq>>
      BY <1>2, <2>3 DEF DmaReceive
    <3>2. QED
      BY <1>0, <1>2, <2>1, <3>1, DmaReceiveType, RxQuiet, TxQuiet DEF RingInv
  <2>4. QED
    BY <2>2, <2>3
<1>3. CASE DmaTransmit
  <2>1. UNCHANGED <<rx, get, put, fifo, nin, nout, irq>>
    BY <1>3 DEF DmaTransmit, rxVars, irqVars
  <2>2. QED
    BY <1>0, <1>3, <2>1, DmaTransmitType, RxQuiet, TxSend DEF RingInv
<1>4. CASE LowLevelOutput \/ ETH_TxPkt_ChainMode
  <2>1. UNCHANGED <<rx, get, put, fifo, nin, nout>>
    BY <1>4 DEF LowLevelOutput, ETH_TxPkt_ChainMode, rxVars
  <2>2. irq # "give" /\ irq' \notin {"give", "input"}
    BY <1>4 DEF LowLevelOutput, ETH_TxPkt_ChainMode
  <2>3. RxInv'
    BY <1>0, <2>1, <2>2, RxQuiet
  <2>4. TypeOK' /\ TxInv'
    BY <1>0, <1>4, LowLevelOutputType, TxPktType, TxCopy, TxQueue
  <2>5. QED
    BY <2>3, <2>4 DEF RingInv
<1>5. ASSUME NEW memory \in BOOLEAN, LowLevelInput(memory)
      PROVE  RingInv'
  <2>1. UNCHANGED <<tx, set, out>>
    BY <1>5 DEF LowLevelInput, txVars
  <2>2. TypeOK'
    BY <1>0, <1>5, InputType DEF InputInv
  <2>3. QED
    BY <1>0, <1>5, <2>1, <2>2, RxTake, TxQuiet DEF RingInv
<1>6. CASE Give
  <2>1. UNCHANGED <<tx, set, out>>
    BY <1>6 DEF Give, txVars
  <2>2. QED
    BY <1>0, <1>6, <2>1, GiveType, RxGive, TxQuiet DEF RingInv
<1>7. CASE Enter \/ Test \/ StackReturn \/ Clear \/ ResumeRx \/ ResumeTx
  <2>1. UNCHANGED <<rx, get, put, fifo, nin, nout, tx, set, out>>
    BY <1>7 DEF Enter, Test, StackReturn, Clear, ResumeRx, ResumeTx, rxVars, txVars
  <2>2. irq # "give" /\ irq' # "give" /\ (irq' = "input" => Ready)
    BY <1>7
    DEF Enter, Test, StackReturn, Clear, ResumeRx, ResumeTx, Returned, InWindow, Again
  <2>3. TypeOK'
    BY <1>0, <1>7, HandlerType, ResumeType
  <2>4. QED
    BY <1>0, <2>1, <2>2, <2>3, RxQuiet, TxQuiet DEF RingInv
<1>8. CASE Lose \/ UNCHANGED vars
  <2>1. UNCHANGED vars
    BY <1>8 DEF Lose
  <2>2. TypeOK'
    BY <1>0, <2>1 DEF TypeOK, vars, rxVars, irqVars, txVars
  <2>3. UNCHANGED <<rx, get, put, fifo, nin, nout, irq, tx, set, out>>
    BY <2>1 DEF vars, rxVars, irqVars, txVars
  <2>4. QED
    BY <1>0, <2>2, <2>3, RxQuiet, TxQuiet DEF RingInv
<1>9. QED
  BY <1>1, <1>2, <1>3, <1>4, <1>5, <1>6, <1>7, <1>8 DEF Next, Receive, Handler, Input

\* The invariant holds of every reachable state.
LEMMA RingInvariant == QuietSpec => []RingInv
<1>1. Init => RingInv
  BY TypeInit, RxInit0, TxInit0 DEF RingInv
<1>2. QED
  BY <1>1, RingStep, PTL DEF QuietSpec

\* The descriptors, the pointers of ethernetif.c and of the DMA keep their types.
THEOREM RingTypes == QuietSpec => []TypeOK
<1>1. RingInv => TypeOK
  BY DEF RingInv
<1>2. QED
  BY <1>1, RingInvariant, PTL

(***************************************************************************)
(* However the DMA and ETH_IRQHandler interleave, and whatever the size of *)
(* the ring and of the FIFO, frames are taken in the order in which they   *)
(* arrived, none twice, and the DMA stores into no descriptor that is not  *)
(* its own.                                                                *)
(***************************************************************************)
THEOREM FramesInOrder == QuietSpec => []RxInOrder
<1>1. RingInv => RxInOrder
  BY RxRingInOrder DEF RingInv, RxInv
<1>2. QED
  BY <1>1, RingInvariant, PTL

(***************************************************************************)
(* low_level_output and the DMA keep the transmit ring in order, and the   *)
(* copy that is made before the OWN bit is looked at spoils no frame but   *)
(* the one that is transmitted next.                                       *)
(***************************************************************************)
THEOREM AnswersInOrder == QuietSpec => []TxInOrder
<1>1. RingInv => TxInOrder
  BY TxRingInOrder DEF RingInv
<1>2. QED
  BY <1>1, RingInvariant, PTL

\* The theorems hold in a busy network too.
COROLLARY BusyRing == BusySpec => [](TypeOK /\ RxInOrder /\ TxInOrder)
BY RingTypes, FramesInOrder, AnswersInOrder, PTL DEF BusySpec

-----------------------------------------------------------------------------
(* The request of the interrupt.                                           *)

\* Behind its last look at the ring the handler has only frames stored since.
WakeInv == (InWindow /\ Ready => late > 0) /\ WokenUp

\* Steps that leave the head of the ring, the request and the handler alone.
LEMMA WakeQuiet ==
    ASSUME WakeInv, UNCHANGED <<rx, get, irq, pending, late>>
    PROVE  WakeInv'
BY DEF WakeInv, WokenUp, InWindow, Ready

\* What the DMA stores it announces; in the window it is counted.
LEMMA WakeStore ==
    ASSUME TypeOK, WakeInv, DmaReceive
    PROVE  WakeInv'
<1>1. CASE rx[put] = DMA
  <2>1. pending' = TRUE /\ irq' = irq
    BY <1>1 DEF DmaReceive
  <2>2. ASSUME InWindow PROVE late' > 0
    <3>1. late \in Nat
      BY RingAssumption DEF TypeOK
    <3>2. QED
      BY <1>1, <2>2, <3>1 DEF DmaReceive
  <2>3. QED
    BY <2>1, <2>2 DEF WakeInv, WokenUp, InWindow
<1>2. CASE rx[put] # DMA
  <2>1. UNCHANGED <<rx, get, irq, pending, late>>
    BY <1>2 DEF DmaReceive
  <2>2. QED
    BY <2>1, WakeQuiet
<1>3. QED
  BY <1>1, <1>2

(***************************************************************************)
(* Every step of the handler and the DMA: a request ends only in Clear,    *)
(* which is reached only from a ring the handler has found empty.          *)
(***************************************************************************)
LEMMA WakeStep == TypeOK /\ WakeInv /\ [Next]_vars => WakeInv'
<1> SUFFICES ASSUME TypeOK, WakeInv, [Next]_vars PROVE WakeInv'
  OBVIOUS
<1>1. ASSUME NEW kind \in Kinds, Arrive(kind) PROVE WakeInv'
  BY <1>1, WakeQuiet DEF Arrive, irqVars
<1>2. CASE DmaReceive
  BY <1>2, WakeStore
<1>3. CASE DmaTransmit
  BY <1>3, WakeQuiet DEF DmaTransmit, rxVars, irqVars
<1>4. CASE \/ Enter \/ Give \/ StackReturn \/ Input \/ ResumeRx
           \/ LowLevelOutput \/ ETH_TxPkt_ChainMode \/ ResumeTx
  <2>1. irq' \notin {"idle", "clear_r", "clear_nis"}
    BY <1>4
    DEF Enter, Give, StackReturn, Input, LowLevelInput, ResumeRx, LowLevelOutput,
        ETH_TxPkt_ChainMode, ResumeTx, Returned, Again
  <2>2. QED
    BY <2>1 DEF WakeInv, WokenUp, InWindow
<1>5. CASE Test
  <2>1. irq' \in {"input", "clear_r"} /\ (irq' = "clear_r" => ~Ready)
        /\ rx' = rx /\ get' = get
    BY <1>5 DEF Test, rxVars
  <2>2. QED
    BY <2>1 DEF WakeInv, WokenUp, InWindow, Ready
<1>6. CASE Clear
  <2>1. (Ready => late > 0) /\ rx' = rx /\ get' = get /\ late' = late
    BY <1>6 DEF Clear, WakeInv, rxVars
  <2>2. QED
    BY <2>1 DEF WakeInv, WokenUp, Ready
<1>7. CASE Lose \/ UNCHANGED vars
  BY <1>7, WakeQuiet DEF Lose, vars, rxVars, irqVars
<1>8. QED
  BY <1>1, <1>2, <1>3, <1>4, <1>5, <1>6, <1>7 DEF Next, Receive, Handler

(***************************************************************************)
(* The window between the handler's last look at the ring and its two      *)
(* clearings is the only place where the wake-up for a frame is lost, and  *)
(* the next frame makes up for it; for every size of the rings and of the  *)
(* FIFO, every mix of frames and any number of them within the window.     *)
(***************************************************************************)
THEOREM NoOtherLostWakeup == QuietSpec => []WokenUp
<1>1. Init => WakeInv
  <2>1. ASSUME Init PROVE ~Ready /\ irq = "idle"
    <3>1. 0 \in 0..NRx-1
      BY RingAssumption
    <3>2. rx[get] = DMA
      BY <2>1, <3>1 DEF Init, RxInit
    <3>3. QED
      BY <2>1, <3>2 DEF Init, Ready, DMA
  <2>2. QED
    BY <2>1 DEF WakeInv, WokenUp, InWindow
<1>2. TypeOK /\ WakeInv /\ [Next]_vars => WakeInv'
  BY WakeStep
<1>3. WakeInv => WokenUp
  BY DEF WakeInv
<1>4. QED
  BY <1>1, <1>2, <1>3, RingTypes, PTL DEF QuietSpec

-----------------------------------------------------------------------------
(* The resumption of the DMA.                                              *)

\* A suspended receive process has left its flag, or is about to be resumed.
RxResume ==
    /\ rstop => rbus \/ irq = "poll_rx"
    /\ rstop /\ rx[put] = DMA =>
          irq = "poll_rx" \/ (irq \in {"rbus", "clear_rbus"} /\ rbus)

\* So has a suspended transmit process.
TxResume ==
    /\ tstop => tbus \/ irq = "poll_tx"
    /\ tstop /\ tx[out] # "cpu" =>
          irq = "poll_tx" \/ (irq \in {"tbus", "clear_tbus"} /\ tbus)

\* Steps of the handler that neither resume the reception nor give to the DMA.
LEMMA RxResumeQuiet ==
    ASSUME RxResume, UNCHANGED <<rx, put, rstop, rbus>>,
           \/ irq' = irq
           \/ irq \notin {"rbus", "clear_rbus", "poll_rx"}
    PROVE  RxResume'
BY DEF RxResume

\* Steps that neither resume the transmission nor queue a frame.
LEMMA TxResumeQuiet ==
    ASSUME TxResume, UNCHANGED <<tx, out, tstop, tbus>>,
           \/ irq' = irq
           \/ irq \notin {"tbus", "clear_tbus", "poll_tx"}
    PROVE  TxResume'
BY DEF TxResume

(***************************************************************************)
(* Every step: the flag is cleared only on the way to the poll demand, and *)
(* a descriptor is given only in front of the look at the flag.            *)
(***************************************************************************)
LEMMA ResumeStep ==
    TypeOK /\ RxResume /\ TxResume /\ [Next]_vars => RxResume' /\ TxResume'
<1> SUFFICES ASSUME TypeOK, RxResume, TxResume, [Next]_vars
             PROVE  RxResume' /\ TxResume'
  OBVIOUS
<1>1. ASSUME NEW kind \in Kinds, Arrive(kind) PROVE RxResume' /\ TxResume'
  <2>1. rstop' = FALSE /\ irq' = irq /\ UNCHANGED <<tx, out, tstop, tbus>>
    BY <1>1 DEF Arrive, irqVars, txVars
  <2>2. QED
    BY <2>1, TxResumeQuiet DEF RxResume
<1>2. CASE DmaReceive
  <2>1. irq' = irq /\ UNCHANGED <<tx, out, tstop, tbus>>
    BY <1>2 DEF DmaReceive, txVars
  <2>2. \/ rstop' = FALSE
        \/ rbus' = TRUE /\ rx[put] # DMA /\ rx' = rx /\ put' = put
    BY <1>2 DEF TypeOK, DmaReceive
  <2>3. RxResume'
    BY <2>2 DEF RxResume
  <2>4. QED
    BY <2>1, <2>3, TxResumeQuiet
<1>3. CASE DmaTransmit
  <2>1. irq' = irq /\ UNCHANGED <<rx, put, rstop, rbus>>
    BY <1>3 DEF DmaTransmit, rxVars, irqVars
  <2>2. \/ tstop' = FALSE
        \/ tbus' = TRUE /\ tx[out] = "cpu" /\ tx' = tx /\ out' = out
    BY <1>3 DEF TypeOK, DmaTransmit
  <2>3. TxResume'
    BY <2>2 DEF TxResume
  <2>4. QED
    BY <2>1, <2>3, RxResumeQuiet
<1>4. CASE Give
  <2>1. /\ irq = "give" /\ irq' = "rbus"
        /\ UNCHANGED <<rstop, rbus, tx, out, tstop, tbus>>
    BY <1>4 DEF Give, txVars
  <2>2. RxResume'
    BY <2>1 DEF RxResume
  <2>3. QED
    BY <2>1, <2>2, TxResumeQuiet
<1>5. CASE ResumeRx
  <2>1. /\ irq \in {"rbus", "clear_rbus", "poll_rx"}
        /\ UNCHANGED <<rx, put, tx, out, tstop, tbus>>
    BY <1>5 DEF ResumeRx, txVars
  <2>2. ASSUME irq = "rbus" PROVE RxResume'
    BY <1>5, <2>1, <2>2 DEF ResumeRx, RxResume
  <2>3. ASSUME irq = "clear_rbus" PROVE RxResume'
    BY <1>5, <2>1, <2>3 DEF ResumeRx, RxResume
  <2>4. ASSUME irq = "poll_rx" PROVE RxResume'
    BY <1>5, <2>1, <2>4 DEF ResumeRx, Resumed, RxResume
  <2>5. QED
    BY <2>1, <2>2, <2>3, <2>4, TxResumeQuiet
<1>6. CASE LowLevelOutput
  <2>1. irq = "stack" /\ irq' = "own" /\ UNCHANGED <<rx, put, rstop, rbus, out, tstop, tbus>>
    BY <1>6 DEF LowLevelOutput, rxVars
  <2>2. tx[out] = "cpu" => tx'[out] = "cpu"
    BY <1>6 DEF TypeOK, LowLevelOutput
  <2>3. TxResume'
    BY <2>1, <2>2 DEF TxResume
  <2>4. QED
    BY <2>1, <2>3, RxResumeQuiet
<1>7. CASE ETH_TxPkt_ChainMode
  <2>1. irq = "own" /\ UNCHANGED <<rx, put, rstop, rbus, out, tstop, tbus>>
    BY <1>7 DEF ETH_TxPkt_ChainMode, rxVars
  <2>2. irq' = "tbus" \/ tx' = tx
    BY <1>7 DEF ETH_TxPkt_ChainMode
  <2>3. TxResume'
    BY <2>1, <2>2 DEF TxResume
  <2>4. QED
    BY <2>1, <2>3, RxResumeQuiet
<1>8. CASE ResumeTx
  <2>1. /\ irq \in {"tbus", "clear_tbus", "poll_tx"}
        /\ UNCHANGED <<tx, out, rx, put, rstop, rbus>>
    BY <1>8 DEF ResumeTx, rxVars
  <2>2. ASSUME irq = "tbus" PROVE TxResume'
    BY <1>8, <2>1, <2>2 DEF ResumeTx, TxResume
  <2>3. ASSUME irq = "clear_tbus" PROVE TxResume'
    BY <1>8, <2>1, <2>3 DEF ResumeTx, TxResume
  <2>4. ASSUME irq = "poll_tx" PROVE TxResume'
    BY <1>8, <2>1, <2>4 DEF ResumeTx, TxResume
  <2>5. QED
    BY <2>1, <2>2, <2>3, <2>4, RxResumeQuiet
<1>9. CASE Enter \/ Test \/ Input \/ StackReturn \/ Clear
  <2>1. /\ irq \in {"idle", "test", "input", "stack", "clear_r", "clear_nis"}
        /\ UNCHANGED <<rx, put, rstop, rbus, tx, out, tstop, tbus>>
    BY <1>9
    DEF Enter, Test, Input, LowLevelInput, StackReturn, Clear, InWindow, rxVars, txVars
  <2>2. QED
    BY <2>1, RxResumeQuiet, TxResumeQuiet
<1>10. CASE Lose \/ UNCHANGED vars
  <2>1. UNCHANGED <<rx, put, rstop, rbus, irq, tx, out, tstop, tbus>>
    BY <1>10 DEF Lose, vars, rxVars, irqVars, txVars
  <2>2. QED
    BY <2>1, RxResumeQuiet, TxResumeQuiet
<1>11. QED
  BY <1>1, <1>2, <1>3, <1>4, <1>5, <1>6, <1>7, <1>8, <1>9, <1>10 DEF Next, Receive, Handler

(***************************************************************************)
(* Between the return of a descriptor, the look at RBUS, its clearing and  *)
(* the poll demand the DMA may suspend, resume and suspend again, and so   *)
(* may it around the queueing of an answer: no process of it is left       *)
(* suspended before a descriptor that it could use.                        *)
(***************************************************************************)
THEOREM ResumptionsSeen == QuietSpec => []NoMissedResume
<1> DEFINE Inv == RxResume /\ TxResume
<1>1. Init => Inv
  BY DEF Init, RxResume, TxResume
<1>2. TypeOK /\ Inv /\ [Next]_vars => Inv'
  BY ResumeStep
<1>3. Inv => NoMissedResume
  BY DEF RxResume, TxResume, NoMissedResume
<1>4. QED
  BY <1>1, <1>2, <1>3, RingTypes, PTL DEF QuietSpec

=============================================================================
