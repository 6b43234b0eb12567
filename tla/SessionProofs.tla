--------------------------- MODULE SessionProofs ---------------------------
(***************************************************************************)
(* What holds of a session for every image, staging area and number of     *)
(* runs: what the device has counted is whole chunks of the file           *)
(* (StoredAreWhole), and between two resets nothing goes behind a CRC      *)
(* (CrcStaysBehind).                                                       *)
(***************************************************************************)
EXTENDS Session, TLAPS

-----------------------------------------------------------------------------
(* What is programmed.                                                     *)

\* A chunk fills its place.
LEMMA DataFacts ==
    ASSUME NEW n \in Numbers
    PROVE  Data(n) \in [Halves -> Half] /\ Len(Data(n)) = ChunkHalves
<1>1. /\ MaxHalf \in Nat /\ ChunkHalves \in Nat /\ File \in Seq([Halves -> Half])
      /\ Len(File) \in Nat
  BY SessionAssumption
<1>2. Data(n) \in [Halves -> Half]
  <2>1. CASE n = 0
    BY <1>1, <2>1 DEF Data, Half
  <2>2. CASE n # 0
    <3>1. n \in 1..Len(File)
      BY <1>1, <2>2 DEF Numbers
    <3>2. File[n] \in [Halves -> Half]
      BY <1>1, <3>1
    <3>3. QED
      BY <2>2, <3>2 DEF Data
  <2>3. QED
    BY <2>1, <2>2
<1>3. Data(n) \in Seq(Half) /\ Len(Data(n)) = ChunkHalves
  BY <1>1, <1>2 DEF Halves
<1>4. QED
  BY <1>2, <1>3

\* A CRC is two half-words of a place.
LEMMA WordFacts ==
    ASSUME NEW w \in CrcWords
    PROVE  w \in [1..2 -> Half] /\ Len(w) = 2 /\ 1..2 \subseteq Halves
<1>1. w \in [1..2 -> Half] /\ ChunkHalves \in Nat /\ ChunkHalves >= 2
  BY SessionAssumption
<1>2. Len(w) = 2
  BY <1>1
<1>3. QED
  BY <1>1, <1>2 DEF Halves

\* The half-words that can be programmed, and what their cells hold then.
LEMMA StoreFacts ==
    ASSUME TypeOK, dev.addr <= Places, NEW l \in 0..ChunkHalves,
           NEW d \in [1..l -> Half], Len(d) = l, NEW n \in Reach(d), Store(d, n)
    PROVE  /\ dev.addr \in 1..Places /\ n \in 0..l
           /\ cells' \in [1..Places -> [Halves -> Half]]
           /\ \A i \in 1..Places : i # dev.addr => cells'[i] = cells[i]
           /\ \A h \in Halves :
                 cells'[dev.addr][h] = IF h <= n THEN d[h] ELSE cells[dev.addr][h]
           /\ \A h \in Halves :
                 h <= n => cells[dev.addr][h] = Erased \/ d[h] = 0
<1>1. /\ ChunkHalves \in Nat /\ Places \in Nat /\ dev.addr \in 1..Places
      /\ cells \in [1..Places -> [Halves -> Half]]
  BY SessionAssumption DEF TypeOK
<1>2. n \in 0..l /\ \A h \in 1..n : cells[dev.addr][h] = Erased \/ d[h] = 0
  BY DEF Reach
<1> DEFINE new == [h \in Halves |-> IF h <= n THEN d[h] ELSE cells[dev.addr][h]]
<1>3. new \in [Halves -> Half]
  <2>1. ASSUME NEW h \in Halves, h <= n PROVE d[h] \in Half
    BY <1>1, <1>2, <2>1 DEF Halves
  <2>2. ASSUME NEW h \in Halves PROVE cells[dev.addr][h] \in Half
    BY <1>1
  <2>3. QED
    BY <2>1, <2>2
<1>4. cells' = [cells EXCEPT ![dev.addr] = new]
  BY DEF Store
<1>5. cells'[dev.addr] = new
  BY <1>1, <1>4
<1>6. /\ cells' \in [1..Places -> [Halves -> Half]]
      /\ \A i \in 1..Places : i # dev.addr => cells'[i] = cells[i]
  <2> HIDE DEF new
  <2>1. QED
    BY <1>1, <1>3, <1>4
<1>7. \A h \in Halves :
         cells'[dev.addr][h] = IF h <= n THEN d[h] ELSE cells[dev.addr][h]
  BY <1>5
<1>8. \A h \in Halves : h <= n => h \in 1..n
  BY <1>1, <1>2 DEF Halves
<1>9. QED
  BY <1>1, <1>2, <1>6, <1>7, <1>8

\* A packet of the device's that is not "upd" programs at most one place.
LEMMA PacketFacts ==
    ASSUME NEW p \in Packet
    PROVE  /\ p.kind = "chunk" => p.chunk \in Numbers /\ p = Chunk(p.chunk)
           /\ p.kind # "chunk" /\ p # Command("upd") => p = Command("crc")
BY SessionAssumption DEF Packet, Command, Chunk, Numbers

(***************************************************************************)
(* What a chunk does to the device: it fills the next place and moves on,  *)
(* or stops before its end and leaves the error flag.                      *)
(***************************************************************************)
Filled(d) ==
    /\ dev.addr \in 1..Places
    /\ cells'[dev.addr] = d /\ dev' = [dev EXCEPT !.addr = @ + 1]
    /\ \A h \in Halves : cells[dev.addr][h] = Erased \/ d[h] = 0

Stopped(d, l) ==
    /\ dev.addr \in 1..Places /\ dev' = [dev EXCEPT !.err = TRUE]
    /\ \E n \in 0..l : n < l /\ \A h \in Halves :
          /\ cells'[dev.addr][h] = IF h <= n THEN d[h] ELSE cells[dev.addr][h]
          /\ h <= n => cells[dev.addr][h] = Erased \/ d[h] = 0

Others ==
    /\ cells' \in [1..Places -> [Halves -> Half]]
    /\ \A i \in 1..Places : i # dev.addr => cells'[i] = cells[i]

\* A chunk is stored as a whole, or its front is.
LEMMA ChunkEffect ==
    ASSUME TypeOK, NEW p \in Packet, HandleChunk(p)
    PROVE  /\ Others /\ toPc' \subseteq {Ack, Nack} /\ crc' = crc
           /\ p.chunk \in Numbers /\ p = Chunk(p.chunk)
           /\ Filled(Data(p.chunk)) \/ Stopped(Data(p.chunk), ChunkHalves)
<1> DEFINE d == Data(p.chunk)
<1>1. p.chunk \in Numbers /\ p = Chunk(p.chunk)
  BY PacketFacts DEF HandleChunk
<1>2. d \in [Halves -> Half] /\ Len(d) = ChunkHalves /\ ChunkHalves \in Nat
  BY <1>1, DataFacts, SessionAssumption
<1>3. dev.addr <= Places
  BY SessionAssumption DEF TypeOK, HandleChunk, PastFlash
<1>4. PICK n \in 0..ChunkHalves :
         /\ n \in Reach(d) /\ Store(d, n)
         /\ IF n = Len(d)
            THEN dev' = [dev EXCEPT !.addr = @ + 1] /\ toPc' = toPc \cup {Ack}
            ELSE dev' = [dev EXCEPT !.err = TRUE] /\ toPc' = toPc \cup {Nack}
  BY DEF HandleChunk, Program, Complete
<1> HIDE DEF d
<1>5. d \in [1..ChunkHalves -> Half] /\ ChunkHalves \in 0..ChunkHalves
  BY <1>2 DEF Halves
<1>6. /\ dev.addr \in 1..Places /\ n \in 0..ChunkHalves
      /\ cells' \in [1..Places -> [Halves -> Half]]
      /\ \A i \in 1..Places : i # dev.addr => cells'[i] = cells[i]
      /\ \A h \in Halves :
            cells'[dev.addr][h] = IF h <= n THEN d[h] ELSE cells[dev.addr][h]
      /\ \A h \in Halves : h <= n => cells[dev.addr][h] = Erased \/ d[h] = 0
  BY <1>2, <1>3, <1>4, <1>5, StoreFacts
<1>7. toPc' \subseteq {Ack, Nack} /\ crc' = crc
  BY <1>4 DEF TypeOK, HandleChunk
<1>8. CASE n = Len(d)
  <2>1. \A h \in Halves : h <= n
    BY <1>2, <1>8 DEF Halves
  <2>2. cells'[dev.addr] \in [Halves -> Half]
    BY <1>6
  <2>3. cells'[dev.addr] = d
    BY <1>2, <1>6, <2>1, <2>2
  <2>4. Filled(d)
    BY <1>4, <1>6, <1>8, <2>1, <2>3 DEF Filled
  <2>5. QED
    BY <1>1, <1>6, <1>7, <2>4 DEF Others, d
<1>9. CASE n # Len(d)
  <2>1. n < ChunkHalves
    BY <1>2, <1>6, <1>9
  <2>2. Stopped(d, ChunkHalves)
    BY <1>4, <1>6, <1>9, <2>1 DEF Stopped
  <2>3. QED
    BY <1>1, <1>6, <1>7, <2>2 DEF Others, d
<1>10. QED
  BY <1>8, <1>9

\* A CRC is stored as a whole, or its front is.
LEMMA CrcEffect ==
    ASSUME TypeOK, NEW p \in Packet, HandleCrc(p)
    PROVE  /\ Others /\ toPc' \subseteq {Ack, Nack} /\ dev.addr \in 1..Places
           /\ \E w \in [1..2 -> Half] :
                 \/ /\ dev' = dev /\ crc' = [at |-> dev.addr, word |-> w]
                    /\ cells'[dev.addr][1] = w[1] /\ cells'[dev.addr][2] = w[2]
                 \/ crc' = crc /\ Stopped(w, 2)
<1>1. dev.addr <= Places
  BY SessionAssumption DEF TypeOK, HandleCrc, PastFlash
<1>2. PICK w \in CrcWords, n \in 0..2 :
         /\ n \in Reach(w) /\ Store(w, n)
         /\ IF n = 2 THEN dev' = dev /\ crc' = [at |-> dev.addr, word |-> w]
                     ELSE dev' = [dev EXCEPT !.err = TRUE] /\ crc' = crc
  BY DEF HandleCrc, Program
<1>3. w \in [1..2 -> Half] /\ Len(w) = 2 /\ 1..2 \subseteq Halves
  BY WordFacts
<1>4. 2 \in 0..ChunkHalves /\ 1 \in Halves /\ 2 \in Halves
  BY <1>3, SessionAssumption DEF Halves
<1>5. /\ dev.addr \in 1..Places
      /\ cells' \in [1..Places -> [Halves -> Half]]
      /\ \A i \in 1..Places : i # dev.addr => cells'[i] = cells[i]
      /\ \A h \in Halves :
            cells'[dev.addr][h] = IF h <= n THEN w[h] ELSE cells[dev.addr][h]
      /\ \A h \in Halves : h <= n => cells[dev.addr][h] = Erased \/ w[h] = 0
  <2>1. n \in Reach(w) /\ Store(w, n)
    BY <1>2
  <2>2. PICK l \in 0..ChunkHalves : l = 2
    BY <1>4
  <2>3. w \in [1..l -> Half] /\ Len(w) = l
    BY <1>3, <2>2
  <2>4. QED
    BY <1>1, <2>1, <2>3, StoreFacts
<1>6. toPc' \subseteq {Ack, Nack} /\ Others
  BY <1>5 DEF TypeOK, HandleCrc, Others
<1>7. CASE n = 2
  BY <1>2, <1>3, <1>4, <1>5, <1>6, <1>7
<1>8. CASE n # 2
  <2>1. n \in 0..2 /\ n < 2
    BY <1>2, <1>8
  <2>2. Stopped(w, 2)
    BY <1>2, <1>5, <1>8, <2>1 DEF Stopped
  <2>3. QED
    BY <1>2, <1>3, <1>5, <1>6, <1>8, <2>2
<1>9. QED
  BY <1>7, <1>8

\* A packet that a power failure cuts short leaves its front, or all of it.
LEMMA CutEffect ==
    ASSUME TypeOK, NEW p \in Packet, CutShort(p)
    PROVE  cells' \in [1..Places -> [Halves -> Half]]
<1>1. dev.addr <= Places
  BY SessionAssumption DEF TypeOK, CutShort, PastFlash
<1>2. PICK d \in IF p.kind = "chunk" THEN {Data(p.chunk)} ELSE CrcWords :
         \E n \in Reach(d) : Store(d, n)
  BY DEF CutShort
<1>3. PICK n \in Reach(d) : Store(d, n)
  BY <1>2
<1>4. CASE p.kind = "chunk"
  <2>1. d = Data(p.chunk) /\ p.chunk \in Numbers
    BY <1>2, <1>4, PacketFacts
  <2>2. /\ d \in [1..ChunkHalves -> Half] /\ Len(d) = ChunkHalves
        /\ ChunkHalves \in 0..ChunkHalves
    BY <2>1, DataFacts, SessionAssumption DEF Halves
  <2>3. QED
    BY <1>1, <1>3, <2>2, StoreFacts
<1>5. CASE p.kind # "chunk"
  <2>1. d \in CrcWords
    BY <1>2, <1>5
  <2>2. d \in [1..2 -> Half] /\ Len(d) = 2 /\ 2 \in 0..ChunkHalves
    BY <2>1, WordFacts DEF Halves
  <2>3. QED
    BY <1>1, <1>3, <2>2, StoreFacts
<1>6. QED
  BY <1>4, <1>5

-----------------------------------------------------------------------------
(* The types.                                                              *)

DevType == [g_upd : BOOLEAN, addr : 1..Places+1, err : BOOLEAN, fault : BOOLEAN]
CrcType == [at : 0..Places, word : [1..2 -> Half]]

\* Datagrams the PC may have in its socket, and what is done with them.
LEMMA DatagramFields ==
    ASSUME NEW d \in Datagram
    PROVE  d.from \in {"device", "other"} /\ d.byte \in Bytes
<1>1. CASE d \in {Ack, Nack}
  BY <1>1 DEF Ack, Nack, Bytes
<1>2. CASE d \in Strays
  BY <1>2, SessionAssumption
<1>3. QED
  BY <1>1, <1>2 DEF Datagram

\* The state after power-up, and no CRC, are of the types.
LEMMA PoweredUpType == PoweredUp \in DevType /\ NoCrc \in CrcType
<1>1. MaxHalf \in Nat /\ Places \in Nat
  BY SessionAssumption
<1>2. [h \in 1..2 |-> 0] \in [1..2 -> Half]
  BY <1>1 DEF Half
<1>3. QED
  BY <1>1, <1>2 DEF PoweredUp, NoCrc, DevType, CrcType

\* The initial state has every type.
LEMMA InitType == Init => TypeOK
<1> SUFFICES ASSUME Init PROVE TypeOK
  OBVIOUS
<1>1. /\ MaxHalf \in Nat /\ Len(File) \in Nat /\ Inbox \in Nat /\ MaxRuns \in Nat
  BY SessionAssumption
<1>2. cells \in [1..Places -> [Halves -> Half]]
  BY <1>1 DEF Init, Erased, Half
<1>3. dev \in DevType /\ crc \in CrcType
  BY PoweredUpType DEF Init
<1>4. QED
  BY <1>1, <1>2, <1>3 DEF Init, TypeOK, DevType, CrcType, Numbers, Bytes

\* A new run.
LEMMA StartType == TypeOK /\ Start => TypeOK'
<1> SUFFICES ASSUME TypeOK, Start PROVE TypeOK'
  OBVIOUS
<1>1. toDev' \subseteq Packet
  BY DEF TypeOK, Start, SendData, Packet
<1>2. inbox' \in Seq(Datagram) /\ Len(inbox') <= Inbox
  BY SessionAssumption DEF Start, InitReceive
<1>3. pos' \in Numbers /\ runs' \in 0..MaxRuns
  BY SessionAssumption DEF TypeOK, Start, Numbers
<1>4. QED
  BY <1>1, <1>2, <1>3 DEF TypeOK, Start, InitSend, devVars

\* The PC takes a datagram from its socket.
LEMMA ReceiveType == TypeOK /\ Receive => TypeOK'
<1> SUFFICES ASSUME TypeOK, Receive PROVE TypeOK'
  OBVIOUS
<1>1. inbox \in Seq(Datagram) /\ inbox # <<>>
  BY DEF TypeOK, Receive
<1>2. Head(inbox) \in Datagram
  BY <1>1
<1>3. inbox' \in Seq(Datagram) /\ Len(inbox') <= Inbox
  BY <1>1, SessionAssumption DEF TypeOK, Receive
<1>4. Head(inbox).from \in {"device", "other"} /\ Head(inbox).byte \in Bytes
  BY <1>2, DatagramFields
<1> DEFINE d == Head(inbox)
<1>5. /\ toDev' \subseteq Packet
      /\ pc' \in {"off", "upd", "chunk", "crc"}
      /\ pos' \in Numbers
      /\ result' \in {"none", "0", "-1", "1"}
  <2>1. CASE Exit("-1")
    BY <2>1 DEF TypeOK, Exit
  <2>2. CASE SendChunk(d.from)
    <3>1. (IF pos < Len(File) THEN pos + 1 ELSE 0) \in Numbers
      BY SessionAssumption DEF TypeOK, Numbers
    <3>2. (IF pos < Len(File) THEN pos + 1 ELSE pos) \in Numbers
      BY SessionAssumption DEF TypeOK, Numbers
    <3>3. QED
      BY <2>2, <3>1, <3>2 DEF TypeOK, SendChunk, SendData, Packet
  <2>3. CASE SendCrc(d.from)
    BY <2>3 DEF TypeOK, SendCrc, SendData, Packet
  <2>4. CASE Exit(IF ReceiveCrc(d) = 0 THEN "0" ELSE "-1")
    BY <2>4 DEF TypeOK, Exit
  <2>5. QED
    BY <2>1, <2>2, <2>3, <2>4 DEF Receive
<1>6. remote' \in {"device", "other"} /\ pad' \in Bytes
  BY <1>4 DEF Receive, TypeOK
<1>7. QED
  BY <1>3, <1>5, <1>6 DEF TypeOK, Receive, devVars

\* The device handles a packet.
LEMMA DeviceType == TypeOK /\ Device => TypeOK'
<1> SUFFICES ASSUME TypeOK, Device PROVE TypeOK'
  OBVIOUS
<1>1. PICK p \in toDev :
         /\ HandleUpd(p) \/ HandleChunk(p) \/ HandleCrc(p) \/ Fault(p) \/ Ignore(p)
         /\ toDev' \in {toDev, toDev \ {p}}
  BY DEF Device
<1>2. p \in Packet /\ toDev' \subseteq Packet
  BY <1>1 DEF TypeOK
<1>3. dev \in DevType /\ crc \in CrcType /\ Places \in Nat
  BY SessionAssumption DEF TypeOK, DevType, CrcType
<1>4. /\ dev' \in DevType /\ crc' \in CrcType
      /\ cells' \in [1..Places -> [Halves -> Half]]
      /\ toPc' \subseteq {Ack, Nack}
  <2>1. CASE HandleUpd(p)
    BY <1>3, <2>1 DEF TypeOK, HandleUpd, DevType
  <2>2. CASE HandleChunk(p)
    <3>1. /\ Others /\ toPc' \subseteq {Ack, Nack} /\ crc' = crc
          /\ dev.addr \in 1..Places
          /\ \/ dev' = [dev EXCEPT !.addr = @ + 1]
             \/ dev' = [dev EXCEPT !.err = TRUE]
      BY <1>2, <2>2, ChunkEffect DEF Filled, Stopped
    <3>2. dev.addr + 1 \in 1..Places+1
      BY <1>3, <3>1
    <3>3. CASE dev' = [dev EXCEPT !.addr = @ + 1]
      BY <1>3, <3>1, <3>2, <3>3 DEF DevType, Others
    <3>4. CASE dev' = [dev EXCEPT !.err = TRUE]
      BY <1>3, <3>1, <3>4 DEF DevType, Others
    <3>5. QED
      BY <3>1, <3>3, <3>4
  <2>3. CASE HandleCrc(p)
    <3>1. /\ Others /\ toPc' \subseteq {Ack, Nack} /\ dev.addr \in 1..Places
          /\ \E w \in [1..2 -> Half] :
                \/ dev' = dev /\ crc' = [at |-> dev.addr, word |-> w]
                \/ crc' = crc /\ dev' = [dev EXCEPT !.err = TRUE]
      BY <1>2, <2>3, CrcEffect DEF Stopped
    <3>2. dev' \in DevType
      BY <1>3, <3>1 DEF DevType
    <3>3. crc' \in CrcType
      BY <1>3, <3>1 DEF CrcType
    <3>4. QED
      BY <3>1, <3>2, <3>3 DEF Others
  <2>4. CASE Fault(p)
    BY <1>3, <2>4 DEF TypeOK, Fault, DevType
  <2>5. CASE Ignore(p)
    BY <1>3, <2>5 DEF TypeOK, Ignore, devVars
  <2>6. QED
    BY <1>1, <2>1, <2>2, <2>3, <2>4, <2>5
<1>5. QED
  BY <1>2, <1>4 DEF TypeOK, Device, DevType, CrcType, pcVars

\* The device loses its power.
LEMMA PowerFailureType == TypeOK /\ PowerFailure => TypeOK'
<1> SUFFICES ASSUME TypeOK, PowerFailure PROVE TypeOK'
  OBVIOUS
<1>1. dev' \in DevType /\ crc' \in CrcType
  BY PoweredUpType DEF PowerFailure
<1>2. cells' \in [1..Places -> [Halves -> Half]] /\ toDev' \subseteq Packet
  <2>1. CASE UNCHANGED <<cells, toDev>>
    BY <2>1 DEF TypeOK
  <2>2. ASSUME NEW p \in toDev, CutShort(p)
        PROVE  cells' \in [1..Places -> [Halves -> Half]] /\ toDev' \subseteq Packet
    <3>1. p \in Packet /\ toDev' \subseteq Packet
      BY <2>2 DEF TypeOK, CutShort
    <3>2. QED
      BY <2>2, <3>1, CutEffect
  <2>3. QED
    BY <2>1, <2>2 DEF PowerFailure
<1>3. QED
  BY <1>1, <1>2 DEF TypeOK, PowerFailure, DevType, CrcType, pcVars

\* The network delivers a datagram to the PC.
LEMMA DeliverType == TypeOK /\ Deliver => TypeOK'
<1> SUFFICES ASSUME TypeOK, Deliver PROVE TypeOK'
  OBVIOUS
<1>1. PICK d \in toPc \cup Strays :
         /\ toPc' \in {toPc, toPc \ {d}}
         /\ inbox' = IF pc # "off" /\ Len(inbox) < Inbox THEN Append(inbox, d)
                                                         ELSE inbox
  BY DEF Deliver
<1>2. d \in Datagram
  BY <1>1 DEF TypeOK, Datagram
<1>3. inbox' \in Seq(Datagram) /\ Len(inbox') <= Inbox
  BY <1>1, <1>2, SessionAssumption DEF TypeOK
<1>4. toPc' \subseteq {Ack, Nack}
  BY <1>1 DEF TypeOK
<1>5. QED
  BY <1>3, <1>4 DEF TypeOK, Deliver, pcVars, devVars

\* Each step preserves the types.
LEMMA NextType == TypeOK /\ [Next]_vars => TypeOK'
<1> SUFFICES ASSUME TypeOK, [Next]_vars PROVE TypeOK'
  OBVIOUS
<1>1. CASE Timeout
  BY <1>1 DEF TypeOK, Timeout, Exit, devVars
<1>2. CASE Lose
  BY <1>2 DEF TypeOK, Lose, pcVars, devVars
<1>3. CASE UNCHANGED vars
  BY <1>3 DEF TypeOK, vars, pcVars, devVars
<1>4. QED
  BY <1>1, <1>2, <1>3, StartType, ReceiveType, DeviceType, PowerFailureType, DeliverType
  DEF Next

(***************************************************************************)
(* Every variable of a session keeps its type: on the device, every        *)
(* half-word that a chunk or a CRC programs, whole, stopped by the flash   *)
(* or cut short by a power failure, is one of the staging area.            *)
(***************************************************************************)
THEOREM SessionTypes == Spec => []TypeOK
<1>1. Init => TypeOK
  BY InitType
<1>2. TypeOK /\ [Next]_vars => TypeOK'
  BY NextType
<1>3. QED
  BY <1>1, <1>2, PTL DEF Spec

-----------------------------------------------------------------------------
(* What is stored.                                                         *)

\* A packet that the device handles, and what it leaves in front of the next place.
LEMMA DeviceCore ==
    ASSUME TypeOK, CoreInFront, Device
    PROVE  CoreInFront'
<1>1. PICK p \in toDev :
         HandleUpd(p) \/ HandleChunk(p) \/ HandleCrc(p) \/ Fault(p) \/ Ignore(p)
  BY DEF Device
<1>2. p \in Packet /\ dev \in DevType
  BY DEF TypeOK, DevType
<1>3. ASSUME dev'.addr = dev.addr, Others PROVE CoreInFront'
  <2>1. \A i \in 1..Places : i < dev.addr => cells'[i] = cells[i]
    BY <1>2, <1>3 DEF Others, DevType
  <2>2. QED
    BY <1>3, <2>1 DEF CoreInFront
<1>4. CASE HandleUpd(p) \/ Fault(p) \/ Ignore(p)
  <2>1. dev'.addr = dev.addr /\ cells' = cells
    BY <1>2, <1>4 DEF HandleUpd, Fault, Ignore, devVars, DevType
  <2>2. QED
    BY <2>1 DEF CoreInFront
<1>5. CASE HandleCrc(p)
  <2>1. Others /\ dev'.addr = dev.addr
    BY <1>2, <1>5, CrcEffect DEF Stopped, DevType
  <2>2. QED
    BY <1>3, <2>1
<1>6. CASE HandleChunk(p)
  <2>1. /\ Others /\ p.chunk \in Numbers
        /\ Filled(Data(p.chunk)) \/ Stopped(Data(p.chunk), ChunkHalves)
    BY <1>2, <1>6, ChunkEffect
  <2>2. CASE Filled(Data(p.chunk))
    <3>1. /\ dev'.addr = dev.addr + 1 /\ dev.addr \in 1..Places
          /\ cells'[dev.addr] = Data(p.chunk)
      BY <1>2, <2>2 DEF Filled, DevType
    <3>2. ASSUME NEW i \in 1..Places, i < dev.addr + 1
          PROVE  \E n \in Numbers : cells'[i] = Data(n)
      <4>1. CASE i = dev.addr
        BY <2>1, <3>1, <4>1
      <4>2. CASE i # dev.addr
        <5>1. i < dev.addr /\ cells'[i] = cells[i]
          BY <2>1, <3>1, <3>2, <4>2, SessionAssumption DEF Others
        <5>2. QED
          BY <5>1 DEF CoreInFront
      <4>3. QED
        BY <4>1, <4>2
    <3>3. QED
      BY <3>1, <3>2 DEF CoreInFront
  <2>3. CASE Stopped(Data(p.chunk), ChunkHalves)
    <3>1. dev'.addr = dev.addr
      BY <1>2, <2>3 DEF Stopped, DevType
    <3>2. QED
      BY <1>3, <2>1, <3>1
  <2>4. QED
    BY <2>1, <2>2, <2>3
<1>7. QED
  BY <1>1, <1>4, <1>5, <1>6

(***************************************************************************)
(* For every image, and whatever the network repeats, delays or loses: the *)
(* places the device has counted hold whole chunks of the file.            *)
(***************************************************************************)
THEOREM StoredAreWhole == Spec => []CoreInFront
<1>1. Init => CoreInFront
  BY DEF Init, CoreInFront, PoweredUp
<1>2. TypeOK /\ CoreInFront /\ [Next]_vars => CoreInFront'
  <2> SUFFICES ASSUME TypeOK, CoreInFront, [Next]_vars PROVE CoreInFront'
    OBVIOUS
  <2>1. CASE PowerFailure
    BY <2>1 DEF PowerFailure, PoweredUp, CoreInFront
  <2>2. CASE Start \/ Receive \/ Timeout \/ Deliver \/ Lose \/ UNCHANGED vars
    <3>1. dev' = dev /\ cells' = cells
      BY <2>2 DEF Start, Receive, Timeout, Deliver, Lose, vars, devVars
    <3>2. QED
      BY <3>1 DEF CoreInFront
  <2>3. QED
    BY <2>1, <2>2, DeviceCore DEF Next
<1>3. QED
  BY <1>1, <1>2, SessionTypes, PTL DEF Spec

-----------------------------------------------------------------------------
(* What ethupd sends.                                                      *)

(***************************************************************************)
(* send_data's uint8_t makes the first chunk the last one: no other is     *)
(* ever on its way.                                                        *)
(***************************************************************************)
OnlyFirst ==
    /\ toDev \subseteq {Command("upd"), Command("crc"), Chunk(1)}
    /\ pc = "upd" => pos = 0

\* Each step preserves it.
LEMMA OnlyFirstStep == TypeOK /\ OnlyFirst /\ [Next]_vars => OnlyFirst'
<1> SUFFICES ASSUME TypeOK, OnlyFirst, [Next]_vars PROVE OnlyFirst'
  OBVIOUS
<1>1. CASE Start
  BY <1>1 DEF OnlyFirst, Start, SendData
<1>2. CASE Receive
  <2>1. PICK d : /\ \/ Exit("-1")
                    \/ pc = "upd" /\ SendChunk(d.from)
                    \/ /\ pc = "chunk"
                       /\ IF Sent(512) < 512 THEN SendCrc(d.from) ELSE SendChunk(d.from)
                    \/ pc = "crc" /\ Exit(IF ReceiveCrc(d) = 0 THEN "0" ELSE "-1")
    BY <1>2 DEF Receive
  <2>2. Sent(512) < 512
    BY DEF Sent
  <2>3. CASE Exit("-1") \/ Exit(IF ReceiveCrc(d) = 0 THEN "0" ELSE "-1")
    BY <2>3 DEF OnlyFirst, Exit
  <2>4. CASE pc = "upd" /\ SendChunk(d.from)
    <3>1. (IF pos < Len(File) THEN pos + 1 ELSE 0) = 1
      BY <2>4, SessionAssumption DEF OnlyFirst
    <3>2. QED
      BY <2>4, <3>1 DEF OnlyFirst, SendChunk, SendData
  <2>5. CASE SendCrc(d.from)
    BY <2>5 DEF OnlyFirst, SendCrc, SendData
  <2>6. QED
    BY <2>1, <2>2, <2>3, <2>4, <2>5
<1>3. CASE Timeout
  BY <1>3 DEF OnlyFirst, Timeout, Exit
<1>4. CASE Device \/ PowerFailure \/ Deliver \/ Lose \/ UNCHANGED vars
  <2>1. toDev' \subseteq toDev /\ UNCHANGED <<pc, pos>>
    BY <1>4 DEF Device, PowerFailure, CutShort, Deliver, Lose, vars, pcVars
  <2>2. QED
    BY <2>1 DEF OnlyFirst
<1>5. QED
  BY <1>1, <1>2, <1>3, <1>4 DEF Next

-----------------------------------------------------------------------------
(* The CRC.                                                                *)

\* A packet that stops leaves the CRC as CrcBehindCore wants it.
LEMMA StoppedCrc ==
    ASSUME TypeOK, CrcBehindCore, crc' = crc, crc.at # 0, crc.word[2] # Erased,
           NEW d, NEW l \in Nat, Stopped(d, l), l <= 2 \/ d[2] # 0
    PROVE  CrcBehindCore'
<1>1. /\ MaxHalf \in Nat /\ ChunkHalves \in Nat /\ 1 \in Halves /\ 2 \in Halves
  BY SessionAssumption DEF Halves
<1>2. /\ crc.at = dev.addr /\ cells[dev.addr][2] = crc.word[2]
      /\ crc.word[1] # Erased => cells[dev.addr][1] \in {crc.word[1], 0}
  BY DEF CrcBehindCore
<1>3. crc.word[2] \in Half /\ 0 # Erased
  BY <1>1 DEF TypeOK, Half, Erased
<1>4. PICK n \in 0..l : n < l /\ \A h \in Halves :
         /\ cells'[dev.addr][h] = IF h <= n THEN d[h] ELSE cells[dev.addr][h]
         /\ h <= n => cells[dev.addr][h] = Erased \/ d[h] = 0
  BY DEF Stopped
<1>5. ~(2 <= n)
  BY <1>1, <1>2, <1>4
<1>6. cells'[dev.addr][2] = crc.word[2]
  BY <1>1, <1>2, <1>4, <1>5
<1>7. ASSUME crc.word[1] # Erased
      PROVE  cells'[dev.addr][1] \in {crc.word[1], 0}
  BY <1>1, <1>2, <1>3, <1>4, <1>7
<1>8. dev'.addr = dev.addr
  BY DEF Stopped, TypeOK
<1>9. QED
  BY <1>2, <1>6, <1>7, <1>8 DEF CrcBehindCore

\* A packet that the device handles, and what it leaves of the CRC.
LEMMA DeviceCrc ==
    ASSUME TypeOK, OnlyFirst, CrcBehindCore, Device
    PROVE  CrcBehindCore'
<1>1. PICK p \in toDev :
         HandleUpd(p) \/ HandleChunk(p) \/ HandleCrc(p) \/ Fault(p) \/ Ignore(p)
  BY DEF Device
<1>2. p \in Packet /\ dev \in DevType /\ 2 \in Nat /\ ChunkHalves \in Nat
  BY SessionAssumption DEF TypeOK, DevType
<1>3. CASE HandleUpd(p) \/ Fault(p) \/ Ignore(p)
  <2>1. dev'.addr = dev.addr /\ cells' = cells /\ crc' = crc
    BY <1>2, <1>3 DEF HandleUpd, Fault, Ignore, devVars, DevType
  <2>2. QED
    BY <2>1 DEF CrcBehindCore
<1>4. CASE HandleCrc(p)
  <2>1. PICK w \in [1..2 -> Half] :
           \/ /\ dev' = dev /\ crc' = [at |-> dev.addr, word |-> w]
              /\ cells'[dev.addr][1] = w[1] /\ cells'[dev.addr][2] = w[2]
           \/ crc' = crc /\ Stopped(w, 2)
    BY <1>2, <1>4, CrcEffect
  <2>2. CASE /\ dev' = dev /\ crc' = [at |-> dev.addr, word |-> w]
             /\ cells'[dev.addr][1] = w[1] /\ cells'[dev.addr][2] = w[2]
    BY <2>2 DEF CrcBehindCore
  <2>3. CASE crc' = crc /\ Stopped(w, 2)
    <3>1. CASE crc.at # 0 /\ crc.word[2] # Erased
      BY <1>2, <2>3, <3>1, StoppedCrc
    <3>2. CASE ~(crc.at # 0 /\ crc.word[2] # Erased)
      BY <2>3, <3>2 DEF CrcBehindCore
    <3>3. QED
      BY <3>1, <3>2
  <2>4. QED
    BY <2>1, <2>2, <2>3
<1>5. CASE HandleChunk(p)
  <2>1. /\ crc' = crc /\ p = Chunk(p.chunk)
        /\ Filled(Data(p.chunk)) \/ Stopped(Data(p.chunk), ChunkHalves)
    BY <1>2, <1>5, ChunkEffect
  <2>2. p.chunk = 1
    BY <1>5 DEF HandleChunk, OnlyFirst, Command, Chunk
  <2>3. Data(1)[2] # 0
    BY ImageAssumption DEF Data
  <2>4. CASE crc.at # 0 /\ crc.word[2] # Erased
    <3>1. ~Filled(Data(1))
      <4>1. crc.at = dev.addr /\ cells[dev.addr][2] # Erased /\ 2 \in Halves
        BY <2>4, SessionAssumption DEF CrcBehindCore, Halves
      <4>2. QED
        BY <2>3, <4>1 DEF Filled
    <3>2. QED
      BY <1>2, <2>1, <2>2, <2>3, <2>4, <3>1, StoppedCrc
  <2>5. CASE ~(crc.at # 0 /\ crc.word[2] # Erased)
    BY <2>1, <2>5 DEF CrcBehindCore
  <2>6. QED
    BY <2>4, <2>5
<1>6. QED
  BY <1>1, <1>3, <1>4, <1>5

(***************************************************************************)
(* Until a reset, no chunk of this or of a later run of ethupd, however    *)
(* late or often delivered, goes behind the CRC that the device has        *)
(* stored; for every image whose stack pointer has a high half.            *)
(***************************************************************************)
THEOREM CrcStaysBehind == Spec => []CrcBehindCore
<1> DEFINE Inv == OnlyFirst /\ CrcBehindCore
<1>1. Init => Inv
  BY DEF Init, OnlyFirst, CrcBehindCore, NoCrc
<1>2. TypeOK /\ Inv /\ [Next]_vars => Inv'
  <2> SUFFICES ASSUME TypeOK, OnlyFirst, CrcBehindCore, [Next]_vars
               PROVE  OnlyFirst' /\ CrcBehindCore'
    OBVIOUS
  <2>1. OnlyFirst'
    BY OnlyFirstStep
  <2>2. CrcBehindCore'
    <3>1. CASE PowerFailure
      BY <3>1 DEF PowerFailure, NoCrc, CrcBehindCore
    <3>2. CASE Start \/ Receive \/ Timeout \/ Deliver \/ Lose \/ UNCHANGED vars
      <4>1. dev' = dev /\ cells' = cells /\ crc' = crc
        BY <3>2 DEF Start, Receive, Timeout, Deliver, Lose, vars, devVars
      <4>2. QED
        BY <4>1 DEF CrcBehindCore
    <3>3. QED
      BY <3>1, <3>2, DeviceCrc DEF Next
  <2>3. QED
    BY <2>1, <2>2
<1>3. QED
  BY <1>1, <1>2, SessionTypes, PTL DEF Spec

=============================================================================
