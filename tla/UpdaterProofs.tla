--------------------------- MODULE UpdaterProofs ---------------------------
(***************************************************************************)
(* Proofs about the updater, for every flash geometry, every packet the PC *)
(* may send and every moment of a power failure: an acknowledged chunk is  *)
(* in the flash and stays there (AckedChunksStored), and an acknowledged   *)
(* "del" has removed the header (DelLeavesNoHeader).                       *)
(*                                                                         *)
(* AckedStored is about packets that have been answered, and is not        *)
(* inductive: what a packet being handled has still to do must stay away   *)
(* from what was acknowledged, and what it has done of a chunk must be     *)
(* there when it is acknowledged.                                          *)
(***************************************************************************)
EXTENDS Updater, FlashProofs

\* The half-words write_core_chunk programs for a chunk: whole words.
WordHalves(d) == Len(d) + (Len(d) % 2)

\* How many of them are already programmed.
Written == WordHalves(chunk) - Len(todo)

(***************************************************************************)
(* A chunk is programmed in order, from the address of the next chunk on,  *)
(* and what has been programmed can be read back.                          *)
(***************************************************************************)
ChunkInv ==
    job = "chunk" =>
       /\ Written >= 0
       /\ addr + Written <= FlashEnd
       /\ \A j \in 1..Len(todo) :
             /\ todo[j].at = addr + Written + j - 1
             /\ Written + j <= Len(chunk) => todo[j].value = chunk[Written + j]
       /\ intact => \A k \in 1..Len(chunk) :
                       k <= Written => flash[addr + k - 1] = chunk[k]

\* A header is written below the body, and the CRC behind the last chunk.
HeaderInv ==
    job = "header" =>
       \A j \in 1..Len(todo) : NewAddr <= todo[j].at /\ todo[j].at < BodyAddr

CrcInv ==
    job = "crc" =>
       /\ NewAddr + 4 * total_core_size <= FlashEnd
       /\ \A j \in 1..Len(todo) : todo[j].at >= NewAddr + total_core_size

\* "del" begins with the page of the header.
DelInv ==
    job = "del" =>
       /\ ~intact
       /\ reply # "ack"
       /\ flash[NewAddr] # MagicLo \/ (todo # <<>> /\ todo[1].at = NewAddr)

\* Before a request nothing is stored, and no packet is handled.
IdleInv == ~g_upd => job = "idle" /\ stored = <<>>

\* What is stored ends within the flash: a store past it is a fault.
RoomInv == addr <= FlashEnd

UpdInv ==
    /\ TypeOK
    /\ AckedStored
    /\ RoomInv
    /\ ChunkInv
    /\ HeaderInv
    /\ CrcInv
    /\ DelInv
    /\ IdleInv

-----------------------------------------------------------------------------
(* The flash operations of a packet.                                       *)

Op == [at : Nat, value : Half]

\* Writes programs one half-word after the other.
LEMMA WritesFacts ==
    ASSUME NEW a \in Nat, NEW d \in Seq(Half)
    PROVE  /\ Writes(a, d) \in Seq(Op)
           /\ Len(Writes(a, d)) = Len(d)
           /\ \A j \in 1..Len(d) : /\ Writes(a, d)[j].at = a + j - 1
                                   /\ Writes(a, d)[j].value = d[j]
<1>1. \A j \in 1..Len(d) : a + j - 1 \in Nat /\ d[j] \in Half
  OBVIOUS
<1>2. Writes(a, d) \in [1..Len(d) -> Op]
  BY <1>1 DEF Writes, Op
<1>3. Writes(a, d) \in Seq(Op) /\ Len(Writes(a, d)) = Len(d)
  BY <1>2
<1>4. QED
  BY <1>3 DEF Writes

\* Erases names at least one page when there is one to erase, the first one first.
LEMMA ErasesFacts ==
    ASSUME NEW a \in Nat, NEW n \in Nat, n >= 1
    PROVE  /\ Erases(a, n) \in Seq(Op)
           /\ Erases(a, n) # <<>>
           /\ Erases(a, n)[1].at = a
<1>1. PageHalves \in Nat /\ 0 \in Half
  BY FlashAssumption DEF Half
<1>2. \A j \in 1..n : a + (j - 1) * PageHalves \in Nat
  BY <1>1
<1>3. Erases(a, n) \in [1..n -> Op]
  BY <1>1, <1>2 DEF Erases, Op
<1>4. Erases(a, n) \in Seq(Op) /\ Len(Erases(a, n)) = n
  BY <1>3
<1>5. Erases(a, n)[1].at = a + (1 - 1) * PageHalves
  BY DEF Erases
<1>6. a + (1 - 1) * PageHalves = a
  BY <1>1
<1>7. Erases(a, n) # <<>>
  BY <1>4
<1>8. QED
  BY <1>4, <1>5, <1>6, <1>7

\* What is left of a packet's operations when its first one is done.
LEMMA TailFacts ==
    ASSUME NEW s \in Seq(Op), s # <<>>
    PROVE  /\ Head(s) = s[1] /\ Head(s) \in Op
           /\ Len(s) \in Nat /\ Len(s) >= 1
           /\ Tail(s) \in Seq(Op)
           /\ Len(Tail(s)) = Len(s) - 1
           /\ \A j \in 1..Len(Tail(s)) : j + 1 \in 1..Len(s) /\ Tail(s)[j] = s[j + 1]
OBVIOUS

\* A chunk with what pads it to whole words.
LEMMA PaddedFacts ==
    ASSUME NEW d \in Seq(Half), NEW rest \in Half
    PROVE  LET p == IF Len(d) % 2 = 0 THEN d ELSE d \o <<rest>>
           IN  /\ p \in Seq(Half)
               /\ Len(p) = WordHalves(d)
               /\ \A j \in 1..Len(d) : p[j] = d[j]
<1>1. Len(d) \in Nat
  OBVIOUS
<1>2. CASE Len(d) % 2 = 0
  BY <1>1, <1>2 DEF WordHalves
<1>3. CASE Len(d) % 2 # 0
  <2>1. Len(d) % 2 = 1
    BY <1>1, <1>3
  <2>2. d \o <<rest>> \in Seq(Half) /\ Len(d \o <<rest>>) = Len(d) + 1
    OBVIOUS
  <2>3. \A j \in 1..Len(d) : (d \o <<rest>>)[j] = d[j]
    OBVIOUS
  <2>4. QED
    BY <1>3, <2>1, <2>2, <2>3 DEF WordHalves
<1>4. QED
  BY <1>2, <1>3

-----------------------------------------------------------------------------
(* The steps, one lemma for each.                                          *)

\* After a reset the RAM is fresh, and the invariant holds whatever the flash holds.
LEMMA RamFresh == FlashTypeOK /\ RamInit => UpdInv
<1> SUFFICES ASSUME FlashTypeOK, RamInit PROVE UpdInv
  OBVIOUS
<1>1. <<0, 0>> \in Half \X Half
  BY FlashAssumption DEF Half
<1>2. TypeOK
  <2>1. BodyAddr \in Nat /\ HeaderHalves \in Nat
    BY FlashAssumption DEF BodyAddr
  <2>2. <<>> \in Seq(Half) /\ <<>> \in Seq([at : Nat, value : Half])
    OBVIOUS
  <2>3. QED
    BY <1>1, <2>1, <2>2, Zenon DEF TypeOK, RamInit, PoweredUp, Jobs
<1>3. AckedStored /\ RoomInv
  BY FlashAssumption
     DEF RamInit, PoweredUp, AckedStored, RoomInv, Holds, BodyAddr, FlashEnd
<1>4. QED
  BY <1>2, <1>3
     DEF UpdInv, RamInit, PoweredUp, ChunkInv, HeaderInv, CrcInv, DelInv, IdleInv

\* The same of the state a step leads to.
LEMMA RamFreshNext == (FlashTypeOK /\ RamInit => UpdInv)'
BY RamFresh, PTL

\* A reset, by power failure or by "reb".
LEMMA ResetStep == UpdInv /\ FlashReset /\ RamReset => UpdInv'
<1> SUFFICES ASSUME UpdInv, FlashReset, RamReset PROVE UpdInv'
  OBVIOUS
<1>1. FlashTypeOK'
  BY DEF UpdInv, TypeOK, FlashTypeOK, FlashReset
<1>2. RamInit'
  BY DEF RamReset, RamInit
<1>3. QED
  BY <1>1, <1>2, RamFreshNext

\* The first power-up, with an erased flash.
LEMMA UpdInit == Init => UpdInv
<1> SUFFICES ASSUME Init PROVE UpdInv
  OBVIOUS
<1>1. flash \in Contents
  BY FlashAssumption DEF Init, Contents, Half, ErasedHalf
<1>2. FlashTypeOK
  BY <1>1 DEF Init, FlashTypeOK
<1>3. QED
  BY <1>2, RamFresh DEF Init

\* A packet has been answered: only what it leaves acknowledged matters.
LEMMA AnsweredStep ==
    ASSUME TypeOK', AckedStored', RoomInv', job' = "idle", g_upd'
    PROVE  UpdInv'
BY DEF UpdInv, ChunkInv, HeaderInv, CrcInv, DelInv, IdleInv

\* A packet that is refused at once leaves everything as it was.
LEMMA RefuseStep == UpdInv /\ Ready /\ Refuse => UpdInv'
<1> SUFFICES ASSUME UpdInv, Ready, Refuse PROVE UpdInv'
  OBVIOUS
<1>1. TypeOK'
  BY DEF UpdInv, TypeOK, FlashTypeOK, Refuse, Answer, Jobs
<1>2. AckedStored' /\ RoomInv'
  BY DEF UpdInv, AckedStored, RoomInv, Refuse
<1>3. QED
  BY <1>1, <1>2, AnsweredStep DEF Ready, Refuse, Answer

\* "upd" unlocks the flash and stores nothing.
LEMMA RequestStep ==
    ASSUME UpdInv, NEW cmd, Request(cmd)
    PROVE  UpdInv'
<1>1. TypeOK'
  <2>1. <<>> \in Seq([at : Nat, value : Half])
    OBVIOUS
  <2>2. FlashTypeOK'
    BY DEF UpdInv, TypeOK, FlashTypeOK, Request
  <2>3. QED
    BY <2>1, <2>2, Zenon DEF UpdInv, TypeOK, Request, Answer, Jobs
<1>2. AckedStored' /\ RoomInv'
  BY DEF UpdInv, AckedStored, RoomInv, Request
<1>3. QED
  BY <1>1, <1>2, AnsweredStep DEF Request, Answer

\* The operations of a packet of a given kind are typed, and nothing else moves.
LEMMA StartType ==
    ASSUME UpdInv, NEW what \in Jobs, NEW ops \in Seq(Op),
           Start(what, ops), chunk' \in Seq(Half), intact' \in BOOLEAN,
           intact' => intact
    PROVE  TypeOK' /\ AckedStored' /\ RoomInv'
<1>1. TypeOK'
  BY DEF UpdInv, TypeOK, FlashTypeOK, Start, Op
<1>2. QED
  BY <1>1 DEF UpdInv, AckedStored, RoomInv, Start

\* A header's packet.
LEMMA HeaderStep ==
    ASSUME UpdInv, NEW d \in Seq(Half), HandleHeader(d)
    PROVE  UpdInv'
<1>1. d \in Seq(Half)
  OBVIOUS
<1>2. ASSUME Ready, Start("header", Writes(NewAddr, d)), UNCHANGED <<chunk, intact>>,
             Len(d) = HeaderHalves
      PROVE  UpdInv'
  <2>1. NewAddr \in Nat /\ HeaderHalves \in Nat
    BY FlashAssumption
  <2>2. TypeOK' /\ AckedStored' /\ RoomInv'
    BY <1>1, <1>2, <2>1, WritesFacts, StartType DEF UpdInv, TypeOK, Jobs
  <2>3. HeaderInv'
    <3>1. todo' = Writes(NewAddr, d)
      BY <1>2 DEF Start
    <3>2. Len(todo') = HeaderHalves
      BY <1>1, <1>2, <2>1, <3>1, WritesFacts
    <3>3. \A j \in 1..Len(todo') : todo'[j].at = NewAddr + j - 1
      BY <1>1, <1>2, <2>1, <3>1, <3>2, WritesFacts
    <3>4. QED
      BY <2>1, <3>2, <3>3 DEF HeaderInv, BodyAddr
  <2>4. QED
    BY <1>2, <2>2, <2>3
       DEF Ready, Start, UpdInv, ChunkInv, CrcInv, DelInv, IdleInv
<1>3. QED
  BY <1>2, RefuseStep DEF HandleHeader

\* A chunk's packet.
LEMMA ChunkStep ==
    ASSUME UpdInv, NEW d \in Seq(Half), NEW rest \in Half, HandleChunk(d, rest)
    PROVE  UpdInv'
<1> DEFINE p == IF Len(d) % 2 = 0 THEN d ELSE d \o <<rest>>
<1>1. d \in Seq(Half) /\ rest \in Half
  OBVIOUS
<1>2. /\ p \in Seq(Half)
      /\ Len(p) = WordHalves(d)
      /\ \A j \in 1..Len(d) : p[j] = d[j]
  BY <1>1, PaddedFacts
<1>3. addr \in Nat
  BY DEF UpdInv, TypeOK
<1>4. /\ Ready /\ Start("chunk", Writes(addr, p))
      /\ chunk' = d /\ intact' = intact
  BY DEF HandleChunk
<1> HIDE DEF p
<1>5. /\ Writes(addr, p) \in Seq(Op)
      /\ Len(Writes(addr, p)) = Len(p)
      /\ \A j \in 1..Len(p) : /\ Writes(addr, p)[j].at = addr + j - 1
                              /\ Writes(addr, p)[j].value = p[j]
  BY <1>2, <1>3, WritesFacts
<1>6. TypeOK' /\ AckedStored' /\ RoomInv'
  BY <1>1, <1>4, <1>5, StartType DEF UpdInv, TypeOK, Jobs
<1>7. Len(d) \in Nat /\ Len(p) \in Nat
  BY <1>1, <1>2
<1>8. todo' = Writes(addr, p) /\ addr' = addr
  BY <1>4 DEF Start
<1>9. Written' = 0
  BY <1>2, <1>4, <1>5, <1>7, <1>8 DEF Written
<1>10. ChunkInv'
  <2>1. FlashEnd' = FlashEnd /\ addr <= FlashEnd
    BY DEF UpdInv, RoomInv, FlashEnd
  <2>2. addr' + Written' <= FlashEnd' /\ Written' >= 0
    BY <1>3, <1>8, <1>9, <2>1
  <2>3. ASSUME NEW j \in 1..Len(todo')
        PROVE  /\ todo'[j].at = addr' + Written' + j - 1
               /\ Written' + j <= Len(chunk') => todo'[j].value = chunk'[Written' + j]
    <3>1. j \in 1..Len(p) /\ j \in Nat /\ j >= 1
      BY <1>5, <1>7, <1>8
    <3>2. todo'[j].at = addr + j - 1 /\ todo'[j].value = p[j]
      BY <1>5, <1>8, <3>1
    <3>3. Written' + j = j /\ addr' + Written' + j - 1 = addr + j - 1
      BY <1>3, <1>8, <1>9, <3>1
    <3>4. j <= Len(d) => p[j] = d[j]
      BY <1>2, <1>7, <3>1
    <3>5. QED
      BY <1>4, <3>2, <3>3, <3>4
  <2>4. \A k \in 1..Len(chunk') : ~(k <= Written')
    BY <1>4, <1>7, <1>9
  <2>5. QED
    BY <2>2, <2>3, <2>4 DEF ChunkInv
<1>11. QED
  BY <1>4, <1>6, <1>10
     DEF Ready, Start, UpdInv, HeaderInv, CrcInv, DelInv, IdleInv

\* "del": its first page is the header's.
LEMMA DelStep == UpdInv /\ HandleDel => UpdInv'
<1> SUFFICES ASSUME UpdInv, HandleDel PROVE UpdInv'
  OBVIOUS
<1> DEFINE n == Whole(total_core_size \div PageHalves)
<1>1. n \in Nat /\ n >= 1
  BY FlashAssumption DEF UpdInv, TypeOK, Whole
<1>2. NewAddr \in Nat
  BY FlashAssumption
<1> HIDE DEF n
<1>3. ASSUME Ready, Start("del", Erases(NewAddr, n)), intact' = FALSE, UNCHANGED chunk
      PROVE  UpdInv'
  <2>1. TypeOK' /\ AckedStored' /\ RoomInv'
    BY <1>1, <1>2, <1>3, ErasesFacts, StartType DEF UpdInv, TypeOK, Jobs
  <2>2. DelInv'
    BY <1>1, <1>2, <1>3, ErasesFacts DEF Start, DelInv
  <2>3. QED
    BY <1>3, <2>1, <2>2
       DEF Ready, Start, UpdInv, ChunkInv, HeaderInv, CrcInv, IdleInv
<1>4. QED
  BY <1>3, RefuseStep DEF HandleDel, HandleDelAt, n

\* "crc": the word goes behind the core, and lies within the flash.
LEMMA CrcStep ==
    ASSUME UpdInv, NEW w \in Half \X Half, HandleCrc(w)
    PROVE  UpdInv'
<1>1. w \in Half \X Half
  OBVIOUS
<1>2. w \in Seq(Half)
  <2>1. PICK x \in Half, y \in Half : w = <<x, y>>
    BY <1>1
  <2>2. QED
    BY <2>1
<1>3. total_core_size \in Nat /\ NewAddr \in Nat /\ NewAddr + total_core_size \in Nat
  BY FlashAssumption DEF UpdInv, TypeOK
<1>4. ASSUME Ready, Start("crc", Writes(NewAddr + total_core_size, w)),
             UNCHANGED <<chunk, intact>>, NewAddr + 4 * total_core_size <= FlashEnd
      PROVE  UpdInv'
  <2>1. TypeOK' /\ AckedStored' /\ RoomInv'
    BY <1>2, <1>3, <1>4, WritesFacts, StartType DEF UpdInv, TypeOK, Jobs
  <2>2. CrcInv'
    <3>1. /\ todo' = Writes(NewAddr + total_core_size, w)
          /\ total_core_size' = total_core_size
      BY <1>4 DEF Start
    <3>2. Len(todo') = Len(w)
      BY <1>2, <1>3, <3>1, WritesFacts
    <3>3. \A j \in 1..Len(todo') : todo'[j].at = NewAddr + total_core_size + j - 1
      BY <1>2, <1>3, <3>1, <3>2, WritesFacts
    <3>4. QED
      BY <1>3, <1>4, <3>1, <3>3 DEF CrcInv, FlashEnd
  <2>3. QED
    BY <1>4, <2>1, <2>2
       DEF Ready, Start, UpdInv, ChunkInv, HeaderInv, DelInv, IdleInv
<1>5. ASSUME Ready, Start("fault", <<>>), UNCHANGED <<chunk, intact>>
      PROVE  UpdInv'
  <2>1. TypeOK' /\ AckedStored' /\ RoomInv'
    <3>1. <<>> \in Seq(Op) /\ "fault" \in Jobs
      BY DEF Jobs
    <3>2. chunk' \in Seq(Half) /\ intact' \in BOOLEAN /\ (intact' => intact)
      BY <1>5 DEF UpdInv, TypeOK
    <3>3. QED
      BY <1>5, <3>1, <3>2, StartType
  <2>2. QED
    BY <1>5, <2>1
       DEF Ready, Start, UpdInv, ChunkInv, HeaderInv, CrcInv, DelInv, IdleInv
<1>6. QED
  BY <1>4, <1>5 DEF HandleCrc

\* Programming a half-word outside of what is acknowledged keeps that.
LEMMA ProgramKeepsAcked ==
    ASSUME UpdInv, NEW a \in Addr, NEW v,
           a < BodyAddr \/ a >= addr,
           flash' = flash \/ flash' = ProgramHalf(flash, a, v),
           UNCHANGED <<addr, total_core_size, stored, intact>>
    PROVE  AckedStored' /\ RoomInv'
<1>1. /\ stored \in Seq(Half) /\ Len(stored) \in Nat /\ flash \in Contents
      /\ addr = BodyAddr + Len(stored) /\ addr <= FlashEnd
      /\ BodyAddr \in Nat /\ BodyAddr >= CurAddr /\ CurAddr \in Nat /\ FlashEnd \in Nat
      /\ a \in Int
  BY FlashAssumption
     DEF UpdInv, TypeOK, FlashTypeOK, AckedStored, RoomInv, BodyAddr, FlashEnd, Addr
<1>2. ASSUME NEW x \in 1..Len(stored)
      PROVE  flash'[BodyAddr + x - 1] = flash[BodyAddr + x - 1]
  <2>1. BodyAddr + x - 1 \in Addr /\ BodyAddr + x - 1 # a
    BY <1>1 DEF Addr
  <2>2. QED
    BY <1>1, <2>1 DEF ProgramHalf, Contents
<1>3. intact => Holds(flash', BodyAddr, stored)
  BY <1>2 DEF UpdInv, AckedStored, Holds
<1>4. QED
  BY <1>3 DEF UpdInv, AckedStored, RoomInv, Holds, BodyAddr

\* Where the next operation of a packet that writes goes.
LEMMA HeadPlace ==
    ASSUME UpdInv, job \in {"header", "chunk", "crc"}, todo # <<>>
    PROVE  /\ Head(todo) = todo[1] /\ Head(todo).at \in Nat /\ Head(todo).value \in Half
           /\ Head(todo).at < BodyAddr \/ Head(todo).at >= addr
<1>1. todo \in Seq(Op)
  BY DEF UpdInv, TypeOK, Op
<1>2. /\ Head(todo) = todo[1] /\ Head(todo) \in Op /\ 1 \in 1..Len(todo)
      /\ Len(todo) \in Nat
  BY <1>1, TailFacts
<1>3. Head(todo).at \in Nat /\ Head(todo).value \in Half
  BY <1>2 DEF Op
<1>4. CASE job = "header"
  BY <1>2, <1>3, <1>4 DEF UpdInv, HeaderInv
<1>5. CASE job = "chunk"
  <2>1. todo[1].at = addr + Written + 1 - 1 /\ Written >= 0
    BY <1>2, <1>5 DEF UpdInv, ChunkInv
  <2>2. Written \in Int /\ addr \in Nat
    BY <1>2 DEF UpdInv, TypeOK, Written, WordHalves
  <2>3. QED
    BY <1>2, <1>3, <2>1, <2>2
<1>6. CASE job = "crc"
  <2>1. todo[1].at >= NewAddr + total_core_size
    BY <1>2, <1>6 DEF UpdInv, CrcInv
  <2>2. addr = NewAddr + total_core_size
    BY FlashAssumption DEF UpdInv, TypeOK, AckedStored, BodyAddr
  <2>3. QED
    BY <1>2, <1>3, <2>1, <2>2
<1>7. QED
  BY <1>4, <1>5, <1>6

\* A half-word of a chunk, programmed where the chunk has it.
LEMMA ChunkGrows ==
    ASSUME UpdInv, job = "chunk", todo # <<>>, Head(todo).at \in Addr,
           flash' = ProgramHalf(flash, Head(todo).at, Head(todo).value),
           todo' = Tail(todo), UNCHANGED <<addr, chunk, intact>>
    PROVE  ChunkInv'
<1>1. todo \in Seq(Op) /\ chunk \in Seq(Half) /\ flash \in Contents /\ addr \in Nat
  BY DEF UpdInv, TypeOK, Op, FlashTypeOK
<1>2. /\ Head(todo) = todo[1] /\ 1 \in 1..Len(todo) /\ Len(todo) \in Nat
      /\ Len(todo') = Len(todo) - 1
      /\ \A j \in 1..Len(todo') : j + 1 \in 1..Len(todo) /\ todo'[j] = todo[j + 1]
  BY <1>1, TailFacts
<1>3. Written \in Nat /\ WordHalves(chunk) \in Nat /\ Len(chunk) \in Nat
  BY <1>1, <1>2 DEF Written, WordHalves, UpdInv, ChunkInv
<1>4. Written' = Written + 1
  BY <1>1, <1>2, <1>3 DEF Written
<1>5. \A j \in 1..Len(todo) :
         /\ todo[j].at = addr + Written + j - 1
         /\ Written + j <= Len(chunk) => todo[j].value = chunk[Written + j]
  BY DEF UpdInv, ChunkInv
<1>6. /\ Head(todo).at = addr + Written
      /\ Written + 1 <= Len(chunk) => Head(todo).value = chunk[Written + 1]
  BY <1>1, <1>2, <1>3, <1>5
<1>7. addr + Written + 1 <= FlashEnd /\ FlashEnd \in Nat /\ CurAddr \in Nat
  BY <1>1, <1>3, <1>6, FlashAssumption DEF Addr, FlashEnd
<1>8. ASSUME NEW j \in 1..Len(todo')
      PROVE  /\ todo'[j].at = addr + (Written + 1) + j - 1
             /\ (Written + 1) + j <= Len(chunk) =>
                   todo'[j].value = chunk[(Written + 1) + j]
  <2>1. j \in Nat /\ j + 1 \in 1..Len(todo) /\ todo'[j] = todo[j + 1]
    BY <1>2
  <2>2. /\ todo[j + 1].at = addr + Written + (j + 1) - 1
        /\ Written + (j + 1) <= Len(chunk) => todo[j + 1].value = chunk[Written + (j + 1)]
    BY <1>5, <2>1
  <2>3. Written + (j + 1) = (Written + 1) + j
    BY <1>3, <2>1
  <2>4. addr + Written + (j + 1) - 1 = addr + (Written + 1) + j - 1
    BY <1>1, <1>3, <2>1
  <2>5. QED
    BY <2>1, <2>2, <2>3, <2>4
<1>9. ASSUME intact, NEW k \in 1..Len(chunk), k <= Written + 1
      PROVE  flash'[addr + k - 1] = chunk[k]
  <2>1. k \in Nat /\ k >= 1 /\ addr + k - 1 \in Nat
    BY <1>1, <1>3
  <2>2. CASE k = Written + 1
    <3>1. addr + k - 1 = Head(todo).at
      BY <1>1, <1>3, <1>6, <2>2
    <3>2. flash'[Head(todo).at] = Head(todo).value
      BY <1>1 DEF ProgramHalf, Contents
    <3>3. Head(todo).value = chunk[k]
      BY <1>3, <1>6, <2>2
    <3>4. QED
      BY <3>1, <3>2, <3>3
  <2>3. CASE k <= Written
    <3>1. flash[addr + k - 1] = chunk[k]
      BY <1>9, <2>3 DEF UpdInv, ChunkInv
    <3>2. addr + k - 1 # Head(todo).at
      BY <1>1, <1>3, <1>6, <2>1, <2>3
    <3>3. addr + k - 1 \in Addr
      <4>1. addr >= CurAddr
        BY FlashAssumption DEF UpdInv, AckedStored, TypeOK, BodyAddr
      <4>2. QED
        BY <1>1, <1>3, <1>7, <2>1, <2>3, <4>1 DEF Addr
    <3>4. QED
      BY <1>1, <3>1, <3>2, <3>3 DEF ProgramHalf, Contents
  <2>4. QED
    BY <1>3, <1>9, <2>1, <2>2, <2>3
<1>10. QED
  <2>1. Written' >= 0 /\ addr' + Written' <= FlashEnd
    BY <1>1, <1>3, <1>4, <1>7
  <2>2. QED
    BY <1>4, <1>8, <1>9, <2>1 DEF ChunkInv, FlashEnd

\* One half-word of a header, a chunk or the CRC.
LEMMA WriteStep ==
    ASSUME UpdInv, NEW st \in Status, WriteNext(st)
    PROVE  UpdInv'
<1> DEFINE a == Head(todo).at
           v == Head(todo).value
<1>1. job \in {"header", "chunk", "crc"} /\ todo # <<>>
  BY DEF WriteNext
<1>2. /\ Head(todo) = todo[1] /\ a \in Nat /\ v \in Half
      /\ a < BodyAddr \/ a >= addr
  BY <1>1, HeadPlace
<1>3. g_upd /\ todo \in Seq(Op)
  BY <1>1 DEF UpdInv, IdleInv, TypeOK, Op
<1>4. /\ Tail(todo) \in Seq(Op)
      /\ \A j \in 1..Len(Tail(todo)) :
            j + 1 \in 1..Len(todo) /\ Tail(todo)[j] = todo[j + 1]
  BY <1>1, <1>3, TailFacts
<1> HIDE DEF a, v
<1>5. ASSUME a \in Addr, FLASH_ProgramHalfWord(a, v, st), st = "COMPLETE",
             todo' = Tail(todo),
             UNCHANGED <<g_upd, addr, total_core_size, errno, crc_val,
                         job, chunk, reply, stored, intact>>
      PROVE  UpdInv'
  <2>1. flash' = ProgramHalf(flash, a, v)
    BY <1>5, ProgramEffect
  <2>2. FlashTypeOK'
    BY <1>2, <1>5, DriverType DEF UpdInv, TypeOK
  <2>3. TypeOK'
    BY <1>4, <1>5, <2>2 DEF UpdInv, TypeOK, Op
  <2>4. AckedStored' /\ RoomInv'
    BY <1>2, <1>5, <2>1, ProgramKeepsAcked
  <2>5. ChunkInv'
    <3>1. CASE job = "chunk"
      BY <1>1, <1>5, <2>1, <3>1, ChunkGrows DEF a, v
    <3>2. CASE job # "chunk"
      BY <1>5, <3>2 DEF ChunkInv
    <3>3. QED
      BY <3>1, <3>2
  <2>6. HeaderInv' /\ CrcInv'
    BY <1>4, <1>5 DEF UpdInv, HeaderInv, CrcInv, BodyAddr, FlashEnd
  <2>7. QED
    BY <1>1, <1>3, <1>5, <2>3, <2>4, <2>5, <2>6 DEF UpdInv, DelInv, IdleInv
<1>6. ASSUME a \in Addr, FLASH_ProgramHalfWord(a, v, st), Fails
      PROVE  UpdInv'
  <2>1. FlashTypeOK'
    BY <1>2, <1>6, DriverType DEF UpdInv, TypeOK
  <2>2. <<MaxHalf, MaxHalf>> \in Half \X Half /\ <<>> \in Seq(Op)
    BY FlashAssumption DEF Half
  <2>3. crc_val' \in Half \X Half
    BY <1>6, <2>2 DEF Fails, UpdInv, TypeOK
  <2>4. TypeOK'
    BY <1>6, <2>1, <2>2, <2>3 DEF UpdInv, TypeOK, Fails, Answer, Jobs, Op
  <2>5. AckedStored' /\ RoomInv'
    BY <1>2, <1>6, ProgramEffect, ProgramKeepsAcked DEF Fails
  <2>6. QED
    BY <1>3, <1>6, <2>4, <2>5, AnsweredStep DEF Fails, Answer
<1>7. ASSUME Start("fault", <<>>), UNCHANGED <<chunk, intact>>
      PROVE  UpdInv'
  <2>1. <<>> \in Seq(Op) /\ "fault" \in Jobs
    BY DEF Jobs
  <2>2. chunk' \in Seq(Half) /\ intact' \in BOOLEAN /\ (intact' => intact)
    BY <1>7 DEF UpdInv, TypeOK
  <2>3. TypeOK' /\ AckedStored' /\ RoomInv'
    BY <1>7, <2>1, <2>2, StartType
  <2>4. QED
    BY <1>3, <1>7, <2>3
       DEF Start, UpdInv, ChunkInv, HeaderInv, CrcInv, DelInv, IdleInv
<1>8. QED
  BY <1>5, <1>6, <1>7 DEF WriteNext, a, v

\* One page of "del".
LEMMA EraseStep ==
    ASSUME UpdInv, NEW st \in Status, EraseNext(st)
    PROVE  UpdInv'
<1> DEFINE a == Head(todo).at
<1>1. /\ job = "del" /\ todo # <<>> /\ FLASH_ErasePage(a, st)
      /\ UNCHANGED <<g_upd, addr, total_core_size, errno, crc_val, chunk, stored, intact>>
  BY DEF EraseNext
<1>2. g_upd /\ todo \in Seq(Op) /\ ~intact
  BY <1>1 DEF UpdInv, IdleInv, DelInv, TypeOK, Op
<1>3. Head(todo) = todo[1] /\ Tail(todo) \in Seq(Op) /\ <<>> \in Seq(Op)
  BY <1>1, <1>2, TailFacts
<1> HIDE DEF a
<1>4. FlashTypeOK'
  BY <1>1, DriverType DEF UpdInv, TypeOK
<1>5. AckedStored' /\ RoomInv'
  BY <1>1, <1>2 DEF UpdInv, AckedStored, RoomInv, BodyAddr, FlashEnd
<1>6. ASSUME st = "COMPLETE", todo' = Tail(todo), UNCHANGED <<job, reply>>
      PROVE  UpdInv'
  <2>1. TypeOK'
    BY <1>1, <1>3, <1>4, <1>6 DEF UpdInv, TypeOK, Op
  <2>2. flash' = ErasePage(flash, a)
    BY <1>1, <1>6, EraseEffect
  <2>3. flash'[NewAddr] # MagicLo
    <3>1. /\ NewAddr \in Addr /\ ErasedHalf # MagicLo
          /\ NewAddr <= NewAddr /\ NewAddr < NewAddr + PageHalves
      BY FlashAssumption DEF Addr, FlashEnd
    <3>2. \/ flash[NewAddr] # MagicLo
          \/ a = NewAddr
      BY <1>1, <1>3 DEF UpdInv, DelInv, a
    <3>3. QED
      BY <2>2, <3>1, <3>2 DEF ErasePage
  <2>4. QED
    BY <1>1, <1>2, <1>5, <1>6, <2>1, <2>3
       DEF UpdInv, DelInv, IdleInv, ChunkInv, HeaderInv, CrcInv
<1>7. ASSUME Answer("nack")
      PROVE  UpdInv'
  <2>1. TypeOK'
    BY <1>1, <1>3, <1>4, <1>7 DEF UpdInv, TypeOK, Answer, Jobs, Op
  <2>2. QED
    BY <1>1, <1>2, <1>5, <1>7, <2>1, AnsweredStep DEF Answer
<1>8. QED
  BY <1>6, <1>7 DEF EraseNext

(***************************************************************************)
(* A chunk that has been written to its end is acknowledged, and is then   *)
(* the next part of what is stored.                                        *)
(***************************************************************************)
LEMMA ChunkStored ==
    ASSUME UpdInv, job = "chunk", todo = <<>>,
           addr' = addr + Len(chunk),
           total_core_size' = total_core_size + Len(chunk),
           stored' = stored \o chunk,
           UNCHANGED <<flash, intact>>
    PROVE  AckedStored' /\ RoomInv'
<1>1. /\ chunk \in Seq(Half) /\ stored \in Seq(Half)
      /\ Len(chunk) \in Nat /\ Len(stored) \in Nat
  BY DEF UpdInv, TypeOK
<1>2. Written >= Len(chunk) /\ Written \in Nat
  BY <1>1 DEF Written, WordHalves
<1>3. /\ Len(stored') = Len(stored) + Len(chunk)
      /\ \A x \in 1..Len(stored) : stored'[x] = stored[x]
      /\ \A k \in 1..Len(chunk) : stored'[Len(stored) + k] = chunk[k]
  BY <1>1
<1>4. addr = BodyAddr + Len(stored) /\ BodyAddr \in Nat
  BY FlashAssumption DEF UpdInv, AckedStored, BodyAddr
<1>5. ASSUME intact, NEW x \in 1..Len(stored')
      PROVE  flash[BodyAddr + x - 1] = stored'[x]
  <2>1. x \in Nat /\ x >= 1 /\ x <= Len(stored) + Len(chunk)
    BY <1>1, <1>3
  <2>2. CASE x <= Len(stored)
    <3>1. x \in 1..Len(stored)
      BY <1>1, <2>1, <2>2
    <3>2. QED
      BY <1>3, <1>5, <3>1 DEF UpdInv, AckedStored, Holds
  <2>3. CASE x > Len(stored)
    <3>1. PICK k \in 1..Len(chunk) : x = Len(stored) + k
      <4>1. x - Len(stored) \in 1..Len(chunk) /\ x = Len(stored) + (x - Len(stored))
        BY <1>1, <2>1, <2>3
      <4>2. QED
        BY <4>1
    <3>2. k <= Written /\ addr + k - 1 = BodyAddr + x - 1
      BY <1>1, <1>2, <1>4, <3>1
    <3>3. flash[addr + k - 1] = chunk[k]
      BY <1>5, <3>2 DEF UpdInv, ChunkInv
    <3>4. QED
      BY <1>3, <3>1, <3>2, <3>3
  <2>4. QED
    BY <1>1, <2>1, <2>2, <2>3
<1>6. addr' = BodyAddr + Len(stored') /\ total_core_size' = HeaderHalves + Len(stored')
  BY <1>1, <1>3, <1>4, FlashAssumption DEF UpdInv, AckedStored
<1>7. addr' <= FlashEnd
  <2>1. addr + Written <= FlashEnd /\ addr \in Nat /\ FlashEnd \in Nat
    BY FlashAssumption DEF UpdInv, ChunkInv, TypeOK, FlashEnd
  <2>2. QED
    BY <1>1, <1>2, <2>1
<1>8. QED
  BY <1>5, <1>6, <1>7 DEF AckedStored, RoomInv, Holds, BodyAddr, FlashEnd

\* The word read back for "crc" is a pair of half-words.
LEMMA ReadBackType ==
    ASSUME UpdInv, job = "crc"
    PROVE  Area(flash, NewAddr + total_core_size, 2) \in Half \X Half
<1> DEFINE a == NewAddr + total_core_size
<1>1. a \in Addr /\ a + 1 \in Addr
  BY FlashAssumption DEF UpdInv, TypeOK, AckedStored, CrcInv, Addr, FlashEnd
<1>2. flash[a] \in Half /\ flash[a + 1] \in Half
  BY <1>1 DEF UpdInv, TypeOK, FlashTypeOK, Contents
<1>3. a \in Int /\ a + 1 - 1 = a /\ a + 2 - 1 = a + 1
  BY FlashAssumption DEF UpdInv, TypeOK
<1> HIDE DEF a
<1>4. Area(flash, a, 2) = <<flash[a], flash[a + 1]>>
  <2>1. Area(flash, a, 2) = [x \in 1..2 |-> flash[a + x - 1]]
    BY DEF Area
  <2>2. Area(flash, a, 2)[1] = flash[a] /\ Area(flash, a, 2)[2] = flash[a + 1]
    BY <1>3, <2>1
  <2>3. Area(flash, a, 2) \in Seq(Half) /\ Len(Area(flash, a, 2)) = 2
    <3>1. flash \in Contents /\ CurAddr <= a /\ a + 2 <= FlashEnd
      BY <1>1, <1>3, FlashAssumption DEF UpdInv, TypeOK, FlashTypeOK, Addr, FlashEnd
    <3>2. QED
      BY <1>3, <3>1, AreaType
  <2>4. QED
    BY <2>2, <2>3
<1>5. QED
  BY <1>2, <1>4 DEF a

\* The last operation of a packet has succeeded.
LEMMA DoneStep == UpdInv /\ Done => UpdInv'
<1> SUFFICES ASSUME UpdInv, Done PROVE UpdInv'
  OBVIOUS
<1>1. /\ job \in {"header", "chunk", "crc", "del"} /\ todo = <<>> /\ Answer("ack")
      /\ UNCHANGED <<flash, sr, locked, g_upd, errno, chunk, intact>>
  BY DEF Done
<1>2. g_upd
  BY <1>1 DEF UpdInv, IdleInv
<1>3. /\ addr' \in Nat /\ total_core_size' \in Nat /\ stored' \in Seq(Half)
      /\ crc_val' \in Half \X Half
  <2>1. /\ addr \in Nat /\ total_core_size \in Nat /\ crc_val \in Half \X Half
        /\ stored \in Seq(Half) /\ chunk \in Seq(Half) /\ Len(chunk) \in Nat
    BY DEF UpdInv, TypeOK
  <2>2. CASE job = "chunk"
    <3>1. /\ addr' = addr + Len(chunk) /\ total_core_size' = total_core_size + Len(chunk)
          /\ stored' = stored \o chunk /\ crc_val' = crc_val
      BY <2>2 DEF Done
    <3>2. stored \o chunk \in Seq(Half)
      BY <2>1
    <3>3. QED
      BY <2>1, <3>1, <3>2
  <2>3. CASE job = "crc"
    BY <2>1, <2>3, ReadBackType DEF Done
  <2>4. CASE job \in {"header", "del"}
    BY <2>1, <2>4 DEF Done
  <2>5. QED
    BY <1>1, <2>2, <2>3, <2>4
<1>4. TypeOK'
  <2>1. <<>> \in Seq(Op)
    OBVIOUS
  <2>2. QED
    BY <1>1, <1>3, <2>1 DEF UpdInv, TypeOK, FlashTypeOK, Answer, Jobs, Op
<1>5. AckedStored' /\ RoomInv'
  <2>1. CASE job = "chunk"
    BY <1>1, <2>1, ChunkStored DEF Done
  <2>2. CASE job # "chunk"
    <3>1. UNCHANGED <<addr, total_core_size, stored>>
      BY <2>2 DEF Done
    <3>2. QED
      BY <1>1, <3>1 DEF UpdInv, AckedStored, RoomInv, Holds, BodyAddr, FlashEnd
  <2>3. QED
    BY <2>1, <2>2
<1>6. QED
  BY <1>1, <1>2, <1>4, <1>5, AnsweredStep DEF Answer

\* The bootloader's installation, while nothing is stored.
LEMMA InstalledStep == UpdInv /\ Installed => UpdInv'
<1> SUFFICES ASSUME UpdInv, Installed PROVE UpdInv'
  OBVIOUS
<1>1. job = "idle" /\ stored = <<>> /\ UNCHANGED <<sr, locked, updVars>>
  BY DEF Installed, UpdInv, IdleInv
<1>2. flash' \in Contents
  BY FlashAssumption
     DEF Installed, UpdInv, TypeOK, FlashTypeOK, Contents, ErasedHalf, Half
<1>3. TypeOK'
  BY <1>1, <1>2 DEF UpdInv, TypeOK, FlashTypeOK, updVars
<1>4. AckedStored' /\ RoomInv'
  BY <1>1 DEF UpdInv, AckedStored, RoomInv, Holds, BodyAddr, FlashEnd, updVars
<1>5. QED
  BY <1>1, <1>3, <1>4
     DEF UpdInv, ChunkInv, HeaderInv, CrcInv, DelInv, IdleInv, updVars

\* A step that changes nothing.
LEMMA UpdStutter == UpdInv /\ UNCHANGED vars => UpdInv'
<1> SUFFICES ASSUME UpdInv, UNCHANGED vars PROVE UpdInv'
  OBVIOUS
<1> USE DEF vars, updVars
<1>1. TypeOK' /\ AckedStored' /\ RoomInv'
  BY DEF UpdInv, TypeOK, FlashTypeOK, AckedStored, RoomInv, Holds, BodyAddr, FlashEnd
<1>2. ChunkInv' /\ HeaderInv' /\ CrcInv' /\ DelInv' /\ IdleInv'
  BY DEF UpdInv, ChunkInv, Written, HeaderInv, CrcInv, DelInv, IdleInv, BodyAddr, FlashEnd
<1>3. QED
  BY <1>1, <1>2 DEF UpdInv

\* Every step keeps the invariant.
LEMMA UpdStep == UpdInv /\ [Next]_vars => UpdInv'
<1> SUFFICES ASSUME UpdInv, [Next]_vars PROVE UpdInv'
  OBVIOUS
<1>1. CASE Receive
  <2>1. ASSUME NEW cmd \in Commands, HandleOther(cmd) PROVE UpdInv'
    BY <2>1, RefuseStep DEF HandleOther
  <2>2. ASSUME NEW d \in Data, HandleHeader(d) PROVE UpdInv'
    BY <2>2, HeaderStep, UpdaterAssumption
  <2>3. ASSUME NEW d \in Data, NEW rest \in Stale, HandleChunk(d, rest) PROVE UpdInv'
    BY <2>3, ChunkStep, UpdaterAssumption
  <2>4. ASSUME NEW w \in CrcWords, HandleCrc(w) PROVE UpdInv'
    BY <2>4, CrcStep, UpdaterAssumption
  <2>5. QED
    BY <1>1, <2>1, <2>2, <2>3, <2>4, RequestStep, DelStep DEF Receive
<1>2. CASE Work
  BY <1>2, DoneStep, WriteStep, EraseStep DEF Work
<1>3. CASE Installed
  BY <1>3, InstalledStep
<1>4. CASE Reset
  BY <1>4, ResetStep DEF Reset, PowerFailure, Reboot
<1>5. CASE HardFault \/ UNCHANGED vars
  BY <1>5, UpdStutter DEF HardFault
<1>6. QED
  BY <1>1, <1>2, <1>3, <1>4, <1>5 DEF Next

\* The invariant holds of every reachable state.
LEMMA UpdInvariant == Spec => []UpdInv
BY UpdInit, UpdStep, PTL DEF Spec

-----------------------------------------------------------------------------
(* A header on its way into the flash, and behind it.                      *)

HeaderThere(h) == \A j \in 1..HeaderHalves : flash[NewAddr + j - 1] = h[j]

\* How many half-words of the header are already programmed.
HeaderWritten == HeaderHalves - Len(todo)

\* The header h is being programmed: a first part of it is there, the rest to come.
HeaderProgress(h) ==
    /\ HeaderWritten >= 0
    /\ \A j \in 1..HeaderWritten : flash[NewAddr + j - 1] = h[j]
    /\ \A j \in 1..Len(todo) : /\ todo[j].at = NewAddr + HeaderWritten + j - 1
                               /\ todo[j].value = h[HeaderWritten + j]

\* An accepted header begins with nothing programmed.
LEMMA HeaderStarts ==
    ASSUME NEW h \in Seq(Half), HandleHeader(h)
    PROVE  job' = "header" => HeaderProgress(h)'
<1> SUFFICES ASSUME job' = "header" PROVE HeaderProgress(h)'
  OBVIOUS
<1>1. Start("header", Writes(NewAddr, h)) /\ Len(h) = HeaderHalves
  BY DEF HandleHeader, Refuse, Answer
<1>2. NewAddr \in Nat /\ HeaderHalves \in Nat
  BY FlashAssumption
<1>3. /\ todo' = Writes(NewAddr, h) /\ Len(todo') = HeaderHalves
      /\ \A j \in 1..HeaderHalves : /\ todo'[j].at = NewAddr + j - 1
                                    /\ todo'[j].value = h[j]
  BY <1>1, <1>2, WritesFacts DEF Start
<1>4. HeaderWritten' = 0
  BY <1>2, <1>3 DEF HeaderWritten
<1>5. ASSUME NEW j \in 1..Len(todo')
      PROVE  /\ todo'[j].at = NewAddr + HeaderWritten' + j - 1
             /\ todo'[j].value = h[HeaderWritten' + j]
  <2>1. HeaderWritten' + j = j /\ NewAddr + HeaderWritten' + j - 1 = NewAddr + j - 1
    BY <1>2, <1>3, <1>4
  <2>2. QED
    BY <1>3, <2>1
<1>6. QED
  BY <1>4, <1>5 DEF HeaderProgress

\* One more half-word of the header is programmed where the header has it.
LEMMA HeaderGrows ==
    ASSUME UpdInv, NEW h, HeaderProgress(h), job = "header",
           NEW st \in Status, WriteNext(st)
    PROVE  job' = "header" => HeaderProgress(h)'
<1> SUFFICES ASSUME job' = "header" PROVE HeaderProgress(h)'
  OBVIOUS
<1> DEFINE a == Head(todo).at
           v == Head(todo).value
<1>1. /\ todo # <<>> /\ a \in Addr /\ todo' = Tail(todo)
      /\ FLASH_ProgramHalfWord(a, v, st) /\ st = "COMPLETE"
  BY DEF WriteNext, Fails, Answer, Start
<1>2. todo \in Seq(Op) /\ flash \in Contents
  BY DEF UpdInv, TypeOK, FlashTypeOK, Op
<1>3. /\ Head(todo) = todo[1] /\ 1 \in 1..Len(todo) /\ Len(todo) \in Nat
      /\ Len(todo') = Len(todo) - 1
      /\ \A j \in 1..Len(todo') : j + 1 \in 1..Len(todo) /\ todo'[j] = todo[j + 1]
  BY <1>1, <1>2, TailFacts
<1>4. flash' = ProgramHalf(flash, a, v)
  BY <1>1, ProgramEffect
<1>5. /\ NewAddr \in Nat /\ HeaderHalves \in Nat /\ HeaderWritten \in Nat
      /\ HeaderWritten' = HeaderWritten + 1
  BY <1>3, FlashAssumption DEF HeaderWritten, HeaderProgress
<1>6. a = NewAddr + HeaderWritten /\ v = h[HeaderWritten + 1]
  <2>1. /\ todo[1].at = NewAddr + HeaderWritten + 1 - 1
        /\ todo[1].value = h[HeaderWritten + 1]
    BY <1>3 DEF HeaderProgress
  <2>2. QED
    BY <1>3, <1>5, <2>1
<1> HIDE DEF a, v
<1>7. ASSUME NEW j \in 1..HeaderWritten'
      PROVE  flash'[NewAddr + j - 1] = h[j]
  <2>1. CASE j = HeaderWritten + 1
    <3>1. NewAddr + j - 1 = a
      BY <1>5, <1>6, <2>1
    <3>2. flash'[a] = v
      BY <1>1, <1>2, <1>4 DEF ProgramHalf, Contents
    <3>3. QED
      BY <1>6, <2>1, <3>1, <3>2
  <2>2. CASE j # HeaderWritten + 1
    <3>1. j \in 1..HeaderWritten
      BY <1>5, <2>2
    <3>2. flash[NewAddr + j - 1] = h[j] /\ NewAddr + j - 1 # a
      BY <1>5, <1>6, <3>1 DEF HeaderProgress
    <3>3. NewAddr + j - 1 \in Addr
      <4>1. j - 1 \in Nat /\ j - 1 < HeaderHalves /\ NewAddr + (j - 1) = NewAddr + j - 1
        BY <1>3, <1>5, <3>1 DEF HeaderWritten
      <4>2. QED
        BY <4>1, HeaderInFlash
    <3>4. QED
      BY <1>2, <1>4, <3>2, <3>3, ProgramElsewhere
  <2>3. QED
    BY <2>1, <2>2
<1>8. ASSUME NEW j \in 1..Len(todo')
      PROVE  /\ todo'[j].at = NewAddr + HeaderWritten' + j - 1
             /\ todo'[j].value = h[HeaderWritten' + j]
  <2>1. j + 1 \in 1..Len(todo) /\ todo'[j] = todo[j + 1] /\ j \in Nat
    BY <1>3
  <2>2. /\ todo[j + 1].at = NewAddr + HeaderWritten + (j + 1) - 1
        /\ todo[j + 1].value = h[HeaderWritten + (j + 1)]
    BY <2>1 DEF HeaderProgress
  <2>3. /\ NewAddr + HeaderWritten + (j + 1) - 1 = NewAddr + HeaderWritten' + j - 1
        /\ HeaderWritten + (j + 1) = HeaderWritten' + j
    BY <1>5, <2>1
  <2>4. QED
    BY <2>1, <2>2, <2>3
<1>9. QED
  BY <1>5, <1>7, <1>8 DEF HeaderProgress

\* With its last half-word the header is there.
LEMMA HeaderComplete ==
    ASSUME NEW h, HeaderProgress(h), todo = <<>>
    PROVE  HeaderThere(h)
<1>1. HeaderWritten = HeaderHalves
  BY FlashAssumption DEF HeaderWritten
<1>2. QED
  BY <1>1 DEF HeaderProgress, HeaderThere

\* Neither a chunk nor the CRC is programmed over it.
LEMMA HeaderStays ==
    ASSUME UpdInv, NEW h, HeaderThere(h), job \in {"chunk", "crc"},
           NEW st \in Status, WriteNext(st)
    PROVE  HeaderThere(h)'
<1> DEFINE a == Head(todo).at
           v == Head(todo).value
<1>1. todo # <<>> /\ todo \in Seq(Op) /\ flash \in Contents
  BY DEF WriteNext, UpdInv, TypeOK, FlashTypeOK, Op
<1>2. Head(todo) = todo[1] /\ 1 \in 1..Len(todo) /\ Len(todo) \in Nat
  BY <1>1, TailFacts
<1>3. /\ addr \in Nat /\ BodyAddr \in Nat /\ NewAddr \in Nat /\ HeaderHalves \in Nat
      /\ BodyAddr = NewAddr + HeaderHalves /\ addr >= BodyAddr
      /\ addr = NewAddr + total_core_size
  BY FlashAssumption DEF UpdInv, TypeOK, AckedStored, BodyAddr
<1>4. a \in Nat /\ a >= BodyAddr
  <2>1. CASE job = "chunk"
    <3>1. Written \in Int /\ Written >= 0
      BY <1>2, <2>1 DEF UpdInv, TypeOK, ChunkInv, Written, WordHalves
    <3>2. todo[1].at = addr + Written + 1 - 1
      BY <1>2, <2>1 DEF UpdInv, ChunkInv
    <3>3. QED
      BY <1>2, <1>3, <3>1, <3>2
  <2>2. CASE job = "crc"
    <3>1. a \in Nat
      BY <1>1, <2>2, HeadPlace
    <3>2. a >= NewAddr + total_core_size
      BY <1>2, <2>2 DEF UpdInv, CrcInv
    <3>3. QED
      BY <1>3, <3>1, <3>2
  <2>3. QED
    BY <2>1, <2>2
<1> HIDE DEF a, v
<1>5. flash' = flash \/ flash' = ProgramHalf(flash, a, v)
  BY ProgramEffect DEF WriteNext, Start, a, v
<1>6. ASSUME NEW j \in 1..HeaderHalves
      PROVE  flash'[NewAddr + j - 1] = h[j]
  <2>1. flash[NewAddr + j - 1] = h[j] /\ NewAddr + j - 1 # a
    BY <1>3, <1>4 DEF HeaderThere
  <2>2. j - 1 \in Nat /\ j - 1 < HeaderHalves /\ NewAddr + (j - 1) = NewAddr + j - 1
    BY <1>3
  <2>3. NewAddr + j - 1 \in Addr
    BY <2>2, HeaderInFlash
  <2>4. QED
    BY <1>1, <1>5, <2>1, <2>3, ProgramElsewhere
<1>7. QED
  BY <1>6 DEF HeaderThere

-----------------------------------------------------------------------------
(* The updater writes and erases only from NewAddr up.                     *)

\* No operation of a packet lies below the staging area.
AboveInv == \A j \in 1..Len(todo) : todo[j].at >= NewAddr

\* Programming from an address in the staging area.
LEMMA AboveWrites ==
    ASSUME NEW a \in Nat, a >= NewAddr, NEW d \in Seq(Half), todo' = Writes(a, d)
    PROVE  AboveInv'
<1>1. Len(d) \in Nat /\ NewAddr \in Nat
  BY FlashAssumption
<1>2. /\ Len(todo') = Len(d)
      /\ \A j \in 1..Len(d) : todo'[j].at = a + j - 1
  BY WritesFacts
<1>3. \A j \in 1..Len(d) : a + j - 1 >= NewAddr
  BY <1>1
<1>4. QED
  BY <1>2, <1>3 DEF AboveInv

\* A packet that starts no operation, or ends one.
LEMMA AboveNothing == todo' = <<>> => AboveInv'
BY DEF AboveInv

\* The header's packet.
LEMMA AboveHeader ==
    ASSUME NEW d \in Seq(Half), HandleHeader(d)
    PROVE  AboveInv'
<1>1. NewAddr \in Nat /\ NewAddr >= NewAddr
  BY FlashAssumption
<1>2. todo' = Writes(NewAddr, d) \/ todo' = <<>>
  BY DEF HandleHeader, Start, Refuse, Answer
<1>3. QED
  BY <1>1, <1>2, AboveWrites, AboveNothing

\* A chunk goes behind those that were acknowledged, its padding included.
LEMMA AboveChunk ==
    ASSUME UpdInv, NEW d \in Seq(Half), NEW rest \in Half, HandleChunk(d, rest)
    PROVE  AboveInv'
<1> DEFINE p == IF Len(d) % 2 = 0 THEN d ELSE d \o <<rest>>
<1>1. p \in Seq(Half)
  BY PaddedFacts
<1>2. todo' = Writes(addr, p)
  BY DEF HandleChunk, Start
<1> HIDE DEF p
<1>3. stored \in Seq(Half) /\ Len(stored) \in Nat /\ addr \in Nat
  BY DEF UpdInv, TypeOK
<1>4. addr >= NewAddr
  BY <1>3, FlashAssumption DEF UpdInv, AckedStored, BodyAddr
<1>5. QED
  BY <1>1, <1>2, <1>3, <1>4, AboveWrites

\* The CRC's word goes behind the core.
LEMMA AboveCrc ==
    ASSUME UpdInv, NEW w \in Half \X Half, HandleCrc(w)
    PROVE  AboveInv'
<1>1. w \in Seq(Half)
  OBVIOUS
<1>2. total_core_size \in Nat /\ NewAddr \in Nat
  BY FlashAssumption DEF UpdInv, TypeOK
<1>3. NewAddr + total_core_size \in Nat /\ NewAddr + total_core_size >= NewAddr
  BY <1>2
<1>4. todo' = Writes(NewAddr + total_core_size, w) \/ todo' = <<>>
  BY DEF HandleCrc, Start
<1>5. QED
  BY <1>1, <1>3, <1>4, AboveWrites, AboveNothing

\* "del" erases upwards from the header's page.
LEMMA AboveDel ==
    ASSUME UpdInv, HandleDel
    PROVE  AboveInv'
<1> DEFINE n == Whole(total_core_size \div PageHalves)
<1>1. /\ PageHalves \in Nat /\ NewAddr \in Nat /\ n \in Nat
  BY FlashAssumption DEF UpdInv, TypeOK, Whole
<1>2. todo' = Erases(NewAddr, n) \/ todo' = <<>>
  BY DEF HandleDel, HandleDelAt, Start, Refuse, Answer
<1> HIDE DEF n
<1>3. ASSUME todo' = Erases(NewAddr, n) PROVE AboveInv'
  <2>1. Len(Erases(NewAddr, n)) = n
    BY <1>1 DEF Erases
  <2>2. ASSUME NEW j \in 1..n
        PROVE  NewAddr + (j - 1) * PageHalves >= NewAddr
    <3>1. j - 1 \in Nat
      BY <1>1
    <3>2. (j - 1) * PageHalves \in Nat
      BY <1>1, <3>1
    <3>3. QED
      BY <1>1, <3>2
  <2>3. \A j \in 1..n : Erases(NewAddr, n)[j].at = NewAddr + (j - 1) * PageHalves
    BY DEF Erases
  <2>4. QED
    BY <1>3, <2>1, <2>2, <2>3 DEF AboveInv
<1>4. QED
  BY <1>2, <1>3, AboveNothing

\* Carrying out the operations of a packet leaves the rest of them.
LEMMA AboveWork ==
    ASSUME UpdInv, AboveInv, NEW st \in Status,
           Done \/ WriteNext(st) \/ EraseNext(st)
    PROVE  AboveInv'
<1>1. \/ todo' = <<>>
      \/ todo # <<>> /\ todo' = Tail(todo)
  BY DEF Done, WriteNext, EraseNext, Fails, Answer, Start
<1>2. ASSUME todo # <<>>, todo' = Tail(todo) PROVE AboveInv'
  <2>1. todo \in Seq(Op)
    BY DEF UpdInv, TypeOK, Op
  <2>2. /\ Len(todo) \in Nat /\ Len(todo) >= 1 /\ Len(Tail(todo)) = Len(todo) - 1
        /\ \A j \in 1..(Len(todo) - 1) : Tail(todo)[j] = todo[j + 1]
    BY <1>2, <2>1
  <2>3. \A j \in 1..(Len(todo) - 1) : j + 1 \in 1..Len(todo)
    BY <2>2
  <2>4. QED
    BY <1>2, <2>2, <2>3 DEF AboveInv
<1>3. QED
  BY <1>1, <1>2, AboveNothing

\* An operation of a packet leaves everything below the staging area as it is.
LEMMA StagingOnly ==
    ASSUME UpdInv, AboveInv, NEW st \in Status, WriteNext(st) \/ EraseNext(st)
    PROVE  \A x \in Addr : x < NewAddr => flash'[x] = flash[x]
<1> DEFINE a == Head(todo).at
<1>1. todo # <<>> /\ todo \in Seq(Op) /\ flash \in Contents
  BY DEF WriteNext, EraseNext, UpdInv, TypeOK, FlashTypeOK, Op
<1>2. a \in Nat /\ a >= NewAddr
  <2>1. Head(todo) = todo[1] /\ Head(todo) \in Op /\ 1 \in 1..Len(todo)
    BY <1>1, TailFacts
  <2>2. QED
    BY <2>1 DEF AboveInv, Op
<1>3. /\ CurAddr \in Nat /\ NewAddr \in Nat /\ PageHalves \in Nat /\ Addr \subseteq Int
  BY FlashAssumption DEF Addr
<1>4. \A x \in Addr : x < NewAddr => x # a /\ ~(a <= x)
  BY <1>2, <1>3
<1>5. CASE WriteNext(st)
  <2>1. flash' = flash \/ flash' = ProgramHalf(flash, a, Head(todo).value)
    BY <1>5, ProgramEffect DEF WriteNext, Start
  <2>2. QED
    BY <1>1, <1>4, <2>1, ProgramElsewhere
<1>6. CASE EraseNext(st)
  <2>1. flash' = flash \/ flash' = ErasePage(flash, a)
    BY <1>6, EraseEffect DEF EraseNext
  <2>2. QED
    BY <1>4, <2>1 DEF ErasePage
<1>7. QED
  BY <1>5, <1>6

-----------------------------------------------------------------------------
(* The theorems.                                                           *)

\* handle_upd_packet keeps the types of its statics, whatever packets come.
THEOREM UpdaterTypes == Spec => []TypeOK
<1>1. UpdInv => TypeOK
  BY DEF UpdInv
<1>2. QED
  BY <1>1, UpdInvariant, PTL

(***************************************************************************)
(* The chunks handle_upd_packet has acknowledged are in the flash, in      *)
(* their order and up to the address of the next one, whatever packets     *)
(* come, fail or are repeated, and wherever power fails.                   *)
(***************************************************************************)
THEOREM AckedChunksStored == Spec => []AckedStored
<1>1. UpdInv => AckedStored
  BY DEF UpdInv
<1>2. QED
  BY <1>1, UpdInvariant, PTL

(***************************************************************************)
(* When "del" is acknowledged, erase_sector has erased the page of the     *)
(* header: nothing that is left can be taken for a staged core.            *)
(***************************************************************************)
THEOREM DelLeavesNoHeader == Spec => DelRemovesHeader
<1>1. UpdInv /\ [Next]_vars =>
        [(job = "del" /\ reply' = "ack") => ~HeaderValid(flash')]_vars
  <2> SUFFICES ASSUME UpdInv, Next, job = "del", reply' = "ack"
               PROVE  ~HeaderValid(flash')
    OBVIOUS
  <2>1. g_upd /\ reply # "ack"
    BY DEF UpdInv, IdleInv, DelInv
  <2>2. CASE Done
    <3>1. todo = <<>> /\ flash' = flash
      BY <2>2 DEF Done
    <3>2. QED
      BY <3>1 DEF UpdInv, DelInv, HeaderValid
  <2>3. ASSUME NEW st \in Status, EraseNext(st)
        PROVE  FALSE
    BY <2>1, <2>3 DEF EraseNext, Answer
  <2>4. ASSUME NEW st \in Status, WriteNext(st)
        PROVE  FALSE
    BY <2>4 DEF WriteNext
  <2>5. ~Receive
    BY DEF Receive, Request, HandleOther, HandleHeader, HandleChunk, HandleDel,
           HandleDelAt, HandleCrc, Ready
  <2>6. ~Reset
    BY DEF Reset, PowerFailure, Reboot, RamReset, PoweredUp
  <2>7. ~HardFault /\ ~Installed
    BY <2>1 DEF HardFault, Installed
  <2>8. QED
    BY <2>2, <2>3, <2>4, <2>5, <2>6, <2>7 DEF Next, Work
<1>2. QED
  BY <1>1, UpdInvariant, PTL DEF Spec, DelRemovesHeader

=============================================================================
