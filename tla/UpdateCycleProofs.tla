------------------------- MODULE UpdateCycleProofs -------------------------
(***************************************************************************)
(* Proofs of the end-to-end properties of an update, for every image, chunk   *)
(* length and flash geometry, with or without faults of the flash, and     *)
(* wherever power fails: a core whose transfer was completed is the core   *)
(* every later start runs (DeliveredCoreRuns); with a working flash the    *)
(* device always gets there (DeliveredCoreBoots); all of it implements the *)
(* abstract specification Delivery (ImplementsDelivery); and no transfer   *)
(* touches the core that receives it (RunningCoreKept).                    *)
(*                                                                         *)
(* The proof puts the two halves of the project together.  While a         *)
(* transfer is under way, the updater's invariant says what of it is in    *)
(* the flash; at its "reb", that is all the bootloader's invariant needs,  *)
(* whatever an abandoned transfer had left there before; from then on the  *)
(* bootloader's invariant keeps the core until the next transfer begins.   *)
(***************************************************************************)
EXTENDS UpdateCycle, BootloaderProofs

UP == INSTANCE UpdaterProofs WITH
          errno <- upd_errno,
          Data <- {},
          BootPages <- NewPages

\* The sequence s is the first n half-words of the image's body.
Received(s, n) ==
    /\ Len(s) = n
    /\ \A j \in 1..n : s[j] = img.body[j]

HeaderStaged == UP!HeaderThere(HeaderOf(img))

(***************************************************************************)
(* What is in the flash of the image being sent: the header in part, then  *)
(* the header and the chunks acknowledged, and at last all of the image.   *)
(***************************************************************************)
BodyPhase ==
    phase = "body" =>
       /\ intact
       /\ job \in {"idle", "header", "chunk", "fault"}
       /\ job = "header" =>
             sent = 0 /\ stored = <<>> /\ UP!HeaderProgress(HeaderOf(img))
       /\ job = "chunk" => HeaderStaged /\ Received(stored \o chunk, sent)
       /\ Answered("ack") => HeaderStaged /\ Received(stored, sent)

CrcPhase ==
    phase = "crc" =>
       /\ intact
       /\ sent = Len(img.body)
       /\ job \in {"idle", "crc", "fault"}
       /\ HeaderStaged
       /\ Received(stored, sent)

TransferInv ==
    /\ phase = "upd" => job = "idle" /\ sent = 0 /\ stored = <<>> /\ intact
    /\ BodyPhase
    /\ CrcPhase

\* What a completed transfer leaves to the bootloader.
InstallInv == BootInv /\ JumpInv /\ ErrnoClean

CycleTypeOK ==
    /\ TypeInv
    /\ phase \in Ended \cup {"upd", "body", "crc", "del"}
    /\ img \in Images
    /\ sent \in Nat
    /\ sent <= Len(img.body)

\* What holds whatever the images and the first value of read_header's loop.
BaseInv ==
    /\ CycleTypeOK
    /\ UP!UpdInv
    /\ phase \in Ended => UP!RamInit
    /\ phase \notin Ended => pc = "app"
    /\ TransferInv

CycleInv ==
    /\ BaseInv
    /\ phase = "done" => InstallInv

-----------------------------------------------------------------------------
(* The lemmas of UpdaterProofs hold here: the updater's actions are those  *)
(* of UpdateCycle, and its assumptions follow from the ones made here.     *)

\* What the updater's module assumes of its constants.
LEMMA UpdAssumed == UP!FlashAssumption /\ UP!UpdaterAssumption
BY FlashAssumption, CycleAssumption, BootAssumption
   DEF UP!FlashAssumption, UP!UpdaterAssumption, UP!Half, Half,
       UP!ErasedHalf, ErasedHalf

\* Both see the same flash.
LEMMA SameFlash ==
    /\ UP!FlashTypeOK <=> FlashTypeOK
    /\ UP!FlashTypeOK' <=> FlashTypeOK'
BY DEF UP!FlashTypeOK, FlashTypeOK, UP!Contents, Contents, UP!Addr, Addr,
       UP!Half, Half, UP!FlashEnd, FlashEnd

\* check_upd_request.
LEMMA SameRequest == Upd!Request("upd") => UP!Request("upd")
BY DEF Upd!Request, UP!Request, Upd!Answer, UP!Answer

\* handle_upd_packet for a header.
LEMMA SameHeader ==
    ASSUME NEW d, Upd!HandleHeader(d) PROVE UP!HandleHeader(d)
BY DEF Upd!HandleHeader, UP!HandleHeader, Upd!Ready, UP!Ready, Upd!Start,
       UP!Start, Upd!Writes, UP!Writes, Upd!Refuse, UP!Refuse,
       Upd!Answer, UP!Answer

\* handle_upd_packet for a chunk.
LEMMA SameChunk ==
    ASSUME NEW d, NEW rest, Upd!HandleChunk(d, rest) PROVE UP!HandleChunk(d, rest)
BY DEF Upd!HandleChunk, UP!HandleChunk, Upd!Ready, UP!Ready, Upd!Start,
       UP!Start, Upd!Writes, UP!Writes

\* handle_upd_packet for "crc".
LEMMA SameCrc ==
    ASSUME NEW w, Upd!HandleCrc(w) PROVE UP!HandleCrc(w)
BY DEF Upd!HandleCrc, UP!HandleCrc, Upd!Ready, UP!Ready, Upd!Start,
       UP!Start, Upd!Writes, UP!Writes, Upd!FlashEnd, UP!FlashEnd

\* handle_upd_packet for "del".
LEMMA SameDel == Upd!HandleDel => UP!HandleDel
BY DEF Upd!HandleDel, UP!HandleDel, Upd!HandleDelAt, UP!HandleDelAt,
       Upd!Ready, UP!Ready, Upd!Start, UP!Start, Upd!Erases, UP!Erases,
       Upd!Refuse, UP!Refuse,
       Upd!Answer, UP!Answer, Upd!Whole, UP!Whole,
       Upd!SectorTooLong, UP!SectorTooLong

\* The end of a packet.
LEMMA SameDone == Upd!Done => UP!Done
BY DEF Upd!Done, UP!Done, Upd!Answer, UP!Answer, Upd!Area, UP!Area

\* One half-word of a packet.
LEMMA SameWrite ==
    ASSUME NEW st, Upd!WriteNext(st) PROVE UP!WriteNext(st)
BY DEF Upd!WriteNext, UP!WriteNext, Upd!Fails, UP!Fails, Upd!Answer, UP!Answer,
       Upd!Start, UP!Start, Upd!Addr, UP!Addr, Upd!FlashEnd, UP!FlashEnd,
       Upd!FLASH_ProgramHalfWord, UP!FLASH_ProgramHalfWord,
       Upd!FlashOp, UP!FlashOp, Upd!ProgramHalf, UP!ProgramHalf,
       Upd!Programmable, UP!Programmable, Upd!ErasedHalf, UP!ErasedHalf

\* One page of "del".
LEMMA SameErase ==
    ASSUME NEW st, Upd!EraseNext(st) PROVE UP!EraseNext(st)
BY DEF Upd!EraseNext, UP!EraseNext, Upd!Answer, UP!Answer,
       Upd!FLASH_ErasePage, UP!FLASH_ErasePage, Upd!FlashOp, UP!FlashOp,
       Upd!ErasePage, UP!ErasePage, Upd!Addr, UP!Addr, Upd!FlashEnd, UP!FlashEnd,
       Upd!ErasedHalf, UP!ErasedHalf

\* The RAM a reset leaves.
LEMMA SameRam ==
    /\ Upd!RamInit => UP!RamInit
    /\ Upd!RamReset => UP!RamInit'
BY DEF Upd!RamInit, UP!RamInit, Upd!RamReset, Upd!PoweredUp, UP!PoweredUp,
       Upd!BodyAddr, UP!BodyAddr

-----------------------------------------------------------------------------
(* What the PC sends.                                                      *)

\* Part of a sequence.
LEMMA PartFacts ==
    ASSUME NEW s \in Seq(Half), NEW m \in Nat, NEW n \in Nat, m <= n, n <= Len(s)
    PROVE  /\ SubSeq(s, m + 1, n) \in Seq(Half)
           /\ Len(SubSeq(s, m + 1, n)) = n - m
           /\ \A j \in 1..(n - m) : SubSeq(s, m + 1, n)[j] = s[m + j]
<1>1. \A j \in 1..(n - m) : SubSeq(s, m + 1, n)[j] = s[(m + 1) + j - 1]
  OBVIOUS
<1>2. \A j \in 1..(n - m) : (m + 1) + j - 1 = m + j
  OBVIOUS
<1>3. SubSeq(s, m + 1, n) \in Seq(Half) /\ Len(SubSeq(s, m + 1, n)) = n - m
  OBVIOUS
<1>4. QED
  BY <1>1, <1>2, <1>3

\* The next chunk is the next part of the body, and not past its end.
LEMMA ChunkFacts ==
    ASSUME CycleTypeOK, sent < Len(img.body)
    PROVE  /\ NextChunk \in Seq(Half) /\ Len(NextChunk) \in Nat
           /\ sent + Len(NextChunk) <= Len(img.body)
           /\ \A j \in 1..Len(NextChunk) : NextChunk[j] = img.body[sent + j]
<1> DEFINE n == IF sent + ChunkHalves < Len(img.body) THEN sent + ChunkHalves
                                                     ELSE Len(img.body)
<1>1. img.body \in Seq(Half) /\ Len(img.body) \in Nat /\ sent \in Nat
  BY ImageFacts DEF CycleTypeOK
<1>2. n \in Nat /\ sent <= n /\ n <= Len(img.body)
  BY <1>1, CycleAssumption
<1>3. NextChunk = SubSeq(img.body, sent + 1, n)
  BY DEF NextChunk
<1> HIDE DEF n
<1>4. /\ NextChunk \in Seq(Half) /\ Len(NextChunk) = n - sent
      /\ \A j \in 1..(n - sent) : NextChunk[j] = img.body[sent + j]
  BY <1>1, <1>2, <1>3, PartFacts
<1>5. QED
  BY <1>1, <1>2, <1>4

\* A header is HeaderHalves half-words.
LEMMA HeaderFacts ==
    ASSUME NEW i \in Images
    PROVE  /\ HeaderOf(i) \in Seq(Half)
           /\ Len(HeaderOf(i)) = HeaderHalves
           /\ \A j \in 1..HeaderHalves : HeaderOf(i)[j] = ImageHalf(i, j - 1)
<1>1. HeaderHalves \in Nat /\ Len(i.body) \in Nat
  BY FlashAssumption, ImageFacts
<1>2. \A j \in 1..HeaderHalves : j - 1 \in 0..(HeaderHalves + Len(i.body) - 1)
  BY <1>1
<1>3. \A j \in 1..HeaderHalves : ImageHalf(i, j - 1) \in Half
  BY <1>2, ImageHalfType
<1>4. HeaderOf(i) \in [1..HeaderHalves -> Half]
  BY <1>3 DEF HeaderOf
<1>5. QED
  BY <1>1, <1>4 DEF HeaderOf

\* The header of the image being sent stays the same until the next image.
LEMMA SameImage == img' = img => HeaderOf(img)' = HeaderOf(img)
BY DEF HeaderOf, ImageHalf

-----------------------------------------------------------------------------
(* The steps of a transfer.                                                *)

\* A step of the updater leaves everything the bootloader has in RAM alone.
LEMMA SendingStep ==
    ASSUME BaseInv, pc = "app", UNCHANGED bootOnly,
           UP!UpdInv', phase' \in {"upd", "body", "crc", "del"},
           img' \in Images, sent' \in Nat, sent' <= Len(img'.body),
           TransferInv'
    PROVE  BaseInv'
<1>1. FlashTypeOK'
  BY SameFlash DEF UP!UpdInv, UP!TypeOK
<1>2. TypeInv'
  BY <1>1 DEF BaseInv, CycleTypeOK, TypeInv, TypeOK, bootOnly
<1>3. QED
  BY <1>2 DEF BaseInv, CycleTypeOK, bootOnly, Ended

\* "upd".
LEMMA SendUpdStep ==
    ASSUME BaseInv, pc = "app", UNCHANGED bootOnly, NEW i \in Images, SendUpd(i)
    PROVE  BaseInv'
<1>1. /\ phase \in Ended /\ UP!Request("upd")
      /\ phase' = "upd" /\ img' = i /\ sent' = 0
  BY SameRequest DEF SendUpd
<1>2. UP!RamInit /\ UP!UpdInv
  BY <1>1 DEF BaseInv
<1>3. UP!UpdInv'
  BY <1>1, <1>2, UpdAssumed, UP!RequestStep
<1>4. job' = "idle" /\ stored' = <<>> /\ intact'
  BY <1>1, <1>2 DEF UP!RamInit, UP!PoweredUp, UP!Request, UP!Answer
<1>5. TransferInv'
  BY <1>1, <1>4 DEF TransferInv, BodyPhase, CrcPhase
<1>6. i.body \in Seq(Half) /\ Len(i.body) \in Nat
  BY ImageFacts
<1>7. sent' \in Nat /\ sent' <= Len(img'.body)
  BY <1>1, <1>6
<1>8. QED
  BY <1>1, <1>3, <1>5, <1>7, SendingStep

\* The header.
LEMMA SendHeaderStep ==
    ASSUME BaseInv, pc = "app", UNCHANGED bootOnly, SendHeader
    PROVE  BaseInv'
<1>1. /\ phase = "upd" /\ UP!HandleHeader(HeaderOf(img))
      /\ phase' = "body" /\ img' = img /\ sent' = sent
  BY SameHeader DEF SendHeader
<1>2. /\ UP!UpdInv /\ img \in Images /\ sent \in Nat /\ sent <= Len(img.body)
      /\ sent = 0 /\ stored = <<>> /\ intact
  BY <1>1 DEF BaseInv, CycleTypeOK, TransferInv
<1>3. PICK h : h = HeaderOf(img)
  OBVIOUS
<1>4. h \in Seq(Half) /\ h \in Seq(UP!Half) /\ UP!HandleHeader(h)
  BY <1>1, <1>2, <1>3, HeaderFacts DEF UP!Half, Half
<1>5. UP!UpdInv'
  BY <1>2, <1>4, UpdAssumed, UP!HeaderStep
<1>6. job' = "header" => UP!HeaderProgress(h)'
  BY <1>4, UpdAssumed, UP!HeaderStarts
<1>7. HeaderOf(img)' = h
  BY <1>1, <1>3, SameImage
<1>8. job' = "header" => UP!HeaderProgress(HeaderOf(img))'
  BY <1>6, <1>7 DEF UP!HeaderProgress
<1>9. /\ stored' = <<>> /\ intact'
      /\ job' = "header" \/ (job' = "idle" /\ reply' = "nack")
  BY <1>2, <1>4 DEF UP!HandleHeader, UP!Start, UP!Refuse, UP!Answer
<1>10. TransferInv'
  BY <1>1, <1>2, <1>8, <1>9 DEF TransferInv, BodyPhase, CrcPhase, Answered
<1>11. QED
  BY <1>1, <1>2, <1>5, <1>10, SendingStep

\* A chunk.
LEMMA SendChunkStep ==
    ASSUME BaseInv, pc = "app", UNCHANGED bootOnly, NEW rest \in Stale, SendChunk(rest)
    PROVE  BaseInv'
<1>1. /\ phase = "body" /\ Answered("ack") /\ sent < Len(img.body)
      /\ UP!HandleChunk(NextChunk, rest)
      /\ sent' = sent + Len(NextChunk) /\ phase' = phase /\ img' = img
  BY SameChunk DEF SendChunk
<1>2. /\ UP!UpdInv /\ CycleTypeOK /\ img \in Images /\ sent \in Nat
      /\ intact /\ HeaderStaged /\ Received(stored, sent)
  BY <1>1 DEF BaseInv, CycleTypeOK, TransferInv, BodyPhase
<1>3. PICK c : c = NextChunk
  OBVIOUS
<1>4. /\ c \in Seq(Half) /\ c \in Seq(UP!Half) /\ Len(c) \in Nat
      /\ sent + Len(c) <= Len(img.body)
      /\ \A j \in 1..Len(c) : c[j] = img.body[sent + j]
  BY <1>1, <1>2, <1>3, ChunkFacts DEF UP!Half, Half
<1>5. rest \in UP!Half
  BY CycleAssumption DEF UP!Half, Half
<1>6. UP!UpdInv'
  BY <1>1, <1>2, <1>3, <1>4, <1>5, UpdAssumed, UP!ChunkStep
<1>7. /\ job' = "chunk" /\ chunk' = c /\ stored' = stored /\ intact' = intact
      /\ flash' = flash
  BY <1>1, <1>3 DEF UP!HandleChunk, UP!Start
<1>8. HeaderStaged'
  BY <1>1, <1>2, <1>7, SameImage DEF HeaderStaged, UP!HeaderThere
<1>9. Received(stored \o chunk, sent)'
  <2>1. stored \in Seq(Half) /\ Len(stored) = sent
    <3>1. stored \in Seq(UP!Half)
      BY <1>2 DEF UP!UpdInv, UP!TypeOK
    <3>2. UP!Half = Half
      BY DEF UP!Half, Half
    <3>3. QED
      BY <1>2, <3>1, <3>2 DEF Received
  <2>2. Len(stored \o c) = sent + Len(c)
    <3>1. c \in Seq(Half)
      BY <1>4
    <3>2. Len(stored \o c) = Len(stored) + Len(c)
      BY <2>1, <3>1
    <3>3. QED
      BY <2>1, <3>2
  <2>3. ASSUME NEW j \in 1..(sent + Len(c))
        PROVE  (stored \o c)[j] = img.body[j]
    <3>1. CASE j <= sent
      <4>1. j \in 1..sent
        BY <1>2, <1>4, <3>1
      <4>2. (stored \o c)[j] = stored[j]
        BY <1>4, <2>1, <4>1
      <4>3. QED
        BY <1>2, <4>1, <4>2 DEF Received
    <3>2. CASE j > sent
      <4>1. j - sent \in 1..Len(c) /\ sent + (j - sent) = j
        BY <1>2, <1>4, <3>2
      <4>2. (stored \o c)[j] = c[j - sent]
        BY <1>2, <1>4, <2>1, <3>2
      <4>3. QED
        BY <1>4, <4>1, <4>2
    <3>3. j <= sent \/ j > sent
      BY <1>2, <1>4
    <3>4. QED
      BY <3>1, <3>2, <3>3
  <2>4. QED
    BY <1>1, <1>3, <1>7, <2>2, <2>3 DEF Received
<1>10. TransferInv'
  BY <1>1, <1>2, <1>7, <1>8, <1>9 DEF TransferInv, BodyPhase, CrcPhase, Answered
<1>11. sent' \in Nat /\ sent' <= Len(img'.body)
  BY <1>1, <1>2, <1>3, <1>4
<1>12. QED
  BY <1>1, <1>2, <1>6, <1>10, <1>11, SendingStep

\* "crc".
LEMMA SendCrcStep ==
    ASSUME BaseInv, pc = "app", UNCHANGED bootOnly, NEW w \in CrcWords, SendCrc(w)
    PROVE  BaseInv'
<1>1. /\ phase = "body" /\ Answered("ack") /\ sent = Len(img.body)
      /\ UP!HandleCrc(w)
      /\ phase' = "crc" /\ img' = img /\ sent' = sent
  BY SameCrc DEF SendCrc
<1>2. /\ UP!UpdInv /\ img \in Images /\ sent \in Nat /\ sent <= Len(img.body)
      /\ intact /\ HeaderStaged /\ Received(stored, sent)
  BY <1>1 DEF BaseInv, CycleTypeOK, TransferInv, BodyPhase
<1>3. w \in UP!Half \X UP!Half
  BY CycleAssumption DEF UP!Half, Half
<1>4. UP!UpdInv'
  BY <1>1, <1>2, <1>3, UpdAssumed, UP!CrcStep
<1>5. /\ job' \in {"crc", "fault"} /\ stored' = stored /\ intact' = intact
      /\ flash' = flash
  BY <1>1 DEF UP!HandleCrc, UP!Start
<1>6. HeaderStaged' /\ Received(stored, sent)'
  BY <1>1, <1>2, <1>5, SameImage DEF HeaderStaged, UP!HeaderThere, Received
<1>7. TransferInv'
  BY <1>1, <1>2, <1>5, <1>6 DEF TransferInv, BodyPhase, CrcPhase
<1>8. QED
  BY <1>1, <1>2, <1>4, <1>7, SendingStep

\* "del".
LEMMA SendDelStep ==
    ASSUME BaseInv, pc = "app", UNCHANGED bootOnly, SendDel
    PROVE  BaseInv'
<1>1. /\ phase \in {"body", "crc"} /\ UP!HandleDel
      /\ phase' = "del" /\ img' = img /\ sent' = sent
  BY SameDel DEF SendDel
<1>2. UP!UpdInv /\ img \in Images /\ sent \in Nat /\ sent <= Len(img.body)
  BY DEF BaseInv, CycleTypeOK
<1>3. UP!UpdInv'
  BY <1>1, <1>2, UpdAssumed, UP!DelStep
<1>4. TransferInv'
  BY <1>1 DEF TransferInv, BodyPhase, CrcPhase
<1>5. QED
  BY <1>1, <1>2, <1>3, <1>4, SendingStep

\* The updater works only on a packet it was sent.
LEMMA WorkPhase ==
    ASSUME BaseInv, job \in {"header", "chunk", "crc", "del"}
    PROVE  /\ phase \in {"body", "crc", "del"}
           /\ phase = "body" => job \in {"header", "chunk"}
           /\ phase = "crc" => job = "crc"
<1>1. phase \notin Ended
  BY DEF BaseInv, UP!RamInit, UP!PoweredUp
<1>2. phase # "upd"
  BY DEF BaseInv, TransferInv
<1>3. QED
  BY <1>1, <1>2 DEF BaseInv, CycleTypeOK, TransferInv, BodyPhase, CrcPhase

\* The last operation of a packet.
LEMMA DoneCycleStep ==
    ASSUME BaseInv, pc = "app", UNCHANGED <<bootOnly, pcVars>>, UP!Done
    PROVE  BaseInv'
<1>1. /\ job \in {"header", "chunk", "crc", "del"} /\ todo = <<>>
      /\ job' = "idle" /\ flash' = flash /\ intact' = intact
      /\ stored' = IF job = "chunk" THEN stored \o chunk ELSE stored
      /\ phase' = phase /\ img' = img /\ sent' = sent
  BY DEF UP!Done, UP!Answer, pcVars
<1>2. UP!UpdInv /\ img \in Images /\ sent \in Nat /\ sent <= Len(img.body)
  BY DEF BaseInv, CycleTypeOK
<1>3. UP!UpdInv'
  BY <1>2, UpdAssumed, UP!DoneStep
<1>4. TransferInv'
  <2>1. CASE phase = "body"
    <3>1. intact /\ job \in {"header", "chunk"}
      BY <1>1, <2>1, WorkPhase DEF BaseInv, TransferInv, BodyPhase
    <3>2. CASE job = "header"
      <4>1. sent = 0 /\ stored = <<>> /\ UP!HeaderProgress(HeaderOf(img))
        BY <2>1, <3>2 DEF BaseInv, TransferInv, BodyPhase
      <4>2. HeaderStaged
        BY <1>1, <4>1, UpdAssumed, UP!HeaderComplete DEF HeaderStaged
      <4>3. HeaderStaged'
        BY <1>1, <4>2, SameImage DEF HeaderStaged, UP!HeaderThere
      <4>4. Received(stored, sent)'
        BY <1>1, <3>2, <4>1 DEF Received
      <4>5. QED
        BY <1>1, <2>1, <3>1, <4>3, <4>4 DEF TransferInv, BodyPhase, CrcPhase
    <3>3. CASE job = "chunk"
      <4>1. HeaderStaged /\ Received(stored \o chunk, sent)
        BY <2>1, <3>3 DEF BaseInv, TransferInv, BodyPhase
      <4>2. HeaderStaged'
        BY <1>1, <4>1, SameImage DEF HeaderStaged, UP!HeaderThere
      <4>3. Received(stored, sent)'
        BY <1>1, <3>3, <4>1 DEF Received
      <4>4. QED
        BY <1>1, <2>1, <3>1, <4>2, <4>3 DEF TransferInv, BodyPhase, CrcPhase
    <3>4. QED
      BY <3>1, <3>2, <3>3
  <2>2. CASE phase = "crc"
    <3>1. /\ intact /\ sent = Len(img.body) /\ job = "crc"
          /\ HeaderStaged /\ Received(stored, sent)
      BY <1>1, <2>2, WorkPhase DEF BaseInv, TransferInv, CrcPhase
    <3>2. HeaderStaged' /\ Received(stored, sent)'
      BY <1>1, <3>1, SameImage DEF HeaderStaged, UP!HeaderThere, Received
    <3>3. QED
      BY <1>1, <2>2, <3>1, <3>2 DEF TransferInv, BodyPhase, CrcPhase
  <2>3. CASE phase = "del"
    BY <1>1, <2>3 DEF TransferInv, BodyPhase, CrcPhase
  <2>4. QED
    BY <1>1, <2>1, <2>2, <2>3, WorkPhase
<1>5. phase' \in {"upd", "body", "crc", "del"}
  BY <1>1, WorkPhase
<1>6. QED
  BY <1>1, <1>2, <1>3, <1>4, <1>5, SendingStep DEF pcVars

\* One half-word of a packet.
LEMMA WriteCycleStep ==
    ASSUME BaseInv, pc = "app", UNCHANGED <<bootOnly, pcVars>>,
           NEW st \in UP!Status, UP!WriteNext(st)
    PROVE  BaseInv'
<1>1. /\ job \in {"header", "chunk", "crc"}
      /\ stored' = stored /\ intact' = intact /\ chunk' = chunk
      /\ phase' = phase /\ img' = img /\ sent' = sent
      /\ \/ job' = job /\ reply' = reply
         \/ job' = "idle" /\ (job # "crc" => reply' = "nack")
         \/ job' = "fault"
  BY DEF UP!WriteNext, UP!Fails, UP!Answer, UP!Start, pcVars
<1>2. UP!UpdInv /\ img \in Images /\ sent \in Nat /\ sent <= Len(img.body)
  BY DEF BaseInv, CycleTypeOK
<1>3. UP!UpdInv'
  BY <1>2, UpdAssumed, UP!WriteStep
<1>4. PICK h : h = HeaderOf(img)
  OBVIOUS
<1>5. HeaderOf(img)' = h
  BY <1>1, <1>4, SameImage
<1>6. ASSUME HeaderStaged, job \in {"chunk", "crc"}
      PROVE  HeaderStaged'
  <2>1. UP!HeaderThere(h)
    BY <1>4, <1>6 DEF HeaderStaged
  <2>2. UP!HeaderThere(h)'
    BY <1>2, <1>6, <2>1, UpdAssumed, UP!HeaderStays
  <2>3. QED
    BY <1>5, <2>2 DEF HeaderStaged, UP!HeaderThere
<1>7. TransferInv'
  <2>1. CASE phase = "body" /\ job = "header"
    <3>1. intact /\ sent = 0 /\ stored = <<>> /\ UP!HeaderProgress(h)
      BY <1>4, <2>1 DEF BaseInv, TransferInv, BodyPhase
    <3>2. job' = "header" => UP!HeaderProgress(h)'
      BY <1>2, <2>1, <3>1, UpdAssumed, UP!HeaderGrows
    <3>3. job' = "header" => UP!HeaderProgress(HeaderOf(img))'
      BY <1>5, <3>2 DEF UP!HeaderProgress
    <3>4. QED
      BY <1>1, <2>1, <3>1, <3>3 DEF TransferInv, BodyPhase, CrcPhase, Answered
  <2>2. CASE phase = "body" /\ job = "chunk"
    <3>1. intact /\ HeaderStaged /\ Received(stored \o chunk, sent)
      BY <2>2 DEF BaseInv, TransferInv, BodyPhase
    <3>2. HeaderStaged' /\ Received(stored \o chunk, sent)'
      BY <1>1, <1>6, <2>2, <3>1 DEF Received
    <3>3. QED
      BY <1>1, <2>2, <3>1, <3>2 DEF TransferInv, BodyPhase, CrcPhase, Answered
  <2>3. CASE phase = "crc"
    <3>1. /\ intact /\ sent = Len(img.body) /\ job = "crc"
          /\ HeaderStaged /\ Received(stored, sent)
      BY <1>1, <2>3, WorkPhase DEF BaseInv, TransferInv, CrcPhase
    <3>2. HeaderStaged' /\ Received(stored, sent)'
      BY <1>1, <1>6, <3>1 DEF Received
    <3>3. QED
      BY <1>1, <2>3, <3>1, <3>2 DEF TransferInv, BodyPhase, CrcPhase
  <2>4. CASE phase = "del"
    BY <1>1, <2>4 DEF TransferInv, BodyPhase, CrcPhase
  <2>5. QED
    BY <1>1, <2>1, <2>2, <2>3, <2>4, WorkPhase
<1>8. phase' \in {"upd", "body", "crc", "del"}
  BY <1>1, WorkPhase
<1>9. QED
  BY <1>1, <1>2, <1>3, <1>7, <1>8, SendingStep DEF pcVars

\* One page of "del".
LEMMA EraseCycleStep ==
    ASSUME BaseInv, pc = "app", UNCHANGED <<bootOnly, pcVars>>,
           NEW st \in UP!Status, UP!EraseNext(st)
    PROVE  BaseInv'
<1>1. job = "del" /\ phase' = phase /\ img' = img /\ sent' = sent
  BY DEF UP!EraseNext, pcVars
<1>2. phase = "del"
  BY <1>1, WorkPhase
<1>3. UP!UpdInv /\ img \in Images /\ sent \in Nat /\ sent <= Len(img.body)
  BY DEF BaseInv, CycleTypeOK
<1>4. UP!UpdInv'
  BY <1>3, UpdAssumed, UP!EraseStep
<1>5. TransferInv'
  BY <1>1, <1>2 DEF TransferInv, BodyPhase, CrcPhase
<1>6. QED
  BY <1>1, <1>2, <1>3, <1>4, <1>5, SendingStep DEF pcVars

-----------------------------------------------------------------------------
(* The steps that end a transfer, and those between two of them.           *)

\* Between two transfers the updater's RAM is fresh, whatever the flash holds.
LEMMA EndedStep ==
    ASSUME BaseInv, TypeInv', phase' \in Ended, UP!RamInit',
           img' = img, sent' = sent
    PROVE  BaseInv'
<1>1. UP!FlashTypeOK'
  BY SameFlash DEF TypeInv, TypeOK
<1>2. UP!UpdInv'
  BY <1>1, UpdAssumed, UP!RamFreshNext
<1>3. TransferInv'
  BY DEF Ended, TransferInv, BodyPhase, CrcPhase
<1>4. CycleTypeOK'
  BY DEF BaseInv, CycleTypeOK
<1>5. QED
  BY <1>2, <1>3, <1>4 DEF BaseInv

(***************************************************************************)
(* At the "reb" of a completed transfer the header and the whole core are  *)
(* where the bootloader will find them.                                    *)
(***************************************************************************)
LEMMA Delivered ==
    ASSUME AllFit, BaseInv, intact, HeaderStaged, Received(stored, Len(img.body)),
           Restart, committed' = CoreOf(img)
    PROVE  TypeInv' /\ InstallInv'
<1> DEFINE n == CoreHalves(ImageSize(img))
           core == CoreOf(img)
<1>1. /\ img \in Images /\ img.ver \in MagicHi /\ img.body \in Seq(Half)
      /\ Len(img.body) \in Nat /\ ImageSize(img) \in Nat /\ n \in Nat
      /\ n <= Len(img.body) /\ CurAddr + n <= NewAddr
  BY ImageFacts DEF BaseInv, CycleTypeOK, InFlash
<1>2. /\ flash \in Contents /\ flash' = flash /\ sr' = "ok" /\ locked' = TRUE
      /\ pc' = "main" /\ k' = 0 /\ new_core_size' = 0 /\ errno' = "none"
      /\ launched' = {} /\ committed' = core
  BY DEF Restart, FlashReset, BaseInv, CycleTypeOK, TypeInv, TypeOK, FlashTypeOK
<1>3. /\ core \in Seq(Half) /\ Len(core) = n
      /\ \A j \in 1..n : core[j] = img.body[j]
  <2>1. core = SubSeq(img.body, 0 + 1, n)
    BY DEF CoreOf
  <2>2. 0 \in Nat /\ 0 <= n /\ n - 0 = n
    BY <1>1
  <2>3. /\ core \in Seq(Half) /\ Len(core) = n - 0
        /\ \A j \in 1..(n - 0) : core[j] = img.body[0 + j]
    BY <1>1, <2>1, <2>2, PartFacts
  <2>4. \A j \in 1..n : 0 + j = j
    OBVIOUS
  <2>5. QED
    BY <2>2, <2>3, <2>4
<1> HIDE DEF n, core
<1>4. \A j \in 1..HeaderHalves : flash[NewAddr + j - 1] = ImageHalf(img, j - 1)
  BY <1>1, HeaderFacts DEF HeaderStaged, UP!HeaderThere
<1>5. HeaderHalves \in Nat /\ HeaderHalves >= 4 /\ NewAddr \in Nat /\ CurAddr \in Nat
  BY FlashAssumption
<1>6. HeaderValid(flash)
  <2>1. /\ flash[NewAddr + 1 - 1] = ImageHalf(img, 1 - 1)
        /\ flash[NewAddr + 2 - 1] = ImageHalf(img, 2 - 1)
    <3>1. 1 \in 1..HeaderHalves /\ 2 \in 1..HeaderHalves
      BY <1>5
    <3>2. QED
      BY <1>4, <3>1, Zenon
  <2>2. NewAddr + 1 - 1 = NewAddr /\ NewAddr + 2 - 1 = NewAddr + 1
    BY <1>5
  <2>3. ImageHalf(img, 1 - 1) = MagicLo /\ ImageHalf(img, 2 - 1) = img.ver
    BY <1>5 DEF ImageHalf
  <2>4. QED
    BY <1>1, <2>1, <2>2, <2>3 DEF HeaderValid
<1>7. HeaderSize(flash) = ImageSize(img)
  <2>1. /\ flash[NewAddr + (HeaderHalves - 1) - 1] = ImageHalf(img, (HeaderHalves - 1) - 1)
        /\ flash[NewAddr + HeaderHalves - 1] = ImageHalf(img, HeaderHalves - 1)
    <3>1. HeaderHalves - 1 \in 1..HeaderHalves /\ HeaderHalves \in 1..HeaderHalves
      BY <1>5
    <3>2. QED
      BY <1>4, <3>1, Zenon
  <2>2. /\ NewAddr + (HeaderHalves - 1) - 1 = NewAddr + HeaderHalves - 2
        /\ (HeaderHalves - 1) - 1 = HeaderHalves - 2
    BY <1>5
  <2>3. /\ ImageHalf(img, HeaderHalves - 2) = img.lo
        /\ ImageHalf(img, HeaderHalves - 1) = img.hi
    BY <1>5 DEF ImageHalf
  <2>4. QED
    BY <2>1, <2>2, <2>3 DEF HeaderSize, ImageSize
<1>8. Holds(flash, NewAddr + HeaderHalves, core)
  <2>1. UP!Holds(flash, UP!BodyAddr, stored)
    BY DEF BaseInv, UP!UpdInv, UP!AckedStored
  <2>2. Len(stored) = Len(img.body) /\ \A j \in 1..Len(img.body) : stored[j] = img.body[j]
    BY DEF Received
  <2>3. ASSUME NEW j \in 1..n
        PROVE  flash[NewAddr + HeaderHalves + j - 1] = core[j]
    <3>1. j \in 1..Len(img.body)
      BY <1>1
    <3>2. flash[NewAddr + HeaderHalves + j - 1] = stored[j]
      BY <2>1, <2>2, <3>1 DEF UP!Holds, UP!BodyAddr
    <3>3. QED
      BY <1>3, <2>2, <3>1, <3>2
  <2>4. QED
    BY <1>3, <2>3 DEF Holds
<1>9. TypeOK'
  BY <1>2, <1>3 DEF TypeOK, FlashTypeOK, PC, Cores
<1>10. CurAddr + Len(committed') <= NewAddr
  BY <1>1, <1>2, <1>3
<1>11. CoreSafe'
  BY <1>2, <1>6, <1>8 DEF CoreSafe
<1>12. HeaderFits'
  <2>1. Fits(img)
    BY <1>1 DEF AllFit
  <2>2. Len(committed') = CoreHalves(HeaderSize(flash'))
    BY <1>2, <1>3, <1>7 DEF n
  <2>3. QED
    BY <1>2, <1>7, <2>1, <2>2 DEF HeaderFits, Fits, FlashEnd
<1>13. HeaderKept' /\ EraseProgress' /\ CopyProgress' /\ EraseAfterCopy'
  BY <1>2 DEF HeaderKept, EraseProgress, CopyProgress, EraseAfterCopy
<1>14. JumpInv' /\ ErrnoClean'
  BY <1>2 DEF JumpInv, ErrnoClean
<1>15. QED
  BY <1>9, <1>10, <1>11, <1>12, <1>13, <1>14 DEF TypeInv, InstallInv, BootInv

\* "reb".
LEMMA SendRebStep ==
    ASSUME BaseInv, SendReb, TypeInv'
    PROVE  BaseInv'
<1>1. UP!RamInit' /\ img' = img /\ sent' = sent /\ phase' \in Ended
  BY SameRam DEF SendReb, Upd!Reboot, Ended
<1>2. QED
  BY <1>1, EndedStep

\* "reb" keeps the types: the core delivered is one.
LEMMA SendRebType ==
    ASSUME BaseInv, SendReb
    PROVE  TypeInv'
<1>1. Restart
  BY DEF SendReb
<1>2. TypeInv /\ img \in Images
  BY DEF BaseInv, CycleTypeOK
<1>3. committed' \in Cores /\ CurAddr + Len(committed') <= NewAddr
  <2>1. CASE committed' = committed
    BY <1>2, <2>1 DEF TypeInv, TypeOK
  <2>2. CASE committed' = CoreOf(img)
    <3> DEFINE n == CoreHalves(ImageSize(img))
    <3>1. /\ img.body \in Seq(Half) /\ n \in Nat /\ n <= Len(img.body)
          /\ Len(img.body) \in Nat /\ CurAddr + n <= NewAddr
      BY <1>2, ImageFacts DEF InFlash
    <3>2. CoreOf(img) = SubSeq(img.body, 0 + 1, n)
      BY DEF CoreOf
    <3> HIDE DEF n
    <3>3. 0 \in Nat /\ 0 <= n /\ n - 0 = n
      BY <3>1
    <3>4. CoreOf(img) \in Seq(Half) /\ Len(CoreOf(img)) = n
      BY <3>1, <3>2, <3>3, PartFacts
    <3>5. QED
      BY <2>2, <3>1, <3>4 DEF Cores
  <2>3. QED
    BY <2>1, <2>2 DEF SendReb
<1>4. QED
  BY <1>1, <1>2, <1>3 DEF TypeInv, TypeOK, FlashTypeOK, Restart, FlashReset, PC

-----------------------------------------------------------------------------
(* The invariants.                                                         *)

\* The device leaves the factory with its first core delivered.
LEMMA BaseStart == CycleInit => BaseInv
<1> SUFFICES ASSUME CycleInit PROVE BaseInv
  OBVIOUS
<1>1. /\ Init /\ UP!RamInit /\ phase = "done" /\ img \in Images /\ sent = 0
  BY SameRam DEF CycleInit
<1>2. TypeInv
  BY <1>1, TypeInit
<1>3. UP!UpdInv
  BY <1>1, <1>2, SameFlash, UpdAssumed, UP!RamFresh DEF TypeInv, TypeOK
<1>4. Len(img.body) \in Nat
  BY <1>1, ImageFacts
<1>5. CycleTypeOK
  BY <1>1, <1>2, <1>4 DEF CycleTypeOK, Ended
<1>6. QED
  BY <1>1, <1>2, <1>3, <1>5 DEF BaseInv, TransferInv, BodyPhase, CrcPhase, Ended

\* What the bootloader needs is there too.
LEMMA CycleStart == ASSUME AllFit PROVE CycleInit => CycleInv
<1>1. CycleInit => InstallInv
  BY BootInit, JumpInit DEF CycleInit, InstallInv
<1>2. QED
  BY <1>1, BaseStart DEF CycleInv

\* Boot runs only below the application, so never during a transfer.
LEMMA BootIsNoTransfer ==
    ASSUME BaseInv, Boot
    PROVE  phase \in Ended /\ pc # "app"
<1>1. pc # "app"
  BY DEF Boot, ReadHeader, EraseCur, EraseCurUpTo, Copy, EraseNew, EraseNewPage,
         CopyDone, CopyUpTo, EraseDone, Leave, LeaveOn
<1>2. QED
  BY <1>1 DEF BaseInv

\* Every step of the PC, the updater and the bootloader keeps the first invariant.
LEMMA BaseStep == BaseInv /\ [CycleNext]_cycleVars => BaseInv'
<1> SUFFICES ASSUME BaseInv, [CycleNext]_cycleVars PROVE BaseInv'
  OBVIOUS
<1>0. ASSUME [Next]_vars PROVE TypeInv'
  BY <1>0, TypeStep DEF BaseInv, CycleTypeOK
<1>1. CASE BootOnly
  <2>1. Boot /\ phase \in Ended /\ UNCHANGED <<updVars, pcVars>>
    BY <1>1, BootIsNoTransfer DEF BootOnly
  <2>2. UP!RamInit'
    BY <2>1 DEF BaseInv, UP!RamInit, UP!PoweredUp, UP!BodyAddr, updVars
  <2>3. QED
    BY <1>0, <2>1, <2>2, EndedStep DEF Next, pcVars
<1>2. CASE Crash
  <2>1. /\ Reset /\ UP!RamInit' /\ img' = img /\ sent' = sent
        /\ phase' = IF phase = "done" THEN "done" ELSE "abandoned"
    BY <1>2, SameRam DEF Crash
  <2>2. phase' \in Ended
    BY <2>1 DEF Ended
  <2>3. QED
    BY <1>0, <2>1, <2>2, EndedStep DEF Next
<1>3. CASE Transfer
  <2>1. CASE SendReb
    BY <2>1, SendRebStep, SendRebType
  <2>2. ASSUME Upd!Work, UNCHANGED <<bootOnly, pcVars>> PROVE BaseInv'
    <3>1. pc = "app"
      BY <1>3 DEF Transfer
    <3>2. ASSUME NEW st \in Upd!Status
          PROVE  st \in UP!Status
      BY DEF Upd!Status, UP!Status
    <3>3. UP!Done \/ \E st \in UP!Status : UP!WriteNext(st) \/ UP!EraseNext(st)
      BY <2>2, <3>2, SameDone, SameWrite, SameErase DEF Upd!Work
    <3>4. QED
      BY <2>2, <3>1, <3>3, DoneCycleStep, WriteCycleStep, EraseCycleStep
  <2>3. QED
    BY <1>3, <2>1, <2>2, SendUpdStep, SendHeaderStep, SendChunkStep, SendCrcStep,
       SendDelStep DEF Transfer
<1>4. CASE UNCHANGED cycleVars
  <2>1. UNCHANGED vars /\ UNCHANGED updVars /\ UNCHANGED pcVars
    BY <1>4 DEF cycleVars
  <2>2. CASE phase \in Ended
    <3>1. UP!RamInit'
      BY <2>1, <2>2 DEF BaseInv, UP!RamInit, UP!PoweredUp, UP!BodyAddr, updVars
    <3>2. QED
      BY <1>0, <2>1, <2>2, <3>1, EndedStep DEF pcVars
  <2>3. CASE phase \notin Ended
    <3>1. UP!UpdInv'
      BY <2>1, UpdAssumed, UP!UpdStutter
         DEF BaseInv, UP!vars, UP!updVars, updVars, vars
    <3>2. TransferInv'
      BY <2>1, SameImage
         DEF BaseInv, TransferInv, BodyPhase, CrcPhase, HeaderStaged, Received,
             Answered, UP!HeaderThere, UP!HeaderProgress, UP!HeaderWritten,
             vars, updVars, pcVars
    <3>3. UNCHANGED bootOnly /\ pc = "app" /\ img' = img /\ sent' = sent /\ phase' = phase
      BY <2>1, <2>3 DEF BaseInv, bootOnly, vars, pcVars
    <3>4. /\ phase \in {"upd", "body", "crc", "del"} /\ img \in Images
          /\ sent \in Nat /\ sent <= Len(img.body)
      BY <2>3 DEF BaseInv, CycleTypeOK
    <3>5. QED
      BY <3>1, <3>2, <3>3, <3>4, SendingStep
  <2>4. QED
    BY <2>2, <2>3
<1>5. QED
  BY <1>1, <1>2, <1>3, <1>4 DEF CycleNext

(***************************************************************************)
(* The packet that ends a completed transfer.  Nothing else makes it done: *)
(* between two transfers the updater has no work.                          *)
(***************************************************************************)
LEMMA BecomesDone ==
    ASSUME BaseInv, Transfer, phase' = "done"
    PROVE  SendReb /\ phase \in {"body", "crc"} /\ Answered("ack")
           /\ sent = Len(img.body) /\ committed' = CoreOf(img)
<1>1. ASSUME Upd!Work, UNCHANGED <<bootOnly, pcVars>> PROVE FALSE
  <2>1. phase = "done"
    BY <1>1 DEF pcVars
  <2>2. UP!RamInit
    BY <2>1 DEF BaseInv, Ended
  <2>3. job = "idle"
    BY <2>2 DEF UP!RamInit, UP!PoweredUp
  <2>4. QED
    BY <1>1, <2>3 DEF Upd!Work, Upd!Done, Upd!WriteNext, Upd!EraseNext
<1>2. SendReb
  BY <1>1 DEF Transfer, SendUpd, SendHeader, SendChunk, SendCrc, SendDel
<1>3. QED
  BY <1>2 DEF SendReb

\* A completed transfer leaves what an installation needs, and nothing takes it.
LEMMA InstallStep ==
    ASSUME AllFit, LoopStart = {0}
    PROVE  CycleInv /\ [CycleNext]_cycleVars => (phase' = "done" => InstallInv')
<1> SUFFICES ASSUME CycleInv, [CycleNext]_cycleVars, phase' = "done"
             PROVE  InstallInv'
  OBVIOUS
<1>1. ASSUME phase = "done", [Next]_vars PROVE InstallInv'
  <2>1. InstallInv
    BY <1>1 DEF CycleInv
  <2>2. QED
    BY <1>1, <2>1, BootStep, JumpStep DEF InstallInv
<1>2. CASE BootOnly
  BY <1>1, <1>2 DEF BootOnly, Next, pcVars
<1>3. CASE Crash
  BY <1>1, <1>3 DEF Crash, Next
<1>4. CASE Transfer
  <2>1. /\ SendReb /\ phase \in {"body", "crc"} /\ Answered("ack")
        /\ sent = Len(img.body) /\ committed' = CoreOf(img)
    BY <1>4, BecomesDone DEF CycleInv
  <2>2. intact /\ HeaderStaged /\ Received(stored, Len(img.body))
    BY <2>1 DEF CycleInv, BaseInv, TransferInv, BodyPhase, CrcPhase
  <2>3. Restart
    BY <2>1 DEF SendReb
  <2>4. QED
    BY <2>1, <2>2, <2>3, Delivered DEF CycleInv
<1>5. CASE UNCHANGED cycleVars
  BY <1>1, <1>5 DEF cycleVars, pcVars
<1>6. QED
  BY <1>2, <1>3, <1>4, <1>5 DEF CycleNext

\* Both invariants survive every step.
LEMMA CycleStep ==
    ASSUME AllFit, LoopStart = {0}
    PROVE  CycleInv /\ [CycleNext]_cycleVars => CycleInv'
BY BaseStep, InstallStep DEF CycleInv

-----------------------------------------------------------------------------
(* The core that is started.                                               *)

(***************************************************************************)
(* End to end: from the "reb" of a completed transfer on, and until the    *)
(* next "upd", whatever the bootloader starts is the core that was sent,   *)
(* whatever transfers were abandoned before and wherever power fails.      *)
(***************************************************************************)
THEOREM DeliveredCoreRuns ==
    ASSUME AllFit, LoopStart = {0} PROVE CycleSpec => CompletedRuns
<1>1. CycleInit => CycleInv
  BY CycleStart
<1>2. CycleInv /\ [CycleNext]_cycleVars => CycleInv'
  BY CycleStep
<1>3. CycleInv /\ [CycleNext]_cycleVars =>
        [phase = "done" => launched' \in {launched, {}, {committed}}]_cycleVars
  <2> SUFFICES ASSUME CycleInv, CycleNext, phase = "done"
               PROVE  launched' \in {launched, {}, {committed}}
    OBVIOUS
  <2>1. BootInv /\ JumpInv
    BY DEF CycleInv, InstallInv
  <2>2. CASE BootOnly
    BY <2>1, <2>2, LaunchStep DEF BootOnly, Next
  <2>3. CASE Crash
    BY <2>3 DEF Crash, Reset, Restart
  <2>4. CASE Transfer
    BY <2>4 DEF Transfer, SendReb, Restart, bootOnly
  <2>5. QED
    BY <2>2, <2>3, <2>4 DEF CycleNext
<1>4. QED
  BY <1>1, <1>2, <1>3, PTL DEF CycleSpec, CompletedRuns

-----------------------------------------------------------------------------
(* After a completed transfer, and with a working flash, the device boots. *)

\* The staged core is gone before the jump, and the jump does not bring it back.
JumpedOnce == pc \in {"leave", "app"} => ~HeaderValid(flash)

BootsInv == phase = "done" => WorkingInv /\ InstalledOnce /\ JumpedOnce

\* Only the end of main enters the application.
LEMMA OnlyLeaveJumps ==
    ASSUME Boot, pc' = "app"
    PROVE  pc = "leave" /\ flash' = flash
<1>1. ASSUME NEW i0 \in LoopStart, ReadHeader(i0) PROVE FALSE
  BY <1>1 DEF ReadHeader
<1>2. ASSUME NEW st \in Status, EraseCur(st) PROVE FALSE
  BY <1>2 DEF EraseCur, EraseCurUpTo
<1>3. ASSUME NEW st \in Status, Copy(st) PROVE FALSE
  BY <1>3 DEF Copy
<1>4. ASSUME NEW st \in Status, EraseNew(st) PROVE FALSE
  BY <1>4 DEF EraseNew, EraseNewPage
<1>5. ~CopyDone /\ ~EraseDone
  BY DEF CopyDone, CopyUpTo, EraseDone
<1>6. QED
  BY <1>1, <1>2, <1>3, <1>4, <1>5 DEF Boot, Leave, LeaveOn

(***************************************************************************)
(* The installation of a delivered core neither fails nor is repeated:     *)
(* the step of BootsInv.                                                   *)
(***************************************************************************)
LEMMA BootsStep ==
    ASSUME AllFit, Faults = FALSE, LoopStart = {0}
    PROVE  CycleInv /\ BootsInv /\ [CycleNext]_cycleVars => BootsInv'
<1> SUFFICES ASSUME CycleInv, BootsInv, [CycleNext]_cycleVars, phase' = "done"
             PROVE  WorkingInv' /\ InstalledOnce' /\ JumpedOnce'
  BY DEF BootsInv
<1>1. ASSUME phase = "done", [Next]_vars
      PROVE  WorkingInv' /\ InstalledOnce'
  <2>1. BootInv /\ WorkingInv /\ InstalledOnce
    BY <1>1 DEF CycleInv, InstallInv, BootsInv
  <2>2. WorkingInv'
    BY <1>1, <2>1, WorkingStep
  <2>3. QED
    BY <1>1, <2>1, <2>2, InstalledStep
<1>2. ASSUME Restart
      PROVE  WorkingInv' /\ InstalledOnce' /\ JumpedOnce'
  BY <1>2 DEF Restart, FlashReset, WorkingInv, NeverBricked, InstalledOnce,
              JumpedOnce
<1>3. CASE BootOnly
  <2>1. Boot /\ phase = "done" /\ [Next]_vars
    BY <1>3 DEF BootOnly, Next, pcVars
  <2>2. WorkingInv' /\ InstalledOnce'
    BY <1>1, <2>1
  <2>3. CASE pc' = "app"
    <3>1. pc = "leave" /\ flash' = flash
      BY <2>1, <2>3, OnlyLeaveJumps
    <3>2. ~HeaderValid(flash)
      BY <2>1, <3>1 DEF BootsInv, JumpedOnce
    <3>3. QED
      BY <2>2, <3>1, <3>2 DEF JumpedOnce, HeaderValid
  <2>4. CASE pc' # "app"
    BY <2>2, <2>4 DEF JumpedOnce, InstalledOnce, WorkingInv
  <2>5. QED
    BY <2>3, <2>4
<1>4. CASE Crash
  BY <1>2, <1>4 DEF Crash, Reset
<1>5. CASE Transfer
  <2>1. SendReb
    BY <1>5, BecomesDone DEF CycleInv
  <2>2. QED
    BY <1>2, <2>1 DEF SendReb
<1>6. CASE UNCHANGED cycleVars
  <2>1. UNCHANGED <<flash, sr, pc, errno, phase>>
    BY <1>6 DEF cycleVars, vars, pcVars
  <2>2. QED
    BY <2>1 DEF BootsInv, WorkingInv, NeverBricked, InstalledOnce, JumpedOnce,
                HeaderValid
<1>7. QED
  BY <1>3, <1>4, <1>5, <1>6 DEF CycleNext

(***************************************************************************)
(* The reason the comment "This means that all done" at "reb" is right:    *)
(* with a working flash a completed transfer ends in a running core, never *)
(* in main's error loop or a fault, and its installation is not repeated.  *)
(***************************************************************************)
THEOREM DeliveredCoreBoots ==
    ASSUME AllFit, Faults = FALSE, LoopStart = {0}
    PROVE  CycleSpec => []CompletedBoots
<1> DEFINE Inv == CycleInv /\ BootsInv
<1>1. CycleInit => Inv
  <2>1. CycleInit => BootsInv
    BY DEF CycleInit, Init, BootsInv, WorkingInv, NeverBricked, InstalledOnce,
           JumpedOnce
  <2>2. QED
    BY <2>1, CycleStart
<1>2. Inv /\ [CycleNext]_cycleVars => Inv'
  BY CycleStep, BootsStep
<1>3. Inv => CompletedBoots
  BY DEF BootsInv, CompletedBoots, WorkingInv, JumpedOnce
<1>4. QED
  BY <1>1, <1>2, <1>3, PTL DEF CycleSpec

-----------------------------------------------------------------------------
(* The refinement.                                                         *)

\* What the bootloader starts is a core, delivered or not.
LEMMA StartsACore ==
    ASSUME TypeInv', Leave, pc' = "app"
    PROVE  launched' = {Area(flash, CurAddr, Len(committed))}
           /\ Area(flash, CurAddr, Len(committed)) \in Cores
<1>1. launched' = {Area(flash, CurAddr, Len(committed))}
  BY DEF Leave, LeaveOn
<1>2. launched' \subseteq Cores
  BY DEF TypeInv, TypeOK
<1>3. QED
  BY <1>1, <1>2

\* The bootloader's steps but for its jump are invisible.
LEMMA BootDelivers ==
    ASSUME CycleInv, TypeInv', LaunchInv, BootOnly
    PROVE  [Promise!Next]_(Promise!vars)
<1>1. Boot /\ phase' = phase
  BY DEF BootOnly, pcVars
<1>2. ASSUME Leave, pc' = "app" PROVE Promise!Start
  <2> DEFINE c == Area(flash, CurAddr, Len(committed))
  <2>1. launched' = {c} /\ c \in Cores
    BY <1>2, StartsACore
  <2>2. pc = "leave" /\ errno \notin {"erase", "write"} /\ committed' = committed
    BY <1>2 DEF Leave, LeaveOn
  <2>3. launched = {}
    BY <2>2 DEF LaunchInv
  <2>4. ASSUME phase = "done" PROVE c = committed
    <3>1. BootInv /\ JumpInv /\ errno = "none"
      BY <2>2, <2>4 DEF CycleInv, InstallInv, BootInv, TypeOK
    <3>2. launched' = {committed}
      BY <1>2, <3>1, LeaveRuns
    <3>3. QED
      BY <2>1, <3>2
  <2>5. QED
    BY <1>1, <2>1, <2>2, <2>3, <2>4 DEF Promise!Start
<1>3. ASSUME ~(Leave /\ pc' = "app") PROVE UNCHANGED <<committed, launched>>
  BY <1>1, <1>3 DEF Boot, ReadHeader, EraseCur, EraseCurUpTo, Copy, EraseNew,
                    EraseNewPage, CopyDone, CopyUpTo, EraseDone, Leave, LeaveOn
<1>4. QED
  BY <1>1, <1>2, <1>3 DEF Promise!Next, Promise!vars

\* A transfer begins while a core runs, and its completion stops that core.
LEMMA TransferDelivers ==
    ASSUME CycleInv, TypeInv', LaunchInv, Transfer
    PROVE  [Promise!Next]_(Promise!vars)
<1>1. pc = "app" /\ launched # {}
  BY DEF Transfer, LaunchInv
<1>2. ASSUME NEW i \in Images, SendUpd(i), UNCHANGED bootOnly
      PROVE  Promise!Begin
  BY <1>1, <1>2 DEF SendUpd, bootOnly, Promise!Begin
<1>3. ASSUME UNCHANGED bootOnly, phase # "done", phase' # "done"
      PROVE  UNCHANGED Promise!vars
  BY <1>3 DEF bootOnly, Promise!vars
<1>4. ASSUME UNCHANGED <<bootOnly, pcVars>>
      PROVE  UNCHANGED Promise!vars
  BY <1>4 DEF bootOnly, pcVars, Promise!vars
<1>5. CASE SendReb
  <2>1. launched' = {} /\ committed' \in Cores /\ phase # "done"
    BY <1>5 DEF SendReb, Restart, TypeInv, TypeOK
  <2>2. \/ phase' = "done"
        \/ phase' = "abandoned" /\ committed' = committed
    BY <1>5 DEF SendReb
  <2>3. QED
    BY <1>1, <2>1, <2>2 DEF Promise!Next, Promise!Complete, Promise!Stop
<1>6. QED
  BY <1>2, <1>3, <1>4, <1>5
     DEF Transfer, SendHeader, SendChunk, SendCrc, SendDel, Promise!Next

\* The bootloader's record of what runs, in every step of the cycle.
LEMMA CycleLaunches == LaunchInv /\ [CycleNext]_cycleVars => LaunchInv'
<1> SUFFICES ASSUME LaunchInv, [CycleNext]_cycleVars PROVE LaunchInv'
  OBVIOUS
<1>1. CASE BootOnly
  BY <1>1, LaunchInvStep DEF BootOnly, Next
<1>2. CASE Crash
  BY <1>2 DEF Crash, Reset, Restart, LaunchInv
<1>3. CASE Transfer
  BY <1>3 DEF Transfer, SendReb, Restart, bootOnly, LaunchInv
<1>4. CASE UNCHANGED cycleVars
  BY <1>4 DEF cycleVars, vars, LaunchInv
<1>5. QED
  BY <1>1, <1>2, <1>3, <1>4 DEF CycleNext

(***************************************************************************)
(* PC, updater and bootloader together implement Delivery: every step of   *)
(* theirs is one of its four actions, or changes nothing it can see.       *)
(***************************************************************************)
THEOREM ImplementsDelivery ==
    ASSUME AllFit, LoopStart = {0} PROVE CycleSpec => DeliverySpec
<1> DEFINE Inv == CycleInv /\ LaunchInv
<1>1. CycleInit => Inv
  <2>1. CycleInit => LaunchInv
    BY DEF CycleInit, Init, LaunchInv
  <2>2. QED
    BY <2>1, CycleStart
<1>2. Inv /\ [CycleNext]_cycleVars => Inv'
  BY CycleStep, CycleLaunches
<1>3. CycleInit => Promise!Init
  <2>1. CycleInit => committed \in Cores
    BY BaseStart DEF BaseInv, CycleTypeOK, TypeInv, TypeOK
  <2>2. QED
    BY <2>1 DEF CycleInit, Init, Promise!Init
<1>4. Inv /\ Inv' /\ [CycleNext]_cycleVars => [Promise!Next]_(Promise!vars)
  <2> SUFFICES ASSUME Inv, Inv', [CycleNext]_cycleVars
               PROVE  [Promise!Next]_(Promise!vars)
    OBVIOUS
  <2>1. TypeInv'
    BY DEF CycleInv, BaseInv, CycleTypeOK
  <2>2. CASE BootOnly
    BY <2>1, <2>2, BootDelivers
  <2>3. CASE Transfer
    BY <2>1, <2>3, TransferDelivers
  <2>4. CASE Crash
    <3>1. launched' = {} /\ committed' = committed
      BY <2>4 DEF Crash, Reset, Restart
    <3>2. (phase' = "done") = (phase = "done")
      BY <2>4 DEF Crash
    <3>3. QED
      BY <3>1, <3>2 DEF Promise!Next, Promise!Stop
  <2>5. CASE UNCHANGED cycleVars
    BY <2>5 DEF cycleVars, vars, pcVars, Promise!vars
  <2>6. QED
    BY <2>2, <2>3, <2>4, <2>5 DEF CycleNext
<1>5. QED
  BY <1>1, <1>2, <1>3, <1>4, PTL DEF CycleSpec, DeliverySpec, Promise!Spec

-----------------------------------------------------------------------------
(* The core that runs is left alone.                                       *)

\* What runs lies below the staging area, and is what the flash holds there.
RunInv ==
    /\ UP!AboveInv
    /\ \A c \in launched : CurAddr + Len(c) <= NewAddr /\ Holds(flash, CurAddr, c)

\* The flash below the staging area, at a step that leaves it alone.
SameBelow == \A x \in Addr : x < NewAddr => flash'[x] = flash[x]

\* A core that runs goes on doing so as long as nothing below NewAddr changes.
LEMMA RunsOn ==
    ASSUME CycleTypeOK, RunInv, SameBelow, launched' = launched
    PROVE  \A c \in launched' : CurAddr + Len(c) <= NewAddr /\ Holds(flash', CurAddr, c)
<1> SUFFICES ASSUME NEW c \in launched
             PROVE  Holds(flash', CurAddr, c)
  BY DEF RunInv
<1>1. /\ c \in Seq(Half) /\ Len(c) \in Nat
      /\ CurAddr + Len(c) <= NewAddr /\ Holds(flash, CurAddr, c)
  BY DEF CycleTypeOK, TypeInv, TypeOK, Cores, RunInv
<1>2. \A x \in 1..Len(c) : CurAddr + x - 1 \in Addr /\ CurAddr + x - 1 < NewAddr
  BY <1>1, FlashAssumption DEF Addr, FlashEnd
<1>3. QED
  BY <1>1, <1>2 DEF Holds, SameBelow

\* The operations of the updater at work.
LEMMA WorkRuns ==
    ASSUME BaseInv, RunInv, Upd!Work, UNCHANGED <<bootOnly, pcVars>>
    PROVE  RunInv'
<1>1. UP!UpdInv /\ UP!AboveInv /\ CycleTypeOK /\ launched' = launched
  BY DEF BaseInv, RunInv, bootOnly
<1>2. UP!Status = Upd!Status /\ UP!Addr = Addr /\ "ERROR" \in UP!Status
  BY DEF Upd!Status, UP!Status, UP!Addr, Addr, UP!FlashEnd, FlashEnd
<1>3. CASE Upd!Done
  <2>1. UP!Done /\ flash' = flash
    BY <1>3, SameDone DEF Upd!Done
  <2>2. UP!AboveInv'
    BY <1>1, <1>2, <2>1, UpdAssumed, UP!AboveWork
  <2>3. SameBelow
    BY <2>1 DEF SameBelow
  <2>4. QED
    BY <1>1, <2>2, <2>3, RunsOn DEF RunInv
<1>4. ASSUME NEW st \in Upd!Status, Upd!WriteNext(st) \/ Upd!EraseNext(st)
      PROVE  RunInv'
  <2>1. st \in UP!Status /\ (UP!WriteNext(st) \/ UP!EraseNext(st))
    BY <1>2, <1>4, SameWrite, SameErase
  <2>2. UP!AboveInv'
    BY <1>1, <2>1, UpdAssumed, UP!AboveWork
  <2>3. \A x \in UP!Addr : x < NewAddr => flash'[x] = flash[x]
    BY <1>1, <2>1, UpdAssumed, UP!StagingOnly
  <2>4. SameBelow
    BY <1>2, <2>3 DEF SameBelow
  <2>5. QED
    BY <1>1, <2>2, <2>4, RunsOn DEF RunInv
<1>5. QED
  BY <1>3, <1>4 DEF Upd!Work

\* The packets, which only say what is to be done.
LEMMA PacketRuns ==
    ASSUME BaseInv, RunInv, UNCHANGED bootOnly,
           \/ \E i \in Images : SendUpd(i)
           \/ SendHeader
           \/ \E rest \in Stale : SendChunk(rest)
           \/ \E w \in CrcWords : SendCrc(w)
           \/ SendDel
    PROVE  RunInv'
<1>1. UP!UpdInv /\ CycleTypeOK /\ launched' = launched /\ img \in Images
  BY DEF BaseInv, CycleTypeOK, bootOnly
<1>2. ASSUME flash' = flash, UP!AboveInv' PROVE RunInv'
  BY <1>1, <1>2, RunsOn DEF RunInv, SameBelow
<1>3. ASSUME NEW i \in Images, SendUpd(i) PROVE RunInv'
  <2>1. flash' = flash /\ todo' = <<>>
    BY <1>3 DEF SendUpd, Upd!Request, Upd!Answer
  <2>2. QED
    BY <1>2, <2>1, UpdAssumed, UP!AboveNothing
<1>4. CASE SendHeader
  <2>1. PICK h : h = HeaderOf(img)
    OBVIOUS
  <2>2. h \in Seq(UP!Half) /\ UP!HandleHeader(h)
    BY <1>1, <1>4, <2>1, HeaderFacts, SameHeader DEF SendHeader, UP!Half, Half
  <2>3. UP!AboveInv'
    BY <2>2, UpdAssumed, UP!AboveHeader
  <2>4. flash' = flash
    BY <2>2 DEF UP!HandleHeader, UP!Start, UP!Refuse
  <2>5. QED
    BY <1>2, <2>3, <2>4
<1>5. ASSUME NEW rest \in Stale, SendChunk(rest) PROVE RunInv'
  <2>1. PICK d : d = NextChunk
    OBVIOUS
  <2>2. d \in Seq(UP!Half) /\ UP!HandleChunk(d, rest)
    BY <1>1, <1>5, <2>1, ChunkFacts, SameChunk DEF SendChunk, UP!Half, Half
  <2>3. rest \in UP!Half
    BY CycleAssumption DEF UP!Half, Half
  <2>4. UP!AboveInv'
    BY <1>1, <2>2, <2>3, UpdAssumed, UP!AboveChunk
  <2>5. flash' = flash
    BY <2>2 DEF UP!HandleChunk, UP!Start
  <2>6. QED
    BY <1>2, <2>4, <2>5
<1>6. ASSUME NEW w \in CrcWords, SendCrc(w) PROVE RunInv'
  <2>1. UP!HandleCrc(w) /\ w \in UP!Half \X UP!Half
    BY <1>6, SameCrc, CycleAssumption DEF SendCrc, UP!Half, Half
  <2>2. UP!AboveInv'
    BY <1>1, <2>1, UpdAssumed, UP!AboveCrc
  <2>3. flash' = flash
    BY <2>1 DEF UP!HandleCrc, UP!Start
  <2>4. QED
    BY <1>2, <2>2, <2>3
<1>7. CASE SendDel
  <2>1. UP!HandleDel
    BY <1>7, SameDel DEF SendDel
  <2>2. UP!AboveInv'
    BY <1>1, <2>1, UpdAssumed, UP!AboveDel
  <2>3. flash' = flash
    BY <2>1 DEF UP!HandleDel, UP!HandleDelAt, UP!Start, UP!Refuse
  <2>4. QED
    BY <1>2, <2>2, <2>3
<1>8. QED
  BY <1>3, <1>4, <1>5, <1>6, <1>7

\* What the bootloader starts is what the flash holds at that moment.
LEMMA BootRuns ==
    ASSUME BaseInv, LaunchInv, RunInv, BootOnly
    PROVE  RunInv'
<1>1. Boot /\ todo' = todo
  BY DEF BootOnly, updVars
<1>2. UP!AboveInv'
  BY <1>1 DEF RunInv, UP!AboveInv
<1>3. launched = {}
  BY <1>1, BootIsNoTransfer DEF LaunchInv
<1>4. CASE launched' = launched
  BY <1>2, <1>3, <1>4 DEF RunInv
<1>5. CASE launched' # launched
  <2>1. Leave /\ pc' = "app"
    BY <1>1, <1>5
       DEF Boot, ReadHeader, EraseCur, EraseCurUpTo, Copy, EraseNew,
           EraseNewPage, CopyDone, CopyUpTo, EraseDone, Leave, LeaveOn
  <2> DEFINE n == Len(committed)
             c == Area(flash, CurAddr, n)
  <2>2. launched' = {c} /\ flash' = flash
    BY <2>1 DEF Leave, LeaveOn
  <2>3. /\ flash \in Contents /\ n \in Nat /\ CurAddr + n <= NewAddr
        /\ CurAddr \in Int /\ CurAddr <= CurAddr /\ CurAddr + n <= FlashEnd
    <3>1. flash \in Contents /\ n \in Nat /\ CurAddr + n <= NewAddr
      BY DEF BaseInv, CycleTypeOK, TypeInv, TypeOK, FlashTypeOK, Cores
    <3>2. QED
      BY <3>1, FlashAssumption DEF FlashEnd
  <2> HIDE DEF n
  <2>4. Len(c) = n /\ Holds(flash, CurAddr, c)
    BY <2>3, AreaType
  <2> HIDE DEF c
  <2>5. QED
    BY <1>2, <2>2, <2>3, <2>4 DEF RunInv
<1>6. QED
  BY <1>4, <1>5

(***************************************************************************)
(* While a core runs, no transfer it receives changes a half-word of it,   *)
(* for every geometry, chunk length and image, fitting or not, with or     *)
(* without faults of the flash, wherever power fails, and whatever value   *)
(* read_header's loop starts from.                                         *)
(***************************************************************************)
THEOREM RunningCoreKept ==
    CycleSpec => []CoreUndisturbed
<1> DEFINE Inv == BaseInv /\ LaunchInv /\ RunInv
<1>1. CycleInit => Inv
  <2> SUFFICES ASSUME CycleInit PROVE Inv
    OBVIOUS
  <2>1. launched = {} /\ todo = <<>> /\ LaunchInv
    BY DEF CycleInit, Init, LaunchInv, Upd!RamInit, Upd!PoweredUp
  <2>2. RunInv
    BY <2>1 DEF RunInv, UP!AboveInv
  <2>3. QED
    BY <2>1, <2>2, BaseStart
<1>2. BaseInv /\ LaunchInv /\ RunInv /\ [CycleNext]_cycleVars => RunInv'
  <2> SUFFICES ASSUME BaseInv, LaunchInv, RunInv, [CycleNext]_cycleVars
               PROVE  RunInv'
    OBVIOUS
  <2>1. ASSUME launched' = {}, todo' = <<>> PROVE RunInv'
    BY <2>1 DEF RunInv, UP!AboveInv
  <2>2. CASE BootOnly
    BY <2>2, BootRuns
  <2>3. CASE Crash
    BY <2>1, <2>3 DEF Crash, Reset, Restart, Upd!RamReset, Upd!PoweredUp
  <2>4. CASE Transfer
    <3>1. CASE SendReb
      BY <2>1, <3>1 DEF SendReb, Restart, Upd!Reboot, Upd!RamReset, Upd!PoweredUp
    <3>2. QED
      BY <2>4, <3>1, WorkRuns, PacketRuns DEF Transfer
  <2>5. CASE UNCHANGED cycleVars
    BY <2>5 DEF cycleVars, vars, updVars, RunInv, UP!AboveInv, Holds
  <2>6. QED
    BY <2>2, <2>3, <2>4, <2>5 DEF CycleNext
<1>3. Inv /\ [CycleNext]_cycleVars => Inv'
  BY <1>2, BaseStep, CycleLaunches
<1>4. Inv => CoreUndisturbed
  BY DEF RunInv, CoreUndisturbed
<1>5. QED
  BY <1>1, <1>3, <1>4, PTL DEF CycleSpec

=============================================================================
