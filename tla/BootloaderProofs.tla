-------------------------- MODULE BootloaderProofs --------------------------
(***************************************************************************)
(* Proofs about the bootloader, for every flash geometry and every set of  *)
(* images.  The core is never lost (CoreNeverLost), every jump is into it  *)
(* (JumpsIntoCommitted), so that the bootloader implements a single core   *)
(* slot (ImplementsSlot), and with a working flash it always gets there    *)
(* (WorkingFlashBoots).  Each theorem names what it assumes.               *)
(***************************************************************************)
EXTENDS Bootloader, FlashProofs

-----------------------------------------------------------------------------
(* A step that leaves every half-word from NewAddr on alone leaves the     *)
(* header alone, and the core behind it.                                   *)
SameStaging(f, g) == \A x \in Addr : x >= NewAddr => g[x] = f[x]

\* What leaves the staging area alone leaves its header and its size alone.
LEMMA StagingKept ==
    ASSUME NEW f \in Contents, NEW g \in Contents, SameStaging(f, g)
    PROVE  /\ HeaderValid(g) <=> HeaderValid(f)
           /\ HeaderSize(g) = HeaderSize(f)
           /\ \A x \in Nat : NewAddr + HeaderHalves + x < FlashEnd =>
                 g[NewAddr + HeaderHalves + x] = f[NewAddr + HeaderHalves + x]
<1>1. /\ NewAddr \in Addr
      /\ NewAddr + 1 \in Addr
      /\ NewAddr + HeaderHalves - 2 \in Addr
      /\ NewAddr + HeaderHalves - 1 \in Addr
  BY FlashAssumption DEF Addr, FlashEnd
<1>2. /\ g[NewAddr] = f[NewAddr]
      /\ g[NewAddr + 1] = f[NewAddr + 1]
      /\ g[NewAddr + HeaderHalves - 2] = f[NewAddr + HeaderHalves - 2]
      /\ g[NewAddr + HeaderHalves - 1] = f[NewAddr + HeaderHalves - 1]
  BY <1>1, FlashAssumption DEF SameStaging
<1>3. ASSUME NEW x \in Nat, NewAddr + HeaderHalves + x < FlashEnd
      PROVE  g[NewAddr + HeaderHalves + x] = f[NewAddr + HeaderHalves + x]
  <2>1. NewAddr + HeaderHalves + x \in Addr
    BY <1>3, FlashAssumption DEF Addr, FlashEnd
  <2>2. QED
    BY <2>1, FlashAssumption DEF SameStaging
<1>4. QED
  BY <1>2, <1>3 DEF HeaderValid, HeaderSize

-----------------------------------------------------------------------------
(* What a staged image looks like.                                         *)

\* The size and the place of an image of BootAssumption.
LEMMA ImageFacts ==
    ASSUME NEW img \in Images
    PROVE  /\ img.ver \in MagicHi /\ img.ver \in Half
           /\ img.date \in Half /\ img.lo \in Half /\ img.hi \in Half
           /\ img.body \in Seq(Half)
           /\ Len(img.body) \in Nat
           /\ ImageSize(img) \in Nat
           /\ CoreHalves(ImageSize(img)) \in Nat
           /\ InFlash(img)
<1>1. img \in Image /\ InFlash(img)
  BY BootAssumption
<1>2. /\ img.ver \in MagicHi /\ img.date \in Half /\ img.lo \in Half
      /\ img.hi \in Half /\ img.body \in Seq(Half)
  BY <1>1 DEF Image
<1>3. img.ver \in Half
  BY <1>2, FlashAssumption
<1>4. ImageSize(img) \in Nat
  BY <1>2, WordIsNat DEF ImageSize
<1>5. CoreHalves(ImageSize(img)) \in Nat
  BY <1>4, CoreHalvesBound
<1>6. Len(img.body) \in Nat
  BY <1>2
<1>7. QED
  BY <1>1, <1>2, <1>3, <1>4, <1>5, <1>6, Zenon

\* Every half-word of a staged image is one.
LEMMA ImageHalfType ==
    ASSUME NEW img \in Images,
           NEW j \in 0..(HeaderHalves + Len(img.body) - 1)
    PROVE  ImageHalf(img, j) \in Half
<1>1. MagicLo \in Half
  BY FlashAssumption
<1>2. ASSUME j >= HeaderHalves
      PROVE  img.body[j - HeaderHalves + 1] \in Half
  <2>1. j - HeaderHalves + 1 \in 1..Len(img.body)
    BY <1>2, ImageFacts, FlashAssumption
  <2>2. QED
    BY <2>1, ImageFacts
<1>3. j \in Nat /\ HeaderHalves \in Nat /\ HeaderHalves >= 4
  BY FlashAssumption, ImageFacts
<1>4. CASE j >= HeaderHalves
  BY <1>2, <1>3, <1>4 DEF ImageHalf
<1>5. CASE j < HeaderHalves
  <2>1. img.ver \in Half /\ img.date \in Half /\ img.lo \in Half /\ img.hi \in Half
    BY ImageFacts
  <2>2. \/ j \in {0, 1, HeaderHalves - 2, HeaderHalves - 1}
        \/ 1 < j /\ j < HeaderHalves - 2
    BY <1>3, <1>5
  <2>3. ImageHalf(img, j) \in {MagicLo, img.ver, img.date, img.lo, img.hi}
    BY <2>2 DEF ImageHalf
  <2>4. QED
    BY <1>1, <2>1, <2>3
<1>6. QED
  BY <1>3, <1>4, <1>5

\* After Stage the header is valid and declares the size of the image.
LEMMA StagedIsImage ==
    ASSUME NEW f \in Contents,
           NEW img \in Images,
           NEW n \in HeaderHalves..(HeaderHalves + Len(img.body))
    PROVE  /\ StagedFlash(f, img, n) \in Contents
           /\ HeaderValid(StagedFlash(f, img, n))
           /\ HeaderSize(StagedFlash(f, img, n)) = ImageSize(img)
<1> DEFINE g == StagedFlash(f, img, n)
<1>1. /\ HeaderHalves \in Nat /\ HeaderHalves >= 4
      /\ NewAddr \in Nat
      /\ n \in Nat /\ n >= HeaderHalves
      /\ n <= HeaderHalves + Len(img.body)
  BY FlashAssumption, ImageFacts
<1>2. ASSUME NEW x \in Addr
      PROVE  g[x] \in Half
  <2>0. x \in Int
    BY FlashAssumption DEF Addr, FlashEnd
  <2>1. CASE NewAddr <= x /\ x < NewAddr + n
    <3>1. x - NewAddr \in 0..(HeaderHalves + Len(img.body) - 1)
      BY <1>1, <2>0, <2>1, ImageFacts
    <3>2. ImageHalf(img, x - NewAddr) \in Half
      BY <3>1, ImageHalfType
    <3>3. QED
      BY <2>1, <3>2 DEF StagedFlash
  <2>2. CASE ~(NewAddr <= x /\ x < NewAddr + n)
    BY <2>2 DEF StagedFlash, Contents
  <2>3. QED
    BY <2>1, <2>2
<1>3. g \in Contents
  BY <1>2 DEF StagedFlash, Contents
<1>4. ASSUME NEW j \in Nat, j < HeaderHalves
      PROVE  g[NewAddr + j] = ImageHalf(img, j)
  <2>1. NewAddr + j \in Addr
    BY <1>4, HeaderInFlash
  <2>2. NewAddr <= NewAddr + j /\ NewAddr + j < NewAddr + n
    BY <1>1, <1>4
  <2>3. (NewAddr + j) - NewAddr = j
    BY <1>1
  <2>4. QED
    BY <2>1, <2>2, <2>3 DEF StagedFlash
<1>5. g[NewAddr] = MagicLo /\ g[NewAddr + 1] = img.ver
  <2>1. g[NewAddr + 0] = ImageHalf(img, 0) /\ g[NewAddr + 1] = ImageHalf(img, 1)
    BY <1>1, <1>4
  <2>2. ImageHalf(img, 0) = MagicLo /\ ImageHalf(img, 1) = img.ver
    BY <1>1 DEF ImageHalf
  <2>3. NewAddr + 0 = NewAddr
    BY <1>1
  <2>4. QED
    BY <2>1, <2>2, <2>3
<1>6. /\ g[NewAddr + HeaderHalves - 2] = img.lo
      /\ g[NewAddr + HeaderHalves - 1] = img.hi
  <2>1. /\ g[NewAddr + (HeaderHalves - 2)] = ImageHalf(img, HeaderHalves - 2)
        /\ g[NewAddr + (HeaderHalves - 1)] = ImageHalf(img, HeaderHalves - 1)
    BY <1>1, <1>4
  <2>2. /\ ImageHalf(img, HeaderHalves - 2) = img.lo
        /\ ImageHalf(img, HeaderHalves - 1) = img.hi
    BY <1>1 DEF ImageHalf
  <2>3. /\ NewAddr + (HeaderHalves - 2) = NewAddr + HeaderHalves - 2
        /\ NewAddr + (HeaderHalves - 1) = NewAddr + HeaderHalves - 1
    BY <1>1
  <2>4. QED
    BY <2>1, <2>2, <2>3
<1>7. HeaderValid(g)
  BY <1>5, ImageFacts DEF HeaderValid
<1>8. HeaderSize(g) = ImageSize(img)
  BY <1>6 DEF HeaderSize, ImageSize
<1>9. QED
  BY <1>3, <1>7, <1>8

-----------------------------------------------------------------------------
(* Type correctness.                                                       *)

TypeInv == TypeOK /\ CurAddr + Len(committed) <= NewAddr

\* The type invariant holds in the factory state.
LEMMA TypeInit == Init => TypeInv
<1> SUFFICES ASSUME Init PROVE TypeInv
  OBVIOUS
<1>1. PICK img \in Images :
         /\ flash = Factory(img)
         /\ committed = Area(flash, CurAddr, CoreHalves(ImageSize(img)))
  BY DEF Init
<1> DEFINE n == CoreHalves(ImageSize(img))
<1>2. /\ n \in Nat /\ CurAddr + n <= NewAddr /\ n <= Len(img.body)
      /\ Len(img.body) \in Nat /\ CurAddr \in Nat
      /\ CurAddr + n <= FlashEnd /\ FlashEnd \in Nat
  <2>1. n \in Nat /\ Len(img.body) \in Nat /\ InFlash(img)
    BY ImageFacts
  <2>2. CurAddr + n <= NewAddr /\ n <= Len(img.body)
    BY <2>1 DEF InFlash
  <2>3. CurAddr \in Nat /\ FlashEnd \in Nat /\ NewAddr <= FlashEnd
    BY FlashAssumption DEF FlashEnd
  <2>4. QED
    BY <2>1, <2>2, <2>3, FlashAssumption
<1>3. flash \in Contents
  <2>1. ASSUME NEW x \in Addr
        PROVE  Factory(img)[x] \in Half
    <3>1. x \in Int /\ CurAddr <= x
      BY <1>2 DEF Addr
    <3>2. CASE x < CurAddr + n
      <4>1. x - CurAddr + 1 \in 1..Len(img.body)
        BY <1>2, <3>1, <3>2
      <4>2. img.body[x - CurAddr + 1] \in Half
        BY <4>1, ImageFacts
      <4>3. QED
        BY <3>2, <4>2 DEF Factory
    <3>3. CASE ~(x < CurAddr + n)
      BY <3>3, FlashAssumption DEF Factory, ErasedHalf, Half
    <3>4. QED
      BY <3>2, <3>3
  <2>2. QED
    BY <1>1, <2>1 DEF Factory, Contents
<1>4. committed \in Seq(Half) /\ Len(committed) = n
  BY <1>1, <1>2, <1>3, AreaType
<1>5. QED
  BY <1>2, <1>3, <1>4 DEF Init, TypeInv, TypeOK, FlashTypeOK, PC, Cores

\* Every step preserves the type invariant.
LEMMA TypeStep == TypeInv /\ [Next]_vars => TypeInv'
<1> SUFFICES ASSUME TypeInv, [Next]_vars PROVE TypeInv'
  OBVIOUS
<1> USE DEF TypeInv
<1>0. TypeOK /\ flash \in Contents /\ k \in Nat /\ new_core_size \in Nat
  BY DEF TypeOK, FlashTypeOK
<1>1. ASSUME NEW i0 \in LoopStart, ReadHeader(i0)
      PROVE  TypeInv'
  <2>1. ASSUME NEW x \in 0..(HeaderHalves - 1)
        PROVE  HeaderBuf(flash, i0)[x] \in Half
    <3>1. CASE x < i0
      BY <3>1, FlashAssumption DEF HeaderBuf, Half
    <3>2. CASE ~(x < i0)
      <4>1. NewAddr + x - i0 \in Addr
        BY <3>2, BootAssumption, FlashAssumption DEF Addr, FlashEnd
      <4>2. QED
        BY <1>0, <3>2, <4>1 DEF HeaderBuf, Contents
    <3>3. QED
      BY <3>1, <3>2
  <2>2. WordValue(HeaderBuf(flash, i0)[HeaderHalves - 2],
                  HeaderBuf(flash, i0)[HeaderHalves - 1]) \in Nat
    BY <2>1, WordIsNat, FlashAssumption
  <2>3. new_core_size' \in Nat
    BY <1>0, <1>1, <2>2 DEF ReadHeader
  <2>4. QED
    BY <1>1, <2>3 DEF ReadHeader, TypeOK, FlashTypeOK, PC
<1>2. ASSUME NEW st \in Status, EraseCur(st)
      PROVE  TypeInv'
  <2>1. FLASH_ErasePage(CurAddr + k * PageHalves, st)
    BY <1>2 DEF EraseCur, EraseCurUpTo
  <2>2. FlashTypeOK'
    BY <2>1, DriverType DEF TypeOK
  <2>3. QED
    BY <1>0, <1>2, <2>2 DEF EraseCur, EraseCurUpTo, TypeOK, PC
<1>3. ASSUME NEW st \in Status, Copy(st)
      PROVE  TypeInv'
  <2>1. CASE NewAddr + HeaderHalves + k \in Addr
    <3>1. FLASH_ProgramHalfWord(CurAddr + k, flash[NewAddr + HeaderHalves + k], st)
      BY <1>3, <2>1 DEF Copy
    <3>2. CurAddr + k \in Addr /\ flash[NewAddr + HeaderHalves + k] \in Half
      BY <1>0, <2>1, FlashAssumption DEF Addr, FlashEnd, Contents
    <3>3. FlashTypeOK'
      BY <3>1, <3>2, DriverType DEF TypeOK
    <3>4. QED
      BY <1>0, <1>3, <2>1, <3>3 DEF Copy, TypeOK, PC
  <2>2. CASE NewAddr + HeaderHalves + k \notin Addr
    BY <1>3, <2>2 DEF Copy, TypeOK, FlashTypeOK, PC
  <2>3. QED
    BY <2>1, <2>2
<1>4. CASE CopyDone
  BY <1>4 DEF CopyDone, CopyUpTo, TypeOK, FlashTypeOK, PC
<1>5. ASSUME NEW st \in Status, EraseNew(st)
      PROVE  TypeInv'
  <2>1. FLASH_ErasePage(NewAddr + k * PageHalves, st)
    BY <1>5 DEF EraseNew, EraseNewPage
  <2>2. FlashTypeOK'
    BY <2>1, DriverType DEF TypeOK
  <2>3. QED
    BY <1>0, <1>5, <2>2 DEF EraseNew, EraseNewPage, TypeOK, PC
<1>6. CASE EraseDone
  BY <1>6 DEF EraseDone, TypeOK, FlashTypeOK, PC
<1>7. CASE Leave
  <2>1. Len(committed) \in Nat /\ CurAddr + Len(committed) <= FlashEnd
    BY <1>0, FlashAssumption DEF TypeOK, Cores, FlashEnd
  <2>2. Area(flash, CurAddr, Len(committed)) \in Cores
    BY <1>0, <2>1, AreaType, FlashAssumption DEF Cores
  <2>3. launched' \subseteq Cores
    BY <1>7, <2>2 DEF Leave, LeaveOn, TypeOK
  <2>4. QED
    BY <1>7, <2>3 DEF Leave, LeaveOn, TypeOK, FlashTypeOK, PC
<1>8. ASSUME NEW img \in Images,
             NEW n \in HeaderHalves..(HeaderHalves + Len(img.body)),
             Stage(img, n)
      PROVE  TypeInv'
  <2>1. /\ flash' \in Contents
        /\ HeaderSize(flash') = ImageSize(img)
    BY <1>0, <1>8, StagedIsImage DEF Stage
  <2>2. /\ CoreHalves(ImageSize(img)) \in Nat
        /\ NewAddr + HeaderHalves + CoreHalves(ImageSize(img)) <= FlashEnd
        /\ CurAddr + CoreHalves(ImageSize(img)) <= NewAddr
    BY ImageFacts DEF InFlash
  <2>3. committed' = Area(flash', NewAddr + HeaderHalves,
                          CoreHalves(ImageSize(img)))
    BY <1>8, <2>1 DEF Stage
  <2>4. NewAddr + HeaderHalves \in Int /\ CurAddr <= NewAddr + HeaderHalves
    BY FlashAssumption
  <2>5. /\ committed' \in Cores
        /\ Len(committed') = CoreHalves(ImageSize(img))
    BY <2>1, <2>2, <2>3, <2>4, AreaType DEF Cores
  <2>6. QED
    BY <1>8, <2>1, <2>2, <2>5 DEF Stage, TypeOK, FlashTypeOK, PC
<1>9. CASE Reset
  BY <1>9 DEF Reset, Restart, FlashReset, TypeOK, FlashTypeOK, PC
<1>10. CASE UNCHANGED vars
  BY <1>10 DEF vars, TypeOK, FlashTypeOK
<1>11. QED
  BY <1>1, <1>2, <1>3, <1>4, <1>5, <1>6, <1>7, <1>8, <1>9, <1>10
     DEF Next, Boot, App

(* Every variable keeps its type: no address the bootloader reads or       *)
(* programs lies outside the flash, for any images that do not themselves. *)
THEOREM TypeCorrect == Spec => []TypeOK
<1>1. Spec => []TypeInv
  BY TypeInit, TypeStep, PTL DEF Spec
<1>2. TypeInv => TypeOK
  BY DEF TypeInv
<1>3. QED
  BY <1>1, <1>2, PTL

-----------------------------------------------------------------------------
(* The inductive invariant.                                                *)

\* Erased flash is no header.
LEMMA ErasedIsNoHeader ==
    ASSUME NEW f, f[NewAddr] = ErasedHalf
    PROVE  ~HeaderValid(f)
BY FlashAssumption DEF HeaderValid

\* The inductive invariant holds in the factory state, where no header is.
LEMMA BootInit ==
    ASSUME AllFit PROVE Init => BootInv
<1> SUFFICES ASSUME Init PROVE BootInv
  OBVIOUS
<1>1. TypeInv
  BY TypeInit
<1>2. PICK img \in Images :
         /\ flash = Factory(img)
         /\ committed = Area(flash, CurAddr, CoreHalves(ImageSize(img)))
  BY DEF Init
<1> DEFINE n == CoreHalves(ImageSize(img))
<1>3. n \in Nat /\ CurAddr + n <= NewAddr
  <2>1. n \in Nat /\ InFlash(img)
    BY ImageFacts
  <2>2. QED
    BY <2>1 DEF InFlash
<1>4. NewAddr \in Addr /\ CurAddr \in Nat /\ NewAddr <= FlashEnd
  BY FlashAssumption DEF Addr, FlashEnd
<1>5. flash[NewAddr] = ErasedHalf
  BY <1>2, <1>3, <1>4, FlashAssumption DEF Factory
<1>6. ~HeaderValid(flash)
  BY <1>5, ErasedIsNoHeader
<1>7. flash \in Contents
  BY <1>1 DEF TypeInv, TypeOK, FlashTypeOK
<1>8. CurAddr + n <= FlashEnd
  BY <1>3, <1>4, FlashAssumption DEF FlashEnd
<1>9. Holds(flash, CurAddr, committed)
  BY <1>2, <1>3, <1>4, <1>7, <1>8, AreaType
<1>10. pc = "main" /\ k = 0
  BY DEF Init
<1>11. QED
  BY <1>1, <1>6, <1>9, <1>10
     DEF TypeInv, BootInv, CoreSafe, HeaderFits, HeaderKept, EraseProgress,
         CopyProgress, EraseAfterCopy

(* Facts about the copy that several steps need.                           *)
LEMMA CopyRoom ==
    ASSUME AllFit, BootInv, HeaderValid(flash)
    PROVE  /\ HeaderSize(flash) \in Nat
           /\ CurPages * PageHalves \in Nat
           /\ 2 * HeaderSize(flash) <= CurPages * PageHalves
           /\ CurAddr + CurPages * PageHalves <= NewAddr
           /\ NewAddr + HeaderHalves + 2 * HeaderSize(flash) <= FlashEnd
           /\ Len(committed) \in Nat
           /\ Len(committed) <= 2 * HeaderSize(flash)
<1>1. HeaderSize(flash) \in Nat
  BY HeaderSizeIsNat DEF BootInv, TypeOK, FlashTypeOK
<1>2. CurPages * PageHalves \in Nat
  BY FlashAssumption, BootAssumption
<1>3. Len(committed) = CoreHalves(HeaderSize(flash))
  BY DEF BootInv, HeaderFits
<1>4. Len(committed) \in Nat /\ Len(committed) <= 2 * HeaderSize(flash)
  BY <1>1, <1>3, CoreHalvesBound
<1>5. QED
  BY <1>1, <1>2, <1>4 DEF BootInv, HeaderFits, AllFit

(* A step that leaves the staging area and `committed' alone keeps the     *)
(* header, and a staged core behind a header.                              *)
LEMMA StagingStep ==
    ASSUME AllFit, BootInv, HeaderValid(flash), flash' \in Contents,
           SameStaging(flash, flash'), committed' = committed
    PROVE  /\ HeaderValid(flash')
           /\ HeaderSize(flash') = HeaderSize(flash)
           /\ CoreSafe'
           /\ HeaderFits'
<1>1. flash \in Contents
  BY DEF BootInv, TypeOK, FlashTypeOK
<1>2. /\ HeaderValid(flash')
      /\ HeaderSize(flash') = HeaderSize(flash)
      /\ \A x \in Nat : NewAddr + HeaderHalves + x < FlashEnd =>
            flash'[NewAddr + HeaderHalves + x] = flash[NewAddr + HeaderHalves + x]
  BY <1>1, StagingKept
<1>3. ASSUME NEW x \in 1..Len(committed)
      PROVE  flash'[NewAddr + HeaderHalves + x - 1] = committed[x]
  <2>1. flash[NewAddr + HeaderHalves + x - 1] = committed[x]
    BY DEF BootInv, CoreSafe, Holds
  <2>2. x - 1 \in Nat /\ NewAddr + HeaderHalves + (x - 1) < FlashEnd
    <3>1. /\ Len(committed) \in Nat /\ HeaderSize(flash) \in Nat
          /\ Len(committed) <= 2 * HeaderSize(flash)
          /\ NewAddr + HeaderHalves + 2 * HeaderSize(flash) <= FlashEnd
      BY CopyRoom
    <3>2. NewAddr \in Nat /\ HeaderHalves \in Nat /\ FlashEnd \in Nat
      BY FlashAssumption DEF FlashEnd
    <3>3. QED
      BY <3>1, <3>2
  <2>3. NewAddr + HeaderHalves + (x - 1) = NewAddr + HeaderHalves + x - 1
    BY <2>2, FlashAssumption
  <2>4. QED
    BY <1>2, <2>1, <2>2, <2>3
<1>4. CoreSafe'
  BY <1>2, <1>3 DEF CoreSafe, Holds
<1>5. HeaderFits'
  BY <1>2 DEF BootInv, HeaderFits
<1>6. QED
  BY <1>2, <1>4, <1>5

\* read_header preserves the inductive invariant, wherever its loop starts.
LEMMA ReadHeaderStep ==
    ASSUME AllFit, BootInv, NEW i0 \in LoopStart, ReadHeader(i0), TypeInv'
    PROVE  BootInv'
<1> DEFINE buf == HeaderBuf(flash, i0)
<1>1. flash' = flash /\ committed' = committed /\ k' = k /\ k = 0
  BY DEF ReadHeader, BootInv, EraseProgress
<1>2. CoreSafe' /\ HeaderFits'
  BY <1>1 DEF BootInv, CoreSafe, HeaderFits
<1>3. CASE IsHeader(buf)
  <2>1. i0 = 0
    <3>1. i0 \in Nat /\ 0 \in 0..(HeaderHalves - 1)
      BY BootAssumption, FlashAssumption
    <3>2. i0 > 0 => buf[0] = 0
      BY <3>1 DEF HeaderBuf
    <3>3. buf[0] # 0
      BY <1>3, FlashAssumption DEF IsHeader
    <3>4. QED
      BY <3>1, <3>2, <3>3
  <2>2. ASSUME NEW x \in 0..(HeaderHalves - 1)
        PROVE  buf[x] = flash[NewAddr + x]
    <3>1. NewAddr + x - 0 = NewAddr + x /\ ~(x < 0)
      BY FlashAssumption
    <3>2. QED
      BY <2>1, <3>1 DEF HeaderBuf
  <2>3. buf[0] = flash[NewAddr] /\ buf[1] = flash[NewAddr + 1]
    <3>1. 0 \in 0..(HeaderHalves - 1) /\ 1 \in 0..(HeaderHalves - 1)
      BY FlashAssumption
    <3>2. NewAddr + 0 = NewAddr
      BY FlashAssumption
    <3>3. QED
      BY <2>2, <3>1, <3>2
  <2>4. HeaderValid(flash)
    BY <1>3, <2>3 DEF IsHeader, HeaderValid
  <2>5. new_core_size' = HeaderSize(flash)
    <3>1. /\ HeaderHalves - 2 \in 0..(HeaderHalves - 1)
          /\ HeaderHalves - 1 \in 0..(HeaderHalves - 1)
          /\ NewAddr + (HeaderHalves - 2) = NewAddr + HeaderHalves - 2
          /\ NewAddr + (HeaderHalves - 1) = NewAddr + HeaderHalves - 1
      BY FlashAssumption
    <3>2. /\ buf[HeaderHalves - 2] = flash[NewAddr + HeaderHalves - 2]
          /\ buf[HeaderHalves - 1] = flash[NewAddr + HeaderHalves - 1]
      BY <2>2, <3>1
    <3>3. QED
      BY <1>3, <3>2 DEF ReadHeader, HeaderSize
  <2>6. pc' = "erase_cur"
    BY <1>3 DEF ReadHeader
  <2>7. EraseProgress'
    <3>1. 0 * PageHalves = 0 /\ 0 < CurPages
      BY FlashAssumption, BootAssumption
    <3>2. \A x \in Addr : ~(x < CurAddr + 0)
      BY FlashAssumption DEF Addr, FlashEnd
    <3>3. QED
      BY <1>1, <2>6, <3>1, <3>2 DEF EraseProgress
  <2>8. QED
    BY <1>1, <1>2, <2>4, <2>5, <2>6, <2>7
       DEF TypeInv, BootInv, HeaderKept, CopyProgress, EraseAfterCopy
<1>4. CASE ~IsHeader(buf)
  <2>1. pc' = "leave"
    BY <1>4 DEF ReadHeader
  <2>2. QED
    BY <1>2, <2>1
       DEF TypeInv, BootInv, HeaderKept, EraseProgress, CopyProgress, EraseAfterCopy
<1>5. QED
  BY <1>3, <1>4

\* Erasing the current core does: a header is there, so the staged copy counts.
LEMMA EraseCurStep ==
    ASSUME AllFit, BootInv, NEW st \in Status, EraseCur(st), TypeInv'
    PROVE  BootInv'
<1> DEFINE a == CurAddr + k * PageHalves
<1>1. /\ pc = "erase_cur" /\ HeaderValid(flash)
      /\ new_core_size = HeaderSize(flash)
      /\ k \in Nat /\ k < CurPages /\ CurPages \in Nat
      /\ committed' = committed /\ new_core_size' = new_core_size
      /\ FLASH_ErasePage(a, st)
  BY BootAssumption
     DEF EraseCur, EraseCurUpTo, BootInv, HeaderKept, EraseProgress, TypeOK
<1>2. /\ k * PageHalves \in Nat
      /\ (k + 1) * PageHalves = k * PageHalves + PageHalves
      /\ k * PageHalves + PageHalves <= CurPages * PageHalves
  BY <1>1, PageSum
<1>3. a \in Nat /\ CurAddr <= a /\ a + PageHalves <= NewAddr
  <2>1. /\ CurPages * PageHalves \in Nat
        /\ CurAddr + CurPages * PageHalves <= NewAddr
    BY <1>1, CopyRoom
  <2>2. CurAddr \in Nat /\ NewAddr \in Nat /\ PageHalves \in Nat
    BY FlashAssumption
  <2>3. QED
    BY <1>2, <2>1, <2>2
<1>4. /\ flash' = flash \/ flash' = ErasePage(flash, a)
      /\ st = "COMPLETE" => flash' = ErasePage(flash, a)
  BY <1>1, EraseEffect
<1>5. SameStaging(flash, flash')
  <2>1. \A x \in Addr : x >= NewAddr => ErasePage(flash, a)[x] = flash[x]
    BY <1>3, FlashAssumption DEF ErasePage, Addr, FlashEnd
  <2>2. QED
    BY <1>4, <2>1 DEF SameStaging
<1>6. flash' \in Contents
  BY DEF TypeInv, TypeOK, FlashTypeOK
<1>7. /\ HeaderValid(flash') /\ HeaderSize(flash') = HeaderSize(flash)
      /\ CoreSafe' /\ HeaderFits'
  BY <1>1, <1>5, <1>6, StagingStep
<1>8. CASE st = "COMPLETE"
  <2>1. ASSUME NEW x \in Addr, x < CurAddr + (k + 1) * PageHalves
        PROVE  flash'[x] = ErasedHalf
    <3>1. x < a + PageHalves /\ x \in Int
      BY <1>1, <1>2, <2>1, FlashAssumption DEF Addr, FlashEnd
    <3>2. CASE a <= x
      BY <1>4, <1>8, <3>1, <3>2 DEF ErasePage
    <3>3. CASE ~(a <= x)
      <4>1. x < a
        BY <1>3, <3>1, <3>3
      <4>2. flash[x] = ErasedHalf
        BY <1>1, <4>1 DEF BootInv, EraseProgress
      <4>3. QED
        BY <1>4, <1>8, <3>3, <4>2 DEF ErasePage
    <3>4. QED
      BY <3>2, <3>3
  <2>2. CASE k + 1 < CurPages
    <3>1. pc' = "erase_cur" /\ k' = k + 1
      BY <1>1, <1>8, <2>2 DEF EraseCur, EraseCurUpTo
    <3>2. EraseProgress'
      BY <2>1, <2>2, <3>1 DEF EraseProgress
    <3>3. QED
      BY <1>1, <1>7, <3>1, <3>2
         DEF TypeInv, BootInv, HeaderKept, CopyProgress, EraseAfterCopy
  <2>3. CASE ~(k + 1 < CurPages)
    <3>1. pc' = "copy" /\ k' = 0
      BY <1>1, <1>8, <2>3 DEF EraseCur, EraseCurUpTo
    <3>2. k + 1 = CurPages
      BY <1>1, <2>3
    <3>3. CopyProgress'
      <4>1. 0 <= 2 * new_core_size
        BY <1>1, CopyRoom
      <4>2. \A x \in Addr : x < CurAddr + CurPages * PageHalves
                                => flash'[x] = ErasedHalf
        BY <2>1, <3>2
      <4>3. \A x \in 0..(0 - 1) : FALSE
        OBVIOUS
      <4>4. QED
        BY <1>1, <3>1, <4>1, <4>2, <4>3 DEF CopyProgress
    <3>4. QED
      BY <1>1, <1>7, <3>1, <3>3
         DEF TypeInv, BootInv, HeaderKept, EraseProgress, EraseAfterCopy
  <2>4. QED
    BY <2>2, <2>3
<1>9. CASE st # "COMPLETE"
  <2>1. pc' = "leave"
    BY <1>9 DEF EraseCur, EraseCurUpTo
  <2>2. QED
    BY <1>7, <2>1
       DEF TypeInv, BootInv, HeaderKept, EraseProgress, CopyProgress, EraseAfterCopy
<1>10. QED
  BY <1>8, <1>9

(* Where the copy loop is: its source behind the header, its destination   *)
(* in the erased sector, both inside the flash.                            *)
LEMMA CopyPlace ==
    ASSUME AllFit, BootInv, pc = "copy", k < 2 * new_core_size
    PROVE  /\ k \in Nat
           /\ HeaderValid(flash) /\ new_core_size = HeaderSize(flash)
           /\ NewAddr + HeaderHalves + k \in Addr
           /\ CurAddr + k \in Addr
           /\ CurAddr + k < CurAddr + CurPages * PageHalves
           /\ CurAddr + k < NewAddr
           /\ flash[CurAddr + k] = ErasedHalf
<1>1. /\ k \in Nat /\ HeaderValid(flash) /\ new_core_size = HeaderSize(flash)
  BY DEF BootInv, TypeOK, HeaderKept
<1>2. /\ HeaderSize(flash) \in Nat
      /\ CurPages * PageHalves \in Nat
      /\ 2 * HeaderSize(flash) <= CurPages * PageHalves
      /\ CurAddr + CurPages * PageHalves <= NewAddr
      /\ NewAddr + HeaderHalves + 2 * HeaderSize(flash) <= FlashEnd
  BY <1>1, CopyRoom
<1>3. /\ NewAddr \in Nat /\ CurAddr \in Nat /\ HeaderHalves \in Nat
      /\ FlashEnd \in Nat /\ CurAddr <= NewAddr
  BY FlashAssumption DEF FlashEnd
<1>4. /\ NewAddr + HeaderHalves + k \in Addr
      /\ CurAddr + k \in Addr
      /\ CurAddr + k < CurAddr + CurPages * PageHalves
      /\ CurAddr + k < NewAddr
  BY <1>1, <1>2, <1>3 DEF Addr
<1>5. flash[CurAddr + k] = ErasedHalf
  BY <1>1, <1>3, <1>4 DEF BootInv, CopyProgress
<1>6. QED
  BY <1>1, <1>4, <1>5

\* Copying one half-word does: the copy grows by one, the staged core is untouched.
LEMMA CopyStep ==
    ASSUME AllFit, BootInv, NEW st \in Status, Copy(st), TypeInv'
    PROVE  BootInv'
<1> DEFINE from == NewAddr + HeaderHalves + k
           to == CurAddr + k
<1>1. /\ pc = "copy" /\ k < 2 * new_core_size
      /\ committed' = committed /\ new_core_size' = new_core_size
  BY DEF Copy
<1>2. /\ k \in Nat
      /\ HeaderValid(flash) /\ new_core_size = HeaderSize(flash)
      /\ from \in Addr /\ to \in Addr
      /\ to < CurAddr + CurPages * PageHalves /\ to < NewAddr
      /\ flash[to] = ErasedHalf
  BY <1>1, CopyPlace
<1>3. FLASH_ProgramHalfWord(to, flash[from], st)
  BY <1>2 DEF Copy
<1>4. /\ flash' = flash \/ flash' = ProgramHalf(flash, to, flash[from])
      /\ st = "COMPLETE" => flash' = ProgramHalf(flash, to, flash[from])
  BY <1>3, ProgramEffect
<1>5. flash \in Contents /\ flash' \in Contents
  BY DEF BootInv, TypeInv, TypeOK, FlashTypeOK
<1>6. \A x \in Addr : x # to => flash'[x] = flash[x]
  BY <1>4, <1>5 DEF ProgramHalf, Contents
<1>7. SameStaging(flash, flash')
  BY <1>2, <1>6, FlashAssumption DEF SameStaging, Addr, FlashEnd
<1>8. /\ HeaderValid(flash') /\ HeaderSize(flash') = HeaderSize(flash)
      /\ CoreSafe' /\ HeaderFits'
  BY <1>1, <1>2, <1>5, <1>7, StagingStep
<1>9. CASE st = "COMPLETE"
  <2>1. pc' = "copy" /\ k' = k + 1
    BY <1>1, <1>2, <1>9 DEF Copy
  <2>2. flash'[to] = flash[from]
    BY <1>2, <1>4, <1>5, <1>9 DEF ProgramHalf, Contents
  <2>3. k + 1 <= 2 * new_core_size
    <3>1. new_core_size \in Nat
      BY DEF BootInv, TypeOK
    <3>2. QED
      BY <1>1, <1>2, <3>1
  <2>4. ASSUME NEW x \in 0..k
        PROVE  flash'[CurAddr + x] = flash'[NewAddr + HeaderHalves + x]
    <3>1. /\ CurAddr + x \in Addr /\ NewAddr + HeaderHalves + x \in Addr
          /\ NewAddr + HeaderHalves + x # to
      BY <1>2, FlashAssumption DEF Addr, FlashEnd
    <3>2. flash'[NewAddr + HeaderHalves + x] = flash[NewAddr + HeaderHalves + x]
      BY <1>6, <3>1
    <3>3. CASE x = k
      BY <2>2, <3>2, <3>3
    <3>4. CASE x # k
      <4>1. x \in 0..(k - 1) /\ CurAddr + x # to
        BY <1>2, <3>4, FlashAssumption
      <4>2. flash[CurAddr + x] = flash[NewAddr + HeaderHalves + x]
        BY <1>1, <4>1 DEF BootInv, CopyProgress
      <4>3. QED
        BY <1>6, <3>1, <3>2, <4>1, <4>2
    <3>5. QED
      BY <3>3, <3>4
  <2>5. ASSUME NEW x \in Addr,
               CurAddr + (k + 1) <= x, x < CurAddr + CurPages * PageHalves
        PROVE  flash'[x] = ErasedHalf
    <3>1. x \in Int /\ CurAddr \in Nat
      BY FlashAssumption DEF Addr, FlashEnd
    <3>2. CurAddr + k <= x /\ x # to
      BY <1>2, <2>5, <3>1
    <3>3. flash[x] = ErasedHalf
      BY <1>1, <2>5, <3>2 DEF BootInv, CopyProgress
    <3>4. QED
      BY <1>6, <3>2, <3>3
  <2>6. CopyProgress'
    <3>1. (k + 1) - 1 = k
      BY <1>2
    <3>2. QED
      BY <1>1, <2>1, <2>3, <2>4, <2>5, <3>1 DEF CopyProgress
  <2>7. QED
    BY <1>1, <1>2, <1>8, <2>1, <2>6
       DEF TypeInv, BootInv, HeaderKept, EraseProgress, EraseAfterCopy
<1>10. CASE st # "COMPLETE"
  <2>1. pc' = "leave"
    BY <1>2, <1>10 DEF Copy
  <2>2. QED
    BY <1>8, <2>1
       DEF TypeInv, BootInv, HeaderKept, EraseProgress, CopyProgress, EraseAfterCopy
<1>11. QED
  BY <1>9, <1>10

\* The end of the copy loop does: the current core is complete.
LEMMA CopyDoneStep ==
    ASSUME AllFit, BootInv, CopyDone, TypeInv'
    PROVE  BootInv'
<1>1. /\ pc = "copy" /\ pc' = "erase_new" /\ k' = 0
      /\ flash' = flash /\ committed' = committed
      /\ HeaderValid(flash) /\ new_core_size = HeaderSize(flash)
      /\ k \in Nat /\ k >= 2 * new_core_size
  BY DEF CopyDone, CopyUpTo, BootInv, HeaderKept, TypeOK
<1>2. /\ Len(committed) \in Nat
      /\ Len(committed) <= 2 * HeaderSize(flash)
      /\ HeaderSize(flash) \in Nat
  BY <1>1, CopyRoom
<1>3. ASSUME NEW x \in 1..Len(committed)
      PROVE  flash[CurAddr + x - 1] = committed[x]
  <2>1. x - 1 \in 0..(k - 1)
    BY <1>1, <1>2
  <2>2. flash[CurAddr + (x - 1)] = flash[NewAddr + HeaderHalves + (x - 1)]
    BY <1>1, <2>1 DEF BootInv, CopyProgress
  <2>3. flash[NewAddr + HeaderHalves + x - 1] = committed[x]
    BY <1>1 DEF BootInv, CoreSafe, Holds
  <2>4. /\ CurAddr + (x - 1) = CurAddr + x - 1
        /\ NewAddr + HeaderHalves + (x - 1) = NewAddr + HeaderHalves + x - 1
    BY FlashAssumption
  <2>5. QED
    BY <2>2, <2>3, <2>4
<1>4. Holds(flash, CurAddr, committed)
  BY <1>3 DEF Holds
<1>5. CoreSafe' /\ HeaderFits'
  BY <1>1 DEF BootInv, CoreSafe, HeaderFits
<1>6. QED
  BY <1>1, <1>4, <1>5
     DEF TypeInv, BootInv, HeaderKept, EraseProgress, CopyProgress, EraseAfterCopy

(* Erasing the staged core leaves the current one alone.                   *)
LEMMA EraseNewKeepsCore ==
    ASSUME BootInv, NEW st \in Status, EraseNew(st),
           Holds(flash, CurAddr, committed)
    PROVE  Holds(flash', CurAddr, committed)
<1> DEFINE a == NewAddr + k * PageHalves
<1>1. FLASH_ErasePage(a, st) /\ k \in Nat
  BY DEF EraseNew, EraseNewPage, BootInv, TypeOK
<1>2. flash' = flash \/ flash' = ErasePage(flash, a)
  BY <1>1, EraseEffect
<1>3. /\ CurAddr \in Nat /\ NewAddr \in Nat /\ PageHalves \in Nat
      /\ FlashEnd \in Nat /\ NewAddr <= FlashEnd
  BY FlashAssumption DEF FlashEnd
<1>4. k * PageHalves \in Nat
  BY <1>1, <1>3
<1>5. ASSUME NEW x \in 1..Len(committed)
      PROVE  flash'[CurAddr + x - 1] = committed[x]
  <2>1. flash[CurAddr + x - 1] = committed[x]
    BY DEF Holds
  <2>2. Len(committed) \in Nat /\ CurAddr + Len(committed) <= NewAddr
    BY DEF BootInv, TypeOK, Cores
  <2>3. CurAddr + x - 1 \in Addr /\ ~(a <= CurAddr + x - 1)
    BY <1>3, <1>4, <2>2 DEF Addr
  <2>4. QED
    BY <1>2, <2>1, <2>3 DEF ErasePage
<1>6. QED
  BY <1>5 DEF Holds

\* Erasing the staged core does: the first page erased takes the header with it.
LEMMA EraseNewStep ==
    ASSUME AllFit, BootInv, NEW st \in Status, EraseNew(st), TypeInv'
    PROVE  BootInv'
<1> DEFINE a == NewAddr + k * PageHalves
<1>1. /\ pc = "erase_new" /\ k \in Nat /\ k < NewPages /\ NewPages \in Nat
      /\ committed' = committed
      /\ FLASH_ErasePage(a, st)
      /\ Holds(flash, CurAddr, committed)
      /\ k = 0 \/ ~HeaderValid(flash)
  BY BootAssumption
     DEF EraseNew, EraseNewPage, BootInv, EraseAfterCopy, TypeOK
<1>2. /\ flash' = flash \/ flash' = ErasePage(flash, a)
      /\ st = "COMPLETE" => flash' = ErasePage(flash, a)
  BY <1>1, EraseEffect
<1>3. /\ NewAddr \in Addr /\ NewAddr + 1 \in Addr
      /\ CurAddr \in Nat /\ NewAddr \in Nat /\ PageHalves \in Nat
      /\ PageHalves > 1 /\ FlashEnd \in Nat /\ NewAddr <= FlashEnd
  BY FlashAssumption DEF Addr, FlashEnd
<1>4. k * PageHalves \in Nat /\ (k = 0 => k * PageHalves = 0)
  BY <1>1, <1>3
<1>5. Holds(flash', CurAddr, committed)
  BY <1>1, EraseNewKeepsCore
<1>6. flash' = ErasePage(flash, a) => ~HeaderValid(flash')
  <2>1. SUFFICES ASSUME flash' = ErasePage(flash, a)
                 PROVE  ~HeaderValid(flash')
    OBVIOUS
  <2>2. CASE k = 0
    <3>1. a <= NewAddr /\ NewAddr < a + PageHalves
      BY <1>3, <1>4, <2>2
    <3>2. flash'[NewAddr] = ErasedHalf
      BY <1>3, <2>1, <3>1 DEF ErasePage
    <3>3. QED
      BY <3>2, ErasedIsNoHeader
  <2>3. CASE k # 0
    <3>1. k * PageHalves >= PageHalves
      <4>1. 0 < k
        BY <1>1, <2>3
      <4>2. 0 * PageHalves + PageHalves <= k * PageHalves /\ 0 * PageHalves = 0
        BY <1>1, <1>3, <4>1, PageSum
      <4>3. QED
        BY <1>3, <1>4, <4>2
    <3>2. ~(a <= NewAddr) /\ ~(a <= NewAddr + 1)
      BY <1>3, <1>4, <3>1
    <3>3. flash'[NewAddr] = flash[NewAddr] /\ flash'[NewAddr + 1] = flash[NewAddr + 1]
      BY <1>3, <2>1, <3>2 DEF ErasePage
    <3>4. QED
      BY <1>1, <2>3, <3>3 DEF HeaderValid
  <2>4. QED
    BY <2>2, <2>3
<1>7. HeaderValid(flash') => flash' = flash
  BY <1>2, <1>6
<1>8. CoreSafe' /\ HeaderFits'
  BY <1>1, <1>5, <1>7 DEF BootInv, CoreSafe, HeaderFits
<1>9. CASE st = "COMPLETE"
  <2>1. pc' = "erase_new" /\ ~HeaderValid(flash')
    BY <1>1, <1>2, <1>6, <1>9 DEF EraseNew, EraseNewPage
  <2>2. QED
    BY <1>1, <1>5, <1>8, <2>1
       DEF TypeInv, BootInv, HeaderKept, EraseProgress, CopyProgress, EraseAfterCopy
<1>10. CASE st # "COMPLETE"
  <2>1. pc' = "leave"
    BY <1>10 DEF EraseNew, EraseNewPage
  <2>2. QED
    BY <1>8, <2>1
       DEF TypeInv, BootInv, HeaderKept, EraseProgress, CopyProgress, EraseAfterCopy
<1>11. QED
  BY <1>9, <1>10

(* The steps that leave the flash and `committed' alone and end no loop.   *)
LEMMA QuietStep ==
    ASSUME BootInv, TypeInv', flash' = flash, committed' = committed,
           pc' \in {"main", "leave", "app", "halt"},
           pc' = "main" => k' = 0
    PROVE  BootInv'
<1>1. CoreSafe' /\ HeaderFits'
  BY DEF BootInv, CoreSafe, HeaderFits
<1>2. QED
  BY <1>1
     DEF TypeInv, BootInv, HeaderKept, EraseProgress, CopyProgress, EraseAfterCopy

\* Staging does: the staged core becomes the one to run as its header appears.
LEMMA StageStep ==
    ASSUME AllFit, BootInv, TypeInv',
           NEW img \in Images,
           NEW n \in HeaderHalves..(HeaderHalves + Len(img.body)),
           Stage(img, n)
    PROVE  BootInv'
<1>1. flash \in Contents
  BY DEF BootInv, TypeOK, FlashTypeOK
<1>2. /\ flash' \in Contents
      /\ HeaderValid(flash')
      /\ HeaderSize(flash') = ImageSize(img)
  BY <1>1, StagedIsImage DEF Stage
<1>3. /\ ImageSize(img) \in Nat
      /\ CoreHalves(ImageSize(img)) \in Nat
      /\ InFlash(img)
  BY ImageFacts
<1>4. NewAddr + HeaderHalves + CoreHalves(ImageSize(img)) <= FlashEnd
  BY <1>3 DEF InFlash
<1>5. committed' = Area(flash', NewAddr + HeaderHalves, CoreHalves(ImageSize(img)))
  BY <1>2 DEF Stage
<1>6. NewAddr + HeaderHalves \in Int /\ CurAddr <= NewAddr + HeaderHalves
  BY FlashAssumption
<1>7. /\ Len(committed') = CoreHalves(ImageSize(img))
      /\ Holds(flash', NewAddr + HeaderHalves, committed')
  BY <1>2, <1>3, <1>4, <1>5, <1>6, AreaType
<1>8. CoreSafe'
  BY <1>2, <1>7 DEF CoreSafe
<1>9. HeaderFits'
  <2>1. /\ 2 * ImageSize(img) <= CurPages * PageHalves
        /\ NewAddr + HeaderHalves + 2 * ImageSize(img) <= FlashEnd
    BY DEF AllFit, Fits
  <2>2. QED
    BY <1>2, <1>7, <2>1 DEF HeaderFits
<1>10. pc' = "app"
  BY DEF Stage
<1>11. QED
  BY <1>8, <1>9, <1>10
     DEF TypeInv, BootInv, HeaderKept, EraseProgress, CopyProgress, EraseAfterCopy

\* Every step preserves the inductive invariant.
LEMMA BootStep ==
    ASSUME AllFit PROVE BootInv /\ [Next]_vars => BootInv'
<1> SUFFICES ASSUME BootInv, [Next]_vars PROVE BootInv'
  OBVIOUS
<1>1. TypeInv'
  BY TypeStep DEF BootInv, TypeInv
<1>2. ASSUME NEW i0 \in LoopStart, ReadHeader(i0)
      PROVE  BootInv'
  BY <1>1, <1>2, ReadHeaderStep
<1>3. ASSUME NEW st \in Status, EraseCur(st) \/ Copy(st) \/ EraseNew(st)
      PROVE  BootInv'
  BY <1>1, <1>3, EraseCurStep, CopyStep, EraseNewStep
<1>4. CASE CopyDone
  BY <1>1, <1>4, CopyDoneStep
<1>5. CASE EraseDone
  BY <1>1, <1>5, QuietStep DEF EraseDone
<1>6. CASE Leave
  BY <1>1, <1>6, QuietStep DEF Leave, LeaveOn
<1>7. ASSUME NEW img \in Images,
             NEW n \in HeaderHalves..(HeaderHalves + Len(img.body)),
             Stage(img, n)
      PROVE  BootInv'
  BY <1>1, <1>7, StageStep
<1>8. CASE Reset
  BY <1>1, <1>8, QuietStep DEF Reset, Restart, FlashReset
<1>9. CASE UNCHANGED vars
  BY <1>9 DEF vars, BootInv, TypeOK, FlashTypeOK, CoreSafe, HeaderFits,
              HeaderKept, EraseProgress, CopyProgress, EraseAfterCopy
<1>10. QED
  BY <1>2, <1>3, <1>4, <1>5, <1>6, <1>7, <1>8, <1>9 DEF Next, Boot, App

(* The core is never lost: at every instant at which power may fail, one   *)
(* whole copy of the core the device ought to run is where the bootloader  *)
(* will look for it.                                                       *)
THEOREM CoreNeverLost ==
    ASSUME AllFit PROVE Spec => []CoreSafe
<1>1. Init => BootInv
  BY BootInit
<1>2. BootInv /\ [Next]_vars => BootInv'
  BY BootStep
<1>3. BootInv => CoreSafe
  BY DEF BootInv
<1>4. QED
  BY <1>1, <1>2, <1>3, PTL DEF Spec

-----------------------------------------------------------------------------
(* What a jump finds, when read_header's loop starts at 0.                 *)

JumpInv ==
    (pc = "leave" /\ errno = "none") => Holds(flash, CurAddr, committed)

ErrnoClean == pc \in {"main", "erase_cur", "copy", "erase_new"} => errno = "none"

\* In the factory state no jump is due, and errno is clear.
LEMMA JumpInit == ASSUME AllFit PROVE Init => JumpInv /\ ErrnoClean
BY DEF Init, JumpInv, ErrnoClean

\* Started at 0, read_header's loop sees the header that is in the flash.
LEMMA BufIsHeader == IsHeader(HeaderBuf(flash, 0)) <=> HeaderValid(flash)
<1>1. /\ 0 \in 0..(HeaderHalves - 1) /\ 1 \in 0..(HeaderHalves - 1)
      /\ NewAddr + 0 - 0 = NewAddr /\ NewAddr + 1 - 0 = NewAddr + 1
  BY FlashAssumption
<1>2. /\ HeaderBuf(flash, 0)[0] = flash[NewAddr]
      /\ HeaderBuf(flash, 0)[1] = flash[NewAddr + 1]
  BY <1>1 DEF HeaderBuf
<1>3. QED
  BY <1>2 DEF IsHeader, HeaderValid

\* Past a successful check_core, CurAddr holds the core to run.
LEMMA JumpStep ==
    ASSUME AllFit, LoopStart = {0}
    PROVE  BootInv /\ BootInv' /\ JumpInv /\ ErrnoClean /\ [Next]_vars
              => JumpInv' /\ ErrnoClean'
<1> SUFFICES ASSUME BootInv, BootInv', JumpInv, ErrnoClean, [Next]_vars
             PROVE  JumpInv' /\ ErrnoClean'
  OBVIOUS
<1> USE DEF JumpInv, ErrnoClean
<1>1. CASE ReadHeader(0)
  <2>1. CASE IsHeader(HeaderBuf(flash, 0))
    BY <1>1, <2>1 DEF ReadHeader
  <2>2. CASE ~IsHeader(HeaderBuf(flash, 0))
    <3>1. ~HeaderValid(flash)
      BY <2>2, BufIsHeader
    <3>2. Holds(flash, CurAddr, committed)
      BY <3>1 DEF BootInv, CoreSafe
    <3>3. QED
      BY <1>1, <2>2, <3>2 DEF ReadHeader
  <2>3. QED
    BY <2>1, <2>2
<1>2. ASSUME NEW st \in Status, EraseCur(st)
      PROVE  JumpInv' /\ ErrnoClean'
  BY <1>2 DEF EraseCur, EraseCurUpTo
<1>3. ASSUME NEW st \in Status, Copy(st)
      PROVE  JumpInv' /\ ErrnoClean'
  BY <1>3 DEF Copy
<1>4. CASE CopyDone
  BY <1>4 DEF CopyDone, CopyUpTo
<1>5. ASSUME NEW st \in Status, EraseNew(st)
      PROVE  JumpInv' /\ ErrnoClean'
  <2>1. pc = "erase_new" /\ errno' = errno /\ errno = "none"
    BY <1>5 DEF EraseNew, EraseNewPage
  <2>2. pc' \in {"erase_new", "leave"}
    BY <1>5 DEF EraseNew, EraseNewPage
  <2>3. Holds(flash, CurAddr, committed) /\ committed' = committed
    BY <1>5, <2>1 DEF EraseNew, EraseNewPage, BootInv, EraseAfterCopy
  <2>4. Holds(flash', CurAddr, committed)
    BY <1>5, <2>1, <2>3, EraseNewKeepsCore
  <2>5. QED
    BY <2>1, <2>2, <2>3, <2>4
<1>6. CASE EraseDone
  BY <1>6 DEF EraseDone, BootInv, EraseAfterCopy
<1>7. CASE Leave
  BY <1>7 DEF Leave, LeaveOn
<1>8. ASSUME NEW img \in Images,
             NEW n \in HeaderHalves..(HeaderHalves + Len(img.body)),
             Stage(img, n)
      PROVE  JumpInv' /\ ErrnoClean'
  BY <1>8 DEF Stage
<1>9. CASE Reset
  BY <1>9 DEF Reset, Restart
<1>10. CASE UNCHANGED vars
  BY <1>10 DEF vars
<1>11. QED
  BY <1>1, <1>2, <1>3, <1>4, <1>5, <1>6, <1>7, <1>8, <1>9, <1>10
     DEF Next, Boot, App

\* A core that CurAddr holds is what Area reads there.
LEMMA HeldIsRead ==
    ASSUME NEW f, NEW a, NEW c \in Cores, Holds(f, a, c)
    PROVE  Area(f, a, Len(c)) = c
<1>1. c = [x \in 1..Len(c) |-> c[x]]
  BY DEF Cores
<1>2. \A x \in 1..Len(c) : f[a + x - 1] = c[x]
  BY DEF Holds
<1>3. Area(f, a, Len(c)) = [x \in 1..Len(c) |-> c[x]]
  BY <1>2 DEF Area
<1>4. QED
  BY <1>1, <1>3

\* So the jump runs it.
LEMMA LeaveRuns ==
    ASSUME BootInv, JumpInv, Leave, errno = "none"
    PROVE  launched' = {committed}
<1>1. Holds(flash, CurAddr, committed) /\ committed \in Cores
  BY DEF BootInv, JumpInv, TypeOK, Leave, LeaveOn
<1>2. launched' = {Area(flash, CurAddr, Len(committed))}
  BY DEF Leave, LeaveOn
<1>3. QED
  BY <1>1, <1>2, HeldIsRead

\* Every step changes what runs to nothing or to the core to run.
LEMMA LaunchStep ==
    ASSUME BootInv, JumpInv, [Next]_vars
    PROVE  launched' \in {launched, {}, {committed}}
<1>1. ASSUME NEW i0 \in LoopStart, ReadHeader(i0)
      PROVE  launched' = launched
  BY <1>1 DEF ReadHeader
<1>2. ASSUME NEW st \in Status, EraseCur(st) \/ Copy(st) \/ EraseNew(st)
      PROVE  launched' = launched
  BY <1>2 DEF EraseCur, EraseCurUpTo, Copy, EraseNew, EraseNewPage
<1>3. CASE CopyDone \/ EraseDone \/ UNCHANGED vars
  BY <1>3 DEF CopyDone, CopyUpTo, EraseDone, vars
<1>4. CASE Leave
  <2>1. CASE errno = "none"
    BY <1>4, <2>1, LeaveRuns
  <2>2. CASE errno # "none"
    BY <1>4, <2>2 DEF Leave, LeaveOn, BootInv, TypeOK
  <2>3. QED
    BY <2>1, <2>2
<1>5. ASSUME NEW img \in Images,
             NEW n \in HeaderHalves..(HeaderHalves + Len(img.body)),
             Stage(img, n)
      PROVE  launched' = launched
  BY <1>5 DEF Stage
<1>6. CASE Reset
  BY <1>6 DEF Reset, Restart
<1>7. QED
  BY <1>1, <1>2, <1>3, <1>4, <1>5, <1>6 DEF Next, Boot, App

(* If read_header's loop variable starts at 0, every jump is into the core *)
(* the device ought to run, whatever was interrupted before and whichever  *)
(* flash operations failed.                                                *)
THEOREM JumpsIntoCommitted ==
    ASSUME AllFit, LoopStart = {0} PROVE Spec => RunsCommitted
<1> DEFINE Inv == BootInv /\ JumpInv /\ ErrnoClean
<1>1. Init => Inv
  BY BootInit, JumpInit
<1>2. Inv /\ [Next]_vars => Inv'
  BY BootStep, JumpStep
<1>3. Inv /\ [Next]_vars => [launched' \in {launched, {}, {committed}}]_vars
  BY LaunchStep
<1>4. QED
  BY <1>1, <1>2, <1>3, PTL DEF Spec, RunsCommitted

-----------------------------------------------------------------------------
(* The bootloader implements the core slot.                                *)

LaunchInv == IF pc = "app" THEN launched # {} ELSE launched = {}

\* Something runs only in the application.
LEMMA LaunchInvStep == LaunchInv /\ [Next]_vars => LaunchInv'
<1> SUFFICES ASSUME LaunchInv, [Next]_vars PROVE LaunchInv'
  OBVIOUS
<1> USE DEF LaunchInv
<1>1. ASSUME NEW i0 \in LoopStart, ReadHeader(i0)
      PROVE  LaunchInv'
  BY <1>1 DEF ReadHeader
<1>2. ASSUME NEW st \in Status, EraseCur(st) \/ Copy(st) \/ EraseNew(st)
      PROVE  LaunchInv'
  BY <1>2 DEF EraseCur, EraseCurUpTo, Copy, EraseNew, EraseNewPage
<1>3. CASE CopyDone \/ EraseDone \/ UNCHANGED vars
  BY <1>3 DEF CopyDone, CopyUpTo, EraseDone, vars
<1>4. CASE Leave
  BY <1>4 DEF Leave, LeaveOn
<1>5. ASSUME NEW img \in Images,
             NEW n \in HeaderHalves..(HeaderHalves + Len(img.body)),
             Stage(img, n)
      PROVE  LaunchInv'
  BY <1>5 DEF Stage
<1>6. CASE Reset
  BY <1>6 DEF Reset, Restart
<1>7. QED
  BY <1>1, <1>2, <1>3, <1>4, <1>5, <1>6 DEF Next, Boot, App

\* Every step is a step of the single slot, or a stutter.
LEMMA SlotStep ==
    ASSUME BootInv, BootInv', JumpInv, LaunchInv, [Next]_vars
    PROVE  [Slot!Next]_(Slot!vars)
<1> USE DEF Slot!vars
<1>1. ASSUME NEW i0 \in LoopStart, ReadHeader(i0)
      PROVE  UNCHANGED <<committed, launched>>
  BY <1>1 DEF ReadHeader
<1>2. ASSUME NEW st \in Status, EraseCur(st) \/ Copy(st) \/ EraseNew(st)
      PROVE  UNCHANGED <<committed, launched>>
  BY <1>2 DEF EraseCur, EraseCurUpTo, Copy, EraseNew, EraseNewPage
<1>3. CASE CopyDone \/ EraseDone \/ UNCHANGED vars
  BY <1>3 DEF CopyDone, CopyUpTo, EraseDone, vars
<1>4. CASE Leave
  <2>1. committed' = committed /\ launched = {}
    BY <1>4 DEF Leave, LeaveOn, LaunchInv
  <2>2. CASE errno = "none"
    <3>1. Slot!Start
      BY <1>4, <2>1, <2>2, LeaveRuns DEF Slot!Start
    <3>2. QED
      BY <3>1 DEF Slot!Next
  <2>3. CASE errno # "none"
    BY <1>4, <2>1, <2>3 DEF Leave, LeaveOn, BootInv, TypeOK
  <2>4. QED
    BY <2>2, <2>3
<1>5. ASSUME NEW img \in Images,
             NEW n \in HeaderHalves..(HeaderHalves + Len(img.body)),
             Stage(img, n)
      PROVE  Slot!Update
  <2>1. launched # {} /\ launched' = launched
    BY <1>5 DEF Stage, LaunchInv
  <2>2. committed' \in Cores
    BY DEF BootInv, TypeOK
  <2>3. QED
    BY <2>1, <2>2 DEF Slot!Update
<1>6. CASE Reset
  BY <1>6 DEF Reset, Restart, Slot!Next, Slot!Stop
<1>7. QED
  BY <1>1, <1>2, <1>3, <1>4, <1>5, <1>6 DEF Next, Boot, App, Slot!Next

(* To whoever watches only which core the device holds and which it runs,  *)
(* the bootloader is a single slot that updates replace at a stroke.       *)
THEOREM ImplementsSlot ==
    ASSUME AllFit, LoopStart = {0} PROVE Spec => SlotSpec
<1> DEFINE Inv == BootInv /\ JumpInv /\ ErrnoClean /\ LaunchInv
<1>1. Init => Inv
  <2>1. Init => LaunchInv
    BY DEF Init, LaunchInv
  <2>2. QED
    BY <2>1, BootInit, JumpInit
<1>2. Inv /\ [Next]_vars => Inv'
  BY BootStep, JumpStep, LaunchInvStep
<1>3. Init => Slot!Init
  <2>1. Init => committed \in Cores
    BY TypeInit DEF TypeInv, TypeOK
  <2>2. QED
    BY <2>1 DEF Init, Slot!Init
<1>4. Inv /\ Inv' /\ [Next]_vars => [Slot!Next]_(Slot!vars)
  BY SlotStep
<1>5. QED
  BY <1>1, <1>2, <1>3, <1>4, PTL DEF Spec, SlotSpec, Slot!Spec

-----------------------------------------------------------------------------
(* A working flash never bricks the device.                                *)

WorkingInv == sr = "ok" /\ errno = "none" /\ NeverBricked

\* With a working flash no operation of the bootloader fails.
LEMMA WorkingStep ==
    ASSUME AllFit, Faults = FALSE
    PROVE  BootInv /\ WorkingInv /\ [Next]_vars => WorkingInv'
<1> SUFFICES ASSUME BootInv, WorkingInv, [Next]_vars
             PROVE  WorkingInv'
  OBVIOUS
<1> USE DEF WorkingInv, NeverBricked
<1>1. ASSUME NEW i0 \in LoopStart, ReadHeader(i0)
      PROVE  WorkingInv'
  BY <1>1 DEF ReadHeader
<1>2. ASSUME NEW st \in Status, EraseCur(st)
      PROVE  WorkingInv'
  <2>1. st = "COMPLETE" /\ sr' = "ok"
    BY <1>2 DEF EraseCur, EraseCurUpTo, FLASH_ErasePage, FlashOp
  <2>2. QED
    BY <1>2, <2>1 DEF EraseCur, EraseCurUpTo
<1>3. ASSUME NEW st \in Status, Copy(st)
      PROVE  WorkingInv'
  <2>1. /\ NewAddr + HeaderHalves + k \in Addr
        /\ flash[CurAddr + k] = ErasedHalf
    BY <1>3, CopyPlace DEF Copy
  <2>2. st = "COMPLETE" /\ sr' = "ok"
    BY <1>3, <2>1 DEF Copy, FLASH_ProgramHalfWord, FlashOp, Programmable
  <2>3. QED
    BY <1>3, <2>1, <2>2 DEF Copy
<1>4. CASE CopyDone
  BY <1>4 DEF CopyDone, CopyUpTo
<1>5. ASSUME NEW st \in Status, EraseNew(st)
      PROVE  WorkingInv'
  <2>1. st = "COMPLETE" /\ sr' = "ok"
    BY <1>5 DEF EraseNew, EraseNewPage, FLASH_ErasePage, FlashOp
  <2>2. QED
    BY <1>5, <2>1 DEF EraseNew, EraseNewPage
<1>6. CASE EraseDone
  BY <1>6 DEF EraseDone
<1>7. CASE Leave
  BY <1>7 DEF Leave, LeaveOn
<1>8. ASSUME NEW img \in Images,
             NEW n \in HeaderHalves..(HeaderHalves + Len(img.body)),
             Stage(img, n)
      PROVE  WorkingInv'
  BY <1>8 DEF Stage
<1>9. CASE Reset
  BY <1>9 DEF Reset, Restart, FlashReset
<1>10. CASE UNCHANGED vars
  BY <1>10 DEF vars
<1>11. QED
  BY <1>1, <1>2, <1>3, <1>4, <1>5, <1>6, <1>7, <1>8, <1>9, <1>10
     DEF Next, Boot, App

(* While the flash works, the bootloader never ends in main's error loop   *)
(* or in a bus fault: what an interrupted installation leaves behind never *)
(* keeps the next one from succeeding.                                     *)
THEOREM WorkingFlashBoots ==
    ASSUME AllFit, Faults = FALSE PROVE Spec => []NeverBricked
<1> DEFINE Inv == BootInv /\ WorkingInv
<1>1. Init => Inv
  <2>1. Init => WorkingInv
    BY DEF Init, WorkingInv, NeverBricked
  <2>2. QED
    BY <2>1, BootInit
<1>2. Inv /\ [Next]_vars => Inv'
  BY BootStep, WorkingStep
<1>3. Inv => NeverBricked
  BY DEF WorkingInv
<1>4. QED
  BY <1>1, <1>2, <1>3, PTL DEF Spec

\* With a working flash main goes on to the jump only where no header is left.
LEMMA InstalledStep ==
    ASSUME AllFit, Faults = FALSE, LoopStart = {0}
    PROVE  BootInv /\ WorkingInv /\ WorkingInv' /\ InstalledOnce /\ [Next]_vars
              => InstalledOnce'
<1> SUFFICES ASSUME BootInv, WorkingInv, WorkingInv', InstalledOnce, [Next]_vars
             PROVE  InstalledOnce'
  OBVIOUS
<1> USE DEF InstalledOnce
<1>1. CASE ReadHeader(0)
  <2>1. flash' = flash /\ (pc' = "leave" => ~IsHeader(HeaderBuf(flash, 0)))
    BY <1>1 DEF ReadHeader
  <2>2. QED
    BY <2>1, BufIsHeader DEF HeaderValid
<1>2. ASSUME NEW st \in Status, EraseCur(st) \/ Copy(st) \/ EraseNew(st)
      PROVE  pc' # "leave"
  <2>1. CASE EraseCur(st)
    <3>1. pc = "erase_cur" /\ (pc' = "leave" => errno' = "erase")
      BY <2>1 DEF EraseCur, EraseCurUpTo
    <3>2. QED
      BY <3>1 DEF WorkingInv
  <2>2. CASE Copy(st)
    <3>1. pc = "copy" /\ (pc' = "leave" => errno' = "write")
      BY <2>2 DEF Copy
    <3>2. QED
      BY <3>1 DEF WorkingInv
  <2>3. CASE EraseNew(st)
    <3>1. st = "COMPLETE"
      BY <2>3 DEF WorkingInv, EraseNew, EraseNewPage, FLASH_ErasePage, FlashOp
    <3>2. QED
      BY <2>3, <3>1 DEF EraseNew, EraseNewPage
  <2>4. QED
    BY <1>2, <2>1, <2>2, <2>3
<1>3. CASE CopyDone
  BY <1>3 DEF CopyDone, CopyUpTo
<1>4. CASE EraseDone
  <2>1. pc = "erase_new" /\ k = NewPages /\ flash' = flash
    BY <1>4 DEF EraseDone
  <2>2. NewPages # 0
    BY BootAssumption
  <2>3. ~HeaderValid(flash)
    BY <2>1, <2>2 DEF BootInv, EraseAfterCopy
  <2>4. QED
    BY <2>1, <2>3 DEF HeaderValid
<1>5. CASE Leave
  BY <1>5 DEF Leave, LeaveOn
<1>6. ASSUME NEW img \in Images,
             NEW n \in HeaderHalves..(HeaderHalves + Len(img.body)),
             Stage(img, n)
      PROVE  InstalledOnce'
  BY <1>6 DEF Stage
<1>7. CASE Reset
  BY <1>7 DEF Reset, Restart
<1>8. CASE UNCHANGED vars
  BY <1>8 DEF vars, HeaderValid
<1>9. QED
  BY <1>1, <1>2, <1>3, <1>4, <1>5, <1>6, <1>7, <1>8 DEF Next, Boot, App

(* With a working flash and read_header's loop started at 0, main jumps    *)
(* only when no header is left: a core is installed once, however often    *)
(* its installation was interrupted.                                       *)
THEOREM NeverInstalledTwice ==
    ASSUME AllFit, Faults = FALSE, LoopStart = {0} PROVE Spec => []InstalledOnce
<1> DEFINE Inv == BootInv /\ WorkingInv /\ InstalledOnce
<1>1. Init => Inv
  <2>1. Init => WorkingInv /\ InstalledOnce
    BY DEF Init, WorkingInv, NeverBricked, InstalledOnce
  <2>2. QED
    BY <2>1, BootInit
<1>2. Inv /\ [Next]_vars => Inv'
  BY BootStep, WorkingStep, InstalledStep
<1>3. QED
  BY <1>1, <1>2, PTL DEF Spec

=============================================================================
