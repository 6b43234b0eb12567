---------------------------- MODULE FlashProofs ----------------------------
(***************************************************************************)
(* What the flash driver does to the array, for every geometry: the facts  *)
(* the proofs about the bootloader and about the updater both rest on.     *)
(***************************************************************************)
EXTENDS Flash, TLAPS

-----------------------------------------------------------------------------
(* Arithmetic of pages, words and addresses.                               *)

\* The n-th page ends within the first m when n < m.
LEMMA PageSum ==
    ASSUME NEW n \in Nat, NEW m \in Nat, n < m
    PROVE  /\ n * PageHalves \in Nat
           /\ (n + 1) * PageHalves = n * PageHalves + PageHalves
           /\ n * PageHalves + PageHalves <= m * PageHalves
<1>1. PageHalves \in Nat
  BY FlashAssumption
<1>2. n + 1 <= m
  OBVIOUS
<1>3. ASSUME NEW p \in Nat
      PROVE  n * p \in Nat /\ (n + 1) * p = n * p + p /\ n * p + p <= m * p
  <2>1. n * p \in Nat /\ (n + 1) * p = n * p + p
    OBVIOUS
  <2>2. PICK d \in Nat : m = (n + 1) + d
    <3>1. m - (n + 1) \in Nat /\ m = (n + 1) + (m - (n + 1))
      BY <1>2
    <3>2. QED
      BY <3>1
  <2>3. m * p = (n + 1) * p + d * p /\ d * p \in Nat
    BY <2>2
  <2>4. QED
    BY <2>1, <2>3
<1>4. QED
  BY <1>1, <1>3

\* The word two half-words make is a natural number.
LEMMA WordIsNat ==
    ASSUME NEW lo \in Half, NEW hi \in Half
    PROVE  WordValue(lo, hi) \in Nat
BY FlashAssumption DEF WordValue, Half

\* A core of that many bytes fills no more half-words than the copy loop moves.
LEMMA CoreHalvesBound ==
    ASSUME NEW size \in Nat
    PROVE  CoreHalves(size) \in Nat /\ CoreHalves(size) <= 2 * size
BY DEF CoreHalves

\* The header lies within the flash.
LEMMA HeaderInFlash ==
    ASSUME NEW j \in Nat, j < HeaderHalves
    PROVE  NewAddr + j \in Addr
BY FlashAssumption DEF Addr, FlashEnd

\* The size a header declares is a natural number.
LEMMA HeaderSizeIsNat ==
    ASSUME NEW f \in Contents
    PROVE  HeaderSize(f) \in Nat
<1>1. NewAddr + HeaderHalves - 2 \in Addr /\ NewAddr + HeaderHalves - 1 \in Addr
  BY FlashAssumption DEF Addr, FlashEnd
<1>2. QED
  BY <1>1, WordIsNat DEF HeaderSize, Contents

-----------------------------------------------------------------------------
(* What one driver call does to the array.                                 *)

\* Erasing a page keeps the array an array of half-words.
LEMMA EraseType ==
    ASSUME NEW f \in Contents, NEW a
    PROVE  ErasePage(f, a) \in Contents
BY FlashAssumption DEF ErasePage, Contents, Half, ErasedHalf

\* So does programming a half-word.
LEMMA ProgramType ==
    ASSUME NEW f \in Contents, NEW a \in Addr, NEW v \in Half
    PROVE  ProgramHalf(f, a, v) \in Contents
BY DEF ProgramHalf, Contents

\* The other half-words keep their values.
LEMMA ProgramElsewhere ==
    ASSUME NEW f \in Contents, NEW a, NEW v, NEW x \in Addr, x # a
    PROVE  ProgramHalf(f, a, v)[x] = f[x]
BY DEF ProgramHalf, Contents

\* What each cell holds after an erase.
LEMMA EraseEffect ==
    ASSUME NEW a, NEW st, FLASH_ErasePage(a, st)
    PROVE  /\ flash' = flash \/ flash' = ErasePage(flash, a)
           /\ st = "COMPLETE" => flash' = ErasePage(flash, a)
BY DEF FLASH_ErasePage, FlashOp

\* What each cell holds after a half-word is programmed.
LEMMA ProgramEffect ==
    ASSUME NEW a, NEW v, NEW st, FLASH_ProgramHalfWord(a, v, st)
    PROVE  /\ flash' = flash \/ flash' = ProgramHalf(flash, a, v)
           /\ st = "COMPLETE" => flash' = ProgramHalf(flash, a, v)
BY DEF FLASH_ProgramHalfWord, FlashOp

\* A driver operation, whatever its status, keeps the flash and its flags typed.
LEMMA DriverType ==
    ASSUME FlashTypeOK,
           NEW st,
           \/ \E a : FLASH_ErasePage(a, st)
           \/ \E a \in Addr, v \in Half : FLASH_ProgramHalfWord(a, v, st)
    PROVE  FlashTypeOK'
<1>1. CASE \E a : FLASH_ErasePage(a, st)
  <2>1. PICK a : FLASH_ErasePage(a, st)
    BY <1>1
  <2>2. flash' \in Contents
    BY <2>1, EraseEffect, EraseType DEF FlashTypeOK
  <2>3. QED
    BY <2>1, <2>2 DEF FlashTypeOK, FLASH_ErasePage, FlashOp
<1>2. CASE \E a \in Addr, v \in Half : FLASH_ProgramHalfWord(a, v, st)
  <2>1. PICK a \in Addr, v \in Half : FLASH_ProgramHalfWord(a, v, st)
    BY <1>2
  <2>2. flash' \in Contents
    BY <2>1, ProgramEffect, ProgramType DEF FlashTypeOK
  <2>3. QED
    BY <2>1, <2>2 DEF FlashTypeOK, FLASH_ProgramHalfWord, FlashOp
<1>3. QED
  BY <1>1, <1>2

\* An area of the flash is a sequence of half-words.
LEMMA AreaType ==
    ASSUME NEW f \in Contents, NEW a \in Int, NEW n \in Nat,
           CurAddr <= a, a + n <= FlashEnd
    PROVE  /\ Area(f, a, n) \in Seq(Half)
           /\ Len(Area(f, a, n)) = n
           /\ Holds(f, a, Area(f, a, n))
<1>1. \A x \in 1..n : a + x - 1 \in Addr
  BY FlashAssumption DEF Addr, FlashEnd
<1>2. \A x \in 1..n : f[a + x - 1] \in Half
  BY <1>1 DEF Contents
<1>3. Area(f, a, n) \in [1..n -> Half]
  BY <1>2 DEF Area
<1>4. Area(f, a, n) \in Seq(Half) /\ Len(Area(f, a, n)) = n
  BY <1>3
<1>5. QED
  BY <1>4 DEF Holds, Area

=============================================================================
