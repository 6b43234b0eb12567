------------------------------- MODULE Flash -------------------------------
(***************************************************************************)
(* The flash memory of the STM32F107 and the driver both firmware programs *)
(* reach it through: the bootloader (bootloader/src) and the updater       *)
(* (updater_mcu/src) link the same StdPeriph file, stm32f10x_flash.c.      *)
(*                                                                         *)
(* The unit of address is the half-word, because that is what the hardware *)
(* programs: FLASH_ProgramWord is two half-word stores, and power may fail *)
(* between them.  All addresses and sizes below are in half-words, counted *)
(* from the base of the flash.                                             *)
(***************************************************************************)
EXTENDS Integers, Sequences

CONSTANTS
    MaxHalf,        \* the largest half-word, 0xFFFF; also the erased one
    PageHalves,     \* STM32F107_PAGE_SIZE
    CurAddr,        \* CURRENT_CORE_FLASH_ADDR, start of the running core
    NewAddr,        \* NEW_CORE_FLASH_ADDR, start of the staged core
    LastPageAddr,   \* STM32F107_LAST_PAGE_ADDR, start of the last page
    HeaderHalves,   \* CORE_HEADER_SIZE = HEADER_SIZE
    MagicLo,        \* the half-word "ve"
    MagicHi,        \* the half-words whose first byte is 'r'
    Faults          \* may an erase or a program call fail?

FlashEnd == LastPageAddr + PageHalves

Half == 0..MaxHalf
ErasedHalf == MaxHalf

(***************************************************************************)
(* The addresses a program of this system ever reads or writes: from the   *)
(* current core up.  The bootloader's own pages lie below CurAddr.         *)
(***************************************************************************)
Addr == CurAddr..(FlashEnd - 1)

Contents == [Addr -> Half]

ASSUME FlashAssumption ==
    /\ MaxHalf \in Nat \ {0}
    /\ PageHalves \in Nat \ {0}
    /\ CurAddr \in Nat
    /\ NewAddr \in Nat
    /\ LastPageAddr \in Nat
    /\ HeaderHalves \in Nat
    /\ HeaderHalves >= 4
    /\ HeaderHalves <= PageHalves
    /\ CurAddr + HeaderHalves <= NewAddr
    /\ NewAddr + PageHalves <= LastPageAddr
    /\ MagicLo \in Half \ {0, ErasedHalf}
    /\ MagicHi \subseteq Half
    /\ Faults \in BOOLEAN

VARIABLES
    flash,          \* the array
    sr,             \* the error flags of FLASH->SR: "ok" or "error"
    locked          \* the LOCK bit of FLASH->CR

FlashTypeOK ==
    /\ flash \in Contents
    /\ sr \in {"ok", "error"}
    /\ locked \in BOOLEAN

-----------------------------------------------------------------------------
(***************************************************************************)
(* What the array holds after an erase: the page that begins at a is all   *)
(* ones.  A half-word can be programmed only where the cell is still       *)
(* erased, or with zero; otherwise the hardware leaves the cell alone and  *)
(* raises PGERR.                                                           *)
(***************************************************************************)
ErasePage(f, a) ==
    [x \in Addr |-> IF a <= x /\ x < a + PageHalves THEN ErasedHalf ELSE f[x]]

Programmable(f, a, v) == f[a] = ErasedHalf \/ v = 0

\* Two half-words, the low one first, as the unsigned word they make.
WordValue(lo, hi) == hi * (MaxHalf + 1) + lo

\* Mutated form: the store without its cast to uint16_t.
ProgramUncast(f, a, v) == [f EXCEPT ![a] = WordValue(v, 1)]

ProgramHalf(f, a, v) == [f EXCEPT ![a] = v]

-----------------------------------------------------------------------------
(***************************************************************************)
(* One driver operation and the FLASH_Status st it returns.  Every call    *)
(* first waits for the previous operation and looks at SR.  PGERR and      *)
(* WRPRTERR stay set until software clears them, and no code of either     *)
(* program calls FLASH_ClearFlag: from the first error on, every call      *)
(* fails without touching the array, until a reset.  A TIMEOUT says only   *)
(* that the operation was slow, so its effect may or may not be there; it  *)
(* leaves no flag.  A call on a locked controller has no step here; TLC's  *)
(* deadlock check shows that none is made.                                 *)
(***************************************************************************)
FlashOp(done, possible, st) ==
    /\ ~locked
    /\ UNCHANGED locked
    /\ \/ /\ sr = "error"
          /\ st = "ERROR"
          /\ UNCHANGED <<flash, sr>>
       \/ /\ sr = "ok"
          /\ possible
          /\ st = "COMPLETE"
          /\ flash' = done
          /\ UNCHANGED sr
       \/ /\ sr = "ok"
          /\ Faults \/ ~possible        \* WRPRTERR, or PGERR
          /\ st = "ERROR"
          /\ sr' = "error"
          /\ UNCHANGED flash
       \/ /\ sr = "ok"
          /\ Faults
          /\ possible
          /\ st = "TIMEOUT"
          /\ flash' \in {flash, done}
          /\ UNCHANGED sr

FLASH_ErasePage(a, st) == FlashOp(ErasePage(flash, a), TRUE, st)

FLASH_ProgramHalfWord(a, v, st) ==
    FlashOp(ProgramHalf(flash, a, v), Programmable(flash, a, v), st)

Status == {"COMPLETE", "ERROR", "TIMEOUT"}

(***************************************************************************)
(* A reset, by power failure or NVIC_SystemReset: the array survives, the  *)
(* controller comes up locked and without error flags.                     *)
(***************************************************************************)
FlashReset ==
    /\ sr' = "ok"
    /\ locked' = TRUE
    /\ UNCHANGED flash

-----------------------------------------------------------------------------
(***************************************************************************)
(* erase_sector, the same function in both programs, refuses a range whose *)
(* exclusive end lies past the START of the last page.                     *)
(***************************************************************************)
SectorTooLong(a, pages) == a + pages * PageHalves > LastPageAddr

(***************************************************************************)
(* The header at NewAddr: "ver" in its first three bytes, the size of the  *)
(* core in bytes as a little-endian word in its last four.                 *)
(***************************************************************************)
HeaderValid(f) == f[NewAddr] = MagicLo /\ f[NewAddr + 1] \in MagicHi

HeaderSize(f) == WordValue(f[NewAddr + HeaderHalves - 2],
                           f[NewAddr + HeaderHalves - 1])

\* The half-words a core of that many bytes fills.
CoreHalves(size) == (size + 1) \div 2

(***************************************************************************)
(* The first n half-words from a on, as a sequence: how the contents of    *)
(* one area are compared with those of another.                            *)
(***************************************************************************)
Area(f, a, n) == [x \in 1..n |-> f[a + x - 1]]

Holds(f, a, c) == \A x \in 1..Len(c) : f[a + x - 1] = c[x]

=============================================================================
