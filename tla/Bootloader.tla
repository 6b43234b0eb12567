----------------------------- MODULE Bootloader -----------------------------
(***************************************************************************)
(* The bootloader, bootloader/src/main.c and flash_drv.c: on every reset   *)
(* it looks for a staged core behind a "ver." header at NewAddr, copies it *)
(* over the current core at CurAddr, erases the staged one and jumps.      *)
(* Power may fail between any two half-words it programs or pages it       *)
(* erases, and what it finds at the next reset is what is left.            *)
(*                                                                         *)
(* The application it jumps to is external here: all this module lets it   *)
(* do is leave a staged core behind (Stage).  UpdateCycle.tla puts the     *)
(* real updater in its place.                                              *)
(***************************************************************************)
EXTENDS Flash

CONSTANTS
    CurPages,       \* pages of the current core that replace_core erases, 8
    NewPages,       \* PAGES_AMOUNT_TO_ERASE, 64
    LoopStart,      \* the values read_header's `int i;` may start with
    Images          \* the cores an update may bring

(***************************************************************************)
(* An image: the free half-words of its header, and what follows it.  The  *)
(* body is longer than the core when a CRC word follows the core's bytes.  *)
(***************************************************************************)
Image == [ver : MagicHi, date : Half, lo : Half, hi : Half, body : Seq(Half)]

ImageSize(img) == WordValue(img.lo, img.hi)

ImageHalf(img, j) ==
    CASE j = 0 -> MagicLo
      [] j = 1 -> img.ver
      [] 1 < j /\ j < HeaderHalves - 2 -> img.date
      [] j = HeaderHalves - 2 -> img.lo
      [] j = HeaderHalves - 1 -> img.hi
      [] OTHER -> img.body[j - HeaderHalves + 1]

\* The image and the core it declares lie within the flash.
InFlash(img) ==
    /\ NewAddr + HeaderHalves + Len(img.body) <= FlashEnd
    /\ NewAddr + HeaderHalves + CoreHalves(ImageSize(img)) <= FlashEnd
    /\ CurAddr + CoreHalves(ImageSize(img)) <= NewAddr
    /\ CoreHalves(ImageSize(img)) <= Len(img.body)

ASSUME BootAssumption ==
    /\ CurPages \in Nat \ {0}
    /\ NewPages \in Nat \ {0}
    /\ LoopStart \subseteq Nat
    /\ Images \subseteq Image
    /\ \A img \in Images : InFlash(img)
    /\ ~SectorTooLong(CurAddr, CurPages)
    /\ ~SectorTooLong(NewAddr, NewPages)

(***************************************************************************)
(* An image the copy loop can install.  The header's size is in bytes and  *)
(* the loop counts words, so `size` words are read and programmed: these,  *)
(* not the core's own bytes, must fit the sector replace_core has erased,  *)
(* and the flash that lies behind the staged core.                         *)
(***************************************************************************)
Fits(img) ==
    /\ 2 * ImageSize(img) <= CurPages * PageHalves
    /\ NewAddr + HeaderHalves + 2 * ImageSize(img) <= FlashEnd

AllFit ==
    /\ \A img \in Images : Fits(img)
    /\ CurAddr + CurPages * PageHalves <= NewAddr

-----------------------------------------------------------------------------
VARIABLES
    pc,             \* where the processor is
    k,              \* the loop counter: pages erased, or half-words copied
    new_core_size,  \* as read from the header
    errno,          \* "none", "write" or "erase"
    committed,      \* history: the core the device ought to run
    launched        \* history: {c} once core c has been jumped to, else {}

bootVars == <<pc, k, new_core_size, errno>>
vars == <<flash, sr, locked, pc, k, new_core_size, errno, committed, launched>>

PC == {"main", "erase_cur", "copy", "erase_new", "leave", "app", "halt",
       "fault"}

Cores == Seq(Half)

\* Every variable has its type.
TypeOK ==
    /\ FlashTypeOK
    /\ pc \in PC
    /\ k \in Nat
    /\ new_core_size \in Nat
    /\ errno \in {"none", "write", "erase"}
    /\ committed \in Cores
    /\ launched \subseteq Cores

(***************************************************************************)
(* The device leaves the factory with a core at CurAddr, all else erased.  *)
(***************************************************************************)
Factory(img) ==
    [x \in Addr |-> IF x < CurAddr + CoreHalves(ImageSize(img))
                    THEN img.body[x - CurAddr + 1]
                    ELSE ErasedHalf]

Init ==
    /\ \E img \in Images :
          /\ flash = Factory(img)
          /\ committed = Area(flash, CurAddr, CoreHalves(ImageSize(img)))
    /\ sr = "ok"
    /\ locked = TRUE
    /\ pc = "main"
    /\ k = 0
    /\ new_core_size = 0
    /\ errno = "none"
    /\ launched = {}

-----------------------------------------------------------------------------
(***************************************************************************)
(* read_header copies the header into buf byte by byte.  Its loop variable *)
(* has no initial value: started at i0, the loop leaves buf[0..i0-1] zero  *)
(* and fills the rest from the header's start.  Only i0 = 0 reads it right.*)
(***************************************************************************)
HeaderBuf(f, i0) ==
    [x \in 0..(HeaderHalves - 1) |-> IF x < i0 THEN 0 ELSE f[NewAddr + x - i0]]

IsHeader(buf) == buf[0] = MagicLo /\ buf[1] \in MagicHi

\* main up to the result of read_header; without a header, FLASH_Lock follows.
ReadHeader(i0) ==
    LET buf == HeaderBuf(flash, i0) IN
    /\ pc = "main"
    /\ \/ /\ IsHeader(buf)
          /\ new_core_size' = WordValue(buf[HeaderHalves - 2],
                                        buf[HeaderHalves - 1])
          /\ locked' = FALSE
          /\ pc' = "erase_cur"
       \/ /\ ~IsHeader(buf)
          /\ locked' = TRUE
          /\ pc' = "leave"
          /\ UNCHANGED new_core_size
    /\ UNCHANGED <<flash, sr, k, errno, committed, launched>>

(***************************************************************************)
(* replace_core, while it erases: the next page, or errno and out.  The    *)
(* bound erase_sector checks first holds of its two constant arguments     *)
(* (BootAssumption), so its `return 1' is never taken here.                *)
(***************************************************************************)
EraseCurUpTo(pages, st) ==
    /\ pc = "erase_cur"
    /\ FLASH_ErasePage(CurAddr + k * PageHalves, st)
    /\ \/ /\ st = "COMPLETE"
          /\ k' = IF k + 1 < pages THEN k + 1 ELSE 0
          /\ pc' = IF k + 1 < pages THEN pc ELSE "copy"
          /\ UNCHANGED errno
       \/ /\ st # "COMPLETE"
          /\ errno' = "erase"
          /\ pc' = "leave"
          /\ UNCHANGED k
    /\ UNCHANGED <<new_core_size, committed, launched>>

\* Mutated form: one page is taken for the whole sector.
EraseCurShort(st) == EraseCurUpTo(1, st)

EraseCur(st) == EraseCurUpTo(CurPages, st)

(***************************************************************************)
(* replace_core, while it copies: one half-word of FLASH_ProgramWord.  The *)
(* loop runs new_core_size times and moves a word each time.  The source   *)
(* is ahead of the destination and leaves the flash first: a bus fault.    *)
(***************************************************************************)
Copy(st) ==
    LET from == NewAddr + HeaderHalves + k IN
    /\ pc = "copy"
    /\ k < 2 * new_core_size
    /\ \/ /\ from \in Addr
          /\ FLASH_ProgramHalfWord(CurAddr + k, flash[from], st)
          /\ st = "COMPLETE"
          /\ k' = k + 1
          /\ UNCHANGED <<errno, pc>>
       \/ /\ from \in Addr
          /\ FLASH_ProgramHalfWord(CurAddr + k, flash[from], st)
          /\ st # "COMPLETE"
          /\ errno' = "write"
          /\ pc' = "leave"
          /\ UNCHANGED k
       \/ /\ from \notin Addr
          /\ st = "ERROR"
          /\ pc' = "fault"
          /\ UNCHANGED <<flash, sr, locked, k, errno>>
    /\ UNCHANGED <<new_core_size, committed, launched>>

CopyUpTo(halves) ==
    /\ pc = "copy"
    /\ k >= halves
    /\ pc' = "erase_new"
    /\ k' = 0
    /\ UNCHANGED <<flash, sr, locked, new_core_size, errno, committed, launched>>

\* Mutated form: the loop ends one half-word before the core does.
CopyShort == CopyUpTo(CoreHalves(new_core_size) - 1)

CopyDone == CopyUpTo(2 * new_core_size)

(***************************************************************************)
(* The second half of check_core.  A failure here returns without          *)
(* FLASH_Lock and without errno: main jumps to the new core all the same.  *)
(***************************************************************************)
EraseNewPage(page, st) ==
    /\ pc = "erase_new"
    /\ k < NewPages
    /\ FLASH_ErasePage(NewAddr + page * PageHalves, st)
    /\ \/ /\ st = "COMPLETE"
          /\ k' = k + 1
          /\ UNCHANGED pc
       \/ /\ st # "COMPLETE"
          /\ pc' = "leave"
          /\ UNCHANGED k
    /\ UNCHANGED <<new_core_size, errno, committed, launched>>

\* Mutated form: from the last page down, so that the header goes last.
EraseNewDown(st) == EraseNewPage(NewPages - 1 - k, st)

\* Mutated form: the page with the header is left out.
EraseNewBody(st) == EraseNewPage(IF k = 0 THEN 1 ELSE k, st)

EraseNew(st) == EraseNewPage(k, st)

EraseDone ==
    /\ pc = "erase_new"
    /\ k = NewPages
    /\ locked' = TRUE
    /\ pc' = "leave"
    /\ UNCHANGED <<flash, sr, k, new_core_size, errno, committed, launched>>

(***************************************************************************)
(* The end of main: jump, whatever lies at CurAddr, or blink for ever.     *)
(***************************************************************************)
LeaveOn(errors) ==
    /\ pc = "leave"
    /\ \/ /\ errno \notin errors
          /\ pc' = "app"
          /\ launched' = {Area(flash, CurAddr, Len(committed))}
       \/ /\ errno \in errors
          /\ pc' = "halt"
          /\ UNCHANGED launched
    /\ UNCHANGED <<flash, sr, locked, k, new_core_size, errno, committed>>

\* Mutated form: an error of the copy loop is overlooked.
LeaveAnyway == LeaveOn({"erase"})

Leave == LeaveOn({"erase", "write"})

-----------------------------------------------------------------------------
(***************************************************************************)
(* The application receives an update: its header and the first half-words *)
(* of its body reach the erased staging area (n half-words in all).  From  *)
(* then on what is staged is the core the device ought to run, cut short   *)
(* or not: nothing in the header or the bootloader tells the two apart.    *)
(***************************************************************************)
StagedFlash(f, img, n) ==
    [x \in Addr |-> IF NewAddr <= x /\ x < NewAddr + n
                    THEN ImageHalf(img, x - NewAddr)
                    ELSE f[x]]

Stage(img, n) ==
    /\ pc = "app"
    /\ sr = "ok"
    /\ \A x \in NewAddr..(NewAddr + n - 1) : flash[x] = ErasedHalf
    /\ flash' = StagedFlash(flash, img, n)
    /\ committed' = Area(flash', NewAddr + HeaderHalves,
                         CoreHalves(HeaderSize(flash')))
    /\ locked' = FALSE
    /\ UNCHANGED <<sr, pc, k, new_core_size, errno, launched>>

\* A power failure anywhere, or the application's NVIC_SystemReset.
Restart ==
    /\ pc # "main"
    /\ FlashReset
    /\ pc' = "main"
    /\ k' = 0
    /\ new_core_size' = 0
    /\ errno' = "none"
    /\ launched' = {}

Reset == Restart /\ UNCHANGED committed

-----------------------------------------------------------------------------
Boot ==
    \/ \E i0 \in LoopStart : ReadHeader(i0)
    \/ \E st \in Status : EraseCur(st) \/ Copy(st) \/ EraseNew(st)
    \/ CopyDone
    \/ EraseDone
    \/ Leave

App == \E img \in Images :
          \E n \in HeaderHalves..(HeaderHalves + Len(img.body)) : Stage(img, n)

Next == Boot \/ App \/ Reset

Spec == Init /\ [][Next]_vars

(***************************************************************************)
(* The processor keeps executing: whatever the bootloader can do next, it  *)
(* does.  Nothing is assumed of the application or of the power supply.    *)
(***************************************************************************)
FairSpec == Spec /\ WF_vars(Boot)

-----------------------------------------------------------------------------
(***************************************************************************)
(* The core is never lost.  At every instant, and so at every instant at   *)
(* which power may fail, one whole copy of the core the device ought to    *)
(* run is where the next read_header will have it looked for: behind the   *)
(* header if there is one, at CurAddr if there is none.  This is why       *)
(* check_core copies before it erases, and erases the header's page first. *)
(***************************************************************************)
CoreSafe ==
    IF HeaderValid(flash) THEN Holds(flash, NewAddr + HeaderHalves, committed)
                          ELSE Holds(flash, CurAddr, committed)

(***************************************************************************)
(* The device is never bricked: with a working flash, the bootloader never *)
(* reaches main's error loop or a bus fault, however often an update was   *)
(* interrupted before.  replace_core erases what an interrupted copy left. *)
(***************************************************************************)
NeverBricked == pc \notin {"halt", "fault"}

(***************************************************************************)
(* check_core's comment: when there is a new core, the bootloader replaces *)
(* the old one.  So a jump is always into the core the device ought to     *)
(* run, never into the one an update was to replace, nor into half of one. *)
(***************************************************************************)
RunsCommitted == [][launched' \in {launched, {}, {committed}}]_vars

(***************************************************************************)
(* The bootloader implements the single core slot: an update is atomic.    *)
(***************************************************************************)
Slot == INSTANCE CoreSlot WITH core <- committed, running <- launched

SlotSpec == Slot!Spec

(***************************************************************************)
(* Once the power stays on, the device comes up: the bootloader reaches    *)
(* the application and stays there.                                        *)
(***************************************************************************)
ComesUp == <>[][~Reset]_vars => <>[](pc = "app")

(***************************************************************************)
(* An installed core is installed once: the application runs behind a      *)
(* valid header only until the reset that follows a new Stage, or after an *)
(* erase that failed.  With a working flash the jump finds no header, so   *)
(* no core is copied, and no page worn, twice.                             *)
(***************************************************************************)
InstalledOnce == (pc = "leave" /\ errno = "none") => ~HeaderValid(flash)

-----------------------------------------------------------------------------
(***************************************************************************)
(* Why CoreSafe holds.  CoreSafe alone is not inductive: what a step finds *)
(* in the flash depends on how far the bootloader has come.                *)
(***************************************************************************)

\* A header in the flash is that of an image the copy loop can install.
HeaderFits ==
    HeaderValid(flash) =>
        /\ 2 * HeaderSize(flash) <= CurPages * PageHalves
        /\ NewAddr + HeaderHalves + 2 * HeaderSize(flash) <= FlashEnd
        /\ Len(committed) = CoreHalves(HeaderSize(flash))

\* While it is being copied, the staged core is behind the header it was found by.
HeaderKept ==
    pc \in {"erase_cur", "copy"} =>
        /\ HeaderValid(flash)
        /\ new_core_size = HeaderSize(flash)

\* The pages erased so far are blank.
EraseProgress ==
    /\ pc = "main" => k = 0
    /\ pc = "erase_cur" =>
        /\ k < CurPages
        /\ \A x \in Addr : x < CurAddr + k * PageHalves => flash[x] = ErasedHalf

\* What has been copied is equal to its source, what is still to come is blank.
CopyProgress ==
    pc = "copy" =>
        /\ k <= 2 * new_core_size
        /\ \A x \in 0..(k - 1) :
               flash[CurAddr + x] = flash[NewAddr + HeaderHalves + x]
        /\ \A x \in Addr : (CurAddr + k <= x /\ x < CurAddr + CurPages * PageHalves)
                               => flash[x] = ErasedHalf

\* The staged core is erased only behind a complete copy, its header first.
EraseAfterCopy ==
    pc = "erase_new" =>
        /\ Holds(flash, CurAddr, committed)
        /\ k = 0 \/ ~HeaderValid(flash)

\* The inductive invariant, for every LoopStart and with or without Faults.
BootInv ==
    /\ TypeOK
    /\ CurAddr + Len(committed) <= NewAddr
    /\ CoreSafe
    /\ HeaderFits
    /\ HeaderKept
    /\ EraseProgress
    /\ CopyProgress
    /\ EraseAfterCopy

=============================================================================
