------------------------------ MODULE Updater ------------------------------
(***************************************************************************)
(* The updater inside the running core, updater_mcu/src/updater.c and the  *)
(* callback of ethernet.c that drives it: a packet from the PC is a        *)
(* three-byte command, a header, or a chunk of the core, and its LENGTH    *)
(* alone tells which.  Packets are handled one at a time, in the Ethernet  *)
(* interrupt, but each takes many flash operations, and power may fail     *)
(* between any two of them.                                                *)
(*                                                                         *)
(* Packets are taken as the functions of updater.c receive them, (buf,     *)
(* count); how the callback gets them is not part of this module.  A       *)
(* packet of data has an even number of bytes and is a sequence of         *)
(* half-words.                                                             *)
(***************************************************************************)
EXTENDS Flash

CONSTANTS
    Data,           \* the data packets a PC may send
    Stale,          \* what may be left in the buffer behind a packet
    CrcWords,       \* what the CRC unit may compute
    BootPages       \* the pages a bootloader's installation erases

ASSUME UpdaterAssumption ==
    /\ Data \subseteq Seq(Half)
    /\ Stale \subseteq Half
    /\ CrcWords \subseteq Half \X Half
    /\ BootPages \in Nat

VARIABLES
    g_upd,              \* an update is in process
    addr,               \* handle_upd_packet's static addr
    total_core_size,    \* its static total_core_size, the header included
    errno,              \* "none" or "write": no other value is ever set
    crc_val,            \* the last CRC, as a pair of half-words
    job,                \* what the packet being handled asks for
    todo,               \* its flash operations still to come
    chunk,              \* the chunk being written
    reply,              \* the answer to the last packet: "ack", "nack" or none
    stored,             \* history: the chunks acknowledged since power-up
    intact              \* history: no "del" has been received since then

updVars == <<g_upd, addr, total_core_size, errno, crc_val, job, todo, chunk,
             reply, stored, intact>>
vars == <<flash, sr, locked, updVars>>

Jobs == {"idle", "header", "chunk", "crc", "del", "fault"}
Commands == {"upd", "del", "crc", "reb", "other"}

\* Mutated form: behind the header in the sector of the running core.
CurrentBody == CurAddr + HeaderHalves

BodyAddr == NewAddr + HeaderHalves

\* Every variable has its type, and what is left to do names flash operations.
TypeOK ==
    /\ FlashTypeOK
    /\ g_upd \in BOOLEAN
    /\ addr \in Nat
    /\ total_core_size \in Nat
    /\ errno \in {"none", "write"}
    /\ crc_val \in Half \X Half
    /\ job \in Jobs
    /\ todo \in Seq([at : Nat, value : Half])
    /\ chunk \in Seq(Half)
    /\ reply \in {"none", "ack", "nack"}
    /\ stored \in Seq(Half)
    /\ intact \in BOOLEAN

-----------------------------------------------------------------------------
(***************************************************************************)
(* The RAM of the updater after a reset.                                   *)
(***************************************************************************)
PoweredUp(g, a, t, e, c, j, td, ch, r, s, i) ==
    /\ g = FALSE
    /\ a = BodyAddr
    /\ t = HeaderHalves
    /\ e = "none"
    /\ c = <<0, 0>>
    /\ j = "idle"
    /\ td = <<>>
    /\ ch = <<>>
    /\ r = "none"
    /\ s = <<>>
    /\ i = TRUE

RamInit == PoweredUp(g_upd, addr, total_core_size, errno, crc_val, job, todo,
                     chunk, reply, stored, intact)

RamReset == PoweredUp(g_upd', addr', total_core_size', errno', crc_val', job',
                      todo', chunk', reply', stored', intact')

Init ==
    /\ flash = [x \in Addr |-> ErasedHalf]
    /\ sr = "ok"
    /\ locked = TRUE
    /\ RamInit

-----------------------------------------------------------------------------
(***************************************************************************)
(* The operations of a packet, and the answer that ends it.                *)
(***************************************************************************)
Start(what, ops) ==
    /\ job' = what
    /\ todo' = ops
    /\ reply' = "none"
    /\ UNCHANGED <<flash, sr, locked, g_upd, addr, total_core_size, errno,
                   crc_val, stored>>

Answer(what) ==
    /\ job' = "idle"
    /\ todo' = <<>>
    /\ reply' = what

Refuse ==
    /\ Answer("nack")
    /\ UNCHANGED <<flash, sr, locked, g_upd, addr, total_core_size, errno,
                   crc_val, chunk, stored, intact>>

\* Programming the half-words d from address a on.
Writes(a, d) == [j \in 1..Len(d) |-> [at |-> a + j - 1, value |-> d[j]]]

\* Erasing n pages from address a on.
Erases(a, n) == [j \in 1..n |-> [at |-> a + (j - 1) * PageHalves, value |-> 0]]

(***************************************************************************)
(* check_upd_request.  Before it, and with any other packet, nothing       *)
(* happens and nothing is answered.                                        *)
(***************************************************************************)
Request(cmd) ==
    /\ job = "idle"
    /\ ~g_upd
    /\ cmd = "upd"
    /\ g_upd' = TRUE
    /\ locked' = FALSE
    /\ Answer("ack")
    /\ UNCHANGED <<flash, sr, addr, total_core_size, errno, crc_val, chunk,
                   stored, intact>>

Ready == job = "idle" /\ g_upd

(***************************************************************************)
(* handle_upd_packet for a packet of data.  One of HeaderHalves is a       *)
(* header or nothing; any other is the next chunk of the core.             *)
(***************************************************************************)
HandleHeader(d) ==
    /\ Ready
    /\ Len(d) = HeaderHalves
    /\ \/ /\ d[1] = MagicLo /\ d[2] \in MagicHi
          /\ Start("header", Writes(NewAddr, d))
          /\ UNCHANGED <<chunk, intact>>
       \/ /\ ~(d[1] = MagicLo /\ d[2] \in MagicHi)
          /\ Refuse

(***************************************************************************)
(* write_core_chunk programs whole words: behind a chunk of an odd number  *)
(* of half-words it programs one more, whatever the buffer holds there.    *)
(***************************************************************************)
HandleChunk(d, rest) ==
    /\ Ready
    /\ Len(d) # HeaderHalves
    /\ Start("chunk", Writes(addr, IF Len(d) % 2 = 0 THEN d ELSE d \o <<rest>>))
    /\ chunk' = d
    /\ UNCHANGED intact

(***************************************************************************)
(* "del" erases whole pages only: the last page of a core that does not    *)
(* fill it stays.  The statics keep their values.                          *)
(***************************************************************************)
Whole(pages) == IF pages < 1 THEN 1 ELSE pages

HandleDelAt(a) ==
    LET pages == Whole(total_core_size \div PageHalves) IN
    /\ Ready
    /\ \/ /\ ~SectorTooLong(NewAddr, pages)
          /\ Start("del", Erases(a, pages))
          /\ intact' = FALSE
          /\ UNCHANGED chunk
       \/ /\ SectorTooLong(NewAddr, pages)
          /\ Refuse

\* Mutated form: the page of the header is left to the bootloader.
HandleDelBody == HandleDelAt(NewAddr + PageHalves)

HandleDel == HandleDelAt(NewAddr)

(***************************************************************************)
(* "crc" reads total_core_size WORDS, where the variable counts bytes, and *)
(* faults when they reach past the flash.  The result is programmed behind *)
(* the core, where the next chunk would go.                                *)
(***************************************************************************)
HandleCrc(w) ==
    /\ Ready
    /\ \/ /\ NewAddr + 4 * total_core_size <= FlashEnd
          /\ Start("crc", Writes(NewAddr + total_core_size, w))
          /\ UNCHANGED <<chunk, intact>>
       \/ /\ NewAddr + 4 * total_core_size > FlashEnd
          /\ Start("fault", <<>>)
          /\ UNCHANGED <<chunk, intact>>

\* Any other three bytes: a second "upd" too.
HandleOther(cmd) ==
    /\ Ready
    /\ cmd \in {"upd", "other"}
    /\ Refuse

\* "reb": upd_finished.  What runs next is the bootloader.
Reboot(cmd) ==
    /\ Ready
    /\ cmd = "reb"
    /\ FlashReset
    /\ RamReset

-----------------------------------------------------------------------------
\* Mutated form: the error of a chunk is returned, but the statics move on.
FailsLate ==
    /\ errno' = "write"
    /\ Answer(IF job = "crc" THEN "ack" ELSE "nack")
    /\ crc_val' = IF job = "crc" THEN <<MaxHalf, MaxHalf>> ELSE crc_val
    /\ addr' = addr + Len(chunk)
    /\ UNCHANGED <<g_upd, total_core_size, chunk, stored, intact>>

(***************************************************************************)
(* One half-word of FLASH_ProgramWord.  A store past the flash is a fault. *)
(* On an error the header's and the chunk's packets are refused; "crc"     *)
(* sets errno and 0xFFFFFFFF, and is acknowledged all the same.            *)
(***************************************************************************)
Fails ==
    /\ errno' = "write"
    /\ Answer(IF job = "crc" THEN "ack" ELSE "nack")
    /\ crc_val' = IF job = "crc" THEN <<MaxHalf, MaxHalf>> ELSE crc_val
    /\ UNCHANGED <<g_upd, addr, total_core_size, chunk, stored, intact>>

WriteNext(st) ==
    /\ job \in {"header", "chunk", "crc"}
    /\ todo # <<>>
    /\ \/ /\ Head(todo).at \in Addr
          /\ FLASH_ProgramHalfWord(Head(todo).at, Head(todo).value, st)
          /\ \/ /\ st = "COMPLETE"
                /\ todo' = Tail(todo)
                /\ UNCHANGED <<g_upd, addr, total_core_size, errno, crc_val,
                               job, chunk, reply, stored, intact>>
             \/ /\ st # "COMPLETE"
                /\ Fails
       \/ /\ Head(todo).at \notin Addr
          /\ st = "ERROR"
          /\ Start("fault", <<>>)
          /\ UNCHANGED <<chunk, intact>>

\* One page of erase_sector, whose error sets no errno.
EraseNext(st) ==
    /\ job = "del"
    /\ todo # <<>>
    /\ FLASH_ErasePage(Head(todo).at, st)
    /\ \/ /\ st = "COMPLETE"
          /\ todo' = Tail(todo)
          /\ UNCHANGED <<job, reply>>
       \/ /\ st # "COMPLETE"
          /\ Answer("nack")
    /\ UNCHANGED <<g_upd, addr, total_core_size, errno, crc_val, chunk, stored,
                   intact>>

\* The last operation has succeeded: only a chunk moves the statics on.
Done ==
    /\ job \in {"header", "chunk", "crc", "del"}
    /\ todo = <<>>
    /\ Answer("ack")
    /\ \/ /\ job = "chunk"
          /\ addr' = addr + Len(chunk)
          /\ total_core_size' = total_core_size + Len(chunk)
          /\ stored' = stored \o chunk
          /\ UNCHANGED crc_val
       \/ /\ job = "crc"
          /\ crc_val' = Area(flash, NewAddr + total_core_size, 2)
          /\ UNCHANGED <<addr, total_core_size, stored>>
       \/ /\ job \in {"header", "del"}
          /\ UNCHANGED <<addr, total_core_size, stored, crc_val>>
    /\ UNCHANGED <<flash, sr, locked, g_upd, errno, chunk, intact>>

-----------------------------------------------------------------------------
\* Power fails, whatever the updater is doing.
PowerFailure == FlashReset /\ RamReset

(***************************************************************************)
(* The bootloader, between a reset and the next request, installs what is  *)
(* staged and erases it; or overlooks it, and nothing happens.             *)
(***************************************************************************)
Installed ==
    /\ ~g_upd
    /\ HeaderValid(flash)
    /\ flash' = [x \in Addr |->
                   IF NewAddr <= x /\ x < NewAddr + BootPages * PageHalves
                   THEN ErasedHalf ELSE flash[x]]
    /\ UNCHANGED <<sr, locked, updVars>>

Receive ==
    \/ \E cmd \in Commands : Request(cmd) \/ HandleOther(cmd)
    \/ \E d \in Data : HandleHeader(d) \/ \E rest \in Stale : HandleChunk(d, rest)
    \/ HandleDel
    \/ \E w \in CrcWords : HandleCrc(w)

Work == Done \/ \E st \in Status : WriteNext(st) \/ EraseNext(st)

\* HardFault_Handler's endless loop.
HardFault == job = "fault" /\ UNCHANGED vars

Reset == PowerFailure \/ \E cmd \in Commands : Reboot(cmd)

Next == Receive \/ Work \/ HardFault \/ Installed \/ Reset

Spec == Init /\ [][Next]_vars

-----------------------------------------------------------------------------
(***************************************************************************)
(* An acknowledged chunk is in the flash, in its place, and stays there:   *)
(* the body holds the acknowledged chunks and nothing else, in the order   *)
(* they came, up to the address the next one will go to.  Neither the      *)
(* rounding up to words, nor the CRC word programmed behind the core, nor  *)
(* a failed or a repeated packet may disturb what was acknowledged.        *)
(***************************************************************************)
AckedStored ==
    /\ addr = BodyAddr + Len(stored)
    /\ total_core_size = HeaderHalves + Len(stored)
    /\ intact => Holds(flash, BodyAddr, stored)

(***************************************************************************)
(* An acknowledged "del" leaves no header: whatever of the core remains,   *)
(* the bootloader will not take it for one.                                *)
(***************************************************************************)
DelRemovesHeader ==
    [][(job = "del" /\ reply' = "ack") => ~HeaderValid(flash')]_vars

=============================================================================
