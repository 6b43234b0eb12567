# A TLA+ model of the STM32F107 Ethernet updater

The repository holds three programs: a bootloader in the first 16 KB of the
flash, an updater that is linked into the application ("core"), and a PC program
that sends it a new core over UDP. This directory models the path of a core from
the PC to the place it runs from: the PC's session, the Ethernet rings and the ARP
table of the device, the updater, the flash and the bootloader. TLC checks the
models on small instances, and their safety properties are proved with TLAPS for
every size of flash, rings, tables and files.

## 1. Inventory

| Component | Source | State | Operations | Correct when |
|---|---|---|---|---|
| Flash and driver | `bootloader/Libraries/STM32F10x_StdPeriph_Driver/src/stm32f10x_flash.c` | the array, error flags of `FLASH->SR`, LOCK | unlock, lock, page erase, word program | – (the hardware) |
| Bootloader | `bootloader/src/main.c`, `flash_drv.c` | `errno`, `new_core_size`, loop counters | `read_header`, `replace_core`, `erase_sector`, `check_core`, jump | the device always ends in a whole core, the newest |
| Updater | `updater_mcu/src/updater.c` | `g_upd`, `addr`, `total_core_size`, `errno`, `crc_val` | `check_upd_request`, `handle_upd_packet` | what is acknowledged is in the flash; what is deleted is no core |
| Ethernet callbacks | `updater_mcu/src/ethernet.c`, `stm32f1xx_it.c` | receive buffers, `upcb_*` | callbacks, ACK/NACK, the two interrupt handlers | the packet handled is the packet received, and is answered once |
| Ethernet port | `updater_mcu/Libraries/lwip-1.3.1/port/ethernetif.c`, `stm32_eth.c` | descriptor rings, `DMASR` | input, output | frames are taken in order and once, none waits for ever |
| ARP table | `updater_mcu/Libraries/lwip-1.3.1/src/netif/etharp.c` | `arp_table`, queues, `etharp_cached_entry` | find, update, query, timer | a packet goes to the address of its host; no queue entry is lost |
| PC updater | `ethupd/` | file position, socket, `si_remote` | send, wait for answer | a run ends; what it had stored is what it sent, with the CRC behind it |
| Clock, start-up, printf, vendored libraries | `system_stm32f10x.c`, `premain.c`, ... | registers | – | – |

How they interact: the bootloader and the updater share **only the flash** (and
its controller, which a reset clears). The updater writes a header `ver.` plus
date plus size at `0x08010000` and the core behind it, then resets the device;
the bootloader finds the header, copies the core to `0x08004000`, erases the
staged one and jumps. The updater runs in the Ethernet interrupt, one packet at
a time, and answers each packet with three bytes 0xAA or 0xBB. The PC waits for
every answer. On the device three parties run at their own pace: the DMA, which
shares the rings with the CPU by an OWN bit; the Ethernet interrupt, in which all
of lwIP and the updater run; and SysTick, of lowest priority, which lets the ARP
entries age and may be interrupted anywhere by the Ethernet interrupt.

What is hard here: power may fail between any two half-words or pages, and the
only record of how far an update has come is the flash itself; a flash error is
sticky; the two programs agree on the format by convention only; lwIP is used from
two interrupts without a lock; and UDP loses, delays and repeats packets whose
answers carry no number. `PROJECT.json` lists the hazards one by one, with their lines.

## 2. Modules

| Module | Models |
|---|---|
| `Flash` | The array in half-words, page erase, half-word programming with PGERR, the driver's status, the header format |
| `Bootloader` | One action per step of `check_core`; power failure; an external application that stages a core |
| `CoreSlot` | The abstract specification: one core, replaced at a stroke |
| `FlashProofs` | Lemmas about the driver that the next two proofs share |
| `BootloaderProofs` | The theorems about the bootloader |
| `Updater` | One action per packet, one per flash operation of it, the answer |
| `UpdaterProofs` | The theorems about the updater |
| `UpdateCycle` | Bootloader and updater on one flash, driven by a PC |
| `Delivery` | The abstract specification of the whole: a completed transfer replaces the core at a stroke |
| `UpdateCycleProofs` | The end-to-end theorems, from the proofs of the two halves |
| `EthRing` | Receive and transmit rings, the DMA, `ETH_IRQHandler` |
| `EthRingProofs` | The theorems about the rings |
| `Arp` | The ARP table, in the Ethernet and the SysTick interrupt |
| `ArpProofs` | The theorems about the ARP table |
| `Session` | `ethupd`, an unreliable network and the device, packet by packet and cell by cell |
| `SessionProofs` | The theorems about a session |
| `MC*` | Bounds for TLC (the other modules are run as they are) |

**Flash.** The unit is the half-word, because `FLASH_ProgramWord` is two
half-word stores and power may fail between them. A driver call returns
`COMPLETE`, `ERROR` or `TIMEOUT`. `PGERR` (programming a cell that is not blank)
and `WRPRTERR` stay set until `FLASH_ClearFlag`, which no code calls: from the
first error on, every call fails until a reset (`sr = "error"`). After a
`TIMEOUT` the operation may have taken place or not. With `Faults = FALSE` only
PGERR can occur. A page erase is atomic: a half-erased page, which reads as
anything, is not modelled. `locked` has no step when the code would call the
driver on a locked controller, so TLC's deadlock check shows that it never does.

**Bootloader.** `ReadHeader`, `EraseCur`, `Copy`, `CopyDone`, `EraseNew`,
`EraseDone` and `Leave` are `check_core` and `main` in program order; `k` is the
counter of the loop being executed. `read_header`'s `int i;` has no initial
value: `LoopStart` is the set of values it may have (a negative one writes
outside `buf` and is not modelled). The copy loop copies `new_core_size` *words*,
as the code does. `committed` and `launched` are history: the core that ought to
run, and the one that does. In `Bootloader` itself a core counts as committed as
soon as its header is staged, cut short or not: the bootloader cannot tell.

**Updater.** A packet is data (a sequence of half-words) or one of the commands;
its length decides, as in the code. Each packet becomes a list of flash
operations (`todo`) that are performed one at a time; power may fail in between.
Chunks with an odd number of bytes and three-byte chunks are left out. Packets
are taken as `updater.c` receives them: that the callback passes `rx_buff`
instead of `rx_upd_buff` is outside this module (see 3). `Installed` stands for
a bootloader run between two transfers.

**UpdateCycle.** The PC keeps to the protocol `updater.c` was written for:
`upd`, header, chunks, perhaps `crc`, `reb`; after a refusal `del` and `reb`; no
chunk has the header's length. It
is external, since the repository's `ethupd` sends neither header nor `reb`.
`committed` is here the core of the last transfer that was completed. Power may
fail anywhere. A `del` follows a refused write, and the error flag of that write is
still set, so it fails here at its first page; `Updater` is where it erases.

**Delivery.** The device has one core and is `sure` of it. Beginning a transfer ends
that, completing one restores it with the new core, and a transfer that is given up
leaves the device unsure: what starts then may be anything. `UpdateCycle` implements
it with `committed` for the core, `launched` for what runs and `phase = "done"` for
`sure`.

**EthRing.** Each access of the handler to a descriptor or to `DMASR` is a step of
its own: `Test` is `ETH_GetRxPktSize`, `LowLevelInput` takes the frame and advances
`DMARxDescToGet`, `Give` sets the OWN bit again, the three steps of `ResumeRx` look at
RBUS, clear it and write `DMARPDR`, `StackReturn` is the return from lwIP, and `Clear`
one of the two `ETH_DMAClearITPendingBit`. For an answer lwIP sends meanwhile,
`LowLevelOutput` is the copy, `ETH_TxPkt_ChainMode` the test and the setting of the
OWN bit (of a descriptor which, once the test has passed, only the CPU touches), and
`ResumeTx` the three accesses to `DMASR` and `DMATPDR`. Between any two of these the
DMA may store, send or suspend. `rstop` and `tstop` say that a process of the DMA is
suspended, `rbus` and `tbus` are the flags it leaves: a frame that arrives makes the
receiver try again, and so does the poll demand, while the flag stays until the CPU
clears it. The hardware is external: `Arrive`, `DmaReceive`, `DmaTransmit`, and `Lose`
when the FIFO is full. Frames are numbered (history) so that order and loss can be stated. A frame
longer than `ETH_MAX_PACKET_SIZE` (1520) takes two descriptors. A datagram for one
of the callbacks hangs the handler, as it does in the code: `udp_recv` is given a
function of one parameter, lwIP calls it with `(NULL, pcb, p, ...)`, and
`while(0 == pbuf_free(NULL))` never ends.

**Arp.** `FindEntry`, `Update` and `Query` are the functions `find_entry`,
`update_arp_entry` and `etharp_query` on the record `arp`; a received frame runs them
in one step. `etharp_tmr` is cut where the Ethernet interrupt may come in: count and
test, free the queue, forget it, mark the entry empty. The freeing of one queue is
one step, which is coarser than the code. `Preempt` says whether frames may arrive
within `etharp_tmr`; without it the module is the table as its author meant it.
`announced` is history. `free[n]` is how often the queue entry `n` is in its pool: 2
is a double free.

**Session.** A run of `ethupd` is in one of three waits, for the answer to `upd`, to
a chunk, to `crc`. `receive_ack` reads a fourth byte behind its buffer of three
(`pad`), and takes everything of three bytes for an acknowledgement that is not three
times `BB`; the address of the device is what the memory of the new object held
(`remote`), until `recvfrom` replaces it by the sender of a datagram. `receive_crc`
takes four bytes, the last of them into `pad` (padding of the object), and compares
them with main's `crc`, which is 0xFFFFFFFF and never computed: result `"0"` is reached
by a datagram of four bytes FF, of whatever host, and by no answer of the device. The
device is `updater.c` one packet at a time, on cells of half-words: a chunk or a CRC is
programmed from its front on, up to the first half-word that finds its cell taken and
is not zero (`Reach`, `Program`), or up to where power fails (`CutShort`). `crc` of
more than a quarter of the area, and a chunk past its end, fault. Other failures of the
flash are left to `Updater`, as is the chunk that begins in the incomplete last place;
it counts as past the end here. `crc` (the variable) is history: the last CRC stored as
a whole since power-up. Datagrams and answers on their way are sets from
which one may be delivered any number of times, in any order, or never; an answer of
one run may meet the next. The network is taken to translate ports: with the ports
of the source the two do not hear each other, because the device is connected to
port 55555 of the PC (`ethernet.c:284`) and the PC has 55556 (`eth.cpp:27`).

## 3. Runs

Passing:

| Run | Properties | Shows |
|---|---|---|
| `boot_crash` | `TypeOK NeverBricked InstalledOnce RunsCommitted ComesUp` | power failing anywhere in an installation: it is repeated and completed, once, as soon as the power stays on |
| `boot_faults` | `CoreSafe SlotSpec` | failing and slow flash operations too: the core is not lost, and `Bootloader` implements `CoreSlot` |
| `upd` | `TypeOK AckedStored DelRemovesHeader` | all packets in any order, failing flash: what was acknowledged stays in place, and an acknowledged `del` leaves no header |
| `cycle_anywhere` | `CompletedBoots CoreUndisturbed CompletedRuns DeliverySpec` | transfers completed, refused, abandoned or cut short, power failing anywhere: a completed one is what runs, unmixed with what others left, and the device always gets there; the running core is not touched; `UpdateCycle` implements `Delivery` |
| `eth_ring` | `TypeOK RxInOrder TxInOrder WokenUp NoMissedResume HeadTaken RingsMove` | rings full and empty, no memory, long frames: frames are taken once and in order; a full transmit ring overwrites the frame sent next and no other; a wake-up is lost in one place only; no resumption of the DMA is missed; with traffic nothing stays where it is |
| `arp` | `TypeOK RightAddress QueuesSound PendingEnds` | more hosts than slots, addresses that change, a pool that runs out: one entry a host, with its last address; each queue entry in one place; queries end |
| `session` | `TypeOK RunEnds CoreInFront CrcBehindCore` | lost, late, repeated and foreign datagrams, power failing within packets, a second run: runs end, the places the device has counted hold whole chunks, and until a reset nothing goes behind a CRC |

Violations, each a disagreement between the code and a comment in it (quoted in
`PROJECT.json`, "findings"):

| Run | Property | What happens |
|---|---|---|
| `boot_loopvar` | `RunsCommitted` | uninitialised `i`: the staged core is overlooked |
| `boot_words` | `NeverBricked` | bytes taken for words: the copy of a large core runs into flash that is not blank |
| `cycle_torn` | `RunsDelivered` | crash in a transfer: part of a core is installed |
| `eth_wakeup` | `HeadTaken` | a frame stored between the last look at the ring and the clearing of the request waits until another one comes, in a quiet network for ever |
| `arp_race` | `QueuesSound` | a frame within `etharp_tmr`: a queue is left on an empty entry, or freed twice |

`HeadTaken` holds in `eth_ring` because frames keep coming there. `WokenUp`, in the
same run, says that the window `eth_wakeup` shows, and nothing else in the traffic
between handler and DMA, is where a wake-up is lost, and that the next frame makes up
for it (`late` counts the frames stored in the last window). `NoMissedResume` is the
safety side of `RingsMove`: a process suspended before a descriptor it could use is
always one the handler is about to resume. It depends on the order of the accesses (the
descriptor first, then the look at the flag; the flag cleared before the poll demand)
and on the flag being looked at for every frame, also for one that is dropped.

In `boot_words` the flash behind the current core's sector is not blank, and the
boundary is a quarter of the sector. On the device 32 KB lie between that sector and
the staging area; as long as they are blank the copy fails only for cores of more than
12 KB, when it reaches the header.

`CrcBehindCore` is what is left of "writes it to flash right after the last new core
byte" (`updater.c:194`) once the zero rule is in the model. `upd_calc_crc` does not move
`addr`, so the next chunk is programmed over the CRC. Each image begins with
`_estack = 0x20010000` (`stm32_flash.ld:38`): its low half, zero, clears the low half of
the CRC, its high half is refused, and with it the chunk. A CRC whose high half is
0xFFFF is excepted: its cell stays erased, and the chunk would be stored over it.

Met while modelling, in the models, but without a run of their own:

- Updater and bootloader. Power failing between two pages of the erase of the staged
  core leaves pages nobody erases, and transfers that reach them are refused for ever
  (`main.c:65`); power failing within the header leaves the size 0xFFFFFFFF, and the
  copy loop runs off the sector at every start (`flash_drv.c:41`); a chunk that fails
  leaves PGERR set, so `del` fails too, and `reb` installs the corrupt core
  (`updater.c:80`); a `crc` that cannot be programmed sets `errno` and is acknowledged,
  a `del` that fails is refused without `errno` (both against `updater.c:57`,
  "GENERAL_ERROR if error; see errno"); `del` rounds down to whole pages
  (`updater.c:76`); `crc` of a core of more than a quarter of the staging area reads
  past the flash (`updater.c:201`); a chunk of exactly 16 bytes is taken for a header
  and refused (`updater.c:65`).
- Ethernet. The callbacks hang with the first datagram (`ethernet.c:303`, `:337`);
  behind that, they handle `rx_buff` instead of `rx_upd_buff` (`:320`), `upcb_upd` is
  never allocated and `eth_initialisation` never called. A frame of more than 1520
  bytes, a full one with a VLAN tag for instance, stays at the head of the ring and
  makes the device deaf (`stm32_eth.c:661`). So do as many frames as the ring has
  descriptors when they all arrive while the request is cleared, a case `Burst`
  excludes. `low_level_output` returns `ERR_OK` for a frame it dropped, against
  `ethernetif.c:193`.
- ARP. Without `ETHARP_TRY_HARD`, `update_arp_entry` takes an empty slot, where its
  comment says "only existing ARP entries will be updated" (`etharp.c:457`).
  `etharp_query` returns `ERR_OK` for a packet it dropped, because `etharp_request`
  has overwritten the `ERR_MEM` "through initialization" (`etharp.c:992`).
- PC. A refusal is an acknowledgement unless the byte behind `recv_buff` is 0xBB,
  against "0 if ack; 1 if nack; 2 if error" (`eth.cpp:78`). Only the first chunk is
  ever sent, no header, no `reb` and no `del`. A second run is refused by the device,
  which is still in its update; it takes that for an acknowledgement and has the same
  chunk stored once more behind the first. After the first `crc` the next chunk's
  place is taken by the CRC: the chunk of a later run spoils the CRC's low half and is
  refused, as are all behind it. After a reset the device is back at the first place,
  which is taken, and since `ethupd` sends no `del` nothing more can be stored. Four
  bytes FF of any host, while `ethupd` waits for the CRC, make it report a success,
  against "0 if crc ok" (`eth.cpp:103`); without them it never does, since the device
  answers with three bytes (`eth.cpp:109`).

## 4. Bounds

A half-word has the values 0 to 7 (7 is erased, 5 and 6 are `ve` and `r.`), a
page four half-words, the current core's sector eight pages as in the code. The
header fills a page; cores have 2 to 16 half-words, so that they cover up to two
pages on either side, hold the values 0 and 7 that programming treats specially,
and differ everywhere, so that mixtures of two cores are seen. The runs of
`Bootloader` and `UpdateCycle` have no bound on the number of updates or
crashes: their state spaces are finite. `MCUpdater` allows one reset, power failure
or flash timeout (`MaxMishaps`), enough for a second transfer over what the first
left, and an error of the flash in each.

`EthRing`: three receive and two transmit descriptors (the code has 4 and 2) and a
FIFO of two, so that both rings fill and wrap; four receive descriptors give the same
result in more time, and `eth_wakeup` has them. `Numbers`, the modulus of the frame numbers, is larger than
what is under way at any time. `Burst` bounds the frames stored while the handler
clears its request, a few instructions, by two. `Arp`: two slots for three hosts, so
that entries are recycled; two queue entries; ages of 3 and 2 instead of 240 and 2,
and a `ctime` that wraps at 4 instead of 256 (it does in empty entries). `Session`: half-words 0
to 3, chunks of three, the first with a low half of zero as an image has it; five
places, of which a CRC can be taken over one; CRCs with halves of zero and of ones; two
runs (`MaxRuns`). The socket holds one datagram (`Inbox`): a second one may as well
still be on its way. Foreign datagrams are too short, like an answer, four bytes, and
four bytes FF. No set is declared symmetric:
`Macs` and `Nodes` would be, but liveness is checked in the same run.

## 5. Fairness

`FairSpec` assumes weak fairness of `Boot`, that is, that the processor executes
the next instruction of the bootloader. Nothing is assumed of the application, of
power (`ComesUp` speaks of behaviours in which the resets end) or of flash
operations, which complete or fail within the driver's timeout loop.

`EthRing`: weak fairness of the handler (the processor runs it, nothing has a higher
priority), of the DMA's two processes (hardware), and in `BusySpec` of the arrival of
frames; `QuietSpec` does without the latter. Strong fairness of `StackReturn` says that
lwIP returns: it sends a bounded number of answers to a frame, in loops over its own
lists, where the model lets it send any number. `Arp`: weak fairness of the timer:
SysTick comes each millisecond and the Ethernet interrupt leaves it time. `Session`:
weak fairness of the PC only, `recvfrom` having a timeout of 5 s; nothing is assumed
of the device or the network.

## 6. Proofs

`BootloaderProofs` proves, for every geometry and set of images that satisfies
the `ASSUME`s:

| Theorem | Extra assumptions | States |
|---|---|---|
| `TypeCorrect` | – | `Spec => []TypeOK` |
| `CoreNeverLost` | `AllFit` | `Spec => []CoreSafe`, with failing flash, any `LoopStart` |
| `JumpsIntoCommitted` | `AllFit`, `LoopStart = {0}` | `Spec => RunsCommitted` |
| `ImplementsSlot` | the same | `Spec => SlotSpec` |
| `WorkingFlashBoots` | `AllFit`, `Faults = FALSE` | `Spec => []NeverBricked` |
| `NeverInstalledTwice` | the same, `LoopStart = {0}` | `Spec => []InstalledOnce` |

`AllFit` says that four times each core's size fits the erased sector, which
`boot_words` shows to be needed; `LoopStart = {0}` is what `boot_loopvar` shows to
be needed.

`CoreSafe` says where the core is *if power failed now*: behind the header if
there is one, at `CurAddr` otherwise. It is not inductive, since a step's effect
depends on how far the bootloader has come. `BootInv` adds: a header declares a
core the loop can install (`HeaderFits`); the header it was found by is still
there while the core is copied (`HeaderKept`); pages behind the erase loop are
blank (`EraseProgress`); half-words behind the copy loop equal their source, those
ahead are blank (`CopyProgress`); the staged core is erased only behind a complete
copy, the header's page first (`EraseAfterCopy`). The one step at which the place
of the core changes is the erase of the header's page, and there both copies are
whole. The proof has a lemma per action. For the jumps, `JumpInv` adds that past
a successful `check_core` the core is at `CurAddr`; for `WorkingFlashBoots`, that
no error flag is set and every cell ahead of the copy is blank, so no call fails.
`InstalledOnce` follows from the same two: without failing calls the only ways to the
jump are a `read_header` that found nothing and the end of the second erase.

`UpdaterProofs` proves of `Updater`, for every flash, every set of packets and with
failing flash operations and resets anywhere:

| Theorem | States |
|---|---|
| `UpdaterTypes` | `Spec => []TypeOK` |
| `AckedChunksStored` | `Spec => []AckedStored` |
| `DelLeavesNoHeader` | `Spec => DelRemovesHeader` |

`AckedStored` speaks of chunks that have been answered; what the packet being handled
has still to do might overwrite them. `UpdInv` adds that a chunk is programmed in
order from `addr` on and the part already programmed can be read back (`ChunkInv`),
that a header is written below the body and a CRC behind it (`HeaderInv`, `CrcInv`),
that `addr` stays within the flash (`RoomInv`), and that a `del` has either
erased the header or begins with its page (`DelInv`). `StagingOnly`, from the
invariant `AboveInv`, says that nothing the updater does lies below `NewAddr`.

`UpdateCycleProofs` proves of `UpdateCycle`, for every flash, chunk length, set of
images, CRC and rest of a buffer, with failing flash operations and resets anywhere:

| Theorem | Extra assumptions | States |
|---|---|---|
| `DeliveredCoreRuns` | `AllFit`, `LoopStart = {0}` | `CycleSpec => CompletedRuns` |
| `DeliveredCoreBoots` | the same, `Faults = FALSE` | `CycleSpec => []CompletedBoots` |
| `ImplementsDelivery` | `AllFit`, `LoopStart = {0}` | `CycleSpec => DeliverySpec` |
| `RunningCoreKept` | – | `CycleSpec => []CoreUndisturbed` |

They put the two halves together. The invariant has two parts: `BaseInv` needs no
assumption about the images or `read_header`'s loop, and speaks of the updater and of
the transfer; `CycleInv` adds the bootloader's invariant (`InstallInv`) for the time
after a completed transfer. `UpdateCycle`'s updater satisfies what
`UpdaterProofs` assumes (`UpdAssumed`) and takes its steps (`Same...`), so `UpdInv`
holds throughout; `TransferInv` adds, phase by phase, that the flash holds the first
part of the header being written, then the header and, of the body, exactly what was
sent and acknowledged. That a remainder of an abandoned transfer is not mixed in needs
no statement about remainders: a half-word that cannot be programmed is refused, and
after a refusal the PC gives up. At the `reb` of a completed transfer (`Delivered`) the
header and the core are therefore in place, which is `BootInv`, whatever held before;
up to the next `upd` the bootloader's lemmas keep it. While a transfer is under way or
abandoned nothing is claimed of the next start: `cycle_torn` shows why.

`DeliveredCoreBoots` carries the invariant of `WorkingFlashBoots` over the same steps
(`BootsInv`). A completed transfer left a correct header and core, but whatever was at
`CurAddr` before stays there until the bootloader erases it; the proof needs no more
than that the error flag is clear after the reset. In the refinement a step of
`UpdateCycle` is a `Start` when it jumps, a `Begin` at `upd`, a `Complete` at the `reb`
of a completed transfer, a `Stop` at a reset, and a stutter otherwise; the jump is the
step that needs `CycleInv`. `RunningCoreKept` holds without the assumptions, also for
a core that a torn transfer put there: the running core ends below `NewAddr`
(`RunInv`), the updater works above it, and the bootloader runs only when no core does.

`EthRingProofs` proves of `EthRing`, for rings, FIFO and numbering of any size, each
of `QuietSpec` and thereby of `BusySpec` (`BusyRing`):

| Theorem | States |
|---|---|
| `RingTypes` | `QuietSpec => []TypeOK` |
| `FramesInOrder` | `QuietSpec => []RxInOrder` |
| `AnswersInOrder` | `QuietSpec => []TxInOrder` |
| `NoOtherLostWakeup` | `QuietSpec => []WokenUp` |
| `ResumptionsSeen` | `QuietSpec => []NoMissedResume` |

Each property says that *some* number `c` of descriptors from the handler's pointer
on hold consecutive frames. The invariant (`RxRing(c)`, `TxRing(c)`) ties `c` to the
DMA's pointer and to the number of the next frame, and says who owns which
descriptor, so that each step is the step from `c` to `c`, `c + 1` or `c - 1`. The arithmetic of positions modulo the ring is
in lemmas about `Pos`. `InputInv` adds that the handler is past its test only with a
whole frame at the head: the DMA does not take it back. `WokenUp` needs `WakeInv`:
between the handler's last look and its return a frame at the head is one of those
stored since. `NoMissedResume` needs that a suspended process has its flag set unless
the poll demand is the next access (`RxResume`, `TxResume`): the flag is then still
there when the handler, having given a descriptor, comes to look at it.

`ArpProofs` proves of `Arp`, for any table, any finite pool and any hosts:

| Theorem | Extra assumption | States |
|---|---|---|
| `ArpTypes` | – | `Spec => []TypeOK` |
| `AddressesRight` | – | `Spec => []RightAddress` |
| `QueuesStaySound` | `~Preempt` | `Spec => []QueuesSound` |

The first two hold also with frames within `etharp_tmr`, as on the device; the third
does not, which is what `arp_race` shows. `AddressInv` is nearly `RightAddress`
itself; the work is in `FindFacts`: `find_entry` returns the one entry of the
address, or a slot that is made empty for it, and changes no stable entry. That the
`CHOOSE` in `Oldest` has a value needs a least element of a finite ordered set
(`FirstExists`). `QueueInv` takes a queue for empty between its freeing and
`q = NULL`, and states the count of `QueuesSound` as injectivity (`QueuesOK`); that a
queue is never longer than the pool, which the count relies on, is then a
pigeonhole argument (`QueueBound`).

`SessionProofs` proves of `Session`, for every image, staging area, number of runs and
set of foreign datagrams:

| Theorem | States |
|---|---|
| `SessionTypes` | `Spec => []TypeOK` |
| `StoredAreWhole` | `Spec => []CoreInFront` |
| `CrcStaysBehind` | `Spec => []CrcBehindCore` |

`ChunkEffect`, `CrcEffect` and `CutEffect` say what a packet does to the cells:
it fills its place, or stops before its end, or is cut short, and other places stay as
they are. With that `CoreInFront` is inductive. `CrcBehindCore` needs `OnlyFirst`: no
chunk but the first of the file is ever on its way, because of `send_data`'s `uint8_t`,
and `ImageAssumption`: the second half-word of that chunk is not zero. It is therefore
refused where a CRC has its high half, and the device stays there.

Only model-checked: the liveness properties (`ComesUp`, `HeadTaken`, `RingsMove`,
`PendingEnds`, `RunEnds`), since fairness is out of this prover's reach. The proofs use
no recursion and no `ENABLED`.

## 7. Not modelled, and plan

Not modelled: the configuration of clocks, pins, MAC and pcbs (`eth_config`,
`lwip_initialization`, `udp_*_configuration`, `premain.c`, `system_stm32f10x.c`):
sequences of register writes that nothing else depends on, with waits for flags, of
which the one at `ethernet.c:148` ends when the PLL is *not* ready. `crc_32.cpp`: its
table is filled and never used. `tiny_printf`: no caller. The assembly start-up files.
Of the vendored libraries, which make up nearly all of the repository's lines, only
the parts whose state the firmware's own code shares with hardware or with another
interrupt: the flash driver, the rings and the ARP table. IP, UDP, TCP, pbufs and
heaps of lwIP run in one interrupt and appear here by what they return (`memory`,
`answer`).

Every safety property a passing run checks has its theorem, and both abstract
specifications have a refinement proof. What stays with TLC is listed at the end of
section 6. The next thing worth modelling would be a corrected protocol: a mark that
the transfer is complete, written last, would make the assumption of `CompletedRuns`
(a transfer that reached its `reb`) unnecessary, and `Delivery` without `sure` is the
specification it should meet.

## 8. Running

    tlc -workers 2 -config Bootloader_crash.cfg MCBootloader
    tlapm BootloaderProofs.tla      (and the other *Proofs modules)

Each configuration takes from a second to three minutes; the proofs some minutes.
