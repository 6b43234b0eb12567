---------------------------- MODULE UpdateCycle ----------------------------
(***************************************************************************)
(* The whole update: a PC sends an image, the updater stages it, reboots,  *)
(* and the bootloader installs and starts it.  The bootloader and the      *)
(* updater share nothing but the flash and its controller; a reset wipes   *)
(* the RAM of both.                                                        *)
(*                                                                         *)
(* The PC is external: one that keeps to the protocol updater.c was        *)
(* written for.  It waits for each answer, sends "upd", the header, the    *)
(* chunks of the body, perhaps "crc", and "reb"; refused, it sends "del"   *)
(* and "reb" ("in case if corrupt data pc-updater sends a command to erase *)
(* and then reboot", updater.c:75).                                        *)
(*                                                                         *)
(* `committed', the core the device ought to run, is here the core of the  *)
(* last image whose transfer was completed, up to its "reb".               *)
(***************************************************************************)
EXTENDS Bootloader

CONSTANTS
    ChunkHalves,        \* the PC's chunks
    Stale,
    CrcWords

ASSUME CycleAssumption ==
    /\ ChunkHalves \in Nat \ {0, HeaderHalves}
    /\ Stale \subseteq Half
    /\ CrcWords \subseteq Half \X Half
    /\ \A i \in Images : Len(i.body) % ChunkHalves # HeaderHalves

VARIABLES
    g_upd, addr, total_core_size, upd_errno, crc_val, job, todo, chunk, reply,
    stored, intact,     \* those of the updater
    phase,              \* what the PC has sent last, or how its transfer ended
    img,                \* the image it is sending
    sent                \* how many half-words of its body it has sent

updVars == <<g_upd, addr, total_core_size, upd_errno, crc_val, job, todo,
             chunk, reply, stored, intact>>
pcVars == <<phase, img, sent>>
cycleVars == <<vars, updVars, pcVars>>

Upd == INSTANCE Updater WITH
          errno <- upd_errno,
          Data <- {},           \* the PC below chooses the packets
          BootPages <- NewPages

CycleInit ==
    /\ Init
    /\ Upd!RamInit
    /\ phase = "done"
    /\ img \in Images
    /\ sent = 0

-----------------------------------------------------------------------------
(***************************************************************************)
(* The PC's packets, each handled by the updater.                          *)
(***************************************************************************)
HeaderOf(i) == [j \in 1..HeaderHalves |-> ImageHalf(i, j - 1)]

CoreOf(i) == SubSeq(i.body, 1, CoreHalves(ImageSize(i)))

NextChunk ==
    SubSeq(img.body, sent + 1,
           IF sent + ChunkHalves < Len(img.body) THEN sent + ChunkHalves
                                                 ELSE Len(img.body))

Answered(what) == job = "idle" /\ reply = what

bootOnly == <<pc, k, new_core_size, errno, committed, launched>>

\* Until the next transfer, the last one is "done" or "abandoned".
Ended == {"done", "abandoned"}

SendUpd(i) ==
    /\ phase \in Ended
    /\ Upd!Request("upd")
    /\ phase' = "upd"
    /\ img' = i
    /\ sent' = 0

SendHeader ==
    /\ phase = "upd"
    /\ Answered("ack")
    /\ Upd!HandleHeader(HeaderOf(img))
    /\ phase' = "body"
    /\ UNCHANGED <<img, sent>>

\* No chunk has a header's length: the updater would take it for one.
SendChunk(rest) ==
    /\ phase = "body"
    /\ Answered("ack")
    /\ sent < Len(img.body)
    /\ Upd!HandleChunk(NextChunk, rest)
    /\ sent' = sent + Len(NextChunk)
    /\ UNCHANGED <<phase, img>>

SendCrc(w) ==
    /\ phase = "body"
    /\ Answered("ack")
    /\ sent = Len(img.body)
    /\ Upd!HandleCrc(w)
    /\ phase' = "crc"
    /\ UNCHANGED <<img, sent>>

SendDel ==
    /\ phase \in {"body", "crc"}
    /\ Answered("nack")
    /\ Upd!HandleDel
    /\ phase' = "del"
    /\ UNCHANGED <<img, sent>>

(***************************************************************************)
(* "reb" ends a transfer: the device ought to run the new core from now on *)
(* when every packet was acknowledged, and the old one after a "del".      *)
(***************************************************************************)
SendReb ==
    /\ \/ /\ phase \in {"body", "crc"}
          /\ Answered("ack")
          /\ sent = Len(img.body)
          /\ committed' = CoreOf(img)
          /\ phase' = "done"
       \/ /\ phase = "del"
          /\ job = "idle"
          /\ phase' = "abandoned"
          /\ UNCHANGED committed
    /\ Upd!Reboot("reb")
    /\ Restart
    /\ UNCHANGED <<img, sent>>

Transfer ==
    /\ pc = "app"
    /\ \/ /\ \/ \E i \in Images : SendUpd(i)
             \/ SendHeader
             \/ \E rest \in Stale : SendChunk(rest)
             \/ \E w \in CrcWords : SendCrc(w)
             \/ SendDel
          /\ UNCHANGED bootOnly
       \/ /\ Upd!Work
          /\ UNCHANGED <<bootOnly, pcVars>>
       \/ SendReb

BootOnly == Boot /\ UNCHANGED <<updVars, pcVars>>

\* Power fails, in the transfer, in the installation or between them.
Crash ==
    /\ Reset
    /\ Upd!RamReset
    /\ phase' = IF phase = "done" THEN "done" ELSE "abandoned"
    /\ UNCHANGED <<img, sent>>

CycleNext == BootOnly \/ Transfer \/ Crash

CycleSpec == CycleInit /\ [][CycleNext]_cycleVars

-----------------------------------------------------------------------------
(***************************************************************************)
(* End to end, every start runs the last core whose transfer was completed *)
(* ("This means that all done", updater.c:150), never part of one that was *)
(* given up.                                                               *)
(***************************************************************************)
RunsDelivered == [][launched' \in {launched, {}, {committed}}]_cycleVars

(***************************************************************************)
(* What does hold of the code, whatever was abandoned before: from the end *)
(* of a completed transfer on, and until the next one begins, every start  *)
(* runs its core.  So no remainder of an earlier transfer, acknowledged    *)
(* or not, gets mixed into it on the way through the staging area.         *)
(***************************************************************************)
CompletedRuns ==
    [][phase = "done" => launched' \in {launched, {}, {committed}}]_cycleVars

(***************************************************************************)
(* After a completed transfer the device comes up whatever happens, if its *)
(* flash works: the bootloader neither halts nor faults over what earlier, *)
(* abandoned transfers or interrupted installations left in the flash, and *)
(* once it jumps, no header is left to have the core installed again.      *)
(***************************************************************************)
CompletedBoots ==
    phase = "done" =>
       /\ NeverBricked
       /\ pc \in {"leave", "app"} => ~HeaderValid(flash)

(***************************************************************************)
(* The core that runs, the updater in it included, is the one in the flash *)
(* it runs from: no header, chunk, half-word of padding, CRC or "del" of   *)
(* the transfers it receives, completed or not, reaches down to it.        *)
(***************************************************************************)
CoreUndisturbed == \A c \in launched : Holds(flash, CurAddr, c)

(***************************************************************************)
(* The PC, the updater and the bootloader implement the delivery of cores: *)
(* what a packet, a step of the installation or a power failure does to    *)
(* the flash is invisible, except for the start that follows a transfer    *)
(* that was given up.                                                      *)
(***************************************************************************)
Promise == INSTANCE Delivery WITH
              core <- committed,
              running <- launched,
              sure <- (phase = "done")

DeliverySpec == Promise!Spec

=============================================================================
