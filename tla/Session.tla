------------------------------ MODULE Session ------------------------------
(***************************************************************************)
(* ethupd, the PC's side of an update, with the device at the other end of *)
(* a network that loses, delays, reorders and repeats datagrams.  The user *)
(* may start ethupd again, and the device may lose its power.              *)
(*                                                                         *)
(* ethupd/main.cpp waits for an answer to every packet, for 5 seconds, and *)
(* gives up without one; it never repeats a packet.  The device handles a  *)
(* packet in one step, unless its power fails in the middle; Updater has   *)
(* the flash operations one by one, and their other failures.  The network *)
(* is taken to translate ports: with those of the source the datagrams of  *)
(* neither side reach the other.                                           *)
(***************************************************************************)
EXTENDS Integers, Sequences

CONSTANTS
    MaxHalf,        \* the largest half-word
    ChunkHalves,    \* the half-words of a chunk
    File,           \* the file, as a sequence of chunks
    CrcWords,       \* what the CRC unit may compute: low and high half-word
    HeaderHalves,   \* the room for the header in front of the core
    AreaHalves,     \* the half-words from NEW_CORE_START_ADDRESS to the flash's end
    Places,         \* the whole chunks that go behind the header
    Strays,         \* what other hosts send to the PC
    Inbox,          \* the datagrams the PC's socket holds
    MaxRuns         \* how often ethupd is started

Half == 0..MaxHalf
Erased == MaxHalf
Halves == 1..ChunkHalves
Bytes == {"AA", "BB", "FF", "other"}    \* all bytes of a datagram, or one

ASSUME SessionAssumption ==
    /\ MaxHalf \in Nat /\ ChunkHalves \in Nat /\ ChunkHalves >= 2
    /\ File \in Seq([Halves -> Half]) /\ Len(File) >= 1
    /\ CrcWords \subseteq [1..2 -> Half]
    /\ HeaderHalves \in Nat /\ AreaHalves \in Nat /\ Places \in Nat
    /\ Strays \subseteq [from : {"other"}, len : Nat, byte : Bytes]
    /\ Inbox \in Nat /\ MaxRuns \in Nat

\* The area is the header, the places, and less than one more of them.
ASSUME AreaAssumption ==
    /\ HeaderHalves + Places * ChunkHalves <= AreaHalves
    /\ AreaHalves < HeaderHalves + (Places + 1) * ChunkHalves

(***************************************************************************)
(* A raw image begins with the initial stack pointer, _estack = 0x20010000 *)
(* in stm32_flash.ld, the high half of which is not zero.                  *)
(***************************************************************************)
ASSUME ImageAssumption == File[1][2] # 0

VARIABLES
    pc,         \* the packet whose answer is awaited, or "off"
    pos,        \* the chunks of the file that were read
    remote,     \* si_remote
    pad,        \* the byte behind recv_buff
    result,     \* what the last run returned
    runs,
    inbox,      \* the datagrams waiting in the PC's socket
    dev,        \* the device: update in process, next place, a sticky error
    cells,      \* the device's staging area, chunk by chunk
    crc,        \* history: the last CRC stored since power-up, and its place
    toDev, toPc \* the packets and the answers on their way

pcVars == <<pc, pos, remote, pad, result, runs>>
devVars == <<dev, cells, crc>>
vars == <<pcVars, inbox, devVars, toDev, toPc>>

Numbers == 0..Len(File)

\* The bytes of a chunk: zeros behind the end of the file.
Data(n) == IF n = 0 THEN [h \in Halves |-> 0] ELSE File[n]

Command(c) == [kind |-> c, chunk |-> 0]
Chunk(n) == [kind |-> "chunk", chunk |-> n]
Packet == {Command("upd"), Command("crc")} \cup {Chunk(n) : n \in Numbers}

Ack == [from |-> "device", len |-> 3, byte |-> "AA"]
Nack == [from |-> "device", len |-> 3, byte |-> "BB"]
Datagram == {Ack, Nack} \cup Strays

NoCrc == [at |-> 0, word |-> [h \in 1..2 |-> 0]]

\* Every variable has its type.
TypeOK ==
    /\ pc \in {"off", "upd", "chunk", "crc"}
    /\ pos \in Numbers
    /\ remote \in {"device", "other"}
    /\ pad \in Bytes
    /\ result \in {"none", "0", "-1", "1"}
    /\ runs \in 0..MaxRuns
    /\ inbox \in Seq(Datagram) /\ Len(inbox) <= Inbox
    /\ dev \in [g_upd : BOOLEAN, addr : 1..Places+1, err : BOOLEAN, fault : BOOLEAN]
    /\ cells \in [1..Places -> [Halves -> Half]]
    /\ crc \in [at : 0..Places, word : [1..2 -> Half]]
    /\ toDev \subseteq Packet /\ toPc \subseteq {Ack, Nack}

\* Mutated form: the statics start at the header.
PoweredUpAtHeader == [g_upd |-> FALSE, addr |-> 0, err |-> FALSE, fault |-> FALSE]

PoweredUp == [g_upd |-> FALSE, addr |-> 1, err |-> FALSE, fault |-> FALSE]

Init ==
    /\ pc = "off" /\ pos = 0 /\ remote = "other" /\ pad = "other"
    /\ result = "none" /\ runs = 0 /\ inbox = <<>>
    /\ dev = PoweredUp /\ cells = [i \in 1..Places |-> [h \in Halves |-> Erased]]
    /\ crc = NoCrc
    /\ toDev = {} /\ toPc = {}

-----------------------------------------------------------------------------
SendData(to, packet) ==
    toDev' = IF to = "device" THEN toDev \cup {packet} ELSE toDev

\* eth::init_receive: a new socket.
InitReceive == inbox' = <<>>

(***************************************************************************)
(* eth::init_send converts the bytes of a std::string object, not its      *)
(* text, so that sin_addr keeps whatever was in the memory of the new eth, *)
(* as does the byte behind recv_buff.                                      *)
(***************************************************************************)
InitSend == remote' \in {"device", "other"} /\ pad' \in Bytes

\* main up to the first packet.
Start ==
    /\ pc = "off" /\ runs < MaxRuns
    /\ runs' = runs + 1
    /\ pos' = 0
    /\ InitReceive
    /\ InitSend
    /\ \/ /\ pc' = "upd"
          /\ result' = "none"
          /\ SendData(remote', Command("upd"))
       \/ \* wrong arguments or no file: -1; die(), no socket or port in use: 1
          /\ result' \in {"-1", "1"}
          /\ UNCHANGED <<pc, toDev>>
    /\ UNCHANGED <<devVars, toPc>>

\* Mutated form: the number of bytes is returned as it is.
SentWhole(count) == count

\* send_data returns the number of bytes as a uint8_t.
Sent(count) == count % 256

(***************************************************************************)
(* receive_ack looks at bytes 0, 2 and 3 of a buffer of three, and takes   *)
(* what is neither three times AA nor three times BB for success.          *)
(***************************************************************************)
ReceiveAck(d) ==
    IF d.len < 3 THEN 2 ELSE IF d.byte = "BB" /\ pad = "BB" THEN 1 ELSE 0

(***************************************************************************)
(* receive_crc compares four bytes with main's crc, which is 0xFFFFFFFF.   *)
(* The fourth goes behind recv_buff, see Receive.                          *)
(***************************************************************************)
ReceiveCrc(d) == IF d.len < 4 THEN 2 ELSE IF d.byte = "FF" THEN 0 ELSE 1

Exit(code) ==
    /\ pc' = "off"
    /\ result' = code
    /\ UNCHANGED <<pos, toDev>>

(***************************************************************************)
(* main's loop: the next 512 bytes of the file, or zeros, until send_data  *)
(* returns less than 512.                                                  *)
(***************************************************************************)
SendChunk(to) ==
    /\ pc' = "chunk"
    /\ pos' = IF pos < Len(File) THEN pos + 1 ELSE pos
    /\ SendData(to, Chunk(IF pos < Len(File) THEN pos + 1 ELSE 0))
    /\ UNCHANGED result

SendCrc(to) ==
    /\ pc' = "crc"
    /\ SendData(to, Command("crc"))
    /\ UNCHANGED <<pos, result>>

\* recvfrom returns a datagram, and the next packet goes to where it came from.
Receive ==
    /\ pc # "off" /\ inbox # <<>>
    /\ LET d == Head(inbox) IN
       /\ remote' = d.from
       /\ \/ pc \in {"upd", "chunk"} /\ ReceiveAck(d) # 0 /\ Exit("-1")
          \/ pc = "upd" /\ ReceiveAck(d) = 0 /\ SendChunk(d.from)
          \/ /\ pc = "chunk" /\ ReceiveAck(d) = 0
             /\ IF Sent(512) < 512 THEN SendCrc(d.from) ELSE SendChunk(d.from)
          \/ pc = "crc" /\ Exit(IF ReceiveCrc(d) = 0 THEN "0" ELSE "-1")
       /\ pad' = IF pc = "crc" /\ d.len >= 4 THEN d.byte ELSE pad
    /\ inbox' = Tail(inbox)
    /\ UNCHANGED <<runs, devVars, toPc>>

\* SO_RCVTIMEO: recvfrom returns -1.
Timeout ==
    /\ pc # "off" /\ inbox = <<>>
    /\ Exit("-1")
    /\ UNCHANGED <<remote, pad, runs, inbox, devVars, toPc>>

-----------------------------------------------------------------------------
(***************************************************************************)
(* The device: udp_upd_receive_callback, check_upd_request and             *)
(* handle_upd_packet.  A chunk or the CRC goes to the next place, which    *)
(* only a chunk moves on, half-word by half-word: a half-word can be       *)
(* programmed where the cell is erased, or with zero.  The first that      *)
(* cannot ends the packet, and with the error flag, which nobody clears,   *)
(* every later one.                                                        *)
(***************************************************************************)
Reach(d) ==
    {n \in 0..Len(d) : /\ dev.err => n = 0
                       /\ \A h \in 1..n : cells[dev.addr][h] = Erased \/ d[h] = 0}

\* The first n half-words of d are in their cells.
Store(d, n) ==
    cells' = [cells EXCEPT ![dev.addr] =
                 [h \in Halves |-> IF h <= n THEN d[h] ELSE cells[dev.addr][h]]]

Program(d, n) == n \in Reach(d) /\ n + 1 \notin Reach(d) /\ Store(d, n)

\* Mutated form: the status of the flash is not looked at.
CompleteAnyway(d, n) == TRUE

\* The status is FLASH_COMPLETE for every word.
Complete(d, n) == n = Len(d)

(***************************************************************************)
(* The CRC is taken over total_core_size WORDS: four times the core.  What *)
(* reads or writes past the flash faults.                                  *)
(***************************************************************************)
TotalCoreSize == HeaderHalves + (dev.addr - 1) * ChunkHalves

PastFlash(p) ==
    \/ dev.addr > Places
    \/ p = Command("crc") /\ 4 * TotalCoreSize > AreaHalves

\* Mutated form: an update that is asked for again begins at the first place.
HandleUpdFromStart(p) ==
    /\ p = Command("upd")
    /\ dev' = [dev EXCEPT !.g_upd = TRUE, !.addr = 1]
    /\ toPc' = toPc \cup {IF dev.g_upd THEN Nack ELSE Ack}
    /\ UNCHANGED <<cells, crc>>

HandleUpd(p) ==
    /\ p = Command("upd")
    /\ dev' = [dev EXCEPT !.g_upd = TRUE]
    /\ toPc' = toPc \cup {IF dev.g_upd THEN Nack ELSE Ack}
    /\ UNCHANGED <<cells, crc>>

HandleChunk(p) ==
    /\ dev.g_upd /\ p.kind = "chunk" /\ ~PastFlash(p)
    /\ \E n \in 0..ChunkHalves :
          /\ Program(Data(p.chunk), n)
          /\ IF Complete(Data(p.chunk), n)
             THEN dev' = [dev EXCEPT !.addr = @ + 1] /\ toPc' = toPc \cup {Ack}
             ELSE dev' = [dev EXCEPT !.err = TRUE] /\ toPc' = toPc \cup {Nack}
    /\ UNCHANGED crc

\* A "crc" that fails is acknowledged too: handle_upd_packet returns 0.
HandleCrc(p) ==
    /\ dev.g_upd /\ p = Command("crc") /\ ~PastFlash(p)
    /\ \E word \in CrcWords, n \in 0..2 :
          /\ Program(word, n)
          /\ IF n = 2 THEN dev' = dev /\ crc' = [at |-> dev.addr, word |-> word]
                      ELSE dev' = [dev EXCEPT !.err = TRUE] /\ crc' = crc
    /\ toPc' = toPc \cup {Ack}

Fault(p) ==
    /\ dev.g_upd /\ p # Command("upd") /\ PastFlash(p)
    /\ dev' = [dev EXCEPT !.fault = TRUE]
    /\ UNCHANGED <<cells, crc, toPc>>

Ignore(p) ==
    /\ ~dev.g_upd /\ p # Command("upd")
    /\ UNCHANGED <<devVars, toPc>>

\* A packet that is delivered may be delivered once more.
Device ==
    /\ ~dev.fault
    /\ \E p \in toDev :
          /\ HandleUpd(p) \/ HandleChunk(p) \/ HandleCrc(p) \/ Fault(p) \/ Ignore(p)
          /\ toDev' \in {toDev, toDev \ {p}}
    /\ UNCHANGED <<pcVars, inbox>>

(***************************************************************************)
(* Power may fail at any time, in the middle of a packet too: its first    *)
(* half-words are stored then, and nothing is answered.  Without a header  *)
(* in the staging area the bootloader does nothing.                        *)
(***************************************************************************)
CutShort(p) ==
    /\ ~dev.fault /\ dev.g_upd /\ p # Command("upd") /\ ~PastFlash(p)
    /\ \E d \in IF p.kind = "chunk" THEN {Data(p.chunk)} ELSE CrcWords :
          \E n \in Reach(d) : Store(d, n)
    /\ toDev' \in {toDev, toDev \ {p}}

PowerFailure ==
    /\ dev' = PoweredUp /\ crc' = NoCrc
    /\ UNCHANGED <<cells, toDev>> \/ \E p \in toDev : CutShort(p)
    /\ UNCHANGED <<pcVars, inbox, toPc>>

-----------------------------------------------------------------------------
(***************************************************************************)
(* The network.  An answer that finds no socket, or a full one, is lost.   *)
(***************************************************************************)
Deliver ==
    /\ \E d \in toPc \cup Strays :
          /\ toPc' \in {toPc, toPc \ {d}}
          /\ inbox' = IF pc # "off" /\ Len(inbox) < Inbox THEN Append(inbox, d)
                                                          ELSE inbox
    /\ UNCHANGED <<pcVars, devVars, toDev>>

Lose ==
    /\ \E p \in toDev : toDev' = toDev \ {p}
    /\ UNCHANGED <<pcVars, inbox, devVars, toPc>>

Next == Start \/ Receive \/ Timeout \/ Device \/ PowerFailure \/ Deliver \/ Lose

\* recvfrom returns within 5 s, and the PC goes on with what it returned.
Spec == Init /\ [][Next]_vars /\ WF_vars(Receive \/ Timeout)

-----------------------------------------------------------------------------
(***************************************************************************)
(* Every run of ethupd ends, whatever the device and the network do.  It   *)
(* hangs on send_data's uint8_t: the loop of main sends for ever what it   *)
(* can send, since the end of the file is never looked at.                 *)
(***************************************************************************)
RunEnds == pc # "off" ~> pc = "off"

(***************************************************************************)
(* What the device has counted it has: every place in front of the next    *)
(* one holds one chunk of the file as a whole.  A chunk that found a cell  *)
(* taken, by the CRC of an earlier run or by what a reset cut short, is    *)
(* not among them, nor does a later packet touch one that is.              *)
(***************************************************************************)
CoreInFront ==
    \A i \in 1..Places : i < dev.addr => \E n \in Numbers : cells[i] = Data(n)

(***************************************************************************)
(* upd_calc_crc "writes it to flash right after the last new core byte"    *)
(* (updater.c:194), and there it stays until a reset: no repeated or late  *)
(* chunk, and none of a later run, goes behind the CRC.  Its high half is  *)
(* not touched; the low one the next chunk may clear, zero being           *)
(* programmable over everything.  Half-words of the CRC that are all ones  *)
(* leave their cells erased, and are excepted.                             *)
(***************************************************************************)
CrcBehindCore ==
    crc.at # 0 /\ crc.word[2] # Erased =>
       /\ crc.at = dev.addr
       /\ cells[crc.at][2] = crc.word[2]
       /\ crc.word[1] # Erased => cells[crc.at][1] \in {crc.word[1], 0}

=============================================================================
