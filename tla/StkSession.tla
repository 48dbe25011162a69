----------------------------- MODULE StkSession -----------------------------
(***************************************************************************)
(* The STK500v2 session of src/stk500.c: the memory commands, their shared *)
(* auto-incremented address, and an uploading host on a serial line that   *)
(* loses frames in both directions and may deliver replies late.           *)
(*                                                                         *)
(* A frame is one value.  A frame whose start, length, token or checksum   *)
(* is damaged executes nothing (stk500(), the framing switch): it is lost. *)
(* The host is external: it works like the one docs/STK500.md traces       *)
(* (LOAD_ADDRESS, PROGRAM, READ) and, after a timeout, loads the address   *)
(* again before it repeats a memory command.                               *)
(***************************************************************************)
EXTENDS Integers, Sequences

CONSTANTS
    PAGE_SIZE,   \* bytes per flash page; also the largest block
    AppPages,    \* pages below the boot section
    FlashSize,   \* bytes of flash, boot section included
    EepromSize,  \* bytes of EEPROM
    Extended,    \* 2^31: the extended-address flag of LOAD_ADDRESS
    Values,      \* byte values
    Probes,      \* commands a host may send before it uploads
    MaxProbes,   \* bound: how many of them
    Jobs,        \* uploads: [mem, start, data, block]
    SeqMod,      \* sequence numbers are counted modulo SeqMod
    MaxReplies   \* bound: replies on the line

APP_END == AppPages * PAGE_SIZE
FlashBytes == 0..(FlashSize - 1)
EepromBytes == 0..(EepromSize - 1)

ASSUME SessionAssumption ==
    /\ PAGE_SIZE \in Nat \ {0} /\ PAGE_SIZE % 2 = 0
    /\ AppPages \in Nat \ {0}
    /\ FlashSize \in Nat /\ FlashSize >= APP_END
    /\ EepromSize \in Nat
    /\ Extended \in Nat /\ 2 * Extended > FlashSize /\ Extended > EepromSize
    /\ SeqMod \in Nat /\ SeqMod > 1
    /\ MaxReplies \in Nat /\ MaxProbes \in Nat

\* The commands a frame can hold, with a size of two bytes; the others are
\* answered from constants or refused.
Commands ==
    [cmd : {"LOAD_ADDRESS"}, address : 0..(2 * Extended - 1)]
    \cup [cmd : {"PROGRAM_FLASH", "PROGRAM_EEPROM"}, size : Nat, data : Seq(Values)]
    \cup [cmd : {"READ_FLASH", "READ_EEPROM"}, size : Nat]
    \cup [cmd : {"SIGN_ON", "CHIP_ERASE", "LEAVE_PROGMODE"}]

\* An upload lies inside its memory, below the boot section; one to flash
\* begins at a word and consists of words.
ASSUME HostAssumption ==
    /\ Probes \subseteq Commands
    /\ \A j \in Jobs :
          /\ j \in [mem : {"flash", "eeprom"}, start : Nat, data : Seq(Values), block : Nat \ {0}]
          /\ j.data # <<>>
          /\ j.mem = "eeprom" => j.start + Len(j.data) <= EepromSize
          /\ j.mem = "flash" =>
                /\ j.start + Len(j.data) <= APP_END
                /\ j.start % 2 = 0 /\ Len(j.data) % 2 = 0 /\ j.block % 2 = 0

VARIABLES
    address,  \* stk500.c: word address for flash, byte address for EEPROM
    flash, eeprom,
    session,  \* "open", or "left" once stk500() returned to the boot policy
    request,  \* the frame on its way to the board: <<>> or <<[seq, c]>>
    replies,  \* frames on their way to the host
    phase,    \* host: "probe", "write", "verify", "done", "refused", "mismatch"
    job,      \* host: the upload
    k,        \* host: bytes of it that are acknowledged in this phase
    loaded,   \* host: it knows that address points at byte k
    seq,      \* host: sequence number of the last frame
    waiting,  \* host: the command it waits for: <<>> or <<c>>
    probed,   \* bound: probes sent in this session
    before    \* history: both memories when the upload began

board == <<address, flash, eeprom, session>>
host == <<phase, job, k, loaded, seq, waiting, probed, before>>
vars == <<board, request, replies, host>>

-----------------------------------------------------------------------------
(* stk_command() *)

range_ok(a, len) == len # 0 /\ a < APP_END /\ len <= APP_END - a

\* Byte address of a flash command.
FlashAt == 2 * address

\* Mutant: a block may not touch the last byte of its page.
AcceptsFlashWriteShort(size) ==
    /\ size \in 1..PAGE_SIZE /\ size % 2 = 0
    /\ address < APP_END \div 2
    /\ range_ok(FlashAt, size)
    /\ (FlashAt % PAGE_SIZE) + size < PAGE_SIZE

AcceptsFlashWrite(size) ==
    /\ size \in 1..PAGE_SIZE /\ size % 2 = 0
    /\ address < APP_END \div 2
    /\ range_ok(FlashAt, size)
    /\ (FlashAt % PAGE_SIZE) + size <= PAGE_SIZE

AcceptsFlashRead(size) ==
    /\ size \in 1..PAGE_SIZE /\ size % 2 = 0
    /\ address < FlashSize \div 2
    /\ size <= FlashSize - FlashAt

AcceptsEeprom(size) ==
    /\ size \in 1..PAGE_SIZE
    /\ address < EepromSize
    /\ size <= EepromSize - address

Accepts(c) ==
    CASE c.cmd = "PROGRAM_FLASH" -> Len(c.data) = c.size /\ AcceptsFlashWrite(c.size)
      [] c.cmd = "PROGRAM_EEPROM" -> Len(c.data) = c.size /\ AcceptsEeprom(c.size)
      [] c.cmd = "READ_FLASH" -> AcceptsFlashRead(c.size)
      [] c.cmd = "READ_EEPROM" -> AcceptsEeprom(c.size)
      [] c.cmd = "CHIP_ERASE" -> FALSE
      [] OTHER -> TRUE

\* Memory m after data was written at address a.
Written(m, a, data) ==
    [x \in DOMAIN m |->
        IF x \in a..(a + Len(data) - 1) THEN data[x - a + 1] ELSE m[x]]

\* Bytes a, a + 1, ... of memory m.
Bytes(m, a, size) == [x \in 1..size |-> m[a + x - 1]]

\* Mutant: flash addresses advance by bytes.
AdvanceBytes(c) == address' = address + c.size

Advance(c) ==
    address' = IF c.cmd \in {"PROGRAM_FLASH", "READ_FLASH"}
                 THEN address + c.size \div 2 ELSE address + c.size

Answer(status, data) ==
    replies' = Append(replies, [seq |-> request[1].seq, status |-> status, data |-> data])

\* Mutant: the rest of the page is not read first; it is erased.
ProgramFlashBlank(c) ==
    /\ c.cmd = "PROGRAM_FLASH"
    /\ LET base == FlashAt - (FlashAt % PAGE_SIZE)
           blank == [x \in DOMAIN flash |->
                       IF x \in base..(base + PAGE_SIZE - 1)
                         THEN CHOOSE v \in Values : TRUE ELSE flash[x]]
       IN  flash' = Written(blank, FlashAt, c.data)
    /\ Advance(c)
    /\ Answer("OK", <<>>)
    /\ UNCHANGED <<eeprom, session>>

\* Read, modify, erase and write one page.
ProgramFlash(c) ==
    /\ c.cmd = "PROGRAM_FLASH"
    /\ flash' = Written(flash, FlashAt, c.data)
    /\ Advance(c)
    /\ Answer("OK", <<>>)
    /\ UNCHANGED <<eeprom, session>>

ProgramEeprom(c) ==
    /\ c.cmd = "PROGRAM_EEPROM"
    /\ eeprom' = Written(eeprom, address, c.data)
    /\ Advance(c)
    /\ Answer("OK", <<>>)
    /\ UNCHANGED <<flash, session>>

ReadFlash(c) ==
    /\ c.cmd = "READ_FLASH"
    /\ Advance(c)
    /\ Answer("OK", Bytes(flash, FlashAt, c.size))
    /\ UNCHANGED <<flash, eeprom, session>>

ReadEeprom(c) ==
    /\ c.cmd = "READ_EEPROM"
    /\ Advance(c)
    /\ Answer("OK", Bytes(eeprom, address, c.size))
    /\ UNCHANGED <<flash, eeprom, session>>

\* Mutant: the flag stays in the address.
LoadAddressRaw(c) ==
    /\ c.cmd = "LOAD_ADDRESS"
    /\ address' = c.address
    /\ Answer("OK", <<>>)
    /\ UNCHANGED <<flash, eeprom, session>>

LoadAddress(c) ==
    /\ c.cmd = "LOAD_ADDRESS"
    /\ address' = c.address % Extended
    /\ Answer("OK", <<>>)
    /\ UNCHANGED <<flash, eeprom, session>>

\* The reply is sent before the loop ends.
Leave(c) ==
    /\ c.cmd = "LEAVE_PROGMODE"
    /\ session' = "left"
    /\ Answer("OK", <<>>)
    /\ UNCHANGED <<address, flash, eeprom>>

\* Sign-on, parameters, signature, fuses: answered from constants.
Inform(c) ==
    /\ c.cmd = "SIGN_ON"
    /\ Answer("OK", <<>>)
    /\ UNCHANGED board

Fail(c) ==
    /\ ~Accepts(c)
    /\ Answer("FAILED", <<>>)
    /\ UNCHANGED board

Execute(c) ==
    /\ \/ Fail(c)
       \/ /\ Accepts(c)
          /\ \/ ProgramFlash(c) \/ ProgramEeprom(c) \/ ReadFlash(c) \/ ReadEeprom(c)
             \/ LoadAddress(c) \/ Leave(c) \/ Inform(c)
    /\ request' = <<>>
    /\ UNCHANGED host

\* A complete frame with a good checksum.
Receive ==
    /\ session = "open"
    /\ request # <<>>
    /\ Len(replies) < MaxReplies
    /\ Execute(request[1].c)

\* stk500() begins again after the boot policy kept the processor in boot.
Reopen ==
    /\ session = "left"
    /\ address' = 0
    /\ session' = "open"
    /\ UNCHANGED <<flash, eeprom, request, replies, host>>

\* Two seconds of silence, or a byte with a line error.  The host is prompt:
\* this happens only while it waits for a frame that was lost.
Silence ==
    /\ session = "open"
    /\ request = <<>> /\ replies = <<>> /\ waiting # <<>>
    /\ session' = "left"
    /\ UNCHANGED <<address, flash, eeprom, request, replies, host>>

-----------------------------------------------------------------------------
(* The line *)

LoseRequest ==
    /\ request # <<>>
    /\ request' = <<>>
    /\ UNCHANGED <<board, replies, host>>

LoseReply ==
    /\ replies # <<>>
    /\ replies' = Tail(replies)
    /\ UNCHANGED <<board, request, host>>

-----------------------------------------------------------------------------
(* The host *)

Write(c) ==
    /\ request = <<>> /\ waiting = <<>>
    /\ seq' = (seq + 1) % SeqMod
    /\ request' = <<[seq |-> seq', c |-> c]>>
    /\ waiting' = <<c>>
    /\ UNCHANGED <<board, replies, phase, job, k, loaded, before>>

SendProbe(c) ==
    /\ phase = "probe"
    /\ probed < MaxProbes
    /\ probed' = probed + 1
    /\ Write(c)

StartJob(j) ==
    /\ phase = "probe" /\ waiting = <<>>
    /\ phase' = "write"
    /\ job' = j
    /\ k' = 0 /\ loaded' = FALSE
    /\ before' = [flash |-> flash, eeprom |-> eeprom]
    /\ UNCHANGED <<board, request, replies, seq, waiting, probed>>

\* The address of byte k in the unit of its memory; the flag is set for
\* flash (docs/STK500.md: "mask the extended-address indicator").
JobAddress ==
    IF job.mem = "flash" THEN (job.start + k) \div 2 + Extended ELSE job.start + k

LoadCommand == [cmd |-> "LOAD_ADDRESS", address |-> JobAddress]

SendLoad ==
    /\ phase \in {"write", "verify"}
    /\ ~loaded
    /\ Write(LoadCommand)
    /\ UNCHANGED probed

\* Blocks do not cross a page.
BlockLen ==
    LET left == Len(job.data) - k
        room == PAGE_SIZE - ((job.start + k) % PAGE_SIZE)
        most == IF job.block < left THEN job.block ELSE left
    IN  IF most < room THEN most ELSE room

Block == SubSeq(job.data, k + 1, k + BlockLen)

BlockCommand ==
    IF phase = "write"
      THEN [cmd |-> IF job.mem = "flash" THEN "PROGRAM_FLASH" ELSE "PROGRAM_EEPROM",
            size |-> BlockLen, data |-> Block]
      ELSE [cmd |-> IF job.mem = "flash" THEN "READ_FLASH" ELSE "READ_EEPROM",
            size |-> BlockLen]

SendBlock ==
    /\ phase \in {"write", "verify"}
    /\ loaded
    /\ Write(BlockCommand)
    /\ UNCHANGED probed

\* A block is done; the next one follows it without a new LOAD_ADDRESS.
BlockDone ==
    IF k + BlockLen < Len(job.data)
      THEN k' = k + BlockLen /\ loaded' = TRUE /\ UNCHANGED phase
      ELSE /\ k' = 0 /\ loaded' = FALSE
           /\ phase' = IF phase = "write" THEN "verify" ELSE "done"

\* The reply to the last frame.  Probes are sent for their effect only.
TakeReply ==
    /\ waiting # <<>>
    /\ replies # <<>> /\ replies[1].seq = seq
    /\ replies' = Tail(replies)
    /\ waiting' = <<>>
    /\ CASE phase = "probe" -> UNCHANGED <<phase, k, loaded>>
         [] phase # "probe" /\ replies[1].status = "FAILED" ->
              phase' = "refused" /\ UNCHANGED <<k, loaded>>
         [] phase # "probe" /\ replies[1].status = "OK" /\ ~loaded ->
              loaded' = TRUE /\ UNCHANGED <<phase, k>>
         [] phase = "write" /\ replies[1].status = "OK" /\ loaded -> BlockDone
         [] phase = "verify" /\ replies[1].status = "OK" /\ loaded ->
              IF replies[1].data = Block
                THEN BlockDone
                ELSE phase' = "mismatch" /\ UNCHANGED <<k, loaded>>
    /\ UNCHANGED <<board, request, job, seq, probed, before>>

\* A reply that came after the host stopped waiting for it.
DropStale ==
    /\ replies # <<>>
    /\ waiting = <<>> \/ replies[1].seq # seq
    /\ replies' = Tail(replies)
    /\ UNCHANGED <<board, request, host>>

\* The host waits longer than a command takes: the frame was lost, or its
\* reply is late or lost.  No reply is late by more than one timeout.
HostTimeout ==
    /\ waiting # <<>> /\ request = <<>>
    /\ \A r \in 1..Len(replies) : replies[r].seq = seq
    /\ waiting' = <<>>
    /\ loaded' = FALSE
    /\ UNCHANGED <<board, request, replies, phase, job, k, seq, probed, before>>

\* The host pulses DTR and begins again, at any point.
AutoReset ==
    /\ address' = 0
    /\ session' = "open"
    /\ request' = <<>> /\ replies' = <<>>
    /\ phase' = "probe" /\ probed' = 0
    /\ waiting' = <<>>
    /\ loaded' = FALSE /\ k' = 0 /\ seq' = 0
    /\ before' = [flash |-> flash, eeprom |-> eeprom]
    /\ UNCHANGED <<flash, eeprom, job>>

Init ==
    /\ address = 0
    /\ flash \in {[x \in FlashBytes |-> v] : v \in Values}
    /\ eeprom \in {[x \in EepromBytes |-> v] : v \in Values}
    /\ session = "open"
    /\ request = <<>> /\ replies = <<>>
    /\ phase = "probe"
    /\ job \in Jobs
    /\ k = 0 /\ loaded = FALSE
    /\ seq = 0 /\ waiting = <<>> /\ probed = 0
    /\ before = [flash |-> flash, eeprom |-> eeprom]

Board == Receive \/ Reopen \/ Silence
Line == LoseRequest \/ LoseReply
Host ==
    \/ \E c \in Probes : SendProbe(c)
    \/ \E j \in Jobs : StartJob(j)
    \/ SendLoad \/ SendBlock \/ TakeReply \/ DropStale \/ HostTimeout \/ AutoReset

Next == Board \/ Line \/ Host

Spec == Init /\ [][Next]_vars

-----------------------------------------------------------------------------
(* Properties *)

TypeOK ==
    /\ address \in 0..(Extended - 1)
    /\ flash \in [FlashBytes -> Values]
    /\ eeprom \in [EepromBytes -> Values]
    /\ session \in {"open", "left"}
    /\ Len(request) <= 1 /\ Len(replies) <= MaxReplies /\ Len(waiting) <= 1
    /\ phase \in {"probe", "write", "verify", "done", "refused", "mismatch"}
    /\ job \in Jobs
    /\ k \in 0..Len(job.data)
    /\ loaded \in BOOLEAN
    /\ seq \in 0..(SeqMod - 1)
    /\ probed \in 0..MaxProbes

\* Whatever commands arrive, flash changes only in bytes that the command
\* names, all in one page below the boot section ("Partial UART writes
\* preserve unspecified page bytes"), although a whole page is rewritten.
WritesConfined ==
    [][\A x \in FlashBytes : flash'[x] # flash[x] =>
          /\ request # <<>> /\ request[1].c.cmd = "PROGRAM_FLASH"
          /\ x \in FlashAt..(FlashAt + Len(request[1].c.data) - 1)
          /\ x \div PAGE_SIZE = FlashAt \div PAGE_SIZE
          /\ x < APP_END]_vars

\* The memory that the upload goes to, and the part of it that must hold the
\* upload's bytes by now.
Target == IF job.mem = "flash" THEN flash ELSE eeprom
Acked == IF phase = "write" THEN k ELSE Len(job.data)

Region == job.start..(job.start + Len(job.data) - 1)

\* Every block the host has an OK for is where the host meant it to be, and
\* nothing outside the upload has changed: across lost frames, late replies,
\* repeated commands and sessions that the board closed and opened again.
AckedWritesLand ==
    phase \in {"write", "verify", "done"} =>
        /\ \A x \in 1..Acked : Target[job.start + x - 1] = job.data[x]
        /\ \A x \in FlashBytes :
              flash[x] # before.flash[x] => job.mem = "flash" /\ x \in Region
        /\ \A x \in EepromBytes :
              eeprom[x] # before.eeprom[x] => job.mem = "eeprom" /\ x \in Region

\* No upload inside the memories is refused, and none fails its verification.
UploadAccepted == phase \notin {"refused", "mismatch"}
=============================================================================
