-------------------------- MODULE StkSessionProofs --------------------------
(***************************************************************************)
(* Uploads over the STK500v2 session land where the host meant them to be, *)
(* for every size of page and memory, every upload inside it, every length *)
(* of block, and whatever the line loses or delivers late.                 *)
(***************************************************************************)
EXTENDS StkSession, TLAPS

Working == phase \in {"write", "verify"}

\* address in the unit of the upload's memory.
Unit(x) == IF job.mem = "flash" THEN x \div 2 ELSE x

\* The reply to the host's last frame is on the line.
Last == replies[Len(replies)]
Answered == waiting # <<>> /\ replies # <<>> /\ Last.seq = seq

-----------------------------------------------------------------------------
(* The inductive invariant *)

Reply == [seq : 0..(SeqMod - 1), status : {"OK", "FAILED"}, data : Seq(Values)]

\* TypeOK, with what is on the line and in the host's memory.
Typed ==
    /\ TypeOK
    /\ request # <<>> =>
          request = <<request[1]>> /\ request[1] \in [seq : 0..(SeqMod - 1), c : Commands]
    /\ replies \in Seq(Reply)
    /\ waiting # <<>> => waiting = <<waiting[1]>> /\ waiting[1] \in Commands
    /\ before \in [flash : [FlashBytes -> Values], eeprom : [EepromBytes -> Values]]

\* A frame on its way is the last one sent.  While the host waits, only the
\* last reply can have its number; otherwise every reply has it, so that the
\* next number differs from them all.
Numbered ==
    /\ request # <<>> => waiting # <<>> /\ request[1] = [seq |-> seq, c |-> waiting[1]]
    /\ waiting = <<>> => \A r \in 1..Len(replies) : replies[r].seq = seq
    /\ waiting # <<>> =>
          \A r \in 1..Len(replies) : replies[r].seq = seq => r = Len(replies) /\ request = <<>>

\* What the host waits for follows from where it is in the upload.
Asked ==
    /\ Working /\ waiting # <<>> => waiting[1] = IF loaded THEN BlockCommand ELSE LoadCommand
    /\ phase = "done" => waiting = <<>>

\* The next block begins below the end of the upload, at a word of flash.
Placed ==
    Working =>
        /\ k < Len(job.data)
        /\ job.mem = "flash" => k % 2 = 0

\* Until its block is executed, a host that has loaded the address is right
\* about it.
Pointed ==
    Working /\ loaded /\ (waiting = <<>> \/ request # <<>>) =>
        session = "open" /\ address = Unit(job.start + k)

\* What the board has done when its answer is on the line.
Performed ==
    Working /\ Answered =>
        /\ session = "open" /\ Last.status = "OK"
        /\ address = IF loaded THEN Unit(job.start + k + BlockLen) ELSE Unit(job.start + k)
        /\ loaded /\ phase = "write" =>
              \A x \in (k + 1)..(k + BlockLen) : Target[job.start + x - 1] = job.data[x]
        /\ loaded /\ phase = "verify" => Last.data = Block

IInv ==
    /\ Typed /\ Numbered /\ Asked /\ Placed /\ Pointed /\ Performed
    /\ AckedWritesLand /\ UploadAccepted

-----------------------------------------------------------------------------
(* Constants and commands *)

LEMMA Constants ==
    /\ PAGE_SIZE \in Nat /\ PAGE_SIZE > 0 /\ PAGE_SIZE % 2 = 0
    /\ APP_END \in Nat /\ FlashSize \in Nat /\ APP_END <= FlashSize /\ EepromSize \in Nat
    /\ Extended \in Nat /\ 2 * Extended > FlashSize /\ Extended > EepromSize /\ Extended > 0
    /\ SeqMod \in Nat /\ SeqMod > 1 /\ MaxReplies \in Nat /\ MaxProbes \in Nat
BY SessionAssumption DEF APP_END

LEMMA JobFields ==
    ASSUME NEW j \in Jobs
    PROVE  /\ j.mem \in {"flash", "eeprom"} /\ j.start \in Nat /\ j.data \in Seq(Values)
           /\ j.block \in Nat /\ j.block > 0
           /\ Len(j.data) \in Nat /\ Len(j.data) > 0
           /\ j.mem = "eeprom" => j.start + Len(j.data) <= EepromSize
           /\ j.mem = "flash" =>
                 /\ j.start + Len(j.data) <= APP_END
                 /\ j.start % 2 = 0 /\ Len(j.data) % 2 = 0 /\ j.block % 2 = 0
<1>1. /\ j \in [mem : {"flash", "eeprom"}, start : Nat, data : Seq(Values), block : Nat \ {0}]
      /\ j.data # <<>>
    BY HostAssumption
<1>2. j.data \in Seq(Values) /\ Len(j.data) \in Nat /\ Len(j.data) # 0
    BY <1>1
<1>3. /\ j.mem = "eeprom" => j.start + Len(j.data) <= EepromSize
      /\ j.mem = "flash" =>
            /\ j.start + Len(j.data) <= APP_END
            /\ j.start % 2 = 0 /\ Len(j.data) % 2 = 0 /\ j.block % 2 = 0
    BY HostAssumption
<1> QED BY <1>1, <1>2, <1>3

LEMMA CommandFields ==
    ASSUME NEW c \in Commands
    PROVE  /\ c.cmd = "LOAD_ADDRESS" => c.address \in 0..(2 * Extended - 1)
           /\ c.cmd \in {"PROGRAM_FLASH", "PROGRAM_EEPROM"} => c.size \in Nat /\ c.data \in Seq(Values)
           /\ c.cmd \in {"READ_FLASH", "READ_EEPROM"} => c.size \in Nat
BY DEF Commands

\* The multiples of a page size are even, so parity can be read off a page offset.
LEMMA EvenOffset ==
    ASSUME NEW a \in Nat, NEW p \in Nat, p > 0, p % 2 = 0, a % 2 = 0
    PROVE  a % p \in 0..(p - 1) /\ (a % p) % 2 = 0
<1>1. a = (a \div p) * p + (a % p) /\ a \div p \in Int /\ a % p \in 0..(p - 1)
    OBVIOUS
<1> DEFINE q == a \div p
           r == a % p
           h == p \div 2
<1>2. p = 2 * h /\ h \in Int
    OBVIOUS
<1>3. a = q * p + r /\ q \in Int /\ r \in 0..(p - 1)
    BY <1>1
<1> HIDE DEF q, r, h
<1>4. q * p = 2 * (q * h) /\ q * h \in Int
    BY <1>2, <1>3
<1>5. r % 2 = 0
    BY <1>3, <1>4
<1> QED BY <1>3, <1>5 DEF r

\* The next block: at least one byte, in the upload and in one page, of flash
\* whole words.
LEMMA BlockBounds ==
    ASSUME TypeOK, Placed, Working
    PROVE  /\ BlockLen \in 1..PAGE_SIZE
           /\ k + BlockLen <= Len(job.data)
           /\ ((job.start + k) % PAGE_SIZE) + BlockLen <= PAGE_SIZE
           /\ job.mem = "flash" => BlockLen % 2 = 0
<1> DEFINE s == job.start
           n == Len(job.data)
           b == job.block
<1>1. job \in Jobs /\ k \in 0..Len(job.data) /\ k < Len(job.data)
    BY DEF TypeOK, Placed
<1>2. s \in Nat /\ n \in Nat /\ b \in Nat /\ b > 0
    BY <1>1, JobFields
<1>3. job.mem = "flash" => s % 2 = 0 /\ n % 2 = 0 /\ b % 2 = 0
    BY <1>1, JobFields
<1>4. job.mem = "flash" => k % 2 = 0
    BY DEF Placed
<1>5. k \in Nat /\ k < n
    BY <1>1, <1>2
<1>6. PAGE_SIZE \in Nat /\ PAGE_SIZE > 0 /\ PAGE_SIZE % 2 = 0
    BY Constants
<1>7. BlockLen = LET left == n - k
                     room == PAGE_SIZE - ((s + k) % PAGE_SIZE)
                     most == IF b < left THEN b ELSE left
                 IN  IF most < room THEN most ELSE room
    BY DEF BlockLen
<1> HIDE DEF s, n, b
<1> DEFINE o == (s + k) % PAGE_SIZE
<1>10. s + k \in Nat /\ o \in 0..(PAGE_SIZE - 1)
    BY <1>2, <1>5, <1>6
<1>11. s % 2 = 0 /\ k % 2 = 0 => o % 2 = 0
    <2>1. ASSUME s % 2 = 0, k % 2 = 0 PROVE (s + k) % 2 = 0
        BY <1>2, <1>5, <2>1
    <2> QED BY <1>6, <1>10, <2>1, EvenOffset
<1> HIDE DEF o
<1>8. /\ BlockLen \in 1..PAGE_SIZE /\ k + BlockLen <= n /\ o + BlockLen <= PAGE_SIZE
      /\ s % 2 = 0 /\ n % 2 = 0 /\ b % 2 = 0 /\ k % 2 = 0 => BlockLen % 2 = 0
    BY <1>2, <1>5, <1>6, <1>7, <1>10, <1>11 DEF o
<1>9. job.mem = "flash" => BlockLen % 2 = 0
    BY <1>3, <1>4, <1>8
<1> QED BY <1>8, <1>9 DEF s, n, o

LEMMA BlockContent ==
    ASSUME TypeOK, Placed, Working
    PROVE  /\ Block \in Seq(Values) /\ Len(Block) = BlockLen
           /\ \A x \in 1..BlockLen : Block[x] = job.data[k + x]
<1>1. job \in Jobs /\ k \in Nat /\ BlockLen \in Nat /\ k + BlockLen <= Len(job.data) /\ BlockLen >= 1
    BY BlockBounds, Constants DEF TypeOK
<1> DEFINE d == job.data
           b == BlockLen
<1>2. d \in Seq(Values) /\ b \in Nat /\ b >= 1 /\ k + b <= Len(d)
    BY <1>1, JobFields
<1>3. Block = SubSeq(d, k + 1, k + b)
    BY DEF Block
<1> HIDE DEF d, b
<1> DEFINE s == SubSeq(d, k + 1, k + b)
<1>4. s \in Seq(Values) /\ Len(s) = b
    BY <1>1, <1>2
<1>5. ASSUME NEW x \in 1..b PROVE s[x] = d[k + x]
    <2>1. s[x] = d[(k + 1) + x - 1] /\ (k + 1) + x - 1 = k + x
        BY <1>1, <1>2
    <2> QED BY <2>1
<1> HIDE DEF s
<1>6. Block \in Seq(Values) /\ Len(Block) = b /\ \A x \in 1..b : Block[x] = d[k + x]
    BY <1>3, <1>4, <1>5 DEF s
<1> QED BY <1>6 DEF d, b

\* The commands of an upload are commands.
LEMMA HostCommands ==
    ASSUME TypeOK, Placed, Working
    PROVE  LoadCommand \in Commands /\ BlockCommand \in Commands
<1>1. job \in Jobs /\ k \in Nat /\ k < Len(job.data)
    BY JobFields DEF TypeOK, Placed
<1>2. JobAddress \in 0..(2 * Extended - 1)
    <2>1. /\ job.start \in Nat /\ Len(job.data) \in Nat
          /\ job.mem = "eeprom" => job.start + Len(job.data) <= EepromSize
          /\ job.mem = "flash" => job.start + Len(job.data) <= APP_END
          /\ job.mem \in {"flash", "eeprom"}
        BY <1>1, JobFields
    <2>2. CASE job.mem = "flash"
        <3>1. job.start + k < FlashSize /\ job.start + k \in Nat
            BY <1>1, <2>1, <2>2, Constants
        <3>2. (job.start + k) \div 2 < Extended /\ (job.start + k) \div 2 \in Nat
            BY <3>1, Constants
        <3> QED BY <2>2, <3>2, Constants DEF JobAddress
    <2>3. CASE job.mem = "eeprom"
        BY <1>1, <2>1, <2>3, Constants DEF JobAddress
    <2> QED BY <2>1, <2>2, <2>3
<1>3. BlockLen \in Nat /\ Block \in Seq(Values)
    BY BlockBounds, BlockContent, Constants
<1> QED BY <1>2, <1>3 DEF LoadCommand, BlockCommand, Commands

-----------------------------------------------------------------------------
(* The board's commands *)

LEMMA BytesType ==
    ASSUME NEW n \in Nat, NEW S, NEW f \in [1..n -> S]
    PROVE  f \in Seq(S) /\ Len(f) = n
OBVIOUS

LEMMA WrittenType ==
    ASSUME NEW D, NEW m \in [D -> Values], NEW a \in Nat, NEW d \in Seq(Values)
    PROVE  Written(m, a, d) \in [D -> Values]
<1> SUFFICES ASSUME NEW x \in D, x \in a..(a + Len(d) - 1) PROVE d[x - a + 1] \in Values
    BY DEF Written
<1>1. Len(d) \in Nat /\ x \in Int
    OBVIOUS
<1>2. x - a + 1 \in 1..Len(d)
    BY <1>1
<1> QED BY <1>2

\* What Receive executes.
LEMMA Frame ==
    ASSUME Typed, request # <<>>
    PROVE  /\ request[1].seq \in 0..(SeqMod - 1) /\ request[1].c \in Commands
           /\ request[1].c.cmd \in {"LOAD_ADDRESS", "PROGRAM_FLASH", "PROGRAM_EEPROM", "READ_FLASH",
                                    "READ_EEPROM", "SIGN_ON", "CHIP_ERASE", "LEAVE_PROGMODE"}
<1>1. request[1] \in [seq : 0..(SeqMod - 1), c : Commands]
    BY DEF Typed
<1> QED BY <1>1 DEF Commands

LEMMA AnswerType ==
    ASSUME Typed, request # <<>>, Len(replies) < MaxReplies,
           NEW st \in {"OK", "FAILED"}, NEW d \in Seq(Values), Answer(st, d)
    PROVE  replies' \in Seq(Reply) /\ Len(replies') <= MaxReplies
<1>1. [seq |-> request[1].seq, status |-> st, data |-> d] \in Reply
    BY Frame DEF Reply
<1>2. replies \in Seq(Reply) /\ Len(replies) \in Nat
    BY DEF Typed
<1> QED BY <1>1, <1>2, Constants DEF Answer

\* A block that ends inside flash leaves a word address below the flag.
LEMMA WordsBelow ==
    ASSUME NEW a \in Nat, NEW n \in Nat, NEW e \in Nat, n % 2 = 0, n <= e - 2 * a, NEW x \in Nat, e < 2 * x
    PROVE  a + n \div 2 < x /\ a + n \div 2 \in Nat
OBVIOUS

LEMMA Memories ==
    ASSUME Typed
    PROVE  /\ address \in Nat /\ 0 <= address /\ address <= Extended - 1
           /\ flash \in [FlashBytes -> Values] /\ eeprom \in [EepromBytes -> Values]
<1>1. TypeOK
    BY DEF Typed
<1>2. address \in 0..(Extended - 1) /\ Extended \in Nat
    BY <1>1, Constants DEF TypeOK
<1>3. flash \in [FlashBytes -> Values] /\ eeprom \in [EepromBytes -> Values]
    BY <1>1 DEF TypeOK
<1> QED BY <1>2, <1>3

LEMMA ProgramTyped ==
    ASSUME Typed, request # <<>>, NEW c, c = request[1].c, Accepts(c), ProgramFlash(c) \/ ProgramEeprom(c)
    PROVE  /\ address' \in 0..(Extended - 1)
           /\ flash' \in [FlashBytes -> Values] /\ eeprom' \in [EepromBytes -> Values]
           /\ session' = session /\ Answer("OK", <<>>)
<1>1. c \in Commands /\ c.cmd \in {"PROGRAM_FLASH", "PROGRAM_EEPROM"}
    BY Frame DEF ProgramFlash, ProgramEeprom
<1>2. c.data \in Seq(Values) /\ c.size \in Nat /\ Len(c.data) = c.size
    BY <1>1, CommandFields DEF Accepts
<1>3. address \in Nat /\ flash \in [FlashBytes -> Values] /\ eeprom \in [EepromBytes -> Values]
    BY Memories
<1>4. CASE ProgramFlash(c)
    <2>1. AcceptsFlashWrite(c.size) /\ c.cmd = "PROGRAM_FLASH"
        BY <1>4 DEF Accepts, ProgramFlash
    <2>2. c.size % 2 = 0 /\ c.size <= APP_END - FlashAt
        BY <2>1 DEF AcceptsFlashWrite, range_ok
    <2>3. address + c.size \div 2 < Extended /\ address + c.size \div 2 \in Nat
        <3>1. c.size % 2 = 0 /\ c.size <= APP_END - 2 * address /\ APP_END < 2 * Extended
            BY <2>2, Constants DEF FlashAt
        <3> QED BY <1>2, <1>3, <3>1, WordsBelow, Constants
    <2>4. address' = address + c.size \div 2
        BY <1>4, <2>1 DEF ProgramFlash, Advance
    <2>5. FlashAt \in Nat
        BY <1>3 DEF FlashAt
    <2> QED BY <1>2, <1>3, <1>4, <2>3, <2>4, <2>5, WrittenType, Constants DEF ProgramFlash
<1>5. CASE ProgramEeprom(c)
    <2>1. AcceptsEeprom(c.size) /\ c.cmd = "PROGRAM_EEPROM"
        BY <1>5 DEF Accepts, ProgramEeprom
    <2>2. address + c.size < Extended
        <3>1. address < EepromSize /\ c.size <= EepromSize - address
            BY <2>1 DEF AcceptsEeprom
        <3> QED BY <1>2, <1>3, <3>1, Constants
    <2>3. address' = address + c.size
        BY <1>5, <2>1 DEF ProgramEeprom, Advance
    <2> QED BY <1>2, <1>3, <1>5, <2>2, <2>3, WrittenType, Constants DEF ProgramEeprom
<1> QED BY <1>4, <1>5

LEMMA ReadTyped ==
    ASSUME Typed, request # <<>>, NEW c, c = request[1].c, Accepts(c), ReadFlash(c) \/ ReadEeprom(c)
    PROVE  /\ address' \in 0..(Extended - 1)
           /\ UNCHANGED <<flash, eeprom, session>>
           /\ \E d \in Seq(Values) : Answer("OK", d)
<1>1. c \in Commands /\ c.cmd \in {"READ_FLASH", "READ_EEPROM"} /\ c.size \in Nat
    BY Frame, CommandFields DEF ReadFlash, ReadEeprom
<1>2. address \in Nat /\ flash \in [FlashBytes -> Values] /\ eeprom \in [EepromBytes -> Values]
    BY Memories
<1>3. CASE ReadFlash(c)
    <2>1. AcceptsFlashRead(c.size) /\ c.cmd = "READ_FLASH"
        BY <1>3 DEF Accepts, ReadFlash
    <2>2. c.size % 2 = 0 /\ FlashAt + c.size <= FlashSize /\ FlashAt \in Nat
        BY <1>1, <1>2, <2>1, Constants DEF AcceptsFlashRead, FlashAt
    <2>3. address + c.size \div 2 < Extended /\ address + c.size \div 2 \in Nat
        BY <1>1, <1>2, <2>2, Constants DEF FlashAt
    <2>4. address' = address + c.size \div 2
        BY <1>3, <2>1 DEF ReadFlash, Advance
    <2>5. Bytes(flash, FlashAt, c.size) \in [1..c.size -> Values]
        <3>1. \A x \in 1..c.size : FlashAt + x - 1 \in FlashBytes
            BY <1>1, <2>2, Constants DEF FlashBytes
        <3> QED BY <1>2, <3>1 DEF Bytes
    <2>6. Bytes(flash, FlashAt, c.size) \in Seq(Values)
        BY <1>1, <2>5, BytesType
    <2> QED BY <1>3, <2>3, <2>4, <2>6, Constants DEF ReadFlash
<1>4. CASE ReadEeprom(c)
    <2>1. AcceptsEeprom(c.size) /\ c.cmd = "READ_EEPROM"
        BY <1>4 DEF Accepts, ReadEeprom
    <2>2. address + c.size <= EepromSize
        BY <1>1, <1>2, <2>1, Constants DEF AcceptsEeprom
    <2>3. address' = address + c.size
        BY <1>4, <2>1 DEF ReadEeprom, Advance
    <2>4. Bytes(eeprom, address, c.size) \in [1..c.size -> Values]
        <3>1. \A x \in 1..c.size : address + x - 1 \in EepromBytes
            BY <1>1, <1>2, <2>2, Constants DEF EepromBytes
        <3> QED BY <1>2, <3>1 DEF Bytes
    <2>5. Bytes(eeprom, address, c.size) \in Seq(Values)
        BY <1>1, <2>4, BytesType
    <2> QED BY <1>1, <1>2, <1>4, <2>2, <2>3, <2>5, Constants DEF ReadEeprom
<1> QED BY <1>3, <1>4
LEMMA ReceiveTyped ==
    ASSUME Typed, Receive
    PROVE  /\ Typed'
           /\ request # <<>> /\ request' = <<>> /\ UNCHANGED host
           /\ \E st \in {"OK", "FAILED"}, d \in Seq(Values) : Answer(st, d)
<1> DEFINE c == request[1].c
<1>1. request # <<>> /\ Len(replies) < MaxReplies /\ Execute(c)
    BY DEF Receive
<1>2. request' = <<>> /\ UNCHANGED host
    BY <1>1 DEF Execute
<1>3. /\ address' \in 0..(Extended - 1)
      /\ flash' \in [FlashBytes -> Values] /\ eeprom' \in [EepromBytes -> Values]
      /\ session' \in {"open", "left"}
      /\ \E st \in {"OK", "FAILED"}, d \in Seq(Values) : Answer(st, d)
    <2>1. /\ address \in 0..(Extended - 1) /\ session \in {"open", "left"}
          /\ flash \in [FlashBytes -> Values] /\ eeprom \in [EepromBytes -> Values]
        BY DEF Typed, TypeOK
    <2>2. <<>> \in Seq(Values)
        OBVIOUS
    <2>3. CASE Fail(c) \/ Inform(c)
        BY <2>1, <2>2, <2>3 DEF Fail, Inform, board
    <2>4. CASE Leave(c)
        BY <2>1, <2>2, <2>4 DEF Leave
    <2>5. CASE LoadAddress(c)
        <3>1. c.address \in Nat
            BY <1>1, <2>5, Frame, CommandFields, Constants DEF LoadAddress
        <3>2. c.address % Extended \in 0..(Extended - 1)
            BY <3>1, Constants
        <3> QED BY <2>1, <2>2, <2>5, <3>2 DEF LoadAddress
    <2>6. CASE Accepts(c) /\ (ProgramFlash(c) \/ ProgramEeprom(c))
        BY <1>1, <2>1, <2>2, <2>6, ProgramTyped
    <2>7. CASE Accepts(c) /\ (ReadFlash(c) \/ ReadEeprom(c))
        BY <1>1, <2>1, <2>7, ReadTyped
    <2> QED BY <1>1, <2>3, <2>4, <2>5, <2>6, <2>7 DEF Execute
<1>4. replies' \in Seq(Reply) /\ Len(replies') <= MaxReplies
    BY <1>1, <1>3, AnswerType
<1>5. Typed'
    <2>1. UNCHANGED <<phase, job, k, loaded, seq, waiting, probed, before>>
        BY <1>2 DEF host
    <2>2. TypeOK'
        <3>1. Len(request') <= 1
            BY <1>2
        <3>2. TypeOK
            BY DEF Typed
        <3> QED BY <1>3, <1>4, <2>1, <3>1, <3>2 DEF TypeOK
    <2> QED BY <1>2, <1>4, <2>1, <2>2 DEF Typed, Reply
<1> QED BY <1>1, <1>2, <1>3, <1>5

LEMMA ReceiveNumbered ==
    ASSUME Typed, Numbered, Receive
    PROVE  Numbered'
<1>1. /\ request # <<>> /\ request' = <<>> /\ UNCHANGED <<waiting, seq>>
      /\ \E st \in {"OK", "FAILED"}, d \in Seq(Values) : Answer(st, d)
    BY ReceiveTyped DEF host
<1>2. PICK a \in Reply : a.seq = request[1].seq /\ replies' = Append(replies, a)
    BY <1>1, Frame DEF Answer, Reply
<1>3. replies \in Seq(Reply) /\ Len(replies) \in Nat
    BY DEF Typed
<1>4. waiting' # <<>>
    BY <1>1 DEF Numbered
<1>5. ASSUME NEW r \in 1..Len(replies'), replies'[r].seq = seq' PROVE r = Len(replies')
    <2>1. CASE r \in 1..Len(replies)
        <3>1. replies[r].seq = seq
            BY <1>1, <1>2, <1>3, <1>5, <2>1
        <3> QED BY <1>1, <1>4, <2>1, <3>1 DEF Numbered
    <2>2. CASE r \notin 1..Len(replies)
        BY <1>2, <1>3, <2>2
    <2> QED BY <2>1, <2>2
<1> QED BY <1>1, <1>4, <1>5 DEF Numbered

-----------------------------------------------------------------------------
(* What the commands of an upload do *)

\* In an upload to flash, words and bytes meet.
LEMMA Words ==
    ASSUME NEW a \in Nat, a % 2 = 0
    PROVE  2 * (a \div 2) = a
OBVIOUS

LEMMA Flagged ==
    ASSUME NEW x \in Nat, NEW e \in Nat, x < e
    PROVE  (x + e) % e = x /\ x % e = x
<1>1. x + e = 1 * e + x
    OBVIOUS
<1>2. x % e = x
    OBVIOUS
<1>3. (x + e) % e = x
    OBVIOUS
<1> QED BY <1>2, <1>3

LEMMA JobPlace ==
    ASSUME TypeOK, Placed, Working
    PROVE  /\ job \in Jobs /\ job.mem \in {"flash", "eeprom"}
           /\ job.start + k \in Nat /\ job.start + k + BlockLen \in Nat
           /\ job.mem = "flash" =>
                 /\ 2 * Unit(job.start + k) = job.start + k
                 /\ 2 * Unit(job.start + k + BlockLen) = job.start + k + BlockLen
                 /\ Unit(job.start + k + BlockLen) = Unit(job.start + k) + BlockLen \div 2
                 /\ job.start + k + BlockLen <= APP_END
           /\ job.mem = "eeprom" => job.start + k + BlockLen <= EepromSize
<1>1. /\ job \in Jobs /\ k \in Nat /\ k < Len(job.data)
      /\ job.start \in Nat /\ Len(job.data) \in Nat /\ job.mem \in {"flash", "eeprom"}
    <2>1. job \in Jobs /\ k \in 0..Len(job.data) /\ k < Len(job.data)
        BY DEF TypeOK, Placed
    <2>2. job.start \in Nat /\ Len(job.data) \in Nat /\ job.mem \in {"flash", "eeprom"}
        BY <2>1, JobFields
    <2> QED BY <2>1, <2>2
<1>2. BlockLen \in Nat /\ k + BlockLen <= Len(job.data) /\ (job.mem = "flash" => BlockLen % 2 = 0)
    BY BlockBounds, Constants
<1>3. job.start + k \in Nat /\ job.start + k + BlockLen \in Nat
    BY <1>1, <1>2
<1>4. CASE job.mem = "flash"
    <2> DEFINE a == job.start + k
    <2>1. job.start % 2 = 0 /\ k % 2 = 0 /\ job.start + Len(job.data) <= APP_END
        BY <1>1, <1>4, JobFields DEF Placed
    <2>2. a \in Nat /\ a % 2 = 0
        BY <1>1, <2>1
    <2>3. a + BlockLen <= APP_END
        BY <1>1, <1>2, <2>1, Constants
    <2> HIDE DEF a
    <2>4. (a + BlockLen) % 2 = 0 /\ a + BlockLen \in Nat
        BY <1>2, <1>4, <2>2
    <2>5. (a + BlockLen) \div 2 = a \div 2 + BlockLen \div 2
        BY <1>2, <1>4, <2>2
    <2>6. 2 * (a \div 2) = a /\ 2 * ((a + BlockLen) \div 2) = a + BlockLen
        BY <2>2, <2>4, Words
    <2> QED BY <1>1, <1>3, <1>4, <2>3, <2>5, <2>6 DEF Unit, a
<1>5. CASE job.mem = "eeprom"
    <2>1. job.start + Len(job.data) <= EepromSize
        BY <1>1, <1>5, JobFields
    <2>2. job.start + k + BlockLen <= EepromSize
        BY <1>1, <1>2, <2>1, Constants
    <2> QED BY <1>1, <1>3, <1>5, <2>2
<1> QED BY <1>1, <1>4, <1>5

\* The frame on its way is the command of the upload's next step.
LEMMA Requested ==
    ASSUME Numbered, Asked, Working, Receive
    PROVE  /\ request # <<>> /\ session = "open"
           /\ request[1].seq = seq
           /\ request[1].c = IF loaded THEN BlockCommand ELSE LoadCommand
<1>1. request # <<>> /\ session = "open"
    BY DEF Receive
<1>2. waiting # <<>> /\ request[1] = [seq |-> seq, c |-> waiting[1]]
    BY <1>1 DEF Numbered
<1> QED BY <1>1, <1>2 DEF Asked

LEMMA LoadExecuted ==
    ASSUME IInv, Working, ~loaded, Receive
    PROVE  /\ address' = Unit(job.start + k)
           /\ UNCHANGED <<flash, eeprom, session>>
           /\ Answer("OK", <<>>)
<1> DEFINE c == LoadCommand
           u == Unit(job.start + k)
<1>1. Execute(c)
    BY Requested DEF Receive, IInv
<1>2. c.cmd = "LOAD_ADDRESS" /\ c.address = JobAddress
    BY DEF LoadCommand
<1> HIDE DEF c
<1>3. Accepts(c)
    BY <1>2 DEF Accepts
<1>4. LoadAddress(c)
    BY <1>1, <1>2, <1>3 DEF Execute, Fail, ProgramFlash, ProgramEeprom, ReadFlash, ReadEeprom, Leave, Inform
<1>5. u \in Nat /\ u < Extended
    <2>1. job.mem \in {"flash", "eeprom"} /\ job.start + k \in Nat
        BY JobPlace DEF IInv, Typed
    <2>2. BlockLen \in Nat
        BY BlockBounds, Constants DEF IInv, Typed
    <2>3. CASE job.mem = "flash"
        <3>1. 2 * u = job.start + k /\ job.start + k <= APP_END
            BY <2>1, <2>2, <2>3, JobPlace, Constants DEF IInv, Typed
        <3>2. u \in Int
            BY <2>1, <2>3 DEF Unit
        <3> HIDE DEF u
        <3> QED BY <2>1, <3>1, <3>2, Constants
    <2>4. CASE job.mem = "eeprom"
        <3>1. u = job.start + k
            BY <2>4 DEF Unit
        <3>2. job.start + k <= EepromSize
            BY <2>1, <2>2, <2>4, JobPlace, Constants DEF IInv, Typed
        <3> QED BY <2>1, <3>1, <3>2, Constants
    <2> QED BY <2>1, <2>3, <2>4
<1>6. JobAddress = IF job.mem = "flash" THEN u + Extended ELSE u
    BY DEF JobAddress, Unit
<1> HIDE DEF u
<1>7. JobAddress % Extended = u
    BY <1>5, <1>6, Flagged, Constants
<1> QED BY <1>2, <1>4, <1>7 DEF LoadAddress, u

\* The board accepts each block of an upload.
LEMMA BlockAccepted ==
    ASSUME TypeOK, Placed, Working, address = Unit(job.start + k)
    PROVE  /\ Accepts(BlockCommand)
           /\ job.mem = "flash" => FlashAt = job.start + k
           /\ job.mem = "eeprom" => address = job.start + k
<1> DEFINE a == job.start + k
           len == BlockLen
<1>1. /\ len \in Nat /\ len > 0 /\ len <= PAGE_SIZE /\ (a % PAGE_SIZE) + len <= PAGE_SIZE
      /\ Len(Block) = len
    BY BlockBounds, BlockContent, Constants
<1>2. a \in Nat /\ a + len \in Nat /\ job.mem \in {"flash", "eeprom"}
    BY JobPlace
<1> HIDE DEF len, a
<1>3. CASE job.mem = "flash"
    <2>1. FlashAt = a
        BY <1>3, JobPlace DEF FlashAt, a
    <2>2. len % 2 = 0 /\ a + len <= APP_END
        BY <1>3, BlockBounds, JobPlace DEF a, len
    <2>3. address \in Nat /\ 2 * address = a
        BY <2>1, Constants DEF FlashAt, TypeOK
    <2>4. address < APP_END \div 2 /\ address < FlashSize \div 2
        BY <1>1, <1>2, <2>2, <2>3, Constants
    <2>5. range_ok(a, len)
        BY <1>1, <1>2, <2>2, Constants DEF range_ok
    <2>6. AcceptsFlashWrite(len) /\ AcceptsFlashRead(len)
        BY <1>1, <1>2, <2>1, <2>2, <2>4, <2>5, Constants DEF AcceptsFlashWrite, AcceptsFlashRead
    <2>7. Accepts(BlockCommand)
        BY <1>1, <1>3, <2>6 DEF Accepts, BlockCommand, len
    <2> QED BY <1>3, <2>1, <2>7 DEF a
<1>4. CASE job.mem = "eeprom"
    <2>1. address = a /\ a + len <= EepromSize
        BY <1>4, JobPlace DEF Unit, a, len
    <2>2. AcceptsEeprom(len)
        BY <1>1, <1>2, <2>1, Constants DEF AcceptsEeprom
    <2>3. Accepts(BlockCommand)
        BY <1>1, <1>4, <2>2 DEF Accepts, BlockCommand, len
    <2> QED BY <1>4, <2>1, <2>3 DEF a
<1> QED BY <1>2, <1>3, <1>4

\* A block of the upload advances the address by its length.
LEMMA BlockAdvances ==
    ASSUME TypeOK, Placed, Working, address = Unit(job.start + k), Advance(BlockCommand)
    PROVE  address' = Unit(job.start + k + BlockLen)
<1>1. job.mem \in {"flash", "eeprom"}
    BY JobPlace
<1>2. BlockCommand.size = BlockLen
    BY DEF BlockCommand
<1>3. CASE job.mem = "flash"
    <2>1. BlockCommand.cmd \in {"PROGRAM_FLASH", "READ_FLASH"}
        BY <1>3 DEF BlockCommand
    <2> QED BY <1>2, <1>3, <2>1, JobPlace DEF Advance
<1>4. CASE job.mem = "eeprom"
    <2>1. BlockCommand.cmd \notin {"PROGRAM_FLASH", "READ_FLASH"}
        BY <1>4 DEF BlockCommand
    <2> QED BY <1>2, <1>4, <2>1 DEF Advance, Unit
<1> QED BY <1>1, <1>3, <1>4

LEMMA WriteExecuted ==
    ASSUME IInv, phase = "write", loaded, Receive
    PROVE  /\ address' = Unit(job.start + k + BlockLen) /\ session' = session
           /\ job.mem = "flash" => flash' = Written(flash, job.start + k, Block) /\ eeprom' = eeprom
           /\ job.mem = "eeprom" => eeprom' = Written(eeprom, job.start + k, Block) /\ flash' = flash
           /\ Answer("OK", <<>>)
<1> DEFINE c == BlockCommand
<1>1. Working /\ TypeOK /\ Placed
    BY DEF Working, IInv, Typed
<1>2. Execute(c) /\ request # <<>>
    BY <1>1, Requested DEF Receive, IInv
<1>3. address = Unit(job.start + k)
    BY <1>1, <1>2 DEF IInv, Pointed
<1>4. Accepts(c)
    BY <1>1, <1>3, BlockAccepted
<1>5. c.data = Block /\ job.mem \in {"flash", "eeprom"}
    BY <1>1, JobPlace DEF BlockCommand
<1>6. c.cmd = IF job.mem = "flash" THEN "PROGRAM_FLASH" ELSE "PROGRAM_EEPROM"
    BY DEF BlockCommand
<1>7. Advance(c) => address' = Unit(job.start + k + BlockLen)
    BY <1>1, <1>3, BlockAdvances
<1> HIDE DEF c
<1>8. ProgramFlash(c) \/ ProgramEeprom(c)
    BY <1>2, <1>4, <1>6
    DEF Execute, Fail, LoadAddress, ReadFlash, ReadEeprom, Leave, Inform
<1>9. CASE job.mem = "flash"
    <2>1. FlashAt = job.start + k /\ ProgramFlash(c)
        BY <1>1, <1>3, <1>6, <1>8, <1>9, BlockAccepted DEF ProgramEeprom
    <2> QED BY <1>5, <1>7, <1>9, <2>1 DEF ProgramFlash
<1>10. CASE job.mem = "eeprom"
    <2>1. address = job.start + k /\ ProgramEeprom(c)
        BY <1>1, <1>3, <1>6, <1>8, <1>10, BlockAccepted DEF ProgramFlash
    <2> QED BY <1>5, <1>7, <1>10, <2>1 DEF ProgramEeprom
<1> QED BY <1>5, <1>9, <1>10

\* Reading the block back finds it, since what was acknowledged is there.
LEMMA ReadExecuted ==
    ASSUME IInv, phase = "verify", loaded, Receive
    PROVE  /\ address' = Unit(job.start + k + BlockLen) /\ UNCHANGED <<flash, eeprom, session>>
           /\ Answer("OK", Block)
<1> DEFINE c == BlockCommand
<1>1. Working /\ TypeOK /\ Placed
    BY DEF Working, IInv, Typed
<1>2. Execute(c) /\ request # <<>>
    BY <1>1, Requested DEF Receive, IInv
<1>3. address = Unit(job.start + k)
    BY <1>1, <1>2 DEF IInv, Pointed
<1>4. Accepts(c)
    BY <1>1, <1>3, BlockAccepted
<1>5. c.size = BlockLen /\ job.mem \in {"flash", "eeprom"}
    BY <1>1, JobPlace DEF BlockCommand
<1>6. c.cmd = IF job.mem = "flash" THEN "READ_FLASH" ELSE "READ_EEPROM"
    BY DEF BlockCommand
<1>7. Advance(c) => address' = Unit(job.start + k + BlockLen)
    BY <1>1, <1>3, BlockAdvances
<1> HIDE DEF c
<1>8. ReadFlash(c) \/ ReadEeprom(c)
    BY <1>2, <1>4, <1>6
    DEF Execute, Fail, LoadAddress, ProgramFlash, ProgramEeprom, Leave, Inform
<1>9. Bytes(Target, job.start + k, BlockLen) = Block
    <2>1. /\ job.start \in Nat /\ k \in Nat /\ BlockLen \in Nat /\ Len(job.data) \in Nat
          /\ k + BlockLen <= Len(job.data)
        <3>1. job \in Jobs /\ k \in 0..Len(job.data)
            BY <1>1 DEF TypeOK
        <3>2. job.start \in Nat /\ Len(job.data) \in Nat
            BY <3>1, JobFields
        <3> QED BY <1>1, <3>1, <3>2, BlockBounds, Constants
    <2>2. \A x \in 1..Len(job.data) : Target[job.start + x - 1] = job.data[x]
        BY DEF IInv, AckedWritesLand, Acked
    <2>3. ASSUME NEW x \in 1..BlockLen PROVE Target[job.start + k + x - 1] = Block[x]
        <3>1. k + x \in 1..Len(job.data) /\ job.start + k + x - 1 = job.start + (k + x) - 1
            BY <2>1
        <3>2. Target[job.start + (k + x) - 1] = job.data[k + x]
            BY <2>2, <3>1
        <3> QED BY <1>1, <3>1, <3>2, BlockContent
    <2>4. Block \in Seq(Values) /\ Len(Block) = BlockLen
        BY <1>1, BlockContent
    <2>5. DOMAIN Block = 1..BlockLen
        BY <2>1, <2>4
    <2>6. Block = [x \in 1..BlockLen |-> Block[x]]
        BY <2>4, <2>5
    <2> QED BY <2>3, <2>6 DEF Bytes
<1>10. CASE job.mem = "flash"
    <2>1. FlashAt = job.start + k /\ ReadFlash(c)
        BY <1>1, <1>3, <1>6, <1>8, <1>10, BlockAccepted DEF ReadEeprom
    <2> QED BY <1>5, <1>7, <1>9, <1>10, <2>1 DEF ReadFlash, Target
<1>11. CASE job.mem = "eeprom"
    <2>1. address = job.start + k /\ ReadEeprom(c)
        BY <1>1, <1>3, <1>6, <1>8, <1>11, BlockAccepted DEF ReadFlash
    <2> QED BY <1>5, <1>7, <1>9, <1>11, <2>1 DEF ReadEeprom, Target
<1> QED BY <1>5, <1>10, <1>11

-----------------------------------------------------------------------------
(* Every step keeps the invariant *)

\* What is derived from the upload and the place in it.
LEMMA Derived ==
    ASSUME UNCHANGED <<phase, job, k>>
    PROVE  /\ UNCHANGED <<BlockLen, Block, LoadCommand, BlockCommand>>
           /\ Working' = Working
           /\ Unit(job.start + k)' = Unit(job.start + k)
           /\ Unit(job.start + k + BlockLen)' = Unit(job.start + k + BlockLen)
<1>1. BlockLen' = BlockLen
    BY DEF BlockLen
<1> QED BY <1>1 DEF Block, LoadCommand, JobAddress, BlockCommand, Working, Unit

LEMMA MemoryKept ==
    ASSUME AckedWritesLand, UNCHANGED <<flash, eeprom, phase, job, k, before>>
    PROVE  AckedWritesLand'
BY DEF AckedWritesLand, Acked, Target, Region

LEMMA Appended ==
    ASSUME Typed, request # <<>>, NEW st \in {"OK", "FAILED"}, NEW d \in Seq(Values), Answer(st, d)
    PROVE  /\ replies' # <<>> /\ Last'.seq = request[1].seq
           /\ Last'.status = st /\ Last'.data = d
<1>1. replies \in Seq(Reply) /\ Len(replies) \in Nat
    BY DEF Typed
<1> DEFINE a == [seq |-> request[1].seq, status |-> st, data |-> d]
<1>2. replies' = Append(replies, a)
    BY DEF Answer
<1> HIDE DEF a
<1>3. Len(replies') = Len(replies) + 1 /\ replies'[Len(replies) + 1] = a /\ replies' # <<>>
    <2>1. a \in Reply
        BY Frame DEF a, Reply
    <2> QED BY <1>1, <1>2, <2>1
<1> QED BY <1>3 DEF Last, a

\* A block that is written joins the bytes before it and touches no others.
LEMMA BlockWritten ==
    ASSUME IInv, phase = "write", loaded, Receive
    PROVE  /\ AckedWritesLand'
           /\ \A x \in (k + 1)..(k + BlockLen) : Target'[job.start + x - 1] = job.data[x]
<1> DEFINE a == job.start + k
           len == BlockLen
<1>1. Working /\ TypeOK /\ Placed /\ Typed
    BY DEF Working, IInv, Typed
<1>2. UNCHANGED <<phase, job, k, before>>
    BY <1>1, ReceiveTyped DEF host
<1>3. /\ job.start \in Nat /\ k \in Nat /\ len \in Nat /\ Len(job.data) \in Nat
      /\ k + len <= Len(job.data) /\ job.mem \in {"flash", "eeprom"}
      /\ job.mem = "flash" => job.start + Len(job.data) <= FlashSize
      /\ job.mem = "eeprom" => job.start + Len(job.data) <= EepromSize
    <2>1. job \in Jobs /\ k \in 0..Len(job.data)
        BY <1>1 DEF TypeOK
    <2>2. /\ job.start \in Nat /\ Len(job.data) \in Nat /\ job.mem \in {"flash", "eeprom"}
          /\ job.mem = "flash" => job.start + Len(job.data) <= APP_END
          /\ job.mem = "eeprom" => job.start + Len(job.data) <= EepromSize
        BY <2>1, JobFields
    <2> QED BY <1>1, <2>1, <2>2, BlockBounds, Constants
<1>4. Block \in Seq(Values) /\ Len(Block) = len /\ \A x \in 1..len : Block[x] = job.data[k + x]
    BY <1>1, BlockContent
<1>5. /\ job.mem = "flash" => flash' = Written(flash, a, Block) /\ eeprom' = eeprom
      /\ job.mem = "eeprom" => eeprom' = Written(eeprom, a, Block) /\ flash' = flash
    BY WriteExecuted
<1>6. /\ DOMAIN flash = 0..(FlashSize - 1) /\ DOMAIN eeprom = 0..(EepromSize - 1)
    BY <1>1 DEF TypeOK, FlashBytes, EepromBytes
<1>7. Target' = Written(Target, a, Block)
    BY <1>2, <1>3, <1>5 DEF Target
<1>8. \A x \in 1..Len(job.data) : job.start + x - 1 \in DOMAIN Target
    BY <1>3, <1>6, Constants DEF Target
<1>9. /\ \A x \in 1..Acked : Target[job.start + x - 1] = job.data[x]
      /\ \A x \in FlashBytes : flash[x] # before.flash[x] => job.mem = "flash" /\ x \in Region
      /\ \A x \in EepromBytes : eeprom[x] # before.eeprom[x] => job.mem = "eeprom" /\ x \in Region
    BY DEF IInv, AckedWritesLand
<1>10. Acked' = k /\ Acked = k /\ Region' = Region /\ Region = job.start..(job.start + Len(job.data) - 1)
    BY <1>2 DEF Acked, Region
<1> HIDE DEF len, a
<1>11. ASSUME NEW x \in 1..k PROVE Target'[job.start + x - 1] = job.data[x]
    <2>1. job.start + x - 1 \notin a..(a + len - 1) /\ x \in 1..Len(job.data)
        BY <1>3 DEF a
    <2> QED BY <1>4, <1>7, <1>8, <1>9, <1>10, <2>1 DEF Written
<1>12. ASSUME NEW x \in (k + 1)..(k + len) PROVE Target'[job.start + x - 1] = job.data[x]
    <2>1. /\ x \in 1..Len(job.data) /\ x - k \in 1..len /\ k + (x - k) = x
          /\ job.start + x - 1 \in a..(a + len - 1) /\ (job.start + x - 1) - a + 1 = x - k
        BY <1>3 DEF a
    <2>2. Target'[job.start + x - 1] = Block[x - k]
        BY <1>4, <1>7, <1>8, <2>1 DEF Written
    <2> QED BY <1>4, <2>1, <2>2
<1>13. ASSUME NEW x, x \in a..(a + len - 1) PROVE x \in Region
    BY <1>3, <1>10, <1>13 DEF a
<1>14. ASSUME NEW x \in FlashBytes, flash'[x] # before.flash[x] PROVE job.mem = "flash" /\ x \in Region
    <2>1. CASE flash'[x] = flash[x]
        BY <1>9, <1>14, <2>1
    <2>2. CASE flash'[x] # flash[x]
        <3>1. job.mem = "flash"
            BY <1>3, <1>5, <2>2
        <3>2. x \in a..(a + len - 1)
            BY <1>4, <1>5, <1>6, <2>2, <3>1 DEF Written, FlashBytes
        <3> QED BY <1>13, <3>1, <3>2
    <2> QED BY <2>1, <2>2
<1>15. ASSUME NEW x \in EepromBytes, eeprom'[x] # before.eeprom[x] PROVE job.mem = "eeprom" /\ x \in Region
    <2>1. CASE eeprom'[x] = eeprom[x]
        BY <1>9, <1>15, <2>1
    <2>2. CASE eeprom'[x] # eeprom[x]
        <3>1. job.mem = "eeprom"
            BY <1>3, <1>5, <2>2
        <3>2. x \in a..(a + len - 1)
            BY <1>4, <1>5, <1>6, <2>2, <3>1 DEF Written, EepromBytes
        <3> QED BY <1>13, <3>1, <3>2
    <2> QED BY <2>1, <2>2
<1> QED BY <1>2, <1>10, <1>11, <1>12, <1>14, <1>15 DEF AckedWritesLand, len

LEMMA ReceiveIInv ==
    ASSUME IInv, Receive
    PROVE  IInv'
<1>1. Typed' /\ Numbered' /\ UNCHANGED <<phase, job, k, loaded, seq, waiting, before>> /\ request' = <<>>
    BY ReceiveTyped, ReceiveNumbered DEF IInv, host
<1>2. request # <<>> /\ waiting # <<>> /\ session = "open"
    BY DEF Receive, IInv, Numbered
<1>3. UploadAccepted'
    BY <1>1 DEF IInv, UploadAccepted
<1>4. Asked' /\ Placed' /\ Working' = Working
    BY <1>1, Derived DEF IInv, Asked, Placed
<1>5. Pointed'
    BY <1>1, <1>2 DEF Pointed
<1>6. phase \in {"probe", "write", "verify"}
    BY <1>2 DEF IInv, Asked, Typed, TypeOK, UploadAccepted
<1>7. CASE phase = "probe"
    BY <1>1, <1>3, <1>4, <1>5, <1>7 DEF IInv, Performed, Working, AckedWritesLand
<1>8. CASE Working /\ ~loaded
    <2>1. AckedWritesLand'
        BY <1>1, <1>8, LoadExecuted, MemoryKept DEF IInv
    <2>2. Last'.status = "OK"
        <3>1. <<>> \in Seq(Values)
            OBVIOUS
        <3> QED BY <1>2, <1>8, <3>1, LoadExecuted, Appended DEF IInv
    <2>3. Performed'
        BY <1>1, <1>2, <1>4, <1>8, <2>2, LoadExecuted, Derived DEF Performed
    <2> QED BY <1>1, <1>3, <1>4, <1>5, <2>1, <2>3 DEF IInv
<1>9. CASE phase = "write" /\ loaded
    <2>1. Last'.status = "OK"
        <3>1. <<>> \in Seq(Values)
            OBVIOUS
        <3> QED BY <1>2, <1>9, <3>1, WriteExecuted, Appended DEF IInv
    <2>2. Performed'
        BY <1>1, <1>2, <1>9, <2>1, WriteExecuted, BlockWritten, Derived DEF Performed, Working
    <2> QED BY <1>1, <1>3, <1>4, <1>5, <1>9, <2>2, BlockWritten DEF IInv
<1>10. CASE phase = "verify" /\ loaded
    <2>1. Block \in Seq(Values)
        BY <1>10, BlockContent DEF IInv, Typed, Working
    <2>2. Last'.status = "OK" /\ Last'.data = Block
        BY <1>2, <1>10, <2>1, ReadExecuted, Appended DEF IInv
    <2>3. AckedWritesLand'
        BY <1>1, <1>10, ReadExecuted, MemoryKept DEF IInv
    <2>4. Performed'
        BY <1>1, <1>2, <1>10, <2>2, ReadExecuted, Derived DEF Performed, Working
    <2> QED BY <1>1, <1>3, <1>4, <1>5, <2>3, <2>4 DEF IInv
<1> QED BY <1>6, <1>7, <1>8, <1>9, <1>10 DEF Working

LEMMA SessionIInv ==
    ASSUME IInv, Reopen \/ Silence
    PROVE  IInv'
<1>1. /\ UNCHANGED <<flash, eeprom, request, replies, phase, job, k, loaded, seq, waiting, probed, before>>
      /\ address' \in {address, 0} /\ session' \in {"open", "left"}
    BY DEF Reopen, Silence, host
<1>2. Typed' /\ Numbered'
    <2>1. 0 \in 0..(Extended - 1)
        BY Constants
    <2>2. TypeOK'
        BY <1>1, <2>1 DEF IInv, Typed, TypeOK
    <2>3. Typed'
        BY <1>1, <2>2 DEF IInv, Typed
    <2>4. Numbered'
        BY <1>1 DEF IInv, Numbered
    <2> QED BY <2>3, <2>4
<1>3. Asked' /\ Placed' /\ UploadAccepted'
    BY <1>1, Derived DEF IInv, Asked, Placed, UploadAccepted
<1>4. AckedWritesLand'
    BY <1>1, MemoryKept DEF IInv
<1>5. Pointed' /\ Performed'
    <2>1. CASE Reopen
        BY <1>1, <2>1 DEF Reopen, IInv, Pointed, Performed, Working, Answered, Last
    <2>2. CASE Silence
        BY <1>1, <2>2 DEF Silence, IInv, Pointed, Performed, Working, Answered
    <2> QED BY <2>1, <2>2
<1> QED BY <1>2, <1>3, <1>4, <1>5 DEF IInv

LEMMA LoseRequestIInv ==
    ASSUME IInv, LoseRequest
    PROVE  IInv'
<1>1. /\ request' = <<>> /\ UNCHANGED <<address, flash, eeprom, session, replies>>
      /\ UNCHANGED <<phase, job, k, loaded, seq, waiting, probed, before>>
    BY DEF LoseRequest, board, host
<1>2. Typed' /\ Numbered'
    <2>1. Len(request') <= 1
        BY <1>1
    <2> QED BY <1>1, <2>1 DEF IInv, Typed, TypeOK, Numbered
<1>3. Asked' /\ Placed' /\ UploadAccepted'
    BY <1>1, Derived DEF IInv, Asked, Placed, UploadAccepted
<1>4. AckedWritesLand'
    BY <1>1, MemoryKept DEF IInv
<1>5. Pointed'
    BY <1>1, Derived DEF IInv, Pointed
<1>6. Performed'
    BY <1>1, Derived DEF IInv, Performed, Answered, Last, Target
<1> QED BY <1>2, <1>3, <1>4, <1>5, <1>6 DEF IInv

\* Without its first reply the line has the others, and the same last one.
LEMMA WithoutFirst ==
    ASSUME Typed, replies # <<>>, replies' = Tail(replies)
    PROVE  /\ replies' \in Seq(Reply) /\ Len(replies') = Len(replies) - 1
           /\ Len(replies) \in Nat /\ Len(replies) >= 1
           /\ \A r \in 1..Len(replies') : replies'[r] = replies[r + 1]
           /\ replies' # <<>> => Last' = Last
<1>1. replies \in Seq(Reply) /\ Len(replies) \in Nat /\ Len(replies) >= 1
    BY DEF Typed
<1>2. replies' \in Seq(Reply) /\ Len(replies') = Len(replies) - 1
    BY <1>1
<1>3. \A r \in 1..Len(replies') : replies'[r] = replies[r + 1]
    BY <1>1, <1>2
<1>4. replies' # <<>> => Last' = Last
    BY <1>1, <1>2, <1>3 DEF Last
<1> QED BY <1>1, <1>2, <1>3, <1>4

LEMMA DropIInv ==
    ASSUME IInv, LoseReply \/ DropStale
    PROVE  IInv'
<1>1. /\ replies # <<>> /\ replies' = Tail(replies) /\ UNCHANGED <<address, flash, eeprom, session, request>>
      /\ UNCHANGED <<phase, job, k, loaded, seq, waiting, probed, before>>
    BY DEF LoseReply, DropStale, board, host
<1>2. /\ replies' \in Seq(Reply) /\ Len(replies') = Len(replies) - 1
      /\ Len(replies) \in Nat /\ Len(replies) >= 1
      /\ \A r \in 1..Len(replies') : replies'[r] = replies[r + 1]
      /\ replies' # <<>> => Last' = Last
    BY <1>1, WithoutFirst DEF IInv
<1>3. Typed'
    <2>1. Typed /\ TypeOK
        BY DEF IInv, Typed
    <2>4. Len(replies) <= MaxReplies
        BY <2>1 DEF TypeOK
    <2>5. Len(replies') <= MaxReplies
        BY <1>2, <2>4, Constants
    <2>2. TypeOK'
        BY <1>1, <2>1, <2>5 DEF TypeOK
    <2> QED BY <1>1, <1>2, <2>1, <2>2 DEF Typed, Reply
<1>4. Numbered'
    <2>1. ASSUME NEW r \in 1..Len(replies')
          PROVE  /\ r + 1 \in 1..Len(replies) /\ replies'[r].seq = replies[r + 1].seq
                 /\ r + 1 = Len(replies) <=> r = Len(replies')
        BY <1>2
    <2> QED BY <1>1, <2>1 DEF IInv, Numbered
<1>5. Asked' /\ Placed' /\ UploadAccepted'
    BY <1>1, Derived DEF IInv, Asked, Placed, UploadAccepted
<1>6. AckedWritesLand'
    BY <1>1, MemoryKept DEF IInv
<1>7. Pointed'
    BY <1>1, Derived DEF IInv, Pointed
<1>8. Performed'
    <2>1. Answered' => Answered /\ Last' = Last
        BY <1>1, <1>2 DEF Answered
    <2> QED BY <1>1, <2>1, Derived DEF IInv, Performed, Target
<1> QED BY <1>3, <1>4, <1>5, <1>6, <1>7, <1>8 DEF IInv

\* A frame of the host has a number that no reply on the line has.
LEMMA WriteKeeps ==
    ASSUME IInv, NEW c \in Commands, Write(c), probed' \in 0..MaxProbes
    PROVE  Typed' /\ Numbered' /\ ~Answered' /\ waiting' # <<>> /\ waiting'[1] = c
<1>1. /\ request = <<>> /\ waiting = <<>> /\ seq' = (seq + 1) % SeqMod
      /\ request' = <<[seq |-> seq', c |-> c]>> /\ waiting' = <<c>>
      /\ UNCHANGED <<address, flash, eeprom, session, replies, phase, job, k, loaded, before>>
    BY DEF Write, board
<1>2. seq \in 0..(SeqMod - 1) /\ TypeOK /\ Typed
    BY DEF IInv, Typed, TypeOK
<1>3. seq' \in 0..(SeqMod - 1) /\ seq' # seq
    <2>1. CASE seq + 1 < SeqMod
        BY <1>1, <1>2, <2>1, Constants
    <2>2. CASE seq + 1 = SeqMod
        <3>1. SeqMod % SeqMod = 0
            BY Constants
        <3> QED BY <1>1, <1>2, <2>2, <3>1, Constants
    <2> QED BY <1>2, <2>1, <2>2, Constants
<1>4. /\ request' # <<>> /\ Len(request') = 1 /\ request'[1] = [seq |-> seq', c |-> c] /\ request' = <<request'[1]>>
      /\ waiting' # <<>> /\ Len(waiting') = 1 /\ waiting'[1] = c /\ waiting' = <<waiting'[1]>>
    BY <1>1
<1>5. request'[1] \in [seq : 0..(SeqMod - 1), c : Commands]
    BY <1>3, <1>4
<1>6. TypeOK'
    BY <1>1, <1>2, <1>3, <1>4 DEF TypeOK
<1>7. Typed'
    BY <1>1, <1>2, <1>4, <1>5, <1>6 DEF Typed, Reply
<1>8. \A r \in 1..Len(replies) : replies[r].seq = seq
    BY <1>1 DEF IInv, Numbered
<1>9. Numbered'
    BY <1>1, <1>3, <1>4, <1>8 DEF Numbered
<1>10. ~Answered'
    <2>1. Len(replies) \in Nat /\ (replies # <<>> => Len(replies) \in 1..Len(replies))
        BY <1>2 DEF Typed
    <2> QED BY <1>1, <1>3, <1>8, <2>1 DEF Answered, Last
<1> QED BY <1>4, <1>7, <1>9, <1>10

LEMMA SendIInv ==
    ASSUME IInv, SendLoad \/ SendBlock \/ \E c \in Probes : SendProbe(c)
    PROVE  IInv'
<1>1. PICK c \in Commands :
          /\ Write(c) /\ probed' \in 0..MaxProbes
          /\ Working => c = IF loaded THEN BlockCommand ELSE LoadCommand
    <2>1. Probes \subseteq Commands
        BY HostAssumption
    <2>2. probed \in 0..MaxProbes /\ TypeOK /\ Placed
        BY DEF IInv, Typed, TypeOK
    <2>3. CASE SendLoad \/ SendBlock
        BY <2>2, <2>3, HostCommands DEF SendLoad, SendBlock, Working
    <2>4. CASE \E c \in Probes : SendProbe(c)
        BY <2>1, <2>2, <2>4, Constants DEF SendProbe, Working
    <2> QED BY <2>3, <2>4
<1>2. /\ waiting = <<>> /\ waiting' # <<>> /\ waiting'[1] = c
      /\ UNCHANGED <<address, flash, eeprom, session, phase, job, k, loaded, before>>
      /\ Typed' /\ Numbered' /\ ~Answered'
    BY <1>1, WriteKeeps DEF Write, board
<1>3. phase # "done"
    BY DEF SendLoad, SendBlock, SendProbe
<1>4. Asked' /\ Placed' /\ UploadAccepted'
    BY <1>1, <1>2, <1>3, Derived DEF IInv, Asked, Placed, UploadAccepted
<1>5. Pointed' /\ Performed'
    BY <1>2, Derived DEF IInv, Pointed, Performed
<1>6. AckedWritesLand'
    BY <1>2, MemoryKept DEF IInv
<1> QED BY <1>2, <1>4, <1>5, <1>6 DEF IInv

LEMMA StartJobIInv ==
    ASSUME IInv, NEW j \in Jobs, StartJob(j)
    PROVE  IInv'
<1>1. /\ phase = "probe" /\ waiting = <<>> /\ phase' = "write" /\ job' = j /\ k' = 0 /\ loaded' = FALSE
      /\ before' = [flash |-> flash, eeprom |-> eeprom]
      /\ UNCHANGED <<address, flash, eeprom, session, request, replies, seq, waiting, probed>>
    BY DEF StartJob, board
<1>2. Len(j.data) \in Nat /\ Len(j.data) > 0 /\ j.start \in Nat
    BY JobFields
<1>3. Typed'
    <2>1. Typed /\ TypeOK /\ Len(waiting') <= 1 /\ Len(request') <= 1 /\ Len(replies') <= MaxReplies
        BY <1>1 DEF IInv, Typed, TypeOK
    <2>2. TypeOK'
        <3>1. 0 \in 0..Len(j.data)
            BY <1>2
        <3>2. job' \in Jobs /\ k' \in 0..Len(job'.data)
            BY <1>1, <3>1
        <3> QED BY <1>1, <2>1, <3>2 DEF TypeOK
    <2>3. before' \in [flash : [FlashBytes -> Values], eeprom : [EepromBytes -> Values]]
        BY <1>1, <2>1 DEF TypeOK
    <2> QED BY <1>1, <2>1, <2>2, <2>3 DEF Typed, Reply
<1>4. Numbered' /\ Asked' /\ Pointed' /\ Performed' /\ UploadAccepted'
    BY <1>1 DEF IInv, Numbered, Asked, Pointed, Performed, Answered, UploadAccepted
<1>5. Placed'
    BY <1>1, <1>2 DEF Placed
<1>6. AckedWritesLand'
    BY <1>1, <1>2 DEF AckedWritesLand, Acked, IInv, Typed, TypeOK
<1> QED BY <1>3, <1>4, <1>5, <1>6 DEF IInv

LEMMA HostTimeoutIInv ==
    ASSUME IInv, HostTimeout
    PROVE  IInv'
<1>1. /\ request = <<>> /\ waiting' = <<>> /\ loaded' = FALSE
      /\ \A r \in 1..Len(replies) : replies[r].seq = seq
      /\ UNCHANGED <<address, flash, eeprom, session, request, replies, phase, job, k, seq, probed, before>>
    BY DEF HostTimeout, board
<1>2. Typed' /\ Numbered'
    <2>1. Len(waiting') <= 1
        BY <1>1
    <2> QED BY <1>1, <2>1 DEF IInv, Typed, TypeOK, Numbered, Reply
<1>3. Asked' /\ Placed' /\ Pointed' /\ Performed' /\ UploadAccepted'
    BY <1>1 DEF IInv, Asked, Placed, Pointed, Performed, Answered, Working, UploadAccepted
<1>4. AckedWritesLand'
    BY <1>1, MemoryKept DEF IInv
<1> QED BY <1>2, <1>3, <1>4 DEF IInv

LEMMA AutoResetIInv ==
    ASSUME IInv, AutoReset
    PROVE  IInv'
<1>1. /\ address' = 0 /\ session' = "open" /\ request' = <<>> /\ replies' = <<>>
      /\ phase' = "probe" /\ probed' = 0 /\ waiting' = <<>>
      /\ loaded' = FALSE /\ k' = 0 /\ seq' = 0
      /\ before' = [flash |-> flash, eeprom |-> eeprom] /\ UNCHANGED <<flash, eeprom, job>>
    BY DEF AutoReset
<1>2. Len(<<>>) = 0 /\ <<>> \in Seq(Reply)
    OBVIOUS
<1>3. job \in Jobs /\ Len(job.data) \in Nat
    BY JobFields DEF IInv, Typed, TypeOK
<1>4. Typed'
    <2>1. TypeOK
        BY DEF IInv, Typed
    <2>2. TypeOK'
        <3>1. /\ 0 \in 0..(Extended - 1) /\ 0 \in 0..Len(job.data) /\ 0 \in 0..(SeqMod - 1)
              /\ 0 \in 0..MaxProbes
            BY <1>3, Constants
        <3>2. Len(request') <= 1 /\ Len(replies') <= MaxReplies /\ Len(waiting') <= 1
            BY <1>1, <1>2, Constants
        <3> QED BY <1>1, <2>1, <3>1, <3>2 DEF TypeOK
    <2>3. before' \in [flash : [FlashBytes -> Values], eeprom : [EepromBytes -> Values]]
        BY <1>1, <2>1 DEF TypeOK
    <2>4. replies' \in Seq(Reply) /\ request' = <<>> /\ waiting' = <<>>
        BY <1>1, <1>2
    <2> QED BY <2>2, <2>3, <2>4 DEF Typed, Reply
<1>5. Numbered' /\ Asked' /\ Placed' /\ Pointed' /\ Performed' /\ UploadAccepted' /\ AckedWritesLand'
    BY <1>1, <1>2 DEF Numbered, Asked, Placed, Pointed, Performed, UploadAccepted, AckedWritesLand, Working
<1> QED BY <1>4, <1>5 DEF IInv

\* The reply that the host takes is the answer to its last frame, and the
\* only one left.
LEMMA Taken ==
    ASSUME IInv, TakeReply
    PROVE  /\ Answered /\ Last = replies[1] /\ request = <<>>
           /\ replies' = <<>> /\ waiting' = <<>>
           /\ UNCHANGED <<address, flash, eeprom, session, request, job, seq, probed, before>>
<1>1. /\ waiting # <<>> /\ replies # <<>> /\ replies[1].seq = seq /\ replies' = Tail(replies) /\ waiting' = <<>>
      /\ UNCHANGED <<address, flash, eeprom, session, request, job, seq, probed, before>>
    BY DEF TakeReply, board
<1>2. replies \in Seq(Reply) /\ Len(replies) \in Nat /\ Len(replies) >= 1
    BY <1>1 DEF IInv, Typed
<1>3. Len(replies) = 1 /\ request = <<>>
    <2>1. 1 \in 1..Len(replies)
        BY <1>2
    <2> QED BY <1>1, <2>1 DEF IInv, Numbered
<1>4. replies' = <<>>
    BY <1>1, <1>2, <1>3
<1> QED BY <1>1, <1>3, <1>4 DEF Answered, Last

\* A reply leaves the host at a place of the same upload.
LEMMA TakenKeeps ==
    ASSUME IInv, TakeReply,
           phase' \in {"probe", "write", "verify", "done"}, k' \in 0..Len(job.data), loaded' \in BOOLEAN
    PROVE  Typed' /\ Numbered' /\ Asked' /\ Performed' /\ UploadAccepted'
<1>1. /\ request = <<>> /\ replies' = <<>> /\ waiting' = <<>>
      /\ UNCHANGED <<address, flash, eeprom, session, request, job, seq, probed, before>>
    BY Taken
<1>2. Typed'
    <2>1. Typed /\ TypeOK
        BY DEF IInv, Typed
    <2>2. Len(<<>>) = 0 /\ <<>> \in Seq(Reply)
        OBVIOUS
    <2>3. TypeOK'
        <3>1. Len(replies') <= MaxReplies /\ Len(waiting') <= 1
            BY <1>1, <2>2, Constants
        <3> QED BY <1>1, <2>1, <3>1 DEF TypeOK
    <2>4. replies' \in Seq(Reply)
        BY <1>1, <2>2
    <2> QED BY <1>1, <2>1, <2>3, <2>4 DEF Typed, Reply
<1>3. Numbered' /\ Asked' /\ Performed' /\ UploadAccepted'
    <2>1. Len(<<>>) = 0
        OBVIOUS
    <2> QED BY <1>1, <2>1 DEF Numbered, Asked, Performed, Answered, UploadAccepted
<1> QED BY <1>2, <1>3

\* After the last block the host begins to verify, or is done.
LEMMA BlockDoneIInv ==
    ASSUME IInv, Working, loaded, TakeReply, BlockDone
    PROVE  IInv'
<1>1. /\ Answered /\ request = <<>> /\ replies' = <<>> /\ waiting' = <<>>
      /\ UNCHANGED <<address, flash, eeprom, session, request, job, seq, probed, before>>
    BY Taken
<1>2. /\ session = "open" /\ address = Unit(job.start + k + BlockLen)
      /\ phase = "write" => \A x \in (k + 1)..(k + BlockLen) : Target[job.start + x - 1] = job.data[x]
    BY <1>1 DEF IInv, Performed
<1>3. TypeOK /\ Placed
    BY DEF IInv, Typed
<1>4. job \in Jobs /\ k \in Nat /\ k < Len(job.data) /\ BlockLen \in Nat /\ k + BlockLen <= Len(job.data)
    <2>1. job \in Jobs /\ k \in 0..Len(job.data) /\ k < Len(job.data)
        BY <1>3 DEF TypeOK, Placed
    <2> QED BY <1>3, <2>1, BlockBounds, Constants
<1>5. job.start \in Nat /\ Len(job.data) \in Nat /\ Len(job.data) > 0
    BY <1>4, JobFields
<1>6. /\ \A x \in 1..Acked : Target[job.start + x - 1] = job.data[x]
      /\ \A x \in FlashBytes : flash[x] # before.flash[x] => job.mem = "flash" /\ x \in Region
      /\ \A x \in EepromBytes : eeprom[x] # before.eeprom[x] => job.mem = "eeprom" /\ x \in Region
    BY DEF IInv, AckedWritesLand, Working
<1>7. \A x \in 1..(k + BlockLen) : phase = "write" => Target[job.start + x - 1] = job.data[x]
    BY <1>2, <1>4, <1>6 DEF Acked
<1>8. UNCHANGED <<Target, Region>>
    BY <1>1 DEF Target, Region
<1>9. CASE k + BlockLen < Len(job.data)
    <2>1. k' = k + BlockLen /\ loaded' = TRUE /\ phase' = phase
        BY <1>9 DEF BlockDone
    <2>2. Typed' /\ Numbered' /\ Asked' /\ Performed' /\ UploadAccepted'
        BY <1>4, <2>1, TakenKeeps DEF Working
    <2>3. Placed'
        <3>1. job.mem = "flash" => k % 2 = 0 /\ BlockLen % 2 = 0
            BY <1>3, BlockBounds DEF Placed
        <3>2. k % 2 = 0 /\ BlockLen % 2 = 0 => (k + BlockLen) % 2 = 0
            BY <1>4
        <3> QED BY <1>1, <1>9, <2>1, <3>1, <3>2 DEF Placed
    <2>4. Pointed'
        <3>1. (job.start + k)' = job.start + k + BlockLen
            BY <1>1, <1>4, <1>5, <2>1
        <3> QED BY <1>1, <1>2, <3>1 DEF Pointed, Unit
    <2>5. AckedWritesLand'
        BY <1>1, <1>6, <1>7, <1>8, <2>1 DEF AckedWritesLand, Acked, Working
    <2> QED BY <2>2, <2>3, <2>4, <2>5 DEF IInv
<1>10. CASE ~(k + BlockLen < Len(job.data))
    <2>1. k' = 0 /\ loaded' = FALSE /\ phase' = IF phase = "write" THEN "verify" ELSE "done"
        BY <1>10 DEF BlockDone
    <2>2. Typed' /\ Numbered' /\ Asked' /\ Performed' /\ UploadAccepted'
        <3>1. k' \in 0..Len(job.data)
            BY <1>5, <2>1
        <3> QED BY <2>1, <3>1, TakenKeeps
    <2>3. Placed' /\ Pointed'
        BY <1>1, <1>5, <2>1 DEF Placed, Pointed
    <2>4. AckedWritesLand'
        <3>1. k + BlockLen = Len(job.data)
            BY <1>4, <1>5, <1>10
        <3>2. \A x \in 1..Len(job.data) : Target[job.start + x - 1] = job.data[x]
            BY <1>6, <1>7, <3>1 DEF Acked
        <3> QED BY <1>1, <1>6, <1>8, <2>1, <3>2 DEF AckedWritesLand, Acked
    <2> QED BY <2>2, <2>3, <2>4 DEF IInv
<1> QED BY <1>9, <1>10

LEMMA TakeReplyIInv ==
    ASSUME IInv, TakeReply
    PROVE  IInv'
<1>1. /\ Answered /\ Last = replies[1] /\ request = <<>> /\ replies' = <<>> /\ waiting' = <<>>
      /\ UNCHANGED <<address, flash, eeprom, session, request, job, seq, probed, before>>
    BY Taken
<1>2. phase \in {"probe", "write", "verify"} /\ k \in 0..Len(job.data) /\ loaded \in BOOLEAN
    BY <1>1 DEF Answered, IInv, Asked, UploadAccepted, Typed, TypeOK
<1>3. Working =>
          /\ session = "open" /\ replies[1].status = "OK"
          /\ ~loaded => address = Unit(job.start + k)
          /\ loaded /\ phase = "verify" => replies[1].data = Block
    BY <1>1 DEF IInv, Performed
<1>4. CASE phase = "probe"
    <2>1. UNCHANGED <<phase, k, loaded>>
        BY <1>4 DEF TakeReply
    <2>2. Typed' /\ Numbered' /\ Asked' /\ Performed' /\ UploadAccepted'
        BY <1>2, <2>1, TakenKeeps
    <2> QED BY <1>4, <2>1, <2>2 DEF IInv, Placed, Pointed, Working, AckedWritesLand
<1>5. CASE Working /\ ~loaded
    <2>1. loaded' = TRUE /\ UNCHANGED <<phase, k>>
        BY <1>3, <1>5 DEF TakeReply, Working
    <2>2. Typed' /\ Numbered' /\ Asked' /\ Performed' /\ UploadAccepted'
        BY <1>2, <2>1, TakenKeeps
    <2>3. Placed' /\ Pointed'
        BY <1>1, <1>3, <1>5, <2>1, Derived DEF IInv, Placed, Pointed
    <2>4. AckedWritesLand'
        BY <1>1, <2>1, MemoryKept DEF IInv
    <2> QED BY <2>2, <2>3, <2>4 DEF IInv
<1>6. CASE Working /\ loaded
    <2>1. BlockDone
        BY <1>3, <1>6 DEF TakeReply, Working
    <2> QED BY <1>6, <2>1, BlockDoneIInv
<1> QED BY <1>2, <1>4, <1>5, <1>6 DEF Working

LEMMA StutterIInv ==
    ASSUME IInv, UNCHANGED vars
    PROVE  IInv'
<1>1. /\ UNCHANGED <<address, flash, eeprom, session, request, replies>>
      /\ UNCHANGED <<phase, job, k, loaded, seq, waiting, probed, before>>
    BY DEF vars, board, host
<1>2. Typed' /\ Numbered'
    BY <1>1 DEF IInv, Typed, TypeOK, Numbered
<1>3. Asked' /\ Placed' /\ Pointed' /\ Performed' /\ UploadAccepted' /\ AckedWritesLand'
    BY <1>1, Derived, MemoryKept
    DEF IInv, Asked, Placed, Pointed, Performed, Answered, Last, Target, UploadAccepted
<1> QED BY <1>2, <1>3 DEF IInv

LEMMA NextIInv ==
    ASSUME IInv, [Next]_vars
    PROVE  IInv'
<1>1. CASE Board
    BY <1>1, ReceiveIInv, SessionIInv DEF Board
<1>2. CASE Line
    BY <1>2, LoseRequestIInv, DropIInv DEF Line
<1>3. CASE Host
    BY <1>3, SendIInv, StartJobIInv, TakeReplyIInv, DropIInv, HostTimeoutIInv, AutoResetIInv DEF Host
<1>4. CASE UNCHANGED vars
    BY <1>4, StutterIInv
<1> QED BY <1>1, <1>2, <1>3, <1>4 DEF Next

LEMMA InitIInv ==
    ASSUME Init
    PROVE  IInv
<1>1. /\ address = 0 /\ session = "open" /\ request = <<>> /\ replies = <<>> /\ phase = "probe"
      /\ job \in Jobs /\ k = 0 /\ loaded = FALSE /\ seq = 0 /\ waiting = <<>> /\ probed = 0
      /\ before = [flash |-> flash, eeprom |-> eeprom]
      /\ flash \in [FlashBytes -> Values] /\ eeprom \in [EepromBytes -> Values]
    BY DEF Init
<1>2. Len(<<>>) = 0 /\ <<>> \in Seq(Reply)
    OBVIOUS
<1>3. Typed
    <2>1. Len(job.data) \in Nat
        BY <1>1, JobFields
    <2>2. TypeOK
        <3>1. /\ 0 \in 0..(Extended - 1) /\ 0 \in 0..Len(job.data) /\ 0 \in 0..(SeqMod - 1)
              /\ 0 \in 0..MaxProbes
            BY <2>1, Constants
        <3>2. Len(request) <= 1 /\ Len(replies) <= MaxReplies /\ Len(waiting) <= 1
            BY <1>1, <1>2, Constants
        <3> QED BY <1>1, <3>1, <3>2 DEF TypeOK
    <2>3. before \in [flash : [FlashBytes -> Values], eeprom : [EepromBytes -> Values]]
        BY <1>1
    <2>4. replies \in Seq(Reply)
        BY <1>1, <1>2
    <2> QED BY <1>1, <2>2, <2>3, <2>4 DEF Typed
<1>4. Numbered /\ Asked /\ Placed /\ Pointed /\ Performed /\ UploadAccepted /\ AckedWritesLand
    BY <1>1, <1>2 DEF Numbered, Asked, Placed, Pointed, Performed, UploadAccepted, AckedWritesLand, Working
<1> QED BY <1>3, <1>4 DEF IInv

-----------------------------------------------------------------------------
(* What holds of every session *)

\* The number of the last frame, the place in the upload and the board's
\* address always fit together: the invariant that the next three rest on.
THEOREM Invariance == Spec => []IInv
<1>1. Init => IInv
    BY InitIInv
<1>2. IInv /\ [Next]_vars => IInv'
    BY NextIInv
<1> QED BY <1>1, <1>2, PTL DEF Spec

\* stk_command() keeps its address below the flag and in range of every read
\* and write it accepts, and the host's place stays inside the upload.
THEOREM TypeCorrect == Spec => []TypeOK
<1>1. IInv => TypeOK
    BY DEF IInv, Typed
<1> QED BY <1>1, Invariance, PTL

\* Every block that stk_command() acknowledged is where the host meant it to
\* be, and nothing else has changed, whatever the line lost or delivered late.
THEOREM BlocksLand == Spec => []AckedWritesLand
<1>1. IInv => AckedWritesLand
    BY DEF IInv
<1> QED BY <1>1, Invariance, PTL

\* stk_command() refuses no block of an upload that lies in its memory, and
\* what it reads back is what was written.
THEOREM NeverRefused == Spec => []UploadAccepted
<1>1. IInv => UploadAccepted
    BY DEF IInv
<1> QED BY <1>1, Invariance, PTL

\* A block that does not reach past its page, from a to a + n - 1.
LEMMA OnePage ==
    ASSUME NEW a \in Nat, NEW n \in Nat, NEW p \in Nat, p > 0, (a % p) + n <= p,
           NEW x \in a..(a + n - 1)
    PROVE  x \div p = a \div p
<1> DEFINE q == a \div p
           r == a % p
<1>1. a = q * p + r /\ q \in Int /\ r \in 0..(p - 1)
    OBVIOUS
<1> HIDE DEF q, r
<1>2. x = q * p + (r + (x - a)) /\ r + (x - a) \in 0..(p - 1) /\ x \in Int
    <2>1. r + n <= p
        BY DEF r
    <2>2. q * p \in Int
        BY <1>1
    <2> DEFINE m == q * p
    <2> HIDE DEF m
    <2>3. a = m + r /\ m \in Int => x = m + (r + (x - a)) /\ r + (x - a) \in 0..(p - 1) /\ x \in Int
        BY <1>1, <2>1
    <2> QED BY <1>1, <2>2, <2>3 DEF m
<1>3. x \div p = q
    BY <1>1, <1>2
<1> QED BY <1>3 DEF q

\* PROGRAM_FLASH rewrites a whole page but changes only the bytes it names,
\* all of them in one page below the boot section.
THEOREM Confined == Spec => WritesConfined
<1> DEFINE A == \A x \in FlashBytes : flash'[x] # flash[x] =>
                   /\ request # <<>> /\ request[1].c.cmd = "PROGRAM_FLASH"
                   /\ x \in FlashAt..(FlashAt + Len(request[1].c.data) - 1)
                   /\ x \div PAGE_SIZE = FlashAt \div PAGE_SIZE
                   /\ x < APP_END
<1>1. IInv /\ [Next]_vars => A
    <2> SUFFICES ASSUME IInv, [Next]_vars, NEW x \in FlashBytes, flash'[x] # flash[x]
                 PROVE  /\ request # <<>> /\ request[1].c.cmd = "PROGRAM_FLASH"
                        /\ x \in FlashAt..(FlashAt + Len(request[1].c.data) - 1)
                        /\ x \div PAGE_SIZE = FlashAt \div PAGE_SIZE
                        /\ x < APP_END
        OBVIOUS
    <2> DEFINE c == request[1].c
    <2>1. flash' # flash
        OBVIOUS
    <2>2. Receive
        BY <2>1 DEF vars, board, Next, Board, Line, Host, Reopen, Silence, LoseRequest, LoseReply, SendProbe,
            SendLoad, SendBlock, Write, StartJob, TakeReply, DropStale, HostTimeout, AutoReset
    <2>3. request # <<>> /\ Accepts(c) /\ ProgramFlash(c)
        BY <2>1, <2>2 DEF Receive, Execute, Fail, ProgramEeprom, ReadFlash, ReadEeprom, LoadAddress, Leave,
            Inform, board
    <2>4. c.cmd = "PROGRAM_FLASH" /\ flash' = Written(flash, FlashAt, c.data)
        BY <2>3 DEF ProgramFlash
    <2>5. Len(c.data) = c.size /\ AcceptsFlashWrite(c.size)
        BY <2>3, <2>4 DEF Accepts
    <2>6. c \in Commands /\ c.size \in Nat
        BY <2>3, <2>4, Frame, CommandFields DEF IInv
    <2>7. flash \in [FlashBytes -> Values] /\ FlashAt \in Nat
        BY Memories DEF IInv, FlashAt
    <2>8. x \in FlashAt..(FlashAt + Len(c.data) - 1)
        BY <2>4, <2>7 DEF Written
    <2>9. (FlashAt % PAGE_SIZE) + c.size <= PAGE_SIZE /\ c.size <= APP_END - FlashAt
        BY <2>5 DEF AcceptsFlashWrite, range_ok
    <2> HIDE DEF c
    <2>10. x \div PAGE_SIZE = FlashAt \div PAGE_SIZE
        <3>1. x \in FlashAt..(FlashAt + c.size - 1)
            BY <2>5, <2>8
        <3> QED BY <2>6, <2>7, <2>9, <3>1, OnePage, Constants
    <2>11. x < APP_END
        BY <2>5, <2>6, <2>7, <2>8, <2>9, Constants
    <2> QED BY <2>3, <2>4, <2>8, <2>10, <2>11 DEF c
<1>2. A <=> (\A x \in FlashBytes : flash'[x] # flash[x] =>
                   /\ request # <<>> /\ request[1].c.cmd = "PROGRAM_FLASH"
                   /\ x \in FlashAt..(FlashAt + Len(request[1].c.data) - 1)
                   /\ x \div PAGE_SIZE = FlashAt \div PAGE_SIZE
                   /\ x < APP_END)
    OBVIOUS
<1> QED BY <1>1, Invariance, PTL DEF Spec, WritesConfined

=============================================================================
