--------------------------- MODULE ExchangesProofs ---------------------------
(* The parts in which someone waits for an answer: the parser of DNS replies *)
(* stays inside the datagram, whatever it holds, and finds the address that  *)
(* is in it; a send, a connect, a lookup and a response take only what is    *)
(* theirs; and stk500() executes exactly the whole frames.                   *)
EXTENDS Exchanges, TLAPS, WellFoundedInduction

-----------------------------------------------------------------------------
(* dns_parse(): for every datagram of up to 600 bytes, every host and every *)
(* step limit.                                                              *)

\* What name() and dns_parse() hand to each other: positions that are not
\* behind the end of the datagram, so that n - p does not wrap.
Positions ==
    /\ pc = "name" => end <= n
    /\ pc \in {"fields", "next"} => p <= n

IInv == TypeOK /\ n <= 600 /\ InPacket /\ Positions

LEMMA WordRange == ASSUME NEW i PROVE i \in Word16 <=> i \in Nat /\ i <= 65535
<1>1. i \in 0..WordMax <=> i \in Nat /\ i <= WordMax
    <2>1. WordMax \in Nat
        BY DEF WordMax
    <2> QED BY <2>1
<1>2. WordMax = 65535
    BY DEF WordMax
<1>3. i \in Word16 <=> i \in 0..WordMax
    BY DEF Word16
<1>4. i <= WordMax <=> i <= 65535
    BY <1>2
<1> HIDE DEF Word16
<1> QED BY <1>1, <1>3, <1>4, SMTT(30)

LEMMA OctetRange == ASSUME NEW i PROVE i \in Octet <=> i \in Nat /\ i <= 255
BY DEF Octet

\* A difference of two positions in the datagram does not wrap.
LEMMA MinusExact ==
    ASSUME NEW a \in Nat, NEW b \in Nat, a <= 600, b <= a
    PROVE  Minus(a, b) = a - b
BY DEF Minus

\* Bytes and 16-bit words of the datagram are in range, wherever they are read.
LEMMA ByteRange ==
    ASSUME packet \in Seq(Octet), NEW i \in Nat
    PROVE  Byte(i) \in Octet /\ Word(i) \in Word16
<1>1. ASSUME NEW j \in Nat PROVE Byte(j) \in Octet
    <2>1. CASE j < n
        <3>1. j < Len(packet) /\ Byte(j) = packet[j + 1]
            BY <2>1 DEF Byte, n
        <3> QED BY <3>1
    <2>2. CASE ~(j < n)
        BY <2>2, OctetRange DEF Byte
    <2> QED BY <2>1, <2>2
<1>2. Byte(i) \in Octet /\ Byte(i + 1) \in Octet
    BY <1>1
<1>3. Byte(i) * 256 + Byte(i + 1) \in Nat /\ Byte(i) * 256 + Byte(i + 1) <= 65535
    BY <1>2, OctetRange
<1> QED BY <1>2, <1>3, WordRange DEF Word

LEMMA InitIInv == Init => IInv
<1> SUFFICES ASSUME Init PROVE IInv
    OBVIOUS
<1>1. packet \in Seq(Octet) /\ n \in Nat /\ n <= 600 /\ host \in Seq(Letter)
    BY ReplyAssumption DEF Init, n
<1>2. Len(host) \in Nat /\ 0 \in 0..(Steps - 1)
    BY <1>1, ReplyAssumption
<1>3. 0 \in Word16
    BY WordRange
<1> QED BY <1>1, <1>2, <1>3 DEF Init, IInv, TypeOK, InPacket, Positions

LEMMA NextIInv == IInv /\ [Next]_vars => IInv'
<1> SUFFICES ASSUME IInv, [Next]_vars PROVE IInv'
    OBVIOUS
<1>1. packet \in Seq(Octet) /\ n \in Nat /\ n <= 600 /\ Len(host) \in Nat
    BY ReplyAssumption DEF IInv, TypeOK, n
<1>2. Steps \in Nat /\ Steps < 256 /\ steps \in 0..(Steps - 1)
    BY ReplyAssumption DEF IInv, TypeOK
<1>3. touched \in Nat /\ touched <= n /\ {p, pos, end} \subseteq Nat
    BY WordRange DEF IInv, TypeOK, InPacket
<1>0. \A i \in 0..n : i \in Word16
    BY <1>1, WordRange
<1>4. CASE Refuse /\ (touched' = touched \/ touched' \in 0..n)
    BY <1>0, <1>1, <1>3, <1>4 DEF Refuse, given, walk, IInv, TypeOK, InPacket, Positions, n
<1>5. CASE Header
    <2>1. CASE Refuse
        BY <1>1, <1>3, <1>4, <1>5, <2>1 DEF Header, Touch
    <2>2. CASE n >= 12 /\ GoodHeader
        <3>1. touched' \in 0..n
            BY <1>1, <1>3, <1>5, <2>2 DEF Header, Touch
        <3>2. StartName(12) /\ UNCHANGED <<given, phase, p, count, ip>>
            BY <1>1, <1>5, <2>2 DEF Header
        <3>3. 12 \in 0..n
            BY <1>1, <2>2
        <3> QED BY <1>0, <1>1, <1>2, <3>1, <3>2, <3>3 DEF StartName, given, IInv, TypeOK, InPacket, Positions, n
    <2> QED BY <1>1, <1>5, <2>1, <2>2 DEF Header
<1>6. CASE CutOff
    BY <1>4, <1>6 DEF CutOff
<1>7. CASE Return
    <2>1. pos < n /\ steps' = (steps + 1) % 256 /\ steps + 1 < Steps
        BY <1>7 DEF Return, Turn, More
    <2>2. touched' \in 0..n /\ steps' \in 0..(Steps - 1) /\ p' \in 0..n
        BY <1>1, <1>2, <1>3, <1>7, <2>1 DEF Return, Turn, Touch, IInv, Positions
    <2>3. match' \in BOOLEAN
        BY <1>7 DEF Return
    <2> QED BY <1>0, <1>1, <1>3, <1>7, <2>2, <2>3 DEF Return, given, IInv, TypeOK, InPacket, Positions, n
<1>8. CASE Pointer
    <2>1. pos + 1 < n /\ steps' = (steps + 1) % 256 /\ steps + 1 < Steps
        BY <1>8 DEF Pointer, Turn, More, PointerFits
    <2>2. touched' \in 0..n /\ steps' \in 0..(Steps - 1)
        BY <1>1, <1>2, <1>3, <1>8, <2>1 DEF Pointer, Touch
    <2>3. end' \in 0..n
        BY <1>1, <1>3, <1>8, <2>1 DEF Pointer, Turn, NameEnd, IInv, Positions
    <2>4. pos' \in Word16
        <3>1. Byte(pos) \in Octet /\ Byte(pos + 1) \in Octet
            BY <1>1, <1>3, ByteRange
        <3>2. ASSUME NEW x \in Octet, NEW y \in Octet
              PROVE  (x % 64) * 256 + y \in Nat /\ (x % 64) * 256 + y <= 65535
            <4>1. x \in Nat /\ y \in Nat /\ y <= 255
                BY OctetRange
            <4>2. x % 64 \in 0..63
                BY <4>1
            <4> QED BY <4>1, <4>2
        <3>3. pos' = (Byte(pos) % 64) * 256 + Byte(pos + 1)
            BY <1>8 DEF Pointer
        <3> QED BY <3>1, <3>2, <3>3, WordRange
    <2> QED BY <1>0, <1>1, <1>3, <1>8, <2>2, <2>3, <2>4, SMTT(30)
            DEF Pointer, Turn, given, IInv, TypeOK, InPacket, Positions, n
<1>9. CASE Label
    <2> DEFINE len == Byte(pos)
    <2> DEFINE c == From(chars)
    <2>1. pos < n /\ steps' = (steps + 1) % 256 /\ steps + 1 < Steps /\ len \in 1..63
        BY <1>9 DEF Label, Turn, More
    <2>2. len <= n - (pos + 1)
        <3>1. Minus(n, pos + 1) = n - (pos + 1)
            BY <1>1, <1>3, <2>1, MinusExact
        <3>2. len <= Minus(n, pos + 1)
            BY <1>9 DEF Label
        <3> QED BY <3>1, <3>2
    <2>3. touched' \in 0..n /\ steps' \in 0..(Steps - 1) /\ pos' \in 0..n
        <3>1. Touch(pos + 1 + len) /\ pos' = pos + 1 + len
            BY <1>9 DEF Label
        <3> HIDE DEF len
        <3> QED BY <1>1, <1>2, <1>3, <2>1, <2>2, <3>1 DEF Touch
    <2>4. chars' \in 0..Len(host)
        <3>1. chars \in 0..Len(host)
            BY DEF IInv, TypeOK
        <3>2. c \in 0..Len(host)
            BY <1>1, <3>1 DEF From
        <3>3. chars' = IF c + len < Len(host) THEN c + len ELSE Len(host)
            BY <1>9 DEF Label
        <3> HIDE DEF c, len
        <3> QED BY <1>1, <2>1, <3>2, <3>3
    <2>5. match' \in BOOLEAN
        BY <1>9, Zenon DEF Label
    <2>6. UNCHANGED <<given, pc, phase, p, count, end, ip>>
        BY <1>9 DEF Label
    <2> HIDE DEF c, len
    <2> QED BY <1>0, <1>1, <1>3, <2>3, <2>4, <2>5, <2>6 DEF given, IInv, TypeOK, InPacket, Positions, n
<1>10. CASE Malformed
    <2>1. touched' \in 0..n
        BY <1>1, <1>3, <1>10 DEF Malformed, More, Touch
    <2> QED BY <1>4, <1>10, <2>1 DEF Malformed
<1>11. CASE Question
    <2>1. p \in 0..n
        BY <1>3, <1>11 DEF Question, IInv, Positions
    <2>2. Room(4) => p + 4 <= n
        BY <1>1, <2>1, MinusExact DEF Room
    <2>3. touched' \in 0..n
        BY <1>1, <1>3, <1>11, <2>1, <2>2 DEF Question, Touch
    <2>4. CASE Refuse
        BY <1>4, <2>3, <2>4
    <2>5. CASE ~Refuse
        <3>1. Room(4) /\ p' = p + 4 /\ count' = Word(6) /\ phase' = "answer" /\ pc' = "next"
              /\ UNCHANGED <<given, walk, ip>>
            BY <1>11, <2>5 DEF Question
        <3>2. Word(6) \in Word16
            BY <1>1, ByteRange
        <3> QED BY <1>0, <1>1, <2>1, <2>2, <2>3, <3>1, <3>2 DEF given, walk, IInv, TypeOK, InPacket, Positions, n
    <2> QED BY <2>4, <2>5
<1>12. CASE NextRecord
    <2>1. CASE Refuse
        BY <1>4, <1>12, <2>1 DEF NextRecord
    <2>2. CASE ~Refuse
        <3>1. count # 0 /\ count' = count - 1 /\ StartName(p) /\ UNCHANGED <<given, phase, p, ip, touched>> /\ p <= n
            BY <1>12, <2>2 DEF NextRecord, IInv, Positions
        <3>2. count \in Word16 /\ count' = count - 1 /\ count # 0
            BY <3>1 DEF IInv, TypeOK
        <3>3. count' \in Word16
            BY <3>2, WordRange
        <3> QED BY <1>0, <1>1, <1>2, <1>3, <3>1, <3>3 DEF StartName, given, IInv, TypeOK, InPacket, Positions, n
    <2> QED BY <2>1, <2>2
<1>13. CASE Record
    <2> DEFINE len == Word(p + 8)
    <2> DEFINE body == p + 10
    <2>1. p \in 0..n /\ len \in Nat
        <3>1. p \in 0..n
            BY <1>1, <1>3, <1>13 DEF Record, IInv, Positions
        <3>2. len \in Word16
            BY <1>1, <3>1, ByteRange
        <3> QED BY <3>1, <3>2, WordRange
    <2>2. Room(10) => body \in 0..n /\ Minus(n, body) = n - body
        <3>1. Room(10) => body <= n
            BY <1>1, <2>1, MinusExact DEF Room
        <3> QED BY <1>1, <2>1, <3>1, MinusExact
    <2> HIDE DEF len
    <2>3. CASE ~Room(10)
        BY <1>4, <1>13, <2>3 DEF Record
    <2>4. CASE Room(10) /\ len > Minus(n, body)
        BY <1>1, <1>3, <1>4, <1>13, <2>2, <2>4 DEF Record, Touch, len
    <2>5. CASE Room(10) /\ ~(len > Minus(n, body)) /\ Wanted(len)
        <3>1. len = 4 /\ body + 4 <= n
            BY <1>1, <2>1, <2>2, <2>5 DEF Wanted
        <3>2. /\ ip' = {[i \in 1..4 |-> Byte(body + i - 1)]} /\ touched' \in 0..n
              /\ pc' = "done" /\ UNCHANGED <<given, phase, p, count, walk>>
            BY <1>1, <1>3, <1>13, <2>1, <2>5, <3>1 DEF Record, Touch, len
        <3>3. \A i \in 1..4 : Byte(body + i - 1) \in Octet
            BY <1>1, <2>1, ByteRange
        <3>4. \A a \in ip' : a \in [1..4 -> Octet]
            BY <3>2, <3>3
        <3> QED BY <1>0, <1>1, <3>2, <3>4 DEF given, walk, IInv, TypeOK, InPacket, Positions, n
    <2>6. CASE Room(10) /\ ~(len > Minus(n, body)) /\ ~Wanted(len)
        <3>1. body + len <= n
            BY <1>1, <2>1, <2>2, <2>6
        <3>2. /\ p' = body + len /\ pc' = "next" /\ touched' \in 0..n
              /\ UNCHANGED <<given, phase, count, walk, ip>>
            BY <1>1, <1>3, <1>13, <2>1, <2>2, <2>6 DEF Record, Touch, len
        <3> QED BY <1>0, <1>1, <2>1, <3>1, <3>2 DEF given, walk, IInv, TypeOK, InPacket, Positions, n
    <2> QED BY <2>3, <2>4, <2>5, <2>6
<1>14. CASE UNCHANGED vars
    BY <1>14 DEF vars, given, walk, IInv, TypeOK, InPacket, Positions, n
<1> QED BY <1>5, <1>6, <1>7, <1>8, <1>9, <1>10, <1>11, <1>12, <1>13, <1>14 DEF Next

\* The positions handed between name() and dns_parse() are always inside.
THEOREM Invariance == Spec => []IInv
<1> QED BY InitIInv, NextIInv, PTL DEF Spec

\* The parser's variables keep their 8- and 16-bit ranges; name() never counts
\* past its step limit, nor through the host's terminating zero.
THEOREM TypeCorrect == Spec => []TypeOK
BY Invariance, PTL DEF IInv

\* dns_parse reads no byte behind the datagram, whatever the server sent.
THEOREM ReadsInPacket == Spec => []InPacket
BY Invariance, PTL DEF IInv

-----------------------------------------------------------------------------
(* net_open(), net_connect(), net_send() *)

\* Outside net_send() the chip works on no UDP send, and in net_send() only on
\* this one; the flags say nothing when a send begins, and a report ends it.
SocketInv ==
    /\ Socket!TypeOK
    /\ inflight # None => status \in {"udp", "established"}
    /\ status = "udp" => inflight = None \/ pc = "sending"
    /\ pc \in {"connect", "connecting", "ready", "clear", "send"} => inflight = None
    /\ pc \in {"ready", "clear", "send", "sending"} =>
          IF mode = "udp" THEN status = "udp" ELSE status \in {"established", "closed"}
    /\ pc = "connect" => mode = "tcp" /\ status = "init"
    /\ pc = "connecting" => mode = "tcp" /\ (status = "established" => link = "this")
    /\ pc = "send" => ok = None /\ timeout = None
    /\ pc = "sending" =>
          /\ {inflight, ok} \subseteq {None, "this"}
          /\ ok # None \/ timeout # None => inflight = None

-----------------------------------------------------------------------------
(* dns() *)

\* A reply's ID tells its age, and every reply to an earlier query is older
\* than the present one, by less than the clock's period.
LookupInv ==
    /\ Lookup!TypeOK /\ host \in Sought
    /\ pc # "idle" => ~rested /\ retry < Lookup!Tries
    /\ \A r \in replies : r.id = (clock - r.age) % Wrap
    /\ pc = "query" \/ (pc = "idle" /\ rested) => \A r \in replies : r.age > 0
    /\ pc = "window" =>
          /\ id = t /\ Lookup!Passed <= Window
          /\ \A r \in replies : IF r.latest THEN r.age = Lookup!Passed /\ r.host = host ELSE r.age > Lookup!Passed
    /\ result # {} => pc = "idle"
    /\ Lookup!AnswersLatest

-----------------------------------------------------------------------------
(* http_open(), http_byte() *)

Bytes == Tokens \cup {"NUL"}

ResponseInv ==
    /\ Response!TypeOK
    /\ {packet, sent, taken} \subseteq Seq(Bytes) /\ line \in Seq(Bytes)
    /\ pc \in {"char", "lf"} => total <= MaxTotal
    /\ Response!OfThisConnection

-----------------------------------------------------------------------------
(* stk500() *)

\* Behind its start a frame is heard as far as the state says.
Prefix ==
    /\ state \in 1..4 => Len(heard) = state
    /\ heard[1] = MESSAGE_START
    /\ state >= 2 => heard[2] = seq
    /\ state = 3 => length = heard[3] * Base
    /\ state >= 4 => Line!LengthOK(length) /\ heard[3] = length \div Base /\ heard[4] = length % Base
    /\ state >= 5 =>
          /\ heard[5] = TOKEN /\ Len(heard) = 5 + Len(packet)
          /\ \A j \in 1..Len(packet) : heard[5 + j] = packet[j]
    /\ state = 5 => Len(packet) < length
    /\ state = 6 => Len(packet) = length

LineInv ==
    /\ Line!TypeOK
    /\ {heard, wire, frame} \subseteq Seq(Line!Octet)
    /\ state \in 1..6 => sum = Line!Sum(heard) /\ Prefix
    /\ Line!RunsFrames

LEMMA AgeTypes == Ages = {"this", "old"} /\ None # "this" /\ None # "old"
BY ExchangeAssumption DEF Socket!AgesAssumption

LEMMA SocketStart == Socket!Init => SocketInv
BY AgeTypes DEF Socket!Init, SocketInv, Socket!TypeOK

LEMMA SocketStutter == SocketInv /\ UNCHANGED <<pc, socketVars>> => SocketInv'
BY DEF socketVars, SocketInv, Socket!TypeOK

LEMMA SocketDriver ==
    ASSUME SocketInv, Socket!Driver
    PROVE  SocketInv'
<1> USE AgeTypes DEF SocketInv, Socket!TypeOK, Socket!chip, Socket!flags, Socket!Return, Socket!Older
<1>1. ASSUME NEW m \in {"udp", "tcp"}, NEW x \in BOOLEAN, Socket!Close(m, x) PROVE SocketInv'
    BY <1>1 DEF Socket!Close
<1>2. CASE Socket!ClearAll
    BY <1>2 DEF Socket!ClearAll
<1>3. ASSUME NEW x \in BOOLEAN, Socket!Open(x) PROVE SocketInv'
    BY <1>3 DEF Socket!Open, Socket!Opened
<1>4. ASSUME NEW x \in BOOLEAN, Socket!Connect(x) PROVE SocketInv'
    BY <1>4 DEF Socket!Connect
<1>5. ASSUME NEW x \in BOOLEAN, Socket!Send(x) PROVE SocketInv'
    BY <1>5 DEF Socket!Send
<1>6. CASE Socket!Connecting
    BY <1>6 DEF Socket!Connecting
<1>7. CASE Socket!Fill
    BY <1>7 DEF Socket!Fill
<1>8. CASE Socket!Clear
    BY <1>8 DEF Socket!Clear
<1>9. CASE Socket!Poll
    BY <1>9 DEF Socket!Poll
<1> QED BY <1>1, <1>2, <1>3, <1>4, <1>5, <1>6, <1>7, <1>8, <1>9 DEF Socket!Driver

LEMMA SocketOthers ==
    ASSUME SocketInv, Socket!Expiry \/ Socket!Chip
    PROVE  SocketInv'
<1> USE AgeTypes DEF SocketInv, Socket!TypeOK, Socket!chip, Socket!flags, Socket!Return
<1>1. CASE Socket!ConnectExpires
    BY <1>1 DEF Socket!ConnectExpires
<1>2. CASE Socket!FillExpires
    BY <1>2 DEF Socket!FillExpires
<1>3. CASE Socket!SendExpires
    BY <1>3 DEF Socket!SendExpires
<1>4. CASE Socket!Established
    BY <1>4 DEF Socket!Established
<1>5. CASE Socket!Refused
    BY <1>5 DEF Socket!Refused
<1>6. CASE Socket!SentOk
    BY <1>6 DEF Socket!SentOk
<1>7. CASE Socket!SentNot
    BY <1>7 DEF Socket!SentNot
<1>8. CASE Socket!Dropped
    BY <1>8 DEF Socket!Dropped
<1> QED BY <1>1, <1>2, <1>3, <1>4, <1>5, <1>6, <1>7, <1>8 DEF Socket!Expiry, Socket!Chip

\* The part never changes, and its module's steps are all there are.
LEMMA Parts ==
    ASSUME [ExchangeNext]_allVars
    PROVE  /\ part' = part
           /\ part = "reply" => [Next]_vars
           /\ part = "lookup" => Lookup!Next \/ UNCHANGED <<pc, host, lookupVars>>
           /\ part = "socket" => Socket!Next \/ UNCHANGED <<pc, socketVars>>
           /\ part = "response" => Response!Next \/ UNCHANGED <<pc, packet, responseVars>>
           /\ part = "line" => Line!Next \/ UNCHANGED <<packet, lineVars>>
<1>1. CASE ExchangeNext
    BY <1>1 DEF ExchangeNext, InReply, InLookup, InSocket, InResponse, InLine
<1>2. CASE UNCHANGED allVars
    BY <1>2 DEF allVars, vars, given, parserVars
<1> QED BY <1>1, <1>2

\* Nothing is on its way from one send to the next.
THEOREM SocketInvariance == ExchangeSpec => [](part = "socket" => SocketInv)
<1> DEFINE I == part = "socket" => SocketInv
<1>1. ExchangeInit => I
    BY SocketStart DEF ExchangeInit
<1>2. I /\ [ExchangeNext]_allVars => I'
    BY Parts, SocketStutter, SocketDriver, SocketOthers DEF Socket!Next
<1> QED BY <1>1, <1>2, PTL DEF ExchangeSpec

\* net_send() returns 1 only for data that the chip has sent and that belong to
\* this very call, and net_connect() only for the connection it asked for.
THEOREM AnswersOurs == ExchangeSpec => AnswerIsOurs
<1>1. (part = "socket" => SocketInv) /\ [ExchangeNext]_allVars => [part = "socket" => Socket!AnswerIsOurs]_allVars
    <2> SUFFICES ASSUME part = "socket", SocketInv, [ExchangeNext]_allVars, answer', Socket!Awaits, pc' = "ready"
                 PROVE  IF pc = "sending" THEN ok = "this" /\ timeout # "this" ELSE link = "this"
        BY DEF Socket!AnswerIsOurs
    <2>1. Socket!Next
        BY Parts DEF Socket!Awaits
    <2>2. Socket!Connecting \/ Socket!Poll
        BY <2>1 DEF Socket!Awaits, Socket!Next, Socket!Driver, Socket!Expiry, Socket!Chip, Socket!Close,
           Socket!ClearAll, Socket!Open, Socket!Connect, Socket!Send, Socket!Fill, Socket!Clear,
           Socket!ConnectExpires, Socket!FillExpires, Socket!SendExpires, Socket!Return,
           Socket!Established, Socket!Refused, Socket!SentOk, Socket!SentNot, Socket!Dropped
    <2> QED BY <2>2, AgeTypes DEF Socket!Connecting, Socket!Poll, Socket!Return, Socket!Awaits, SocketInv
<1> QED BY <1>1, SocketInvariance, PTL DEF ExchangeSpec, AnswerIsOurs

-----------------------------------------------------------------------------
(* dns(): theorems *)

LEMMA ClockTypes ==
    /\ Window \in Nat /\ Window > 0 /\ MaxAge \in Nat /\ Wrap \in Nat /\ Wrap > 0
    /\ MaxAge < Wrap /\ Window < Wrap
BY ExchangeAssumption DEF Lookup!ClientAssumption

\* A difference of two times, or the next one, taken modulo the period.
LEMMA Wrapped ==
    ASSUME NEW w \in Nat, w > 0, NEW x \in Int, -w <= x
    PROVE  /\ x < w => x % w = IF x < 0 THEN x + w ELSE x
           /\ x = w => x % w = 0
<1>1. CASE x < 0
    <2>1. (x + w) % w = x % w
        <3>1. \A q, r \in Int : r \in 0..(w - 1) => (q * w + r) % w = r
            OBVIOUS
        <3>2. x = (-1) * w + (x + w) /\ x + w \in 0..(w - 1)
            BY <1>1
        <3>3. x % w = x + w
            BY <3>1, <3>2
        <3> QED BY <3>2, <3>3
    <2> QED BY <1>1, <2>1
<1>2. CASE x >= 0
    BY <1>2
<1> QED BY <1>1, <1>2

\* A tick makes every reply one older, and its ID still tells its age.
LEMMA OlderByOne ==
    ASSUME NEW w \in Nat, w > 0, NEW c \in 0..(w - 1), NEW k \in 0..(w - 1)
    PROVE  /\ (c + 1) % w \in 0..(w - 1)
           /\ k + 1 < w => (((c + 1) % w) - (k + 1)) % w = (c - k) % w
<1> DEFINE e == (c + 1) % w
<1>1. e = IF c + 1 = w THEN 0 ELSE c + 1
    <2>1. c + 1 \in Int /\ -w <= c + 1
        OBVIOUS
    <2> QED BY <2>1, Wrapped
<1> HIDE DEF e
<1>2. c - k \in Int /\ -w <= c - k /\ c - k < w
    OBVIOUS
<1>3. (c - k) % w = IF c - k < 0 THEN c - k + w ELSE c - k
    BY <1>2, Wrapped
<1>4. ASSUME k + 1 < w PROVE (e - (k + 1)) % w = (c - k) % w
    <2>1. e - (k + 1) \in Int /\ -w <= e - (k + 1) /\ e - (k + 1) < w
        BY <1>1, <1>4
    <2>2. (e - (k + 1)) % w = IF e - (k + 1) < 0 THEN e - (k + 1) + w ELSE e - (k + 1)
        BY <2>1, Wrapped
    <2> QED BY <1>1, <1>3, <1>4, <2>2
<1>5. e \in 0..(w - 1)
    BY <1>1
<1> QED BY <1>4, <1>5 DEF e

\* Queries of different ages, younger than the period, have different IDs.
LEMMA AgesDiffer ==
    ASSUME NEW w \in Nat, w > 0, NEW c \in 0..(w - 1), NEW i \in 0..(w - 1), NEW k \in 0..(w - 1), i # k
    PROVE  (c - i) % w # (c - k) % w
<1>1. c - i \in Int /\ -w <= c - i /\ c - i < w /\ c - k \in Int /\ -w <= c - k /\ c - k < w
    OBVIOUS
<1>2. (c - i) % w = IF c - i < 0 THEN c - i + w ELSE c - i
    BY <1>1, Wrapped
<1>3. (c - k) % w = IF c - k < 0 THEN c - k + w ELSE c - k
    BY <1>1, Wrapped
<1> QED BY <1>2, <1>3

\* The time that has passed leads back to the query.
LEMMA PassedBack ==
    ASSUME NEW w \in Nat, w > 0, NEW c \in 0..(w - 1), NEW s \in 0..(w - 1)
    PROVE  (c - s) % w \in 0..(w - 1) /\ (c - ((c - s) % w)) % w = s
<1> DEFINE d == (c - s) % w
<1>1. d = IF c - s < 0 THEN c - s + w ELSE c - s
    <2>1. c - s \in Int /\ -w <= c - s /\ c - s < w
        OBVIOUS
    <2> QED BY <2>1, Wrapped
<1> HIDE DEF d
<1>2. d \in 0..(w - 1) /\ c - d \in Int /\ -w <= c - d /\ c - d < w
    BY <1>1
<1>3. (c - d) % w = IF c - d < 0 THEN c - d + w ELSE c - d
    BY <1>2, Wrapped
<1> QED BY <1>1, <1>2, <1>3 DEF d

LEMMA ReplyTypes ==
    ASSUME LookupInv
    PROVE  /\ clock \in 0..(Wrap - 1) /\ id \in 0..(Wrap - 1) /\ t \in 0..(Wrap - 1)
           /\ \A r \in replies :
                 /\ r.id \in 0..(Wrap - 1) /\ r.host \in Sought /\ r.latest \in BOOLEAN
                 /\ r.age \in 0..MaxAge /\ r.age \in 0..(Wrap - 1) /\ r.from = Lookup!Server
BY ClockTypes DEF LookupInv, Lookup!TypeOK

LEMMA LookupStart == Lookup!Init => LookupInv
BY ClockTypes DEF Lookup!Init, LookupInv, Lookup!TypeOK, Lookup!AnswersLatest, Lookup!Tries

LEMMA LookupStutter == LookupInv /\ UNCHANGED <<pc, host, lookupVars>> => LookupInv'
BY DEF lookupVars, LookupInv, Lookup!TypeOK, Lookup!AnswersLatest, Lookup!Passed

LEMMA LookupLookup ==
    ASSUME LookupInv, Lookup!Lookup
    PROVE  LookupInv'
BY ClockTypes DEF Lookup!Lookup, LookupInv, Lookup!TypeOK, Lookup!AnswersLatest, Lookup!Tries

LEMMA LookupQuery ==
    ASSUME LookupInv, Lookup!Query
    PROVE  LookupInv'
<1> DEFINE q == [id |-> clock, host |-> host, latest |-> TRUE, age |-> 0, from |-> Lookup!Server]
<1>1. /\ pc = "query" /\ pc' = "window" /\ id' = clock /\ t' = clock /\ replies' = Lookup!Old(replies) \cup {q}
      /\ UNCHANGED <<clock, host, retry, rested, result>>
    BY DEF Lookup!Query
<1>2. \A r \in replies' : r = q \/ \E o \in replies : r = [o EXCEPT !.latest = FALSE]
    BY <1>1 DEF Lookup!Old
<1>3. Lookup!Passed' = 0
    <2>1. clock - clock = 0 /\ clock' = clock /\ t' = clock /\ 0 % Wrap = 0
        BY <1>1, ClockTypes, ReplyTypes
    <2> QED BY <2>1 DEF Lookup!Passed
<1> DEFINE Fits(r) ==
            /\ r \in [id : 0..(Wrap - 1), host : Sought, latest : BOOLEAN, age : 0..MaxAge, from : {Lookup!Server}]
            /\ r.id = (clock - r.age) % Wrap
            /\ IF r.latest THEN r.age = 0 /\ r.host = host ELSE r.age > 0
<1>4. ASSUME NEW r \in replies' PROVE Fits(r)
    <2>1. CASE r = q
        <3>1. (clock - 0) % Wrap = clock
            BY ClockTypes, ReplyTypes
        <3> QED BY <2>1, <3>1, ClockTypes, ReplyTypes DEF LookupInv
    <2>2. ASSUME NEW o \in replies, r = [o EXCEPT !.latest = FALSE] PROVE Fits(r)
        <3>1. o \in [id : 0..(Wrap - 1), host : Sought, latest : BOOLEAN, age : 0..MaxAge, from : {Lookup!Server}]
              /\ o.age > 0 /\ o.id = (clock - o.age) % Wrap
            BY <1>1 DEF LookupInv, Lookup!TypeOK
        <3>2. r.id = o.id /\ r.host = o.host /\ r.age = o.age /\ r.from = o.from /\ ~r.latest
            BY <2>2, <3>1
        <3>3. r \in [id : 0..(Wrap - 1), host : Sought, latest : BOOLEAN, age : 0..MaxAge, from : {Lookup!Server}]
            BY <2>2, <3>1
        <3> QED BY <3>1, <3>2, <3>3
    <2> QED BY <1>2, <2>1, <2>2
<1>5. result' = {}
    BY <1>1 DEF LookupInv
<1> QED BY <1>1, <1>3, <1>4, <1>5, ClockTypes, ReplyTypes DEF LookupInv, Lookup!TypeOK, Lookup!AnswersLatest

LEMMA LookupRetry ==
    ASSUME LookupInv, Lookup!NotSent \/ Lookup!WindowEnds
    PROVE  LookupInv'
<1>1. /\ pc \in {"query", "window"} /\ pc' \in {"idle", "query"} /\ retry' = retry + 1
      /\ retry' = Lookup!Tries => pc' = "idle"
      /\ UNCHANGED <<clock, host, id, t, replies, rested, result>>
    BY DEF Lookup!NotSent, Lookup!WindowEnds, Lookup!Retry, Lookup!LastTry
<1>2. retry' \in 0..Lookup!Tries
    BY <1>1 DEF LookupInv, Lookup!TypeOK, Lookup!Tries
<1>3. pc = "query" \/ \A r \in replies : r.age > 0
    <2>1. CASE Lookup!NotSent
        BY <2>1 DEF Lookup!NotSent
    <2>2. CASE Lookup!WindowEnds
        <3>1. pc = "window" /\ Lookup!Passed >= Window
            BY <2>2 DEF Lookup!WindowEnds, Lookup!Expired
        <3>2. Lookup!Passed \in 0..(Wrap - 1)
            BY ClockTypes, ReplyTypes, PassedBack DEF Lookup!Passed
        <3>3. ASSUME NEW r \in replies PROVE r.age > 0
            BY <3>1, <3>2, ClockTypes, ReplyTypes DEF LookupInv
        <3> QED BY <3>3
    <2> QED BY <2>1, <2>2
<1> QED BY <1>1, <1>2, <1>3 DEF LookupInv, Lookup!TypeOK, Lookup!AnswersLatest, Lookup!Tries

LEMMA LookupReceive ==
    ASSUME LookupInv, NEW r \in replies, NEW again \in BOOLEAN, Lookup!Receive(r, again)
    PROVE  LookupInv'
<1>1. /\ pc = "window" /\ replies' \subseteq replies /\ UNCHANGED <<clock, host, id, t, retry, rested>>
      /\ IF Lookup!Answers(r) THEN result' = {r} /\ pc' = "idle" ELSE UNCHANGED <<result, pc>>
    BY DEF Lookup!Receive
<1>2. Lookup!Passed' = Lookup!Passed
    BY <1>1 DEF Lookup!Passed
<1>3. CASE ~Lookup!Answers(r)
    BY <1>1, <1>2, <1>3 DEF LookupInv, Lookup!TypeOK, Lookup!AnswersLatest
<1>4. CASE Lookup!Answers(r)
    <2> DEFINE d == Lookup!Passed
    <2>1. d \in 0..(Wrap - 1) /\ (clock - d) % Wrap = t
        BY ClockTypes, ReplyTypes, PassedBack DEF Lookup!Passed
    <2>2. r.id = id /\ id = t /\ r.id = (clock - r.age) % Wrap
        BY <1>1, <1>4 DEF Lookup!Answers, LookupInv
    <2> HIDE DEF d
    <2>3. r.age = d
        <3>1. r.age \in 0..(Wrap - 1) /\ clock \in 0..(Wrap - 1)
            BY ReplyTypes
        <3>2. r.age # d => (clock - r.age) % Wrap # (clock - d) % Wrap
            BY <2>1, <3>1, ClockTypes, AgesDiffer
        <3> QED BY <2>1, <2>2, <3>2
    <2>4. r.latest /\ r.host = host /\ r.from = Lookup!Server
        BY <1>1, <1>4, <2>1, <2>3, ReplyTypes DEF LookupInv, Lookup!Answers, d
    <2> QED BY <1>1, <1>4, <2>4 DEF LookupInv, Lookup!TypeOK, Lookup!AnswersLatest
<1> QED BY <1>3, <1>4

LEMMA LookupStray ==
    ASSUME LookupInv, NEW r \in Lookup!Strays, Lookup!Receive(r, TRUE)
    PROVE  LookupInv'
<1>1. r.from = "other" /\ ~Lookup!Answers(r)
    BY DEF Lookup!Strays, Lookup!Answers, Lookup!Server
<1>2. UNCHANGED <<clock, pc, host, id, t, retry, replies, rested, result>>
    BY <1>1 DEF Lookup!Receive
<1> QED BY <1>2, LookupStutter DEF lookupVars

LEMMA LookupLose ==
    ASSUME LookupInv, NEW r \in replies, Lookup!Lose(r)
    PROVE  LookupInv'
BY DEF Lookup!Lose, LookupInv, Lookup!TypeOK, Lookup!AnswersLatest, Lookup!Passed

LEMMA LookupTick ==
    ASSUME LookupInv, Lookup!Tick
    PROVE  LookupInv'
<1>1. /\ clock' = (clock + 1) % Wrap /\ rested' = (pc = "idle") /\ UNCHANGED <<pc, host, id, t, retry, result>>
      /\ replies' = {[r EXCEPT !.age = @ + 1] : r \in {q \in replies : q.age < MaxAge}}
      /\ pc = "window" => Lookup!Passed < Window
    BY ReplyTypes, PassedBack, ClockTypes DEF Lookup!Tick, Lookup!Expired, Lookup!Passed
<1>2. clock' \in 0..(Wrap - 1)
    BY <1>1, ClockTypes, ReplyTypes, OlderByOne
<1>3. ASSUME NEW r \in replies'
      PROVE  \E o \in replies :
                /\ r.age = o.age + 1 /\ o.age < MaxAge /\ r.id = o.id /\ r.host = o.host /\ r.latest = o.latest
                /\ r \in [id : 0..(Wrap - 1), host : Sought, latest : BOOLEAN, age : 0..MaxAge, from : {Lookup!Server}]
    <2>1. PICK o \in replies : o.age < MaxAge /\ r = [o EXCEPT !.age = @ + 1]
        BY <1>1
    <2>2. o \in [id : 0..(Wrap - 1), host : Sought, latest : BOOLEAN, age : 0..MaxAge, from : {Lookup!Server}]
        BY DEF LookupInv, Lookup!TypeOK
    <2>3. o.age + 1 \in 0..MaxAge
        BY <2>1, <2>2, ClockTypes
    <2> QED BY <2>1, <2>2, <2>3
<1>4. ASSUME NEW r \in replies' PROVE r.id = (clock' - r.age) % Wrap
    <2>1. PICK o \in replies : r.age = o.age + 1 /\ o.age < MaxAge /\ r.id = o.id
        BY <1>3
    <2>2. o.id = (clock - o.age) % Wrap /\ o.age \in 0..(Wrap - 1) /\ clock \in 0..(Wrap - 1) /\ o.age + 1 < Wrap
        BY <2>1, ReplyTypes, ClockTypes DEF LookupInv
    <2>3. (((clock + 1) % Wrap) - (o.age + 1)) % Wrap = (clock - o.age) % Wrap
        BY <2>2, ClockTypes, OlderByOne
    <2> QED BY <1>1, <2>1, <2>2, <2>3
<1>5. ASSUME pc = "window" PROVE Lookup!Passed' = Lookup!Passed + 1 /\ Lookup!Passed \in 0..(Wrap - 1)
    <2> DEFINE d == Lookup!Passed
               e == (clock + 1) % Wrap
    <2>1. d \in 0..(Wrap - 1) /\ (clock - d) % Wrap = t /\ d + 1 < Wrap
        BY <1>1, <1>5, ClockTypes, ReplyTypes, PassedBack DEF Lookup!Passed
    <2>2. Lookup!Passed' = (e - t) % Wrap
        BY <1>1 DEF Lookup!Passed
    <2> HIDE DEF d
    <2>3. (e - (d + 1)) % Wrap = t /\ e \in 0..(Wrap - 1)
        BY <2>1, ClockTypes, ReplyTypes, OlderByOne
    <2> HIDE DEF e
    <2>4. (e - t) % Wrap \in 0..(Wrap - 1) /\ (e - ((e - t) % Wrap)) % Wrap = t
        BY <2>3, ClockTypes, ReplyTypes, PassedBack
    <2>5. (e - t) % Wrap = d + 1
        <3>1. d + 1 \in 0..(Wrap - 1)
            BY <2>1, ClockTypes
        <3> DEFINE x == (e - t) % Wrap
        <3> HIDE DEF x
        <3>2. x # d + 1 => (e - x) % Wrap # (e - (d + 1)) % Wrap
            BY <2>3, <2>4, <3>1, ClockTypes, AgesDiffer DEF x
        <3> QED BY <2>3, <2>4, <3>2 DEF x
    <2> QED BY <2>1, <2>2, <2>5 DEF d
<1>6. \A r \in replies' : r.age > 0
    BY <1>3, ReplyTypes
<1>7. ASSUME pc = "window", NEW r \in replies'
      PROVE  IF r.latest THEN r.age = Lookup!Passed' /\ r.host = host ELSE r.age > Lookup!Passed'
    <2>1. PICK o \in replies : r.age = o.age + 1 /\ r.host = o.host /\ r.latest = o.latest
        BY <1>3
    <2>2. IF o.latest THEN o.age = Lookup!Passed /\ o.host = host ELSE o.age > Lookup!Passed
        BY <1>7 DEF LookupInv
    <2> QED BY <1>5, <1>7, <2>1, <2>2, ReplyTypes
<1>8. replies' \subseteq [id : 0..(Wrap - 1), host : Sought, latest : BOOLEAN, age : 0..MaxAge, from : {Lookup!Server}]
    BY <1>3
<1>9. pc = "window" => Lookup!Passed' <= Window
    BY <1>1, <1>5, ClockTypes
<1> HIDE DEF Lookup!Passed
<1> QED BY <1>1, <1>2, <1>4, <1>6, <1>7, <1>8, <1>9 DEF LookupInv, Lookup!TypeOK, Lookup!AnswersLatest

LEMMA LookupNext ==
    ASSUME LookupInv, Lookup!Next
    PROVE  LookupInv'
<1>1. CASE Lookup!Broken
    BY <1>1 DEF Lookup!Broken, LookupInv, Lookup!TypeOK, Lookup!AnswersLatest
<1> QED BY <1>1, LookupLookup, LookupQuery, LookupRetry, LookupReceive, LookupStray, LookupLose, LookupTick
        DEF Lookup!Next, Lookup!Try, Lookup!Network

\* A lookup's replies tell their age by their ID, and only the one to the
\* latest query is as old as that query.
THEOREM LookupInvariance == ExchangeSpec => [](part = "lookup" => LookupInv)
<1> DEFINE I == part = "lookup" => LookupInv
<1>1. ExchangeInit => I
    BY LookupStart DEF ExchangeInit
<1>2. I /\ [ExchangeNext]_allVars => I'
    BY Parts, LookupStutter, LookupNext
<1> QED BY <1>1, <1>2, PTL DEF ExchangeSpec

-----------------------------------------------------------------------------
(* http_open(), http_byte(): theorems *)

LEMMA ResponseTypes ==
    /\ Chunk \in Nat /\ Chunk > 0 /\ MaxTotal \in Nat /\ MaxTotal > 0 /\ MaxLine \in Nat /\ MaxLine > 0
    /\ Watched \in Nat
<1>1. Response!ResponseAssumption
    BY ExchangeAssumption
<1>2. {Chunk, Attempts, MaxTotal, MaxLine, APP_END} \subseteq Nat \ {0} /\ Watched \in Nat
    BY <1>1 DEF Response!ResponseAssumption
<1> QED BY <1>2

LEMMA Joined ==
    ASSUME NEW S, NEW a \in Seq(S), NEW b \in Seq(S)
    PROVE  /\ a \o b \in Seq(S) /\ Len(a \o b) = Len(a) + Len(b)
           /\ \A j \in 1..Len(a) : (a \o b)[j] = a[j]
           /\ \A j \in 1..Len(b) : (a \o b)[Len(a) + j] = b[j]
<1>1. a \o b \in Seq(S) /\ Len(a \o b) = Len(a) + Len(b)
    OBVIOUS
<1>2. \A j \in 1..Len(a) : (a \o b)[j] = a[j]
    OBVIOUS
<1>3. ASSUME NEW j \in 1..Len(b) PROVE (a \o b)[Len(a) + j] = b[j]
    <2>1. Len(a) \in Nat /\ Len(b) \in Nat /\ Len(a) + j \in 1..(Len(a) + Len(b)) /\ ~(Len(a) + j <= Len(a))
        OBVIOUS
    <2>2. (Len(a) + j) - Len(a) = j
        BY <2>1
    <2> QED BY <2>1, <2>2
<1> QED BY <1>1, <1>2, <1>3

LEMMA SameBytes ==
    ASSUME NEW S, NEW a \in Seq(S), NEW b \in Seq(S), Len(a) = Len(b), \A j \in 1..Len(a) : a[j] = b[j]
    PROVE  a = b
OBVIOUS

\* A byte taken from the buffer moves from what is left to what was returned.
LEMMA MoveByte ==
    ASSUME NEW S, NEW a \in Seq(S), NEW b \in Seq(S), NEW i \in Nat, NEW k \in Nat, i < k, k <= Len(b)
    PROVE  /\ b[i + 1] \in S /\ Append(a, b[i + 1]) \in Seq(S)
           /\ Append(a, b[i + 1]) \o SubSeq(b, i + 2, k) = a \o SubSeq(b, i + 1, k)
<1> DEFINE s == SubSeq(b, i + 1, k)
           u == SubSeq(b, i + 2, k)
           x == b[i + 1]
           l == a \o s
<1>1. i + 1 \in 1..Len(b) /\ x \in S
    OBVIOUS
<1>2. s \in Seq(S) /\ Len(s) = k - i /\ \A j \in 1..(k - i) : s[j] = b[i + j]
    <2>1. s \in Seq(S) /\ Len(s) = k - i
        OBVIOUS
    <2>2. \A j \in 1..(k - i) : s[j] = b[(i + 1) + j - 1] /\ (i + 1) + j - 1 = i + j
        OBVIOUS
    <2> QED BY <2>1, <2>2
<1>3. u \in Seq(S) /\ Len(u) = k - i - 1 /\ \A j \in 1..(k - i - 1) : u[j] = b[i + 1 + j]
    <2>1. u \in Seq(S) /\ Len(u) = k - i - 1
        OBVIOUS
    <2>2. \A j \in 1..(k - i - 1) : u[j] = b[(i + 2) + j - 1] /\ (i + 2) + j - 1 = i + 1 + j
        OBVIOUS
    <2> QED BY <2>1, <2>2
<1> HIDE DEF s, u, x
<1> DEFINE c == Append(a, x)
<1>4. c \in Seq(S) /\ Len(c) = Len(a) + 1 /\ Len(a) \in Nat /\ c[Len(a) + 1] = x /\ \A j \in 1..Len(a) : c[j] = a[j]
    BY <1>1
<1> HIDE DEF c
<1> DEFINE r == c \o u
<1>5. /\ l \in Seq(S) /\ Len(l) = Len(a) + (k - i)
      /\ \A j \in 1..Len(a) : l[j] = a[j]
      /\ \A j \in 1..(k - i) : l[Len(a) + j] = s[j]
    <2>0. s \in Seq(S)
        BY <1>2
    <2>1. /\ l \in Seq(S) /\ Len(l) = Len(a) + Len(s)
          /\ \A j \in 1..Len(a) : l[j] = a[j]
          /\ \A j \in 1..Len(s) : l[Len(a) + j] = s[j]
        BY <2>0, Joined
    <2> HIDE DEF l
    <2> QED BY <1>2, <2>1
<1>6. /\ r \in Seq(S) /\ Len(r) = Len(c) + (k - i - 1)
      /\ \A j \in 1..Len(c) : r[j] = c[j]
      /\ \A j \in 1..(k - i - 1) : r[Len(c) + j] = u[j]
    <2>0. u \in Seq(S) /\ c \in Seq(S)
        BY <1>3, <1>4
    <2>1. /\ r \in Seq(S) /\ Len(r) = Len(c) + Len(u)
          /\ \A j \in 1..Len(c) : r[j] = c[j]
          /\ \A j \in 1..Len(u) : r[Len(c) + j] = u[j]
        BY <2>0, Joined
    <2> HIDE DEF r
    <2> QED BY <1>3, <2>1
<1> HIDE DEF l, r
<1>7. ASSUME NEW j \in 1..Len(l) PROVE l[j] = r[j]
    <2>1. CASE j <= Len(a)
        BY <1>4, <1>5, <1>6, <2>1
    <2>2. CASE j = Len(a) + 1
        <3>1. l[j] = s[1] /\ r[j] = x
            BY <1>4, <1>5, <1>6, <2>2
        <3>2. s[1] = b[i + 1]
            BY <1>2
        <3> QED BY <3>1, <3>2 DEF x
    <2>3. CASE j > Len(a) + 1
        <3>1. PICK m \in 1..(k - i - 1) : j = Len(a) + 1 + m
            <4>1. j - Len(a) - 1 \in 1..(k - i - 1) /\ j = Len(a) + 1 + (j - Len(a) - 1)
                BY <1>4, <1>5, <2>3
            <4> QED BY <4>1
        <3>2. r[j] = u[m] /\ u[m] = b[i + 1 + m]
            BY <1>3, <1>4, <1>6, <3>1
        <3>3. m + 1 \in 1..(k - i) /\ j = Len(a) + (m + 1) /\ i + (m + 1) = i + 1 + m
            <4>1. m \in Nat /\ m >= 1 /\ m <= k - i - 1 /\ j = Len(a) + 1 + m /\ Len(a) \in Nat
                BY <1>4, <3>1
            <4> QED BY <4>1
        <3>4. l[j] = s[m + 1] /\ s[m + 1] = b[i + (m + 1)]
            BY <1>2, <1>5, <3>3
        <3> QED BY <3>2, <3>3, <3>4
    <2> QED BY <1>4, <1>5, <2>1, <2>2, <2>3
<1>8. Len(l) = Len(r)
    BY <1>4, <1>5, <1>6
<1>9. l = r
    BY <1>5, <1>6, <1>7, <1>8, SameBytes
<1> QED BY <1>1, <1>4, <1>9 DEF l, r, c, s, u, x

\* An empty piece of the buffer, and the whole of it.
LEMMA Pieces ==
    ASSUME NEW S, NEW a \in Seq(S), NEW b \in Seq(S), NEW i \in Nat
    PROVE  /\ a \o SubSeq(b, i + 1, i) = a /\ SubSeq(b, 1, Len(b)) = b
           /\ \A c : a \o SubSeq(c, i + 1, i) = a
OBVIOUS

LEMMA ResponseStart == Response!Init => ResponseInv
<1> SUFFICES ASSUME Response!Init PROVE ResponseInv
    OBVIOUS
<1>1. /\ pc = "idle" /\ expected \in Sizes /\ packet = <<>> /\ sent = <<>> /\ taken = <<>> /\ line = <<>>
      /\ rx_pos = 0 /\ rx_len = 0 /\ total = 0 /\ first = TRUE /\ seen = FALSE
    BY DEF Response!Init
<1>2. <<>> \in Seq(Bytes) /\ Len(<<>>) = 0
    OBVIOUS
<1>3. Response!OfThisConnection
    <2>1. taken \in Seq(Bytes) /\ packet \in Seq(Bytes) /\ 0 \in Nat
        BY <1>1, <1>2
    <2>2. taken \o SubSeq(packet, 0 + 1, 0) = taken
        BY <2>1, Pieces
    <2> QED BY <1>1, <2>2 DEF Response!OfThisConnection
<1>5. first \in BOOLEAN /\ seen \in BOOLEAN
    BY <1>1, Zenon
<1>6. 0 \in 0..Chunk /\ 0 \in 0..0 /\ 0 \in 0..(MaxTotal + 1)
    BY ResponseTypes
<1>7. Len(line) <= MaxLine /\ rx_len <= Len(packet)
    BY <1>1, <1>2, ResponseTypes
<1>4. Response!TypeOK
    BY <1>1, <1>5, <1>6, <1>7 DEF Response!TypeOK
<1> QED BY <1>1, <1>2, <1>3, <1>4 DEF ResponseInv

LEMMA ResponseStutter == ResponseInv /\ UNCHANGED <<pc, packet, responseVars>> => ResponseInv'
BY DEF responseVars, ResponseInv, Response!TypeOK, Response!OfThisConnection

LEMMA ResponseOpen ==
    ASSUME ResponseInv, Response!Open
    PROVE  ResponseInv'
<1>1. /\ packet' = [k \in 1..Chunk |-> "NUL"] /\ rx_pos' = 0 /\ rx_len' = 0 /\ total' = 0 /\ line' = <<>>
      /\ first' = TRUE /\ seen' = FALSE /\ sent' = <<>> /\ taken' = <<>> /\ pc' = "char" /\ expected' = expected
    BY DEF Response!Open, Response!ResetPlace
<1>2. <<>> \in Seq(Bytes) /\ Len(<<>>) = 0 /\ packet' \in Seq(Bytes) /\ Len(packet') = Chunk
    <2>1. packet' \in Seq(Bytes)
        BY <1>1, ResponseTypes DEF Bytes
    <2>2. Len(packet') = Chunk
        BY <1>1, ResponseTypes
    <2> QED BY <2>1, <2>2
<1>3. Response!OfThisConnection'
    <2>1. <<>> \o SubSeq(packet', 0 + 1, 0) = <<>>
        BY <1>2, Pieces
    <2> QED BY <1>1, <2>1 DEF Response!OfThisConnection
<1>4. expected \in Sizes /\ 0 \in 0..Chunk /\ 0 \in 0..0 /\ 0 \in 0..(MaxTotal + 1) /\ 0 <= MaxTotal /\ 0 <= Chunk
    BY ResponseTypes DEF ResponseInv, Response!TypeOK
<1>6. first' \in BOOLEAN /\ seen' \in BOOLEAN
    BY <1>1, Zenon
<1>7. Len(line') <= MaxLine /\ rx_len' <= Len(packet') /\ rx_len' \in 0..Chunk /\ rx_pos' \in 0..rx_len'
    BY <1>1, <1>2, <1>4, ResponseTypes
<1>5. Response!TypeOK'
    BY <1>1, <1>4, <1>6, <1>7 DEF Response!TypeOK
<1> QED BY <1>1, <1>2, <1>3, <1>4, <1>5 DEF ResponseInv

LEMMA ResponseFetch ==
    ASSUME ResponseInv, NEW k \in 1..Chunk, NEW bytes \in [1..k -> Tokens], Response!Fetch(bytes)
    PROVE  ResponseInv'
<1>1. /\ rx_pos = rx_len /\ packet' = bytes /\ rx_pos' = 0 /\ rx_len' = Len(bytes) /\ sent' = sent \o bytes
      /\ UNCHANGED <<pc, expected, total, line, first, seen, taken>>
    BY DEF Response!Fetch, Response!header
<1>2. bytes \in Seq(Bytes) /\ Len(bytes) = k /\ k \in Nat
    <2>1. bytes \in [1..k -> Bytes] /\ k \in Nat
        BY DEF Bytes
    <2>2. bytes \in Seq(Bytes)
        BY <2>1
    <2>3. Len(bytes) = k
        BY <2>1
    <2> QED BY <2>1, <2>2, <2>3
<1>3. sent = taken
    <2>1. taken \in Seq(Bytes) /\ packet \in Seq(Bytes) /\ rx_len \in Nat
        BY ResponseTypes DEF ResponseInv, Response!TypeOK
    <2>2. taken \o SubSeq(packet, rx_len + 1, rx_len) = taken
        BY <2>1, Pieces
    <2> QED BY <1>1, <2>2 DEF ResponseInv, Response!OfThisConnection
<1>4. Response!OfThisConnection'
    <2>1. SubSeq(bytes, 1, Len(bytes)) = bytes
        BY <1>2, Pieces
    <2> QED BY <1>1, <1>3, <2>1 DEF Response!OfThisConnection
<1>5. sent' \in Seq(Bytes)
    <2>1. sent \in Seq(Bytes)
        BY DEF ResponseInv
    <2> QED BY <1>1, <1>2, <2>1, Joined
<1> QED BY <1>1, <1>2, <1>4, <1>5, ResponseTypes DEF ResponseInv, Response!TypeOK

LEMMA ResponseTake ==
    ASSUME ResponseInv, NEW c, Response!Take(c)
    PROVE  /\ c \in Bytes /\ taken' \in Seq(Bytes) /\ Response!OfThisConnection'
           /\ rx_pos' \in 0..rx_len /\ UNCHANGED <<expected, packet, rx_len, sent>>
<1>1. /\ rx_pos # rx_len /\ c = packet[rx_pos + 1] /\ rx_pos' = rx_pos + 1 /\ taken' = Append(taken, c)
      /\ UNCHANGED <<expected, packet, rx_len, sent>>
    BY DEF Response!Take
<1>2. /\ rx_pos \in Nat /\ rx_len \in Nat /\ rx_pos < rx_len /\ rx_len <= Len(packet)
      /\ taken \in Seq(Bytes) /\ packet \in Seq(Bytes)
    BY <1>1, ResponseTypes DEF ResponseInv, Response!TypeOK
<1>3. /\ packet[rx_pos + 1] \in Bytes /\ Append(taken, packet[rx_pos + 1]) \in Seq(Bytes)
      /\ Append(taken, packet[rx_pos + 1]) \o SubSeq(packet, rx_pos + 2, rx_len) = taken \o SubSeq(packet, rx_pos + 1, rx_len)
    BY <1>2, MoveByte
<1>4. Response!OfThisConnection'
    <2>1. rx_pos' + 1 = rx_pos + 2
        BY <1>1, <1>2
    <2> QED BY <1>1, <1>3, <2>1 DEF ResponseInv, Response!OfThisConnection
<1> QED BY <1>1, <1>2, <1>3, <1>4

LEMMA ResponseClient ==
    ASSUME ResponseInv, NEW c \in Tokens \cup {"NUL"}, Response!Char(c) \/ Response!Lf(c) \/ Response!Body(c)
    PROVE  ResponseInv'
<1>1. Response!Take(c)
    BY DEF Response!Char, Response!Lf, Response!Body
<1>2. /\ c \in Bytes /\ taken' \in Seq(Bytes) /\ Response!OfThisConnection'
      /\ rx_pos' \in 0..rx_len /\ UNCHANGED <<expected, packet, rx_len, sent>>
    BY <1>1, ResponseTake
<1> DEFINE Ranges ==
            /\ pc' \in {"idle", "char", "lf", "body", "failed"}
            /\ total' \in 0..(MaxTotal + 1) /\ (pc' \in {"char", "lf"} => total' <= MaxTotal)
            /\ line' \in Seq(Bytes) /\ Len(line') <= MaxLine /\ first' \in BOOLEAN /\ seen' \in BOOLEAN
<1>3. Ranges
    <2>0. /\ total \in 0..(MaxTotal + 1) /\ (pc \in {"char", "lf"} => total <= MaxTotal)
          /\ line \in Seq(Bytes) /\ Len(line) <= MaxLine /\ first \in BOOLEAN /\ seen \in BOOLEAN
          /\ Len(line) \in Nat
        BY DEF ResponseInv, Response!TypeOK
    <2>1. CASE Response!Char(c)
        <3>1. pc = "char" /\ total' = total + 1 /\ total' \in 0..(MaxTotal + 1)
            BY <2>0, <2>1, ResponseTypes DEF Response!Char
        <3>2. CASE Response!Fail
            BY <2>0, <3>1, <3>2 DEF Response!Fail
        <3>3. CASE ~Response!Fail
            <4>1. /\ ~(total' > MaxTotal) /\ (c # "CR" => ~(Len(line) >= MaxLine))
                  /\ pc' = IF c = "CR" THEN "lf" ELSE "char"
                  /\ line' = IF c = "CR" THEN line ELSE Append(line, c)
                  /\ UNCHANGED <<first, seen>>
                BY <2>1, <3>3 DEF Response!Char, Response!Over
            <4>2. Append(line, c) \in Seq(Bytes) /\ Len(Append(line, c)) = Len(line) + 1
                BY <1>2, <2>0
            <4>3. line' \in Seq(Bytes) /\ Len(line') <= MaxLine
                BY <2>0, <4>1, <4>2, ResponseTypes
            <4> QED BY <2>0, <3>1, <4>1, <4>3, ResponseTypes
        <3> QED BY <3>2, <3>3
    <2>2. CASE Response!Lf(c)
        <3>1. pc = "lf" /\ total' = total + 1 /\ total' \in 0..(MaxTotal + 1)
            BY <2>0, <2>2, ResponseTypes DEF Response!Lf
        <3>2. CASE Response!Fail
            BY <2>0, <3>1, <3>2 DEF Response!Fail
        <3>3. CASE Response!Accept
            BY <2>0, <3>1, <3>3 DEF Response!Accept
        <3>4. ASSUME ~Response!Fail, ~Response!Accept PROVE total' <= MaxTotal /\ \E b \in BOOLEAN : Response!NextLine(b)
            <4>0. ~Response!Over
                BY <2>2, <3>4, Zenon DEF Response!Lf
            <4>1. total' <= MaxTotal
                BY <3>1, <4>0, ResponseTypes DEF Response!Over
            <4>2. Response!NextLine(FALSE) \/ Response!NextLine(line[1] = "L")
                BY <2>2, <3>4 DEF Response!Lf
            <4>3. (line[1] = "L") \in BOOLEAN
                OBVIOUS
            <4> QED BY <4>1, <4>2, <4>3
        <3>5. ASSUME NEW b \in BOOLEAN, Response!NextLine(b), total' <= MaxTotal PROVE Ranges
            <4>1. pc' = "char" /\ line' = <<>> /\ first' = FALSE /\ seen' = (seen \/ b)
                BY <3>5 DEF Response!NextLine
            <4>2. <<>> \in Seq(Bytes) /\ Len(<<>>) = 0
                OBVIOUS
            <4>3. first' \in BOOLEAN /\ seen' \in BOOLEAN
                BY <4>1, Zenon
            <4>4. line' \in Seq(Bytes) /\ Len(line') <= MaxLine
                BY <4>1, <4>2, ResponseTypes
            <4> HIDE DEF Response!NextLine
            <4> QED BY <3>1, <3>5, <4>1, <4>3, <4>4
        <3> QED BY <3>2, <3>3, <3>4, <3>5
    <2>3. CASE Response!Body(c)
        BY <2>0, <2>3 DEF Response!Body, Response!header
    <2> QED BY <2>1, <2>2, <2>3
<1> QED BY <1>2, <1>3, ResponseTypes DEF ResponseInv, Response!TypeOK

\* The bytes that http_byte() has returned and those in the buffer are what
\* this connection has brought.
THEOREM ResponseInvariance == ExchangeSpec => [](part = "response" => ResponseInv)
<1> DEFINE I == part = "response" => ResponseInv
<1>1. ExchangeInit => I
    BY ResponseStart DEF ExchangeInit
<1>2. I /\ [ExchangeNext]_allVars => I'
    <2> SUFFICES ASSUME ResponseInv, Response!Next PROVE ResponseInv'
        BY Parts, ResponseStutter
    <2>1. CASE Response!Silence
        BY <2>1 DEF Response!Silence, Response!buffer, Response!header, ResponseInv, Response!TypeOK,
           Response!OfThisConnection
    <2> QED BY <2>1, ResponseOpen, ResponseFetch, ResponseClient DEF Response!Next, Response!Server, Response!Client
<1> QED BY <1>1, <1>2, PTL DEF ExchangeSpec

\* A lookup takes the reply to its latest query, a response the bytes of the
\* present connection, and the socket's registers are as they should be.
THEOREM AnswersOwn == ExchangeSpec => []OwnAnswers
<1>1. (part = "socket" => SocketInv) /\ (part = "lookup" => LookupInv) /\ (part = "response" => ResponseInv) => OwnAnswers
    BY DEF OwnAnswers, SocketInv, LookupInv, ResponseInv
<1> QED BY <1>1, SocketInvariance, LookupInvariance, ResponseInvariance, PTL

-----------------------------------------------------------------------------
(* stk500(): the exclusive or of a sequence, by induction over its length *)

\* Induction over the naturals, from the least number that is not in S.
LEMMA EveryNatural ==
    ASSUME NEW S, 0 \in S, \A k \in Nat : k \in S => k + 1 \in S
    PROVE  \A k \in Nat : k \in S
<1> DEFINE T == Nat \ S
           R == OpToRel(<, Nat)
<1> SUFFICES ASSUME T # {} PROVE FALSE
    OBVIOUS
<1>1. IsWellFoundedOn(R, Nat)
    BY NatLessThanWellFounded
<1>2. PICK x \in T : \A y \in T : ~(<<y, x>> \in R)
    <2>1. T \subseteq Nat
        OBVIOUS
    <2> HIDE DEF T, R
    <2> QED BY <1>1, <2>1, WFMin
<1>3. x \in Nat \ {0} /\ x - 1 \in Nat /\ (x - 1) + 1 = x
    OBVIOUS
<1>4. <<x - 1, x>> \in R
    BY <1>3 DEF OpToRel
<1>5. x - 1 \in S
    BY <1>2, <1>3, <1>4
<1> QED BY <1>2, <1>3, <1>5

\* f[k] is the exclusive or of the first k bytes of b.
Sums(f, b, m) == f = [k \in 0..m |-> IF k = 0 THEN 0 ELSE Xor(f[k - 1], b[k])]

LEMMA SumsExist == ASSUME NEW b, NEW m \in Nat PROVE \E f : Sums(f, b, m)
<1> DEFINE S == {k \in Nat : \E f : Sums(f, b, k)}
<1>1. 0 \in S
    <2> DEFINE f == [k \in 0..0 |-> 0]
    <2>1. Sums(f, b, 0)
        BY DEF Sums
    <2> QED BY <2>1
<1>2. ASSUME NEW k \in Nat, k \in S PROVE k + 1 \in S
    <2>1. PICK f : Sums(f, b, k)
        BY <1>2
    <2> DEFINE g == [i \in 0..(k + 1) |-> IF i = k + 1 THEN Xor(f[k], b[k + 1]) ELSE f[i]]
    <2>2. ASSUME NEW i \in 0..(k + 1) PROVE g[i] = IF i = 0 THEN 0 ELSE Xor(g[i - 1], b[i])
        <3>1. CASE i = k + 1
            <4>1. i # 0 /\ i - 1 = k /\ g[i - 1] = f[k]
                BY <3>1
            <4> QED BY <3>1, <4>1
        <3>2. CASE i \in 0..k
            <4>1. g[i] = f[i]
                BY <3>2
            <4>2. f[i] = IF i = 0 THEN 0 ELSE Xor(f[i - 1], b[i])
                BY <2>1, <3>2 DEF Sums
            <4>3. i # 0 => g[i - 1] = f[i - 1]
                BY <3>2
            <4> QED BY <4>1, <4>2, <4>3
        <3> QED BY <3>1, <3>2
    <2>3. Sums(g, b, k + 1)
        <3>1. g = [i \in 0..(k + 1) |-> g[i]]
            OBVIOUS
        <3> HIDE DEF g
        <3> QED BY <2>2, <3>1 DEF Sums
    <2> QED BY <2>3
<1> HIDE DEF S
<1>3. m \in S
    BY <1>1, <1>2, EveryNatural
<1> QED BY <1>3 DEF S

LEMMA SumsAgree ==
    ASSUME NEW b, NEW c, NEW m \in Nat, NEW l \in Nat, NEW f, NEW g, Sums(f, b, m), Sums(g, c, l),
           NEW e \in Nat, e <= m, e <= l, \A j \in 1..e : b[j] = c[j]
    PROVE  f[e] = g[e]
<1> DEFINE S == {k \in Nat : k <= e => f[k] = g[k]}
<1>1. 0 \in S
    BY DEF Sums
<1>2. ASSUME NEW k \in Nat, k \in S PROVE k + 1 \in S
    <2>1. CASE k + 1 <= e
        <3>1. f[k] = g[k] /\ b[k + 1] = c[k + 1] /\ k + 1 # 0 /\ (k + 1) - 1 = k
            BY <1>2, <2>1
        <3>2. f[k + 1] = Xor(f[k], b[k + 1])
            BY <2>1, <3>1 DEF Sums
        <3>3. g[k + 1] = Xor(g[k], c[k + 1])
            BY <2>1, <3>1 DEF Sums
        <3> QED BY <3>1, <3>2, <3>3
    <2> QED BY <2>1
<1> HIDE DEF S
<1>3. e \in S
    BY <1>1, <1>2, EveryNatural
<1> QED BY <1>3 DEF S

LEMMA SumsOf ==
    ASSUME NEW b, Len(b) \in Nat
    PROVE  \E f : Sums(f, b, Len(b)) /\ Line!Sum(b) = f[Len(b)]
<1> DEFINE F == CHOOSE x : Sums(x, b, Len(b))
<1>1. Line!Sum(b) = F[Len(b)]
    BY DEF Line!Sum, Sums
<1>2. Sums(F, b, Len(b))
    <2>1. \E f : Sums(f, b, Len(b))
        BY SumsExist
    <2> QED BY <2>1
<1> QED BY <1>1, <1>2

LEMMA OctetTypes ==
    /\ Base \in Nat /\ Base > 0 /\ MaxLength \in Nat /\ MaxLength < Base * Base /\ MaxBody \in Nat /\ Noise \in Nat
    /\ MaxBody <= MaxLength
    /\ Line!Octet = 0..(Base - 1) /\ MESSAGE_START \in Line!Octet /\ TOKEN \in Line!Octet
    /\ \A a, b \in Line!Octet : Xor(a, b) \in Line!Octet /\ Xor(0, a) = a
<1>1. Line!FramingAssumption
    BY ExchangeAssumption
<1> QED BY <1>1 DEF Line!FramingAssumption, Line!Octet

LEMMA SumOne == ASSUME NEW c \in Line!Octet PROVE Line!Sum(<<c>>) = c
<1>1. Len(<<c>>) = 1 /\ <<c>>[1] = c
    OBVIOUS
<1>2. PICK f : Sums(f, <<c>>, 1) /\ Line!Sum(<<c>>) = f[1]
    BY <1>1, SumsOf
<1>3. f[0] = 0
    BY <1>2 DEF Sums
<1>4. f[1] = Xor(f[0], c)
    <2>1. 1 \in 0..1 /\ 1 # 0 /\ 1 - 1 = 0
        OBVIOUS
    <2> QED BY <1>1, <1>2, <2>1 DEF Sums
<1> QED BY <1>2, <1>3, <1>4, OctetTypes

LEMMA SumAppend ==
    ASSUME NEW b \in Seq(Line!Octet), NEW c \in Line!Octet
    PROVE  Line!Sum(Append(b, c)) = Xor(Line!Sum(b), c)
<1> DEFINE l == Len(b)
           a == Append(b, c)
<1>1. l \in Nat /\ Len(a) = l + 1 /\ a[l + 1] = c /\ \A j \in 1..l : a[j] = b[j]
    OBVIOUS
<1> HIDE DEF l, a
<1>2. PICK f : Sums(f, b, l) /\ Line!Sum(b) = f[l]
    BY <1>1, SumsOf DEF l
<1>3. PICK g : Sums(g, a, l + 1) /\ Line!Sum(a) = g[l + 1]
    <2>1. Len(a) \in Nat
        BY <1>1
    <2> QED BY <1>1, <2>1, SumsOf
<1>4. g[l] = f[l]
    <2>1. l + 1 \in Nat /\ l <= l + 1 /\ l <= l
        BY <1>1
    <2> QED BY <1>1, <1>2, <1>3, <2>1, SumsAgree
<1>5. g[l + 1] = Xor(g[l], a[l + 1])
    <2>1. l + 1 \in 0..(l + 1) /\ l + 1 # 0 /\ (l + 1) - 1 = l
        BY <1>1
    <2> QED BY <1>3, <2>1 DEF Sums
<1> QED BY <1>1, <1>2, <1>3, <1>4, <1>5 DEF a

LEMMA SumOctet == ASSUME NEW b \in Seq(Line!Octet) PROVE Line!Sum(b) \in Line!Octet
<1> DEFINE l == Len(b)
<1>1. l \in Nat /\ \A j \in 1..l : b[j] \in Line!Octet
    OBVIOUS
<1>2. PICK f : Sums(f, b, l) /\ Line!Sum(b) = f[l]
    BY <1>1, SumsOf
<1> HIDE DEF l
<1> DEFINE S == {k \in Nat : k <= l => f[k] \in Line!Octet}
<1>3. 0 \in S
    <2>1. f[0] = 0
        BY <1>1, <1>2 DEF Sums
    <2>2. 0 \in Line!Octet
        BY OctetTypes
    <2> QED BY <2>1, <2>2
<1>4. ASSUME NEW k \in Nat, k \in S PROVE k + 1 \in S
    <2>1. CASE k + 1 <= l
        <3>1. f[k] \in Line!Octet /\ b[k + 1] \in Line!Octet /\ k + 1 # 0 /\ (k + 1) - 1 = k /\ k + 1 \in 0..l
            BY <1>1, <1>4, <2>1
        <3>2. f[k + 1] = Xor(f[k], b[k + 1])
            BY <1>2, <3>1 DEF Sums
        <3>3. f[k + 1] \in Line!Octet
            BY <3>1, <3>2, OctetTypes
        <3> QED BY <3>3
    <2> QED BY <1>1, <2>1
<1> HIDE DEF S
<1>5. l \in S
    BY <1>1, <1>3, <1>4, EveryNatural
<1> QED BY <1>1, <1>2, <1>5 DEF S

-----------------------------------------------------------------------------
(* stk500(): theorems *)

LEMMA Digits ==
    ASSUME NEW b \in Nat, b > 0, NEW h \in Nat, NEW l \in 0..(b - 1)
    PROVE  (h * b + l) \div b = h /\ (h * b + l) % b = l
OBVIOUS

LEMMA TwoDigits ==
    ASSUME NEW b \in Nat, b > 0, NEW k \in Nat, k < b * b
    PROVE  k \div b \in 0..(b - 1) /\ k % b \in 0..(b - 1)
<1>1. k = (k \div b) * b + (k % b) /\ k \div b \in Nat /\ k % b \in 0..(b - 1)
    OBVIOUS
<1>2. ASSUME k \div b >= b PROVE FALSE
    <2>1. (k \div b) * b >= b * b
        BY <1>1, <1>2
    <2> QED BY <1>1, <2>1
<1> QED BY <1>1, <1>2

\* A length that a frame may have is two bytes.
LEMMA LengthDigits ==
    ASSUME NEW k \in Nat, k < Base * Base
    PROVE  k \div Base \in Line!Octet /\ k % Base \in Line!Octet
<1>1. Base \in Nat /\ Base > 0 /\ Line!Octet = 0..(Base - 1)
    BY OctetTypes
<1>2. k \div Base \in 0..(Base - 1) /\ k % Base \in 0..(Base - 1)
    BY <1>1, TwoDigits
<1> QED BY <1>1, <1>2

\* What a frame consists of.
LEMMA FrameShape ==
    ASSUME NEW s \in Line!Octet, NEW body \in Seq(Line!Octet), Len(body) <= MaxLength,
           NEW m \in Seq(Line!Octet), Len(m) = 5 + Len(body),
           m[1] = MESSAGE_START, m[2] = s, m[3] = Len(body) \div Base, m[4] = Len(body) % Base, m[5] = TOKEN,
           \A j \in 1..Len(body) : m[5 + j] = body[j]
    PROVE  Line!Frame(s, body) = Append(m, Line!Sum(m))
<1> DEFINE h == <<MESSAGE_START, s, Len(body) \div Base, Len(body) % Base, TOKEN>>
           w == h \o body
<1>1. Len(body) \in Nat /\ Len(body) < Base * Base
    <2>1. Len(body) \in Nat /\ MaxLength \in Nat /\ Base * Base \in Nat /\ MaxLength < Base * Base
        BY OctetTypes
    <2> QED BY <2>1
<1>2. Len(body) \div Base \in Line!Octet /\ Len(body) % Base \in Line!Octet
    BY <1>1, LengthDigits
<1>3. h \in Seq(Line!Octet) /\ Len(h) = 5
    BY <1>2, OctetTypes
<1>4. h[1] = MESSAGE_START /\ h[2] = s /\ h[3] = Len(body) \div Base /\ h[4] = Len(body) % Base /\ h[5] = TOKEN
    OBVIOUS
<1> HIDE DEF h
<1>5. /\ w \in Seq(Line!Octet) /\ Len(w) = 5 + Len(body)
      /\ \A j \in 1..5 : w[j] = h[j]
      /\ \A j \in 1..Len(body) : w[5 + j] = body[j]
    <2>0. h \in Seq(Line!Octet)
        BY <1>3
    <2>1. /\ w \in Seq(Line!Octet) /\ Len(w) = Len(h) + Len(body)
          /\ \A j \in 1..Len(h) : w[j] = h[j]
          /\ \A j \in 1..Len(body) : w[Len(h) + j] = body[j]
        BY <2>0, Joined
    <2> HIDE DEF w
    <2> QED BY <1>3, <2>1
<1> HIDE DEF w
<1>6. ASSUME NEW j \in 1..Len(w) PROVE w[j] = m[j]
    <2>1. CASE j \in 1..5
        <3>1. j = 1 \/ j = 2 \/ j = 3 \/ j = 4 \/ j = 5
            BY <2>1
        <3> QED BY <1>4, <1>5, <2>1, <3>1
    <2>2. CASE j > 5
        <3>1. j - 5 \in 1..Len(body) /\ 5 + (j - 5) = j
            BY <1>1, <1>5, <2>2
        <3>2. w[5 + (j - 5)] = body[j - 5] /\ m[5 + (j - 5)] = body[j - 5]
            BY <1>5, <3>1
        <3> QED BY <3>1, <3>2
    <2> QED BY <1>1, <1>5, <2>1, <2>2
<1>7. w = m
    BY <1>5, <1>6, SameBytes
<1> QED BY <1>7 DEF Line!Frame, h, w

LEMMA LineTypes ==
    ASSUME LineInv
    PROVE  /\ heard \in Seq(Line!Octet) /\ wire \in Seq(Line!Octet) /\ frame \in Seq(Line!Octet)
           /\ packet \in Seq(Line!Octet) /\ Len(packet) \in Nat /\ Len(heard) \in Nat
           /\ seq \in Line!Octet /\ sum \in Line!Octet /\ length \in Nat /\ length < Base * Base /\ state \in 0..6
<1>1. /\ heard \in Seq(Line!Octet) /\ wire \in Seq(Line!Octet) /\ frame \in Seq(Line!Octet)
      /\ packet \in Seq(Line!Octet) /\ seq \in Line!Octet /\ sum \in Line!Octet /\ state \in 0..6
      /\ length \in 0..(Base * Base - 1)
    BY DEF LineInv, Line!TypeOK
<1>2. length \in Nat /\ length < Base * Base
    <2>1. Base * Base \in Nat
        BY OctetTypes
    <2> QED BY <1>1, <2>1
<1> QED BY <1>1, <1>2

LEMMA FrameOctets == ASSUME NEW f \in Line!Frames PROVE f \in Seq(Line!Octet)
<1>1. PICK s \in Line!Octet, b \in Line!Bodies : f = Line!Frame(s, b)
    BY DEF Line!Frames
<1>2. PICK k \in 1..MaxBody : b \in [1..k -> Line!Octet]
    BY DEF Line!Bodies
<1>3. k \in Nat /\ k <= MaxLength /\ k < Base * Base
    <2>1. MaxBody \in Nat /\ MaxBody <= MaxLength /\ MaxLength \in Nat /\ Base * Base \in Nat /\ MaxLength < Base * Base
        BY OctetTypes
    <2> QED BY <2>1
<1>4. b \in Seq(Line!Octet) /\ Len(b) = k
    <2>1. b \in Seq(Line!Octet)
        BY <1>2, <1>3
    <2>2. Len(b) = k
        BY <1>2, <1>3
    <2> QED BY <2>1, <2>2
<1> DEFINE h == <<MESSAGE_START, s, Len(b) \div Base, Len(b) % Base, TOKEN>>
           m == h \o b
<1>5. h \in Seq(Line!Octet)
    <2>1. Len(b) \div Base \in Line!Octet /\ Len(b) % Base \in Line!Octet
        BY <1>3, <1>4, LengthDigits
    <2> QED BY <2>1, OctetTypes
<1>6. m \in Seq(Line!Octet)
    <2>1. b \in Seq(Line!Octet)
        BY <1>4
    <2> HIDE DEF h
    <2> QED BY <1>5, <2>1, Joined
<1>7. f = Append(m, Line!Sum(m))
    BY <1>1 DEF Line!Frame
<1> HIDE DEF m
<1>8. Line!Sum(m) \in Line!Octet
    BY <1>6, SumOctet
<1> QED BY <1>6, <1>7, <1>8

LEMMA LineStart == Line!Init => LineInv
<1> SUFFICES ASSUME Line!Init PROVE LineInv
    OBVIOUS
<1>1. /\ state = 0 /\ seq = 0 /\ sum = 0 /\ length = 0 /\ packet = <<>> /\ frame \in Line!Frames
      /\ wire = <<>> /\ noise = Noise /\ heard = <<>> /\ ran = FALSE
    BY DEF Line!Init
<1>2. <<>> \in Seq(Line!Octet) /\ Len(<<>>) = 0
    OBVIOUS
<1>3. 0 \in Line!Octet /\ 0 \in 0..(Base * Base - 1) /\ 0 <= MaxLength /\ Noise \in 0..Noise
    <2>1. Base * Base > 0 /\ Base * Base \in Nat
        BY OctetTypes
    <2> QED BY <2>1, OctetTypes
<1>4. ran \in BOOLEAN
    BY <1>1, Zenon
<1>5. Line!TypeOK
    BY <1>1, <1>2, <1>3, <1>4 DEF Line!TypeOK
<1>6. Line!RunsFrames
    <2>1. ~(Len(heard) >= 7)
        BY <1>1, <1>2
    <2> QED BY <1>1, <2>1, Zenon DEF Line!RunsFrames
<1> QED BY <1>1, <1>2, <1>5, <1>6, FrameOctets DEF LineInv

\* What is heard, and what it was parsed to, do not change.
LEMMA RunsFramesStays ==
    ASSUME Line!RunsFrames, UNCHANGED <<packet, state, seq, heard, ran>>
    PROVE  Line!RunsFrames'
<1>1. \A s, b : Line!Frame(s, b)' = Line!Frame(s, b)
    BY DEF Line!Frame
<1> QED BY <1>1 DEF Line!RunsFrames

LEMMA LineStutter == LineInv /\ UNCHANGED <<packet, lineVars>> => LineInv'
<1> SUFFICES ASSUME LineInv, UNCHANGED <<packet, lineVars>> PROVE LineInv'
    OBVIOUS
<1>1. UNCHANGED <<packet, state, seq, sum, length, frame, wire, noise, heard, ran>>
    BY DEF lineVars
<1>2. Line!TypeOK'
    BY <1>1 DEF LineInv, Line!TypeOK
<1>3. state \in 1..6 => (sum' = Line!Sum(heard)' /\ Prefix')
    BY <1>1 DEF LineInv, Prefix, Line!LengthOK, Line!Sum
<1>4. Line!RunsFrames'
    BY <1>1, RunsFramesStays DEF LineInv
<1> QED BY <1>1, <1>2, <1>3, <1>4 DEF LineInv

\* What is executed after a frame's start is what a short piece is not.
LEMMA NotWhole ==
    ASSUME state' # 0 \/ (ran' = FALSE /\ Len(heard') < 7 /\ Len(heard') \in Nat)
    PROVE  Line!RunsFrames'
<1>1. CASE state' # 0
    BY <1>1 DEF Line!RunsFrames
<1>2. CASE ran' = FALSE /\ Len(heard') < 7 /\ Len(heard') \in Nat
    <2>1. ~(Len(heard') >= 7)
        BY <1>2
    <2> QED BY <1>2, <2>1, Zenon DEF Line!RunsFrames
<1> QED BY <1>1, <1>2

\* One byte more is heard.
LEMMA HeardOne ==
    ASSUME LineInv, state \in 1..6, NEW c \in Line!Octet, heard' = Append(heard, c)
    PROVE  /\ heard' \in Seq(Line!Octet) /\ Len(heard') = Len(heard) + 1 /\ heard'[Len(heard) + 1] = c
           /\ \A j \in 1..Len(heard) : heard'[j] = heard[j]
           /\ Xor(sum, c) = Line!Sum(heard') /\ Xor(sum, c) \in Line!Octet
<1>1. heard \in Seq(Line!Octet) /\ sum = Line!Sum(heard) /\ sum \in Line!Octet
    BY LineTypes DEF LineInv
<1>2. Line!Sum(Append(heard, c)) = Xor(Line!Sum(heard), c)
    BY <1>1, SumAppend
<1>3. Xor(sum, c) \in Line!Octet
    BY <1>1, OctetTypes
<1> QED BY <1>1, <1>2, <1>3

LEMMA LineHeader ==
    ASSUME LineInv, NEW c \in Line!Octet, Line!Header(c), heard' = Append(heard, c), ran' = FALSE,
           UNCHANGED <<frame, noise>>, wire' \in Seq(Line!Octet)
    PROVE  LineInv'
<1>1. /\ state \in 1..2 /\ state' = state + 1 /\ sum' = Xor(sum, c) /\ packet' = packet
      /\ IF state = 1 THEN seq' = c /\ length' = length ELSE length' = c * Base /\ seq' = seq
    BY DEF Line!Header
<1>2. Len(heard) = state /\ heard[1] = MESSAGE_START /\ (state >= 2 => heard[2] = seq)
    BY <1>1 DEF LineInv, Prefix
<1>3. /\ heard' \in Seq(Line!Octet) /\ Len(heard') = state' /\ heard'[state'] = c /\ heard'[1] = MESSAGE_START
      /\ (state = 2 => heard'[2] = seq) /\ sum' = Line!Sum(heard') /\ sum' \in Line!Octet
    BY <1>1, <1>2, HeardOne
<1>4. c * Base \in 0..(Base * Base - 1)
    <2>1. c \in Nat /\ c <= Base - 1 /\ Base \in Nat /\ Base > 0
        BY OctetTypes
    <2>2. c * Base <= (Base - 1) * Base /\ (Base - 1) * Base = Base * Base - Base /\ c * Base \in Nat
        BY <2>1
    <2> QED BY <2>1, <2>2
<1>5. ran' \in BOOLEAN
    BY Zenon
<1>6. Line!TypeOK'
    BY <1>1, <1>3, <1>4, <1>5 DEF LineInv, Line!TypeOK
<1>7. Prefix'
    <2>1. state' \in 2..3 /\ (state' = 3 => state = 2) /\ (state' = 2 => state = 1)
        BY <1>1
    <2> QED BY <1>1, <1>3, <2>1 DEF Prefix
<1>8. Line!RunsFrames'
    <2>1. state' # 0
        BY <1>1
    <2> QED BY <2>1, NotWhole, Zenon
<1> QED BY <1>3, <1>6, <1>7, <1>8 DEF LineInv

LEMMA LineLength ==
    ASSUME LineInv, NEW c \in Line!Octet, Line!Length(c), heard' = Append(heard, c), ran' = FALSE,
           UNCHANGED <<frame, noise>>, wire' \in Seq(Line!Octet)
    PROVE  LineInv'
<1>1. /\ state = 3 /\ length' = length + c /\ sum' = Xor(sum, c) /\ UNCHANGED <<seq, packet>>
      /\ state' = IF Line!LengthOK(length') THEN 4 ELSE 0
    BY DEF Line!Length
<1>2. Len(heard) = 3 /\ heard[1] = MESSAGE_START /\ heard[2] = seq /\ length = heard[3] * Base
    BY <1>1 DEF LineInv, Prefix
<1> DEFINE h == heard[3]
<1>3. /\ heard' \in Seq(Line!Octet) /\ Len(heard') = 4 /\ heard'[4] = c /\ heard'[1] = MESSAGE_START
      /\ heard'[2] = seq /\ heard'[3] = h /\ sum' = Line!Sum(heard') /\ sum' \in Line!Octet
    BY <1>1, <1>2, HeardOne
<1>4. h \in Line!Octet
    BY <1>2, LineTypes
<1> HIDE DEF h
<1>5. h \in Nat /\ h <= Base - 1 /\ Base \in Nat /\ Base > 0 /\ c \in 0..(Base - 1)
    BY <1>4, OctetTypes
<1>6. length' = h * Base + c
    BY <1>1, <1>2 DEF h
<1>7. length' \in 0..(Base * Base - 1)
    <2>1. h * Base <= (Base - 1) * Base /\ (Base - 1) * Base = Base * Base - Base /\ h * Base \in Nat
        BY <1>5
    <2> QED BY <1>5, <1>6, <2>1
<1>8. length' \div Base = h /\ length' % Base = c
    BY <1>5, <1>6, Digits
<1>9. ran' \in BOOLEAN
    BY Zenon
<1>10. Line!TypeOK'
    BY <1>1, <1>3, <1>7, <1>9 DEF LineInv, Line!TypeOK
<1>11. state' \in 1..6 => state' = 4 /\ Line!LengthOK(length')
    BY <1>1
<1>12. state' \in 1..6 => Prefix'
    <2> SUFFICES ASSUME state' \in 1..6 PROVE Prefix'
        OBVIOUS
    <2>1. state' = 4 /\ Line!LengthOK(length)'
        BY <1>11 DEF Line!LengthOK
    <2>2. heard'[3] = length' \div Base /\ heard'[4] = length' % Base /\ heard'[2] = seq'
        BY <1>1, <1>3, <1>8
    <2> QED BY <1>3, <2>1, <2>2 DEF Prefix
<1>13. Line!RunsFrames'
    <2>1. Len(heard') < 7 /\ Len(heard') \in Nat
        BY <1>3
    <2> QED BY <2>1, NotWhole, Zenon
<1> QED BY <1>3, <1>10, <1>12, <1>13 DEF LineInv

LEMMA LineToken ==
    ASSUME LineInv, NEW c \in Line!Octet, Line!Token(c), heard' = Append(heard, c), ran' = FALSE,
           UNCHANGED <<frame, noise>>, wire' \in Seq(Line!Octet)
    PROVE  LineInv'
<1>1. /\ state = 4 /\ UNCHANGED <<seq, length>>
      /\ IF c = TOKEN THEN state' = 5 /\ sum' = Xor(sum, c) /\ packet' = <<>>
                      ELSE state' = 0 /\ UNCHANGED <<sum, packet>>
    BY DEF Line!Token
<1>2. /\ Len(heard) = 4 /\ heard[1] = MESSAGE_START /\ heard[2] = seq
      /\ Line!LengthOK(length) /\ heard[3] = length \div Base /\ heard[4] = length % Base
    BY <1>1 DEF LineInv, Prefix
<1>3. /\ heard' \in Seq(Line!Octet) /\ Len(heard') = 5 /\ heard'[5] = c
      /\ \A j \in 1..4 : heard'[j] = heard[j]
      /\ Xor(sum, c) = Line!Sum(heard') /\ Xor(sum, c) \in Line!Octet
    BY <1>1, <1>2, HeardOne
<1>4. ran' \in BOOLEAN /\ sum' \in Line!Octet /\ packet' \in Seq(Line!Octet) /\ Len(packet') <= MaxLength
    <2>1. ran' \in BOOLEAN
        BY Zenon
    <2>2. <<>> \in Seq(Line!Octet) /\ Len(<<>>) = 0 /\ 0 <= MaxLength
        BY OctetTypes
    <2> QED BY <1>1, <1>3, <2>1, <2>2, LineTypes DEF LineInv, Line!TypeOK
<1>5. Line!TypeOK'
    BY <1>1, <1>4 DEF LineInv, Line!TypeOK
<1>6. state' \in 1..6 => state' = 5 /\ c = TOKEN /\ Len(packet') = 0 /\ sum' = Xor(sum, c)
    BY <1>1
<1>7. length \in Nat /\ length # 0
    BY <1>2, LineTypes DEF Line!LengthOK
<1>8. state' \in 1..6 => Prefix'
    <2> SUFFICES ASSUME state' \in 1..6 PROVE Prefix'
        OBVIOUS
    <2>1. \A j \in 1..Len(packet') : FALSE
        BY <1>6
    <2> QED BY <1>1, <1>2, <1>3, <1>6, <1>7, <2>1 DEF Prefix, Line!LengthOK
<1>9. Line!RunsFrames'
    <2>1. Len(heard') < 7 /\ Len(heard') \in Nat
        BY <1>3
    <2> QED BY <2>1, NotWhole, Zenon
<1> QED BY <1>3, <1>5, <1>6, <1>8, <1>9 DEF LineInv

LEMMA LineBody ==
    ASSUME LineInv, NEW c \in Line!Octet, Line!Body(c), heard' = Append(heard, c), ran' = FALSE,
           UNCHANGED <<frame, noise>>, wire' \in Seq(Line!Octet)
    PROVE  LineInv'
<1>1. /\ state = 5 /\ packet' = Append(packet, c) /\ sum' = Xor(sum, c) /\ UNCHANGED <<seq, length>>
      /\ state' = IF Len(packet') = length THEN 6 ELSE 5
    BY DEF Line!Body, Line!Complete
<1>2. /\ heard[1] = MESSAGE_START /\ heard[2] = seq
      /\ Line!LengthOK(length) /\ heard[3] = length \div Base /\ heard[4] = length % Base
      /\ heard[5] = TOKEN /\ Len(heard) = 5 + Len(packet)
      /\ \A j \in 1..Len(packet) : heard[5 + j] = packet[j]
      /\ Len(packet) < length
    BY <1>1 DEF LineInv, Prefix
<1>3. /\ heard' \in Seq(Line!Octet) /\ Len(heard') = Len(heard) + 1 /\ heard'[Len(heard) + 1] = c
      /\ \A j \in 1..Len(heard) : heard'[j] = heard[j]
      /\ Xor(sum, c) = Line!Sum(heard') /\ Xor(sum, c) \in Line!Octet
    BY <1>1, HeardOne
<1> DEFINE l == Len(packet)
<1>4. /\ l \in Nat /\ length \in Nat /\ length <= MaxLength /\ MaxLength \in Nat
    BY <1>2, LineTypes, OctetTypes DEF Line!LengthOK
<1>5. /\ packet' \in Seq(Line!Octet) /\ Len(packet') = l + 1 /\ packet'[l + 1] = c
      /\ \A j \in 1..l : packet'[j] = packet[j]
    BY <1>1, LineTypes
<1> HIDE DEF l
<1>6. ran' \in BOOLEAN
    BY Zenon
<1>7. Len(packet') <= MaxLength /\ state' \in 5..6 /\ state' # 0
    BY <1>1, <1>2, <1>4, <1>5 DEF l
<1>8. Line!TypeOK'
    BY <1>1, <1>3, <1>5, <1>6, <1>7 DEF LineInv, Line!TypeOK
<1>9. Prefix'
    <2>1. heard'[1] = MESSAGE_START /\ heard'[2] = seq' /\ heard'[3] = length' \div Base /\ heard'[4] = length' % Base
          /\ heard'[5] = TOKEN
        BY <1>1, <1>2, <1>3, <1>4 DEF l
    <2>2. Len(heard') = 5 + Len(packet')
        BY <1>2, <1>3, <1>4, <1>5 DEF l
    <2>3. ASSUME NEW j \in 1..(l + 1) PROVE heard'[5 + j] = packet'[j]
        <3>1. CASE j \in 1..l
            <4>1. 5 + j \in 1..Len(heard)
                BY <1>2, <1>4, <3>1 DEF l
            <4>2. heard'[5 + j] = heard[5 + j] /\ heard[5 + j] = packet[j] /\ packet'[j] = packet[j]
                BY <1>2, <1>3, <1>5, <3>1, <4>1 DEF l
            <4> QED BY <4>2
        <3>2. CASE j = l + 1
            <4>1. 5 + j = Len(heard) + 1
                BY <1>2, <1>4, <3>2 DEF l
            <4>2. heard'[5 + j] = c
                BY <1>3, <4>1
            <4>3. packet'[j] = c
                BY <1>5, <3>2
            <4> QED BY <4>2, <4>3
        <3>3. l \in Nat /\ j \in 1..(l + 1)
            BY <1>4, <2>3
        <3>4. j \in 1..l \/ j = l + 1
            BY <3>3
        <3> QED BY <3>1, <3>2, <3>4, Zenon
    <2>4. (state' = 5 => Len(packet') < length') /\ (state' = 6 => Len(packet') = length')
        BY <1>1, <1>2, <1>4, <1>5 DEF l
    <2>5. Line!LengthOK(length)'
        BY <1>1, <1>2 DEF Line!LengthOK
    <2> QED BY <1>5, <1>7, <2>1, <2>2, <2>3, <2>4, <2>5 DEF Prefix
<1>10. Line!RunsFrames'
    BY <1>7, NotWhole, Zenon
<1> QED BY <1>1, <1>3, <1>8, <1>9, <1>10 DEF LineInv

LEMMA LineFinal ==
    ASSUME LineInv, NEW c \in Line!Octet, Line!Final(c), heard' = Append(heard, c),
           UNCHANGED <<frame, noise>>, wire' \in Seq(Line!Octet)
    PROVE  LineInv'
<1>1. /\ state = 6 /\ state' = 0 /\ ran' = (c = sum) /\ UNCHANGED <<seq, sum, length, packet>>
    BY DEF Line!Final, Line!Checksum
<1>2. /\ heard[1] = MESSAGE_START /\ heard[2] = seq
      /\ Line!LengthOK(length) /\ heard[3] = length \div Base /\ heard[4] = length % Base
      /\ heard[5] = TOKEN /\ Len(heard) = 5 + Len(packet)
      /\ \A j \in 1..Len(packet) : heard[5 + j] = packet[j]
      /\ Len(packet) = length /\ sum = Line!Sum(heard)
    BY <1>1 DEF LineInv, Prefix
<1>3. /\ heard' \in Seq(Line!Octet) /\ Len(heard') = Len(heard) + 1 /\ heard'[Len(heard) + 1] = c
      /\ \A j \in 1..Len(heard) : heard'[j] = heard[j]
    BY <1>1, HeardOne
<1> DEFINE l == Len(packet)
<1>4. l \in Nat /\ 1 <= l /\ l <= MaxLength /\ packet \in Seq(Line!Octet) /\ seq \in Line!Octet /\ heard \in Seq(Line!Octet)
      /\ sum \in Line!Octet
    BY <1>2, LineTypes, OctetTypes DEF Line!LengthOK
<1> HIDE DEF l
<1>5. Line!Frame(seq, packet) = Append(heard, sum)
    <2>1. /\ Len(packet) <= MaxLength /\ heard[3] = Len(packet) \div Base /\ heard[4] = Len(packet) % Base
        BY <1>2, <1>4 DEF l
    <2>2. Line!Frame(seq, packet) = Append(heard, Line!Sum(heard))
        BY <1>2, <1>4, <2>1, FrameShape, Zenon
    <2> QED BY <1>2, <2>2
<1> DEFINE body == SubSeq(heard', 6, Len(heard') - 1)
<1>6. body = packet
    <2>1. Len(heard') = 6 + l /\ Len(heard') - 1 = 5 + l
        BY <1>2, <1>3, <1>4 DEF l
    <2>2. body \in Seq(Line!Octet) /\ Len(body) = l
        BY <1>3, <1>4, <2>1
    <2>3. ASSUME NEW j \in 1..l PROVE body[j] = packet[j]
        <3>1. body[j] = heard'[6 + j - 1] /\ 6 + j - 1 = 5 + j /\ 5 + j \in 1..Len(heard)
            BY <1>2, <1>3, <1>4, <2>1, <2>3 DEF l
        <3> QED BY <1>2, <1>3, <2>3, <3>1 DEF l
    <2> HIDE DEF body
    <2> QED BY <1>4, <2>2, <2>3, SameBytes DEF l
<1> HIDE DEF body
<1>7. heard'[2] = seq
    BY <1>2, <1>3, <1>4 DEF l
<1>8. Len(heard') >= 7 /\ Len(body) <= MaxLength
    BY <1>2, <1>3, <1>4, <1>6 DEF l
<1>9. (heard' = Append(heard, sum)) <=> (c = sum)
    BY <1>3, <1>4
<1>10. \A s, b : Line!Frame(s, b)' = Line!Frame(s, b)
    BY DEF Line!Frame
<1>11. Line!RunsFrames'
    <2>1. heard' = Line!Frame(heard'[2], body) <=> c = sum
        BY <1>5, <1>6, <1>7, <1>9
    <2>2. ran' = (Len(heard') >= 7 /\ Len(body) <= MaxLength /\ heard' = Line!Frame(heard'[2], body))
        BY <1>1, <1>8, <2>1, Zenon
    <2>3. seq' = heard'[2] /\ packet' = body
        BY <1>1, <1>6, <1>7
    <2> QED BY <2>2, <2>3, Zenon DEF Line!RunsFrames, body, Line!Frame
<1>12. ran' \in BOOLEAN
    BY <1>1, Zenon
<1>13. Line!TypeOK'
    BY <1>1, <1>12 DEF LineInv, Line!TypeOK
<1> QED BY <1>1, <1>3, <1>11, <1>13 DEF LineInv

LEMMA LineStartByte ==
    ASSUME LineInv, NEW c \in Line!Octet, Line!Start(c), ran' = FALSE,
           UNCHANGED <<frame, noise>>, wire' \in Seq(Line!Octet)
    PROVE  LineInv'
<1>1. /\ state = 0 /\ UNCHANGED <<seq, length, packet>>
      /\ IF c = MESSAGE_START THEN state' = 1 /\ sum' = c /\ heard' = <<c>>
                              ELSE state' = 0 /\ sum' = sum /\ heard' = <<>>
    BY DEF Line!Start
<1>2. /\ <<c>> \in Seq(Line!Octet) /\ Len(<<c>>) = 1 /\ <<c>>[1] = c /\ <<>> \in Seq(Line!Octet) /\ Len(<<>>) = 0
    OBVIOUS
<1>3. ran' \in BOOLEAN
    BY Zenon
<1>4. Line!TypeOK'
    BY <1>1, <1>3 DEF LineInv, Line!TypeOK
<1>5. heard' \in Seq(Line!Octet) /\ Len(heard') < 7 /\ Len(heard') \in Nat
    <2>1. heard' = <<c>> \/ heard' = <<>>
        BY <1>1
    <2>2. CASE heard' = <<c>>
        <3>1. Len(heard') = 1
            BY <2>2
        <3>2. heard' \in Seq(Line!Octet)
            BY <1>2, <2>2, Zenon
        <3> QED BY <3>1, <3>2
    <2>3. CASE heard' = <<>>
        <3>1. Len(heard') = 0
            BY <2>3
        <3>2. heard' \in Seq(Line!Octet)
            BY <1>2, <2>3, Zenon
        <3> QED BY <3>1, <3>2
    <2> QED BY <2>1, <2>2, <2>3, Zenon
<1>6. state' \in 1..6 => sum' = Line!Sum(heard') /\ Prefix'
    <2> SUFFICES ASSUME state' \in 1..6 PROVE sum' = Line!Sum(heard') /\ Prefix'
        OBVIOUS
    <2>1. c = MESSAGE_START /\ state' = 1 /\ sum' = c /\ heard' = <<c>>
        BY <1>1
    <2>2. Line!Sum(<<c>>) = c
        BY SumOne
    <2> QED BY <1>2, <2>1, <2>2 DEF Prefix
<1>7. Line!RunsFrames'
    BY <1>5, NotWhole, Zenon
<1> QED BY <1>4, <1>5, <1>6, <1>7 DEF LineInv

LEMMA LineHear ==
    ASSUME LineInv, NEW c \in Line!Octet, Line!Hear(c), UNCHANGED <<frame, noise>>, wire' \in Seq(Line!Octet)
    PROVE  LineInv'
<1>1. CASE Line!Start(c) /\ ran' = FALSE
    BY <1>1, LineStartByte
<1>2. CASE heard' = Append(heard, c) /\ ran' = FALSE /\ (Line!Header(c) \/ Line!Length(c) \/ Line!Token(c) \/ Line!Body(c))
    BY <1>2, LineHeader, LineLength, LineToken, LineBody
<1>3. CASE Line!Final(c) /\ heard' = Append(heard, c)
    BY <1>3, LineFinal
<1> QED BY <1>1, <1>2, <1>3 DEF Line!Hear

LEMMA LineNext ==
    ASSUME LineInv, Line!Next
    PROVE  LineInv'
<1>1. wire \in Seq(Line!Octet) /\ frame \in Seq(Line!Octet) /\ noise \in 0..Noise /\ Noise \in Nat
    BY LineTypes, OctetTypes DEF LineInv, Line!TypeOK
<1>2. wire # <<>> => Head(wire) \in Line!Octet /\ Tail(wire) \in Seq(Line!Octet)
    BY <1>1
<1>3. CASE Line!Listen
    <2>1. wire # <<>> /\ Line!Hear(Head(wire)) /\ wire' = Tail(wire) /\ UNCHANGED <<frame, noise>>
        BY <1>3 DEF Line!Listen
    <2>2. Head(wire) \in Line!Octet /\ wire' \in Seq(Line!Octet)
        BY <1>2, <2>1
    <2> QED BY <2>1, <2>2, LineHear
<1>4. ASSUME UNCHANGED <<state, seq, sum, length, packet, frame, heard, ran>>, wire' \in Seq(Line!Octet),
             noise' \in 0..Noise
      PROVE  LineInv'
    <2>1. Line!TypeOK'
        BY <1>4 DEF LineInv, Line!TypeOK
    <2>2. state \in 1..6 => (sum' = Line!Sum(heard)' /\ Prefix')
        BY <1>4 DEF LineInv, Prefix, Line!LengthOK, Line!Sum
    <2>3. Line!RunsFrames'
        BY <1>4, RunsFramesStays DEF LineInv
    <2> QED BY <1>4, <2>1, <2>2, <2>3 DEF LineInv
<1>5. CASE Line!Disturb
    <2>1. /\ noise > 0 /\ noise' = noise - 1
          /\ UNCHANGED <<state, seq, sum, length, packet, frame, heard, ran>>
          /\ \/ \E c \in Line!Octet : wire' = <<c>> \o wire
             \/ wire # <<>> /\ \E c \in Line!Octet : wire' = <<c>> \o Tail(wire)
             \/ wire # <<>> /\ wire' = Tail(wire)
        BY <1>5 DEF Line!Disturb, Line!parser
    <2>2. ASSUME NEW c \in Line!Octet, NEW s \in Seq(Line!Octet) PROVE <<c>> \o s \in Seq(Line!Octet)
        OBVIOUS
    <2>3. wire' \in Seq(Line!Octet)
        BY <1>1, <1>2, <2>1, <2>2
    <2>4. noise' \in 0..Noise
        BY <1>1, <2>1
    <2> QED BY <1>4, <2>1, <2>3, <2>4
<1>6. CASE Line!Restart
    <2>1. /\ noise > 0 /\ noise' = noise - 1 /\ state' = 0 /\ heard' = <<>> /\ ran' = FALSE
          /\ UNCHANGED <<seq, sum, length, packet, frame, wire>>
        BY <1>6 DEF Line!Restart
    <2>2. noise' \in 0..Noise /\ heard' \in Seq(Line!Octet) /\ Len(heard') < 7 /\ Len(heard') \in Nat
        BY <1>1, <2>1
    <2>3. ran' \in BOOLEAN
        BY <2>1, Zenon
    <2>4. Line!TypeOK'
        BY <2>1, <2>2, <2>3 DEF LineInv, Line!TypeOK
    <2>5. Line!RunsFrames'
        BY <2>1, <2>2, NotWhole, Zenon
    <2> QED BY <2>1, <2>2, <2>4, <2>5 DEF LineInv
<1>7. CASE Line!Send
    BY <1>1, <1>4, <1>7 DEF Line!Send, Line!parser
<1> QED BY <1>3, <1>5, <1>6, <1>7 DEF Line!Next

\* What has been heard since a frame's start is the part of a frame that the
\* parser's state, registers and exclusive or say.
THEOREM LineInvariance == ExchangeSpec => [](part = "line" => LineInv)
<1> DEFINE I == part = "line" => LineInv
<1>1. ExchangeInit => I
    BY LineStart DEF ExchangeInit
<1>2. I /\ [ExchangeNext]_allVars => I'
    BY Parts, LineStutter, LineNext
<1> QED BY <1>1, <1>2, PTL DEF ExchangeSpec

\* stk500() executes exactly the whole frames, with the number and the body
\* that were sent, whatever the line damages, drops and invents.
THEOREM OnlyFrames == ExchangeSpec => []FramesOnly
<1>1. (part = "line" => LineInv) => FramesOnly
    BY DEF FramesOnly, LineInv
<1> QED BY <1>1, LineInvariance, PTL

-----------------------------------------------------------------------------
(* What the parser reads, beside the others *)

\* Where another part runs, nothing is read of any datagram.
ReadInv ==
    /\ part = "reply" => IInv
    /\ part # "reply" => touched = 0
    /\ part \in {"lookup", "socket"} => packet = <<>>
    /\ part \in {"reply", "lookup", "socket", "response", "line"}

\* dns_parse stays in the datagram also as one of the parts that share packet[].
THEOREM ReadsInPacketOnly == ExchangeSpec => []InPacket
<1>1. ExchangeInit => ReadInv
    BY InitIInv DEF ExchangeInit, ReadInv, ParserRests, Lookup!Init, Socket!Init
<1>2. ReadInv /\ [ExchangeNext]_allVars => ReadInv'
    <2> SUFFICES ASSUME ReadInv, [ExchangeNext]_allVars PROVE ReadInv'
        OBVIOUS
    <2>1. part = "reply" => IInv'
        BY Parts, NextIInv DEF ReadInv
    <2>2. part # "reply" => touched' = touched
        BY DEF ReadInv, ExchangeNext, InReply, InLookup, InSocket, InResponse, InLine, allVars, vars, given, parserVars
    <2>3. part \in {"lookup", "socket"} => packet' = packet
        BY DEF ReadInv, ExchangeNext, InReply, InLookup, InSocket, InResponse, InLine, allVars, vars, given, parserVars
    <2> QED BY <2>1, <2>2, <2>3, Parts DEF ReadInv
<1>3. /\ ReadInv
      /\ part = "response" => ResponseInv
      /\ part = "line" => LineInv
      => InPacket
    <2>1. IInv => InPacket
        BY DEF IInv
    <2>2. ResponseInv => Len(packet) \in Nat
        BY DEF ResponseInv
    <2>3. LineInv => Len(packet) \in Nat
        BY DEF LineInv, Line!TypeOK
    <2> QED BY <2>1, <2>2, <2>3 DEF ReadInv, InPacket, n
<1> QED BY <1>1, <1>2, <1>3, ResponseInvariance, LineInvariance, PTL DEF ExchangeSpec

-----------------------------------------------------------------------------
(* dns_parse(): what the reference's recursive definitions say *)

\* v[k][at] are the texts of at most k units at a position, for k up to m.
Spells(v, m) == v = [k \in 0..m |-> [at \in Word16 |-> IF k = 0 THEN {} ELSE Spelled(at, v[k - 1])]]

LEMMA SpellsExist == ASSUME NEW m \in Nat PROVE \E v : Spells(v, m)
<1> DEFINE Row(v, k) == [at \in Word16 |-> IF k = 0 THEN {} ELSE Spelled(at, v[k - 1])]
           S == {k \in Nat : \E v : Spells(v, k)}
<1>1. 0 \in S
    <2> DEFINE v == [k \in 0..0 |-> [at \in Word16 |-> {}]]
    <2>1. Spells(v, 0)
        BY DEF Spells
    <2> QED BY <2>1
<1>2. ASSUME NEW k \in Nat, k \in S PROVE k + 1 \in S
    <2>1. PICK v : Spells(v, k)
        BY <1>2
    <2> DEFINE g == [i \in 0..(k + 1) |-> IF i = k + 1 THEN Row(v, k + 1) ELSE v[i]]
    <2>2. ASSUME NEW i \in 0..(k + 1) PROVE g[i] = Row(g, i)
        <3>1. CASE i = k + 1
            <4>1. i # 0 /\ i - 1 = k /\ g[i - 1] = v[i - 1] /\ g[i] = Row(v, i)
                BY <3>1
            <4> HIDE DEF g
            <4> QED BY <4>1
        <3>2. CASE i \in 0..k
            <4>1. g[i] = v[i]
                BY <3>2
            <4>2. v[i] = Row(v, i)
                BY <2>1, <3>2 DEF Spells
            <4>3. i # 0 => g[i - 1] = v[i - 1]
                BY <3>2
            <4> HIDE DEF g
            <4> QED BY <4>1, <4>2, <4>3
        <3> QED BY <3>1, <3>2
    <2>3. Spells(g, k + 1)
        <3>1. g = [i \in 0..(k + 1) |-> g[i]]
            OBVIOUS
        <3> HIDE DEF g
        <3> QED BY <2>2, <3>1 DEF Spells
    <2> QED BY <2>3
<1> HIDE DEF S
<1>3. m \in S
    BY <1>1, <1>2, EveryNatural
<1> QED BY <1>3 DEF S

\* The texts at a position that have at most so many units.
Names == CHOOSE v : Spells(v, Steps - 1)

LEMMA Limit == Steps \in Nat /\ Steps - 1 \in Nat /\ Steps < 256
BY ReplyAssumption

LEMMA NamesAre ==
    /\ \A at : Text(at) = Names[Steps - 1][at]
    /\ \A at \in Word16 : Names[0][at] = {}
    /\ \A k \in 1..(Steps - 1) : \A at \in Word16 : Names[k][at] = Spelled(at, Names[k - 1])
<1>1. \A at : Text(at) = Names[Steps - 1][at]
    BY DEF Text, Names, Spells
<1>2. Spells(Names, Steps - 1)
    <2>1. \E v : Spells(v, Steps - 1)
        BY SpellsExist, Limit
    <2> QED BY <2>1 DEF Names
<1>3. ASSUME NEW k \in 0..(Steps - 1), NEW at \in Word16
      PROVE  Names[k][at] = IF k = 0 THEN {} ELSE Spelled(at, Names[k - 1])
    <2>1. Names[k] = [a \in Word16 |-> IF k = 0 THEN {} ELSE Spelled(a, Names[k - 1])]
        BY <1>2, <1>3 DEF Spells
    <2> QED BY <2>1
<1>4. 0 \in 0..(Steps - 1) /\ \A k \in 1..(Steps - 1) : k \in 0..(Steps - 1) /\ k # 0
    BY Limit
<1> QED BY <1>1, <1>3, <1>4

\* v[k][at] is what the first k records at a position answer, for k up to m.
Reads(v, m) == v = [i \in 0..m |-> [at \in Word16 |-> IF i = 0 THEN {} ELSE Answer(at, v[i - 1])]]

LEMMA ReadsExist == ASSUME NEW m \in Nat PROVE \E v : Reads(v, m)
<1> DEFINE Row(v, k) == [at \in Word16 |-> IF k = 0 THEN {} ELSE Answer(at, v[k - 1])]
           S == {k \in Nat : \E v : Reads(v, k)}
<1>1. 0 \in S
    <2> DEFINE v == [k \in 0..0 |-> [at \in Word16 |-> {}]]
    <2>1. Reads(v, 0)
        BY DEF Reads
    <2> QED BY <2>1
<1>2. ASSUME NEW k \in Nat, k \in S PROVE k + 1 \in S
    <2>1. PICK v : Reads(v, k)
        BY <1>2
    <2> DEFINE g == [i \in 0..(k + 1) |-> IF i = k + 1 THEN Row(v, k + 1) ELSE v[i]]
    <2>2. ASSUME NEW i \in 0..(k + 1) PROVE g[i] = Row(g, i)
        <3>1. CASE i = k + 1
            <4>1. i # 0 /\ i - 1 = k /\ g[i - 1] = v[i - 1] /\ g[i] = Row(v, i)
                BY <3>1
            <4> HIDE DEF g
            <4> QED BY <4>1
        <3>2. CASE i \in 0..k
            <4>1. g[i] = v[i]
                BY <3>2
            <4>2. v[i] = Row(v, i)
                BY <2>1, <3>2 DEF Reads
            <4>3. i # 0 => g[i - 1] = v[i - 1]
                BY <3>2
            <4> HIDE DEF g
            <4> QED BY <4>1, <4>2, <4>3
        <3> QED BY <3>1, <3>2
    <2>3. Reads(g, k + 1)
        <3>1. g = [i \in 0..(k + 1) |-> g[i]]
            OBVIOUS
        <3> HIDE DEF g
        <3> QED BY <2>2, <3>1 DEF Reads
    <2> QED BY <2>3
<1> HIDE DEF S
<1>3. m \in S
    BY <1>1, <1>2, EveryNatural
<1> QED BY <1>3 DEF S

Addresses == CHOOSE v : Reads(v, WordMax)

LEMMA AddressStep ==
    ASSUME NEW at \in Word16
    PROVE  /\ Address(at, 0) = {}
           /\ \A k \in Word16 : k + 1 \in Word16 => Address(at, k + 1) = Answer(at, Addresses[k])
           /\ \A b, k : Address(b, k) = Addresses[k][b]
<1>1. \A b, k : Address(b, k) = Addresses[k][b]
    BY DEF Address, Addresses, Reads, Word16
<1>2. Reads(Addresses, WordMax)
    <2>1. \E v : Reads(v, WordMax)
        BY ReadsExist DEF WordMax
    <2> QED BY <2>1 DEF Addresses
<1>3. ASSUME NEW k \in Word16
      PROVE  Addresses[k][at] = IF k = 0 THEN {} ELSE Answer(at, Addresses[k - 1])
    <2>1. k \in 0..WordMax
        BY DEF Word16
    <2>2. Addresses[k] = [a \in Word16 |-> IF k = 0 THEN {} ELSE Answer(a, Addresses[k - 1])]
        BY <1>2, <2>1 DEF Reads
    <2> QED BY <2>2
<1>4. 0 \in Word16 /\ \A k \in Word16 : k + 1 # 0 /\ (k + 1) - 1 = k
    BY WordRange
<1> QED BY <1>1, <1>3, <1>4

LEMMA RecordGives ==
    ASSUME NEW at \in Word16, NEW k \in Word16, k + 1 \in Word16, NEW f, f = Behind(at)
    PROVE  Address(at, k + 1) =
              IF Text(at) = {} \/ f + 10 > n \/ f + 10 + Word(f + 8) > n THEN {}
              ELSE IF IsHost(at) /\ Word(f) = 1 /\ Word(f + 2) = 1 /\ Word(f + 8) = 4
              THEN {SubSeq(packet, f + 11, f + 14)}
              ELSE Address(f + 10 + Word(f + 8), k)
<1>1. Address(at, k + 1) = Answer(at, Addresses[k])
    BY AddressStep
<1>2. Address(f + 10 + Word(f + 8), k) = Addresses[k][f + 10 + Word(f + 8)]
    BY AddressStep
<1> QED BY <1>1, <1>2, Zenon DEF Answer

\* v[at] is the end of the name at a position, for positions from a on.
Ends(v, a) == v = [at \in a..WordMax |-> IF Byte(at) \in 1..63 THEN v[After(at)] ELSE After(at)]

\* What dns_parse() is given.
Datagram == packet \in Seq(Octet) /\ n <= 600 /\ host \in Seq(Letter) /\ host # <<>>

\* A label ends at a position further on.
LEMMA AfterLabel ==
    ASSUME Datagram, NEW at \in Nat, Byte(at) \in 1..63
    PROVE  /\ at < n /\ After(at) = at + 1 + Byte(at)
           /\ After(at) \in Nat /\ After(at) > at /\ After(at) <= 65535
<1>1. n \in Nat /\ n <= 600
    BY DEF Datagram, n
<1>2. at < n
    BY DEF Byte
<1>3. After(at) = at + 1 + Byte(at)
    BY DEF After
<1> DEFINE b == Byte(at)
<1>4. b \in 1..63
    OBVIOUS
<1> HIDE DEF b
<1> QED BY <1>1, <1>2, <1>3, <1>4 DEF b

LEMMA EndsExist == ASSUME Datagram PROVE \E v : Ends(v, 0)
<1> DEFINE Row(v, at) == IF Byte(at) \in 1..63 THEN v[After(at)] ELSE After(at)
           S == {d \in Nat : d <= WordMax => \E v : Ends(v, WordMax - d)}
<1>0. WordMax \in Nat /\ \A at \in Nat : Byte(at) \in 1..63 => After(at) > at /\ After(at) \in 0..WordMax /\ at < WordMax
    <2>1. WordMax \in Nat
        BY DEF WordMax
    <2>2. ASSUME NEW at \in Nat, Byte(at) \in 1..63
          PROVE  After(at) > at /\ After(at) \in 0..WordMax /\ at < WordMax
        <3>1. After(at) \in Nat /\ After(at) > at /\ After(at) <= WordMax
            BY <2>2, AfterLabel, SMT DEF WordMax
        <3>2. \A x, y \in Nat : y > x /\ y <= WordMax => y \in 0..WordMax /\ x < WordMax
            BY <2>1, SMT
        <3> QED BY <3>1, <3>2
    <2> QED BY <2>1, <2>2, Zenon
<1>1. 0 \in S
    <2> DEFINE v == [at \in WordMax..WordMax |-> After(at)]
    <2>1. Byte(WordMax) \notin 1..63
        BY <1>0
    <2>2. v = [at \in WordMax..WordMax |-> Row(v, at)]
        BY <1>0, <2>1
    <2> HIDE DEF v
    <2>3. Ends(v, WordMax)
        BY <2>2 DEF Ends
    <2>4. WordMax - 0 = WordMax
        BY <1>0
    <2> QED BY <2>3, <2>4
<1>2. ASSUME NEW d \in Nat, d \in S PROVE d + 1 \in S
    <2> SUFFICES ASSUME d + 1 <= WordMax PROVE \E v : Ends(v, WordMax - (d + 1))
        OBVIOUS
    <2> DEFINE a == WordMax - (d + 1)
    <2>0. a \in Nat /\ a + 1 = WordMax - d /\ a < WordMax /\ d <= WordMax
        BY <1>0
    <2>1. PICK v : Ends(v, a + 1)
        BY <1>2, <2>0
    <2> HIDE DEF a
    <2> DEFINE g == [at \in a..WordMax |-> IF at = a THEN Row(v, a) ELSE v[at]]
    <2>4. v = [at \in (a + 1)..WordMax |-> Row(v, at)]
        BY <2>1 DEF Ends
    <2>2. ASSUME NEW at \in a..WordMax PROVE g[at] = Row(g, at)
        <3>1. Byte(at) \in 1..63 => After(at) \in (a + 1)..WordMax
            BY <1>0, <2>0
        <3>2. Byte(at) \in 1..63 => g[After(at)] = v[After(at)]
            BY <2>0, <3>1
        <3>3. g[at] = Row(v, at)
            <4>1. CASE at = a
                BY <4>1
            <4>2. CASE at \in (a + 1)..WordMax
                <5>1. g[at] = v[at]
                    BY <1>0, <2>0, <4>2
                <5>2. v[at] = Row(v, at)
                    BY <2>4, <4>2
                <5> QED BY <5>1, <5>2
            <4> QED BY <1>0, <2>0, <4>1, <4>2
        <3> HIDE DEF g
        <3> QED BY <3>2, <3>3
    <2>3. g = [at \in a..WordMax |-> Row(g, at)]
        <3>1. g = [at \in a..WordMax |-> g[at]]
            OBVIOUS
        <3> HIDE DEF g
        <3> QED BY <2>2, <3>1
    <2> HIDE DEF g
    <2>5. Ends(g, a)
        BY <2>3 DEF Ends
    <2> QED BY <2>5 DEF a
<1> HIDE DEF S
<1>3. WordMax \in S
    BY <1>0, <1>1, <1>2, EveryNatural
<1>4. WordMax - WordMax = 0
    BY <1>0
<1> QED BY <1>0, <1>3, <1>4 DEF S

\* The name at a label ends where the rest of it does.
LEMMA BehindIs ==
    ASSUME Datagram, NEW at \in Word16
    PROVE  Behind(at) = IF Byte(at) \in 1..63 THEN Behind(After(at)) ELSE After(at)
<1> DEFINE v == CHOOSE x : Ends(x, 0)
<1>1. \A b : Behind(b) = v[b]
    BY DEF Behind, Ends, Word16
<1>2. Ends(v, 0)
    <2>1. \E x : Ends(x, 0)
        BY EndsExist
    <2> QED BY <2>1
<1> HIDE DEF v
<1>3. v[at] = IF Byte(at) \in 1..63 THEN v[After(at)] ELSE After(at)
    BY <1>2 DEF Ends, Word16
<1> QED BY <1>1, <1>3

\* The parts of a name with their equations and types.
LEMMA NameParts ==
    ASSUME Datagram, NEW k \in 1..(Steps - 1), NEW at \in Word16
    PROVE  /\ ~Unit(at) => Names[k][at] = {}
           /\ Unit(at) /\ Byte(at) = 0 => Names[k][at] = {<<>>}
           /\ Unit(at) /\ Byte(at) >= 192 => Names[k][at] = Names[k - 1][(Byte(at) % 64) * 256 + Byte(at + 1)]
           /\ Unit(at) /\ Byte(at) \in 1..63 =>
                 Names[k][at] = {SubSeq(packet, at + 2, After(at)) \o (IF r = <<>> THEN r ELSE <<46>> \o r) :
                                   r \in Names[k - 1][After(at)]}
<1>1. Names[k][at] = Spelled(at, Names[k - 1])
    BY NamesAre
<1>2. Byte(at) \in 0..255 /\ (Unit(at) => Byte(at) \notin 64..191)
    <2>1. at \in Nat /\ packet \in Seq(Octet)
        BY WordRange DEF Datagram
    <2>2. Byte(at) \in Octet
        BY <2>1, ByteRange
    <2> QED BY <2>2 DEF Octet, Unit
<1>3. /\ ~(Byte(at) = 0 /\ Byte(at) >= 192) /\ ~(Byte(at) \in 1..63 /\ Byte(at) >= 192)
      /\ Byte(at) \in 1..63 => Byte(at) # 0
    BY <1>2
<1> QED BY <1>1, <1>3, Zenon DEF Spelled

\* Where a pointer points to, and where a label ends, is a position.
LEMMA NextUnit ==
    ASSUME Datagram, NEW at \in Word16
    PROVE  /\ (Byte(at) % 64) * 256 + Byte(at + 1) \in Word16
           /\ Byte(at) \in 1..63 => After(at) \in Word16 /\ After(at) = at + 1 + Byte(at)
<1>1. at \in Nat /\ at + 1 \in Nat /\ packet \in Seq(Octet)
    BY WordRange DEF Datagram
<1>2. Byte(at) \in Octet /\ Byte(at + 1) \in Octet
    BY <1>1, ByteRange
<1>3. ASSUME NEW x \in Octet, NEW y \in Octet PROVE (x % 64) * 256 + y \in Word16
    <2>1. x \in Nat /\ y \in Nat /\ y <= 255
        BY OctetRange
    <2>2. x % 64 \in 0..63
        BY <2>1
    <2>3. (x % 64) * 256 + y \in Nat /\ (x % 64) * 256 + y <= 65535
        BY <2>1, <2>2, SMT
    <2> QED BY <2>3, WordRange, SMT
<1>4. ASSUME Byte(at) \in 1..63 PROVE After(at) \in Word16 /\ After(at) = at + 1 + Byte(at)
    <2>1. After(at) \in Nat /\ After(at) <= 65535 /\ After(at) = at + 1 + Byte(at)
        BY <1>1, <1>4, AfterLabel
    <2> QED BY <2>1, WordRange, SMT
<1> QED BY <1>2, <1>3, <1>4

LEMMA PartOf ==
    ASSUME NEW S, NEW s \in Seq(S), NEW a \in Nat \ {0}, NEW b \in Nat, a <= b + 1, b <= Len(s)
    PROVE  /\ SubSeq(s, a, b) \in Seq(S) /\ Len(SubSeq(s, a, b)) = b - a + 1
           /\ \A k \in 1..(b - a + 1) : SubSeq(s, a, b)[k] = s[a + k - 1]
OBVIOUS

\* A label of the datagram, as bytes.
Piece(at) == SubSeq(packet, at + 2, After(at))

LEMMA PieceIs ==
    ASSUME Datagram, NEW at \in Word16, Unit(at), Byte(at) \in 1..63
    PROVE  /\ Piece(at) \in Seq(Octet) /\ Len(Piece(at)) = Byte(at)
           /\ \A i \in 0..(Byte(at) - 1) : Piece(at)[i + 1] = Byte(at + 1 + i)
           /\ at + 1 + Byte(at) <= n
<1> DEFINE b == Byte(at)
           e == at + 1 + b
<1>1. /\ at \in Nat /\ n \in Nat /\ n = Len(packet) /\ packet \in Seq(Octet) /\ b \in 1..63
      /\ After(at) = e /\ After(at) <= n
    <2>1. at \in Nat
        BY WordRange, SMT
    <2>2. packet \in Seq(Octet) /\ n \in Nat /\ n = Len(packet)
        BY DEF Datagram, n
    <2>3. After(at) = e
        BY NextUnit
    <2> QED BY <2>1, <2>2, <2>3 DEF Unit
<1> HIDE DEF b
<1>2. /\ e \in Nat /\ at + 2 \in Nat \ {0} /\ e <= Len(packet) /\ e - (at + 2) + 1 = b
      /\ at + 2 <= e + 1 /\ \A i \in 1..b : (at + 2) + i - 1 = at + 1 + i
    BY <1>1
<1> HIDE DEF e
<1>3. /\ SubSeq(packet, at + 2, e) \in Seq(Octet) /\ Len(SubSeq(packet, at + 2, e)) = b
      /\ \A i \in 1..b : SubSeq(packet, at + 2, e)[i] = packet[at + 1 + i]
    <2>1. /\ SubSeq(packet, at + 2, e) \in Seq(Octet) /\ Len(SubSeq(packet, at + 2, e)) = e - (at + 2) + 1
          /\ \A i \in 1..(e - (at + 2) + 1) : SubSeq(packet, at + 2, e)[i] = packet[(at + 2) + i - 1]
        BY <1>1, <1>2, PartOf
    <2> QED BY <1>2, <2>1
<1>4. ASSUME NEW i \in 0..(b - 1) PROVE Piece(at)[i + 1] = Byte(at + 1 + i)
    <2>1. i + 1 \in 1..b /\ at + 1 + (i + 1) = (at + 1 + i) + 1 /\ at + 1 + i < n
        BY <1>1, <1>2
    <2>2. Byte(at + 1 + i) = packet[(at + 1 + i) + 1]
        BY <2>1 DEF Byte
    <2>3. Piece(at)[i + 1] = packet[at + 1 + (i + 1)]
        BY <1>1, <1>3, <2>1 DEF Piece
    <2> QED BY <2>1, <2>2, <2>3
<1> QED BY <1>1, <1>2, <1>3, <1>4 DEF Piece, b, e

\* A label in front of a rest of a name.
Joint(l, r) == l \o (IF r = <<>> THEN r ELSE <<46>> \o r)

LEMMA JointIs ==
    ASSUME NEW l \in Seq(Octet), NEW r \in Seq(Octet)
    PROVE  /\ Joint(l, r) \in Seq(Octet)
           /\ r = <<>> => Joint(l, r) = l
           /\ r # <<>> => /\ Len(Joint(l, r)) = Len(l) + 1 + Len(r)
                          /\ \A i \in 1..Len(l) : Joint(l, r)[i] = l[i]
                          /\ Joint(l, r)[Len(l) + 1] = 46
                          /\ \A i \in 1..Len(r) : Joint(l, r)[Len(l) + 1 + i] = r[i]
<1>1. CASE r = <<>>
    BY <1>1 DEF Joint
<1>2. CASE r # <<>>
    <2> DEFINE d == <<46>> \o r
    <2>1. /\ d \in Seq(Octet) /\ Len(d) = 1 + Len(r) /\ d[1] = 46
          /\ \A i \in 1..Len(r) : d[1 + i] = r[i]
        <3> DEFINE u == <<46>>
        <3>1. u \in Seq(Octet) /\ Len(u) = 1 /\ u[1] = 46
            BY OctetRange
        <3>2. d = u \o r
            OBVIOUS
        <3> HIDE DEF u, d
        <3>3. /\ u \o r \in Seq(Octet) /\ Len(u \o r) = Len(u) + Len(r)
              /\ \A i \in 1..Len(u) : (u \o r)[i] = u[i]
              /\ \A i \in 1..Len(r) : (u \o r)[Len(u) + i] = r[i]
            <4>1. u \in Seq(Octet) /\ r \in Seq(Octet)
                BY <3>1
            <4> QED BY <4>1, Joined, SMT
        <3>4. 1 \in 1..Len(u)
            BY <3>1
        <3> QED BY <3>1, <3>2, <3>3, <3>4
    <2>2. Joint(l, r) = l \o d
        BY <1>2 DEF Joint
    <2> HIDE DEF d
    <2>3. /\ l \o d \in Seq(Octet) /\ Len(l \o d) = Len(l) + Len(d)
          /\ \A i \in 1..Len(l) : (l \o d)[i] = l[i]
          /\ \A i \in 1..Len(d) : (l \o d)[Len(l) + i] = d[i]
        <3>1. l \in Seq(Octet) /\ d \in Seq(Octet)
            BY <2>1
        <3> QED BY <3>1, Joined, SMT
    <2>4. Len(l) \in Nat /\ Len(r) \in Nat /\ Len(d) \in Nat
        BY <2>1
    <2>5. 1 \in 1..Len(d) /\ \A i \in 1..Len(r) : 1 + i \in 1..Len(d) /\ Len(l) + (1 + i) = Len(l) + 1 + i
        BY <2>1, <2>4
    <2> QED BY <1>2, <2>1, <2>2, <2>3, <2>4, <2>5
<1> QED BY <1>1, <1>2

\* Texts are sequences of bytes.
LEMMA NamesTyped ==
    ASSUME Datagram, NEW k \in 0..(Steps - 1), NEW at \in Word16
    PROVE  Names[k][at] \subseteq Seq(Octet)
<1> DEFINE S == {m \in Nat : m <= Steps - 1 => \A a \in Word16 : Names[m][a] \subseteq Seq(Octet)}
<1>1. 0 \in S
    BY NamesAre
<1>2. ASSUME NEW m \in Nat, m \in S PROVE m + 1 \in S
    <2> SUFFICES ASSUME m + 1 <= Steps - 1, NEW a \in Word16 PROVE Names[m + 1][a] \subseteq Seq(Octet)
        OBVIOUS
    <2>1. m + 1 \in 1..(Steps - 1) /\ (m + 1) - 1 = m
        BY Limit
    <2>2. \A b \in Word16 : Names[m][b] \subseteq Seq(Octet)
        BY <1>2, <2>1, Limit
    <2>3. CASE ~Unit(a)
        BY <2>1, <2>3, NameParts
    <2>4. CASE Unit(a) /\ Byte(a) = 0
        <3>1. Names[m + 1][a] = {<<>>}
            BY <2>1, <2>4, NameParts
        <3> QED BY <3>1
    <2>5. CASE Unit(a) /\ Byte(a) >= 192
        <3>1. Names[m + 1][a] = Names[m][(Byte(a) % 64) * 256 + Byte(a + 1)]
            BY <2>1, <2>5, NameParts
        <3>2. (Byte(a) % 64) * 256 + Byte(a + 1) \in Word16
            BY NextUnit
        <3> QED BY <2>2, <3>1, <3>2
    <2>6. CASE Unit(a) /\ Byte(a) \in 1..63
        <3>1. Names[m + 1][a] = {Joint(Piece(a), r) : r \in Names[m][After(a)]}
            BY <2>1, <2>6, NameParts, ZenonT(40) DEF Joint, Piece
        <3>2. Names[m][After(a)] \subseteq Seq(Octet) /\ Piece(a) \in Seq(Octet)
            BY <2>2, <2>6, NextUnit, PieceIs
        <3>3. \A r \in Names[m][After(a)] : Joint(Piece(a), r) \in Seq(Octet)
            BY <3>2, JointIs
        <3> QED BY <3>1, <3>3
    <2>7. Unit(a) => Byte(a) = 0 \/ Byte(a) >= 192 \/ Byte(a) \in 1..63
        <3>1. Byte(a) \in Octet
            BY WordRange, ByteRange DEF Datagram
        <3> QED BY <3>1 DEF Unit, Octet
    <2> QED BY <2>3, <2>4, <2>5, <2>6, <2>7
<1> HIDE DEF S
<1>3. k \in S
    BY <1>1, <1>2, EveryNatural, Limit
<1> QED BY <1>3 DEF S

-----------------------------------------------------------------------------
(* name() against the text that it reads *)

\* From c on, the host is r, in any case of letters.
Same(r, c) == Len(r) = Len(host) - c /\ \A i \in 1..Len(r) : Lower(host[c + i]) = Lower(r[i])

\* Behind the first c characters, the rest of a name makes it the host.
Follows(c, r) == IF r = <<>> THEN c = Len(host) ELSE Dotted(c) /\ Same(r, From(c))

LEMMA LowerDot == Lower(46) = 46 /\ \A x \in Octet : Lower(x) = 46 <=> x = 46
BY DEF Lower, Octet

LEMMA HostType == ASSUME Datagram PROVE Len(host) \in Nat \ {0} /\ \A i \in 1..Len(host) : host[i] \in Octet
<1>1. Len(host) \in Nat /\ \A i \in 1..Len(host) : host[i] \in Letter
    BY DEF Datagram
<1>2. Len(host) # 0
    BY <1>1 DEF Datagram
<1> QED BY <1>1, <1>2 DEF Letter, Octet

LEMMA HostFollows ==
    ASSUME Datagram, NEW r \in Seq(Octet)
    PROVE  [i \in DOMAIN r |-> Lower(r[i])] = [i \in DOMAIN host |-> Lower(host[i])] <=> Follows(0, r)
<1> DEFINE f == [i \in DOMAIN r |-> Lower(r[i])]
           g == [i \in DOMAIN host |-> Lower(host[i])]
<1>1. /\ Len(host) \in Nat \ {0} /\ DOMAIN host = 1..Len(host)
      /\ Len(r) \in Nat /\ DOMAIN r = 1..Len(r)
    BY HostType DEF Datagram
<1>2. f = g <=> Len(r) = Len(host) /\ \A i \in 1..Len(r) : Lower(r[i]) = Lower(host[i])
    <2>1. f = g => DOMAIN f = DOMAIN g
        OBVIOUS
    <2>2. 1..Len(r) = 1..Len(host) => Len(r) = Len(host)
        <3>1. \A x, y \in Nat : x < y => y \in 1..y /\ y \notin 1..x
            OBVIOUS
        <3>2. \A x, y \in Nat : x < y \/ y < x \/ x = y
            OBVIOUS
        <3> QED BY <1>1, <3>1, <3>2
    <2>3. ASSUME f = g PROVE Len(r) = Len(host) /\ \A i \in 1..Len(r) : Lower(r[i]) = Lower(host[i])
        <3>1. DOMAIN f = 1..Len(r) /\ DOMAIN g = 1..Len(host)
            BY <1>1
        <3>2. Len(r) = Len(host)
            BY <2>2, <2>3, <3>1
        <3>3. \A i \in 1..Len(r) : f[i] = Lower(r[i]) /\ g[i] = Lower(host[i])
            BY <1>1, <3>2
        <3> QED BY <2>3, <3>2, <3>3
    <2>4. ASSUME Len(r) = Len(host), \A i \in 1..Len(r) : Lower(r[i]) = Lower(host[i]) PROVE f = g
        <3>1. DOMAIN r = DOMAIN host /\ \A i \in DOMAIN r : Lower(r[i]) = Lower(host[i])
            BY <1>1, <2>4
        <3> QED BY <3>1
    <2> QED BY <2>3, <2>4
<1>3. Dotted(0) /\ From(0) = 0 /\ 0 # Len(host)
    BY <1>1 DEF Dotted, From
<1>4. r = <<>> => Len(r) = 0
    OBVIOUS
<1>5. Same(r, 0) <=> Len(r) = Len(host) /\ \A i \in 1..Len(r) : Lower(r[i]) = Lower(host[i])
    <2>1. Len(host) - 0 = Len(host) /\ \A i \in 1..Len(r) : 0 + i = i
        BY <1>1
    <2> QED BY <2>1 DEF Same
<1> QED BY <1>1, <1>2, <1>3, <1>4, <1>5 DEF Follows

LEMMA IsHostFollows ==
    ASSUME Datagram, NEW at \in Word16
    PROVE  IsHost(at) <=> \E r \in Text(at) : Follows(0, r)
<1>1. Text(at) \subseteq Seq(Octet)
    <2>1. Steps - 1 \in 0..(Steps - 1)
        BY ReplyAssumption
    <2> QED BY <2>1, NamesTyped, NamesAre
<1>2. \A r \in Text(at) : [i \in DOMAIN r |-> Lower(r[i])] = [i \in DOMAIN host |-> Lower(host[i])] <=> Follows(0, r)
    BY <1>1, HostFollows
<1> QED BY <1>2, Zenon DEF IsHost

\* What Label compares, and where it leaves chars.
Matches(c, l) ==
    /\ Dotted(c) /\ From(c) + Len(l) <= Len(host)
    /\ \A i \in 1..Len(l) : Lower(host[From(c) + i]) = Lower(l[i])

Passed(c, l) == IF From(c) + Len(l) < Len(host) THEN From(c) + Len(l) ELSE Len(host)

\* A label and what is behind it are the rest of the host if the label is its
\* beginning and what is behind it is what then is left.
LEMMA LabelFollows ==
    ASSUME Datagram, NEW c \in 0..Len(host), NEW l \in Seq(Octet), Len(l) # 0, NEW r \in Seq(Octet)
    PROVE  Follows(c, Joint(l, r)) <=> Matches(c, l) /\ Follows(Passed(c, l), r)
<1> DEFINE b == From(c)
           h == Len(host)
           j == Joint(l, r)
           m == Len(l)
           k == Len(r)
<1>1. /\ h \in Nat /\ m \in Nat \ {0} /\ k \in Nat /\ b \in 0..h
    BY HostType DEF From
<1>2. \A i \in 1..h : host[i] \in Octet
    BY HostType
<1>3. j # <<>>
    <2>1. Len(j) # 0
        BY <1>1, JointIs
    <2> QED BY <2>1
<1>4. Follows(c, j) <=> Dotted(c) /\ Same(j, b)
    BY <1>3 DEF Follows
<1>5. CASE r = <<>>
    <2>1. j = l
        BY <1>5, JointIs
    <2>2. Follows(Passed(c, l), r) <=> b + m >= h
        <3>1. Follows(Passed(c, l), r) <=> Passed(c, l) = h
            BY <1>5 DEF Follows
        <3>2. Passed(c, l) = IF b + m < h THEN b + m ELSE h
            BY DEF Passed
        <3> HIDE DEF b, h, m
        <3> QED BY <1>1, <3>1, <3>2
    <2>3. Same(j, b) <=> m = h - b /\ \A i \in 1..m : Lower(host[b + i]) = Lower(l[i])
        BY <2>1 DEF Same
    <2>4. Matches(c, l) <=> Dotted(c) /\ b + m <= h /\ \A i \in 1..m : Lower(host[b + i]) = Lower(l[i])
        BY DEF Matches
    <2>5. m = h - b <=> b + m <= h /\ b + m >= h
        <3> HIDE DEF b, h, m
        <3> QED BY <1>1
    <2> HIDE DEF b, h, m, j
    <2>6. Follows(c, j) <=> Matches(c, l) /\ Follows(Passed(c, l), r)
        BY <1>4, <2>2, <2>3, <2>4, <2>5, Zenon
    <2> QED BY <2>6 DEF j
<1>6. CASE r # <<>>
    <2>1. /\ Len(j) = m + 1 + k /\ j[m + 1] = 46
          /\ \A i \in 1..m : j[i] = l[i]
          /\ \A i \in 1..k : j[m + 1 + i] = r[i]
        BY <1>6, JointIs, ZenonT(40)
    <2> DEFINE d == b + m
    <2>2. Matches(c, l) <=> Dotted(c) /\ d <= h /\ \A i \in 1..m : Lower(host[b + i]) = Lower(l[i])
        BY DEF Matches
    <2>3. Passed(c, l) = IF d < h THEN d ELSE h
        BY DEF Passed
    <2>4. Same(j, b) <=> m + 1 + k = h - b /\ \A i \in 1..(m + 1 + k) : Lower(host[b + i]) = Lower(j[i])
        BY <2>1 DEF Same
    <2>5. (\A i \in 1..(m + 1 + k) : Lower(host[b + i]) = Lower(j[i]))
            <=> /\ \A i \in 1..m : Lower(host[b + i]) = Lower(l[i])
                /\ Lower(host[d + 1]) = Lower(46)
                /\ \A i \in 1..k : Lower(host[(d + 1) + i]) = Lower(r[i])
        <3> HIDE DEF b, h, m, k, j
        <3>1. /\ b \in Nat /\ m \in Nat /\ k \in Nat
            BY <1>1
        <3>2. /\ \A i \in 1..m : i \in 1..(m + 1 + k)
              /\ m + 1 \in 1..(m + 1 + k) /\ b + (m + 1) = d + 1
              /\ \A i \in 1..k : m + 1 + i \in 1..(m + 1 + k) /\ b + (m + 1 + i) = (d + 1) + i
            BY <3>1
        <3>3. ASSUME NEW i \in 1..(m + 1 + k)
              PROVE  i \in 1..m \/ i = m + 1 \/ \E x \in 1..k : i = m + 1 + x
            <4>1. CASE i > m + 1
                <5>1. i - (m + 1) \in 1..k /\ i = m + 1 + (i - (m + 1))
                    BY <3>1, <4>1
                <5> QED BY <5>1
            <4> QED BY <3>1, <4>1
        <3> HIDE DEF d
        <3> QED BY <2>1, <3>2, <3>3, SMTT(30)
    <2>6. ASSUME d <= h
          PROVE  Follows(Passed(c, l), r) <=>
                    /\ m + 1 + k = h - b /\ Lower(host[d + 1]) = Lower(46)
                    /\ \A i \in 1..k : Lower(host[(d + 1) + i]) = Lower(r[i])
        <3>1. d \in Nat /\ d > 0 /\ Passed(c, l) = d
            <4> HIDE DEF b, h, m
            <4> QED BY <1>1, <2>3, <2>6
        <3>2. Follows(d, r) <=> Dotted(d) /\ Same(r, From(d))
            BY <1>6 DEF Follows
        <3>3. Dotted(d) <=> d < h /\ host[d + 1] = 46
            BY <3>1 DEF Dotted
        <3>4. Dotted(d) => From(d) = d + 1
            BY <3>1, <3>3 DEF From
        <3>5. Same(r, d + 1) <=> k = h - (d + 1) /\ \A i \in 1..k : Lower(host[(d + 1) + i]) = Lower(r[i])
            BY DEF Same
        <3>6. k = h - (d + 1) <=> m + 1 + k = h - b
            <4> HIDE DEF b, h, m, k
            <4> QED BY <1>1
        <3>7. k = h - (d + 1) => d < h
            <4> HIDE DEF h, k, d
            <4> QED BY <1>1, <3>1
        <3>8. d < h => (host[d + 1] = 46 <=> Lower(host[d + 1]) = Lower(46))
            <4>1. d < h => d + 1 \in 1..h
                <5> HIDE DEF h, d
                <5> QED BY <1>1, <3>1
            <4> QED BY <1>2, <4>1, LowerDot
        <3> HIDE DEF b, h, m, k, d
        <3> QED BY <3>1, <3>2, <3>3, <3>4, <3>5, <3>6, <3>7, <3>8
    <2>7. m + 1 + k = h - b => d <= h
        <3> HIDE DEF b, h, m, k
        <3> QED BY <1>1
    <2> HIDE DEF b, h, m, k, j, d
    <2>8. Follows(c, j) <=> Matches(c, l) /\ Follows(Passed(c, l), r)
        BY <1>4, <2>2, <2>4, <2>5, <2>6, <2>7, Zenon
    <2> QED BY <2>8 DEF j
<1> QED BY <1>5, <1>6

\* The name that is being read.
Start == IF phase = "question" THEN 12 ELSE p

\* What its texts may still be, behind the part that was read.
Left == Names[(Steps - 1) - steps][pos]

\* The name is what was read of it with what is left.
NamePlace ==
    /\ Text(Start) = {} <=> Left = {}
    /\ IsHost(Start) <=> match /\ \E r \in Left : Follows(chars, r)
    /\ Behind(Start) = IF end = 0 THEN Behind(pos) ELSE end

\* The name at a position has been read to its end, and compared.
Owned(at) ==
    /\ Text(at) # {} /\ p = Behind(at) /\ (match <=> IsHost(at))
    /\ phase = "question" => at = 12
    /\ phase = "answer" => Reference = Address(at, count + 1)

\* What has been read of a reply, and what of it is left to read, is the whole.
AnswerInv ==
    /\ pc = "header" => phase = "question"
    /\ pc \in {"name", "fields"} /\ phase = "question" => n >= 12 /\ GoodHeader
    /\ pc \in {"name", "fields"} /\ phase = "answer" => count + 1 \in Word16
    /\ pc = "name" /\ phase = "answer" => Reference = Address(p, count + 1)
    /\ pc = "name" => NamePlace
    /\ pc = "fields" => \E at \in Word16 : Owned(at)
    /\ pc = "next" => phase = "answer" /\ Reference = Address(p, count)
    /\ ip = IF pc = "done" THEN Reference ELSE {}

LEMMA ReplySame ==
    ASSUME packet' = packet, host' = host
    PROVE  /\ n' = n /\ (GoodHeader' <=> GoodHeader)
           /\ Names' = Names /\ Left' = Names[(Steps - 1) - steps'][pos']
           /\ \A at : Text(at)' = Text(at) /\ (IsHost(at)' <=> IsHost(at)) /\ Behind(at)' = Behind(at)
           /\ \A at, k : Address(at, k)' = Address(at, k)
           /\ Reference' = Reference
           /\ \A c, r : Follows(c, r)' <=> Follows(c, r)
<1>1. n' = n /\ \A i : Byte(i)' = Byte(i)
    BY DEF n, Byte
<1>2. \A i : Word(i)' = Word(i)
    BY <1>1 DEF Word
<1>3. GoodHeader' <=> GoodHeader
    BY <1>1, <1>2 DEF GoodHeader
<1>4. \A at, v : Spelled(at, v)' = Spelled(at, v)
    BY <1>1, SMT DEF Spelled, Unit, After, Byte, n
<1>5. Names' = Names
    BY SMT DEF Names, Spells, Spelled, Unit, After, Byte, n
<1>6. Left' = Names[(Steps - 1) - steps'][pos']
    BY <1>5 DEF Left
<1>7. \A at : Text(at)' = Text(at)
    BY SMT DEF Text, Spelled, Unit, After, Byte, n
<1>8. \A at : IsHost(at)' <=> IsHost(at)
    BY SMT DEF IsHost, Text, Spelled, Unit, After, Byte, n, Lower
<1>9. \A at : Behind(at)' = Behind(at)
    BY SMT DEF Behind, After, Byte, n
<1>10. \A at, k : Address(at, k)' = Address(at, k)
    BY SMT DEF Address, Answer, Behind, IsHost, Text, Spelled, Unit, After, Byte, Word, n, Lower
<1>11. Reference' = Reference
    BY <1>1, <1>2, <1>3, <1>8, <1>9, <1>10 DEF Reference
<1>12. \A c, r : Follows(c, r)' <=> Follows(c, r)
    BY SMT DEF Follows, Dotted, Same, From, Lower
<1> QED BY <1>1, <1>3, <1>5, <1>6, <1>7, <1>8, <1>9, <1>10, <1>11, <1>12

LEMMA ParserTypes ==
    ASSUME IInv
    PROVE  /\ Datagram /\ n \in Nat /\ n <= 600 /\ packet \in Seq(Octet)
           /\ {p, count, pos, end} \subseteq Word16
           /\ chars \in 0..Len(host) /\ steps \in 0..(Steps - 1) /\ match \in BOOLEAN
           /\ pc \in {"header", "name", "fields", "next", "done"} /\ phase \in {"question", "answer"}
<1>1. TypeOK /\ n <= 600
    BY DEF IInv
<1>2. host \in Seq(Letter) /\ host # <<>>
    BY <1>1, ReplyAssumption DEF TypeOK
<1>3. packet \in Seq(Octet) /\ n \in Nat
    BY <1>1 DEF TypeOK, n
<1> QED BY <1>1, <1>2, <1>3, SMT DEF TypeOK, Datagram

\* What is refused gives no address.
LEMMA Refused ==
    ASSUME AnswerInv, Refuse, pc # "done", Reference = {}
    PROVE  AnswerInv'
<1>1. packet' = packet /\ host' = host
    BY DEF Refuse, given
<1>2. Reference' = {}
    BY <1>1, ReplySame
<1>3. ip = {}
    BY DEF AnswerInv
<1> QED BY <1>2, <1>3 DEF AnswerInv, Refuse

LEMMA AnswerOpen == ASSUME Init PROVE AnswerInv
BY DEF Init, AnswerInv

\* A name is read from its beginning.
LEMMA NameOpens ==
    ASSUME IInv, NEW at \in Word16, StartName(at), packet' = packet, host' = host, Start' = at
    PROVE  NamePlace'
<1>1. Left' = Text(at)
    <2>1. Left' = Names[(Steps - 1) - 0][at]
        BY ReplySame DEF StartName
    <2>2. (Steps - 1) - 0 = Steps - 1
        BY Limit
    <2> QED BY <2>1, <2>2, NamesAre
<1>2. Text(Start)' = Text(at) /\ (IsHost(Start)' <=> IsHost(at)) /\ Behind(Start)' = Behind(at) /\ Behind(pos)' = Behind(at)
    BY ReplySame, ZenonT(40) DEF StartName, Text, IsHost, Behind
<1>3. IsHost(at) <=> \E r \in Text(at) : Follows(0, r)
    BY ParserTypes, IsHostFollows
<1>4. \A r : Follows(chars, r)' <=> Follows(0, r)
    BY DEF StartName, Follows, Dotted, Same, From, Lower
<1> QED BY <1>1, <1>2, <1>3, <1>4 DEF NamePlace, StartName

LEMMA AnswerHeader == ASSUME IInv, AnswerInv, Header PROVE AnswerInv'
<1>1. phase = "question" /\ pc # "done" /\ ip = {}
    BY DEF AnswerInv, Header
<1>2. CASE n < 12 \/ ~GoodHeader
    <2>1. Reference = {}
        BY <1>2, ParserTypes DEF Reference
    <2> QED BY <1>1, <1>2, <2>1, Refused DEF Header
<1>3. CASE ~(n < 12 \/ ~GoodHeader)
    <2>1. StartName(12) /\ UNCHANGED <<given, phase, p, count, ip>>
        BY <1>3 DEF Header
    <2>2. packet' = packet /\ host' = host /\ phase' = "question" /\ pc' = "name" /\ ip' = {} /\ Start' = 12
        BY <1>1, <2>1 DEF given, StartName, Start
    <2>3. NamePlace'
        BY <2>1, <2>2, NameOpens, WordRange
    <2>4. n' >= 12 /\ GoodHeader'
        BY <1>3, <2>2, ReplySame, ParserTypes
    <2> QED BY <2>2, <2>3, <2>4 DEF AnswerInv
<1> QED BY <1>2, <1>3

LEMMA AnswerNextRecord == ASSUME IInv, AnswerInv, NextRecord PROVE AnswerInv'
<1>1. pc = "next" /\ phase = "answer" /\ Reference = Address(p, count) /\ ip = {} /\ p \in Word16 /\ count \in Word16
    BY ParserTypes DEF AnswerInv, NextRecord
<1>2. CASE count = 0
    <2>1. Reference = {}
        BY <1>1, <1>2, AddressStep
    <2> QED BY <1>1, <1>2, <2>1, Refused DEF NextRecord
<1>3. CASE count # 0
    <2>1. count' = count - 1 /\ StartName(p) /\ UNCHANGED <<given, phase, p, ip>>
        BY <1>3 DEF NextRecord
    <2>2. packet' = packet /\ host' = host /\ phase' = "answer" /\ pc' = "name" /\ ip' = {} /\ p' = p /\ Start' = p
        BY <1>1, <2>1 DEF given, StartName, Start
    <2>3. NamePlace'
        BY <1>1, <2>1, <2>2, NameOpens
    <2>4. count' + 1 = count
        BY <1>1, <2>1, WordRange
    <2>5. Reference' = Address(p, count)
        BY <1>1, <2>2, ReplySame
    <2>6. Address(p, count + 1)' = Address(p, count)
        BY <2>2, <2>4, ReplySame DEF Address
    <2> QED BY <1>1, <2>2, <2>3, <2>4, <2>5, <2>6 DEF AnswerInv
<1> QED BY <1>2, <1>3

\* Where the code asks for room, it compares positions.
LEMMA RoomIs ==
    ASSUME IInv, pc = "fields", NEW k \in Nat
    PROVE  Room(k) <=> p + k <= n
<1>1. p \in Nat /\ p <= n /\ n \in Nat /\ n <= 600
    BY ParserTypes, WordRange DEF IInv, Positions
<1>2. Minus(n, p) = n - p
    BY <1>1, MinusExact
<1> QED BY <1>1, <1>2 DEF Room

LEMMA AnswerQuestion == ASSUME IInv, AnswerInv, Question PROVE AnswerInv'
<1>1. pc = "fields" /\ phase = "question" /\ ip = {} /\ n >= 12 /\ GoodHeader
    BY DEF AnswerInv, Question
<1>2. Owned(12)
    BY <1>1 DEF AnswerInv, Owned
<1>3. p = Behind(12) /\ (match <=> IsHost(12)) /\ (Room(4) <=> p + 4 <= n)
    BY <1>1, <1>2, RoomIs DEF Owned
<1>4. Reference = IF match /\ Room(4) /\ Word(p) = 1 /\ Word(p + 2) = 1 THEN Address(p + 4, Word(6)) ELSE {}
    BY <1>1, <1>3, Zenon DEF Reference
<1>5. CASE match /\ Room(4) /\ Word(p) = 1 /\ Word(p + 2) = 1
    <2>1. p' = p + 4 /\ count' = Word(6) /\ phase' = "answer" /\ pc' = "next" /\ UNCHANGED <<given, walk, ip>>
        BY <1>5 DEF Question
    <2>2. packet' = packet /\ host' = host /\ ip' = {}
        BY <1>1, <2>1 DEF given
    <2>3. Reference' = Address(p + 4, Word(6))
        BY <1>4, <1>5, <2>2, ReplySame
    <2>4. Address(p, count)' = Address(p + 4, Word(6))
        BY <2>1, <2>2, ReplySame DEF Address
    <2> QED BY <2>1, <2>2, <2>3, <2>4 DEF AnswerInv
<1>6. CASE ~(match /\ Room(4) /\ Word(p) = 1 /\ Word(p + 2) = 1)
    BY <1>1, <1>4, <1>6, Refused DEF Question
<1> QED BY <1>5, <1>6

LEMMA AnswerRecord == ASSUME IInv, AnswerInv, Record PROVE AnswerInv'
<1>1. pc = "fields" /\ phase = "answer" /\ ip = {} /\ count + 1 \in Word16
    BY DEF AnswerInv, Record
<1>2. PICK at \in Word16 : Owned(at)
    BY <1>1 DEF AnswerInv
<1> DEFINE len == Word(p + 8)
           body == p + 10
<1>3. /\ p \in Nat /\ p <= n /\ n \in Nat /\ n <= 600 /\ len \in Nat /\ packet \in Seq(Octet) /\ n = Len(packet)
      /\ count \in Word16
    <2>1. /\ p \in Word16 /\ p <= n /\ n \in Nat /\ n <= 600 /\ packet \in Seq(Octet) /\ n = Len(packet)
          /\ count \in Word16
        BY <1>1, ParserTypes DEF IInv, Positions, n
    <2>2. p \in Nat
        BY <2>1, WordRange
    <2>3. len \in Word16
        BY <2>1, <2>2, ByteRange
    <2> QED BY <2>1, <2>2, <2>3, WordRange
<1>4. p = Behind(at) /\ Text(at) # {} /\ (match <=> IsHost(at)) /\ Reference = Address(at, count + 1)
    BY <1>1, <1>2 DEF Owned
<1>5. Reference = IF p + 10 > n \/ p + 10 + len > n THEN {}
                  ELSE IF match /\ Word(p) = 1 /\ Word(p + 2) = 1 /\ len = 4 THEN {SubSeq(packet, p + 11, p + 14)}
                  ELSE Address(p + 10 + len, count)
    BY <1>1, <1>3, <1>4, RecordGives, Zenon
<1>6. /\ Room(10) <=> p + 10 <= n
      /\ p + 10 <= n => Minus(n, body) = n - body
    <2>1. Room(10) <=> p + 10 <= n
        BY <1>1, RoomIs
    <2>2. ASSUME p + 10 <= n PROVE Minus(n, body) = n - body
        BY <1>3, <2>2, MinusExact
    <2> QED BY <2>1, <2>2
<1> HIDE DEF len
<1>7. CASE ~Room(10)
    <2>1. Reference = {}
        BY <1>3, <1>5, <1>6, <1>7
    <2> QED BY <1>1, <1>7, <2>1, Refused DEF Record
<1>8. CASE Room(10) /\ len > Minus(n, body)
    <2>1. Reference = {}
        BY <1>3, <1>5, <1>6, <1>8
    <2>2. Refuse
        BY <1>8 DEF Record, len
    <2> QED BY <1>1, <2>1, <2>2, Refused
<1>9. CASE Room(10) /\ ~(len > Minus(n, body)) /\ Wanted(len)
    <2>1. len = 4 /\ p + 14 <= n /\ match /\ Word(p) = 1 /\ Word(p + 2) = 1
        BY <1>3, <1>6, <1>9 DEF Wanted
    <2>2. Reference = {SubSeq(packet, p + 11, p + 14)}
        BY <1>3, <1>5, <2>1
    <2>3. ip' = {[i \in 1..4 |-> Byte(body + i - 1)]} /\ pc' = "done" /\ UNCHANGED given
        BY <1>9 DEF Record, len
    <2>4. SubSeq(packet, p + 11, p + 14) = [i \in 1..4 |-> Byte(body + i - 1)]
        <3> DEFINE z == SubSeq(packet, p + 11, p + 14)
        <3>1. p + 11 \in Nat \ {0} /\ p + 14 \in Nat /\ p + 11 <= (p + 14) + 1 /\ (p + 14) - (p + 11) + 1 = 4
            BY <1>3
        <3>2. p + 14 <= Len(packet)
            BY <1>3, <2>1
        <3>3. z \in Seq(Octet) /\ Len(z) = 4 /\ \A i \in 1..4 : z[i] = packet[(p + 11) + i - 1]
            BY <1>3, <3>1, <3>2, PartOf
        <3>4. ASSUME NEW i \in 1..4 PROVE z[i] = Byte(body + i - 1)
            <4>1. body + i - 1 < n /\ (body + i - 1) + 1 = (p + 11) + i - 1
                BY <1>3, <2>1
            <4>2. Byte(body + i - 1) = packet[(body + i - 1) + 1]
                BY <4>1 DEF Byte
            <4> QED BY <3>3, <4>1, <4>2
        <3> HIDE DEF z
        <3>5. z = [i \in 1..4 |-> z[i]]
            BY <3>3
        <3>6. z = [i \in 1..4 |-> Byte(body + i - 1)]
            BY <3>4, <3>5
        <3> QED BY <3>6 DEF z
    <2>5. packet' = packet /\ host' = host /\ ip' = Reference
        BY <2>2, <2>3, <2>4 DEF given
    <2> QED BY <2>3, <2>5, ReplySame DEF AnswerInv
<1>10. CASE Room(10) /\ ~(len > Minus(n, body)) /\ ~Wanted(len)
    <2>1. p' = body + len /\ pc' = "next" /\ UNCHANGED <<given, phase, count, walk, ip>>
        BY <1>10 DEF Record, len
    <2>2. packet' = packet /\ host' = host /\ ip' = {} /\ phase' = "answer" /\ count' = count
        BY <1>1, <2>1 DEF given
    <2>3. Reference = Address(p + 10 + len, count)
        <3>1. ~(p + 10 > n \/ p + 10 + len > n)
            BY <1>3, <1>6, <1>10
        <3> QED BY <1>5, <1>10, <3>1, Zenon DEF Wanted
    <2>4. Reference' = Address(p + 10 + len, count)
        BY <2>2, <2>3, ReplySame
    <2>5. Address(p, count)' = Address(p + 10 + len, count)
        BY <2>1, <2>2, ReplySame DEF Address
    <2> QED BY <2>1, <2>2, <2>4, <2>5 DEF AnswerInv
<1> QED BY <1>7, <1>8, <1>9, <1>10

-----------------------------------------------------------------------------
(* name(), turn by turn *)

\* Where it stands, and what it has left.
LEMMA Turns ==
    ASSUME IInv, pc = "name"
    PROVE  /\ pos \in Word16 /\ pos \in Nat
           /\ ~More => Left = {}
           /\ More => /\ pos < n /\ (Steps - 1) - steps \in 1..(Steps - 1)
                      /\ (steps + 1) % 256 = steps + 1
                      /\ (Steps - 1) - (steps + 1) = ((Steps - 1) - steps) - 1
                      /\ (Steps - 1) - (steps + 1) \in 0..(Steps - 1)
<1>1. pos \in Word16 /\ steps \in 0..(Steps - 1) /\ pos \in Nat /\ n \in Nat
    BY ParserTypes, WordRange
<1>2. CASE ~(pos < n)
    <2>1. ~Unit(pos)
        BY <1>2 DEF Unit
    <2>2. (Steps - 1) - steps = 0 \/ (Steps - 1) - steps \in 1..(Steps - 1)
        BY <1>1, Limit
    <2>3. Left = {}
        BY <1>1, <2>1, <2>2, NamesAre, NameParts, ParserTypes DEF Left
    <2> QED BY <1>1, <1>2, <2>3 DEF More
<1>3. CASE ~(steps + 1 < Steps)
    <2>1. (Steps - 1) - steps = 0
        BY <1>1, <1>3, Limit
    <2>2. Left = {}
        BY <1>1, <2>1, NamesAre DEF Left
    <2> QED BY <1>1, <1>3, <2>2 DEF More
<1>4. CASE pos < n /\ steps + 1 < Steps
    <2>1. /\ (Steps - 1) - steps \in 1..(Steps - 1) /\ (steps + 1) % 256 = steps + 1
          /\ (Steps - 1) - (steps + 1) = ((Steps - 1) - steps) - 1
          /\ (Steps - 1) - (steps + 1) \in 0..(Steps - 1)
        BY <1>1, <1>4, Limit
    <2> QED BY <1>1, <1>4, <2>1 DEF More
<1> QED BY <1>2, <1>3, <1>4

\* A walk that reads no name is refused, and there is none.
LEMMA NoName ==
    ASSUME IInv, AnswerInv, pc = "name", Left = {}, Refuse
    PROVE  AnswerInv'
<1>1. Text(Start) = {} /\ ~IsHost(Start)
    BY DEF AnswerInv, NamePlace
<1>2. Reference = {}
    <2>1. CASE phase = "question"
        BY <1>1, <2>1 DEF Start, Reference
    <2>2. CASE phase = "answer"
        <3>1. Reference = Address(p, count + 1) /\ count + 1 \in Word16 /\ p \in Word16 /\ count \in Word16
            BY <2>2, ParserTypes DEF AnswerInv
        <3>2. Text(p) = {}
            BY <1>1, <2>2 DEF Start
        <3> QED BY <3>1, <3>2, RecordGives
    <2> QED BY <2>1, <2>2, ParserTypes
<1> QED BY <1>2, Refused

LEMMA AnswerCutOff == ASSUME IInv, AnswerInv, CutOff PROVE AnswerInv'
BY Turns, NoName DEF CutOff

LEMMA AnswerMalformed == ASSUME IInv, AnswerInv, Malformed PROVE AnswerInv'
<1>1. pc = "name" /\ More /\ Refuse
    BY DEF Malformed
<1>2. pos \in Word16 /\ pos \in Nat /\ pos < n /\ (Steps - 1) - steps \in 1..(Steps - 1) /\ n \in Nat /\ n <= 600
    BY <1>1, Turns, ParserTypes
<1>3. ~Unit(pos)
    <2>1. CASE Byte(pos) \in 64..191
        BY <2>1 DEF Unit
    <2>2. CASE Byte(pos) >= 192 /\ ~PointerFits
        <3>1. Byte(pos) # 0
            BY <2>2, SMT
        <3>2. After(pos) = pos + 2
            BY <2>2, <3>1, Zenon DEF After
        <3>3. ~(pos + 2 <= n)
            BY <1>2, <2>2 DEF PointerFits
        <3> QED BY <3>2, <3>3 DEF Unit
    <2>3. CASE Byte(pos) \in 1..63 /\ Byte(pos) > Minus(n, pos + 1)
        <3>1. After(pos) = pos + 1 + Byte(pos)
            BY <1>2, <2>3, NextUnit, ParserTypes
        <3>2. Minus(n, pos + 1) = n - (pos + 1)
            BY <1>2, MinusExact
        <3>3. ~(After(pos) <= n)
            <4> DEFINE b == Byte(pos)
            <4>1. b \in 1..63 /\ b > n - (pos + 1) /\ After(pos) = pos + 1 + b
                BY <2>3, <3>1, <3>2
            <4> HIDE DEF b
            <4> QED BY <1>2, <4>1
        <3> QED BY <3>3 DEF Unit
    <2> QED BY <2>1, <2>2, <2>3 DEF Malformed
<1>4. Left = {}
    BY <1>2, <1>3, NameParts, ParserTypes DEF Left
<1> QED BY <1>1, <1>4, NoName

LEMMA AnswerReturn == ASSUME IInv, AnswerInv, Return PROVE AnswerInv'
<1>1. pc = "name" /\ More /\ Byte(pos) = 0
    BY DEF Return, Turn
<1>2. pos \in Word16 /\ pos \in Nat /\ pos < n /\ (Steps - 1) - steps \in 1..(Steps - 1) /\ n \in Nat
    BY <1>1, Turns, ParserTypes
<1>3. After(pos) = pos + 1 /\ Byte(pos) \notin 64..191 /\ Byte(pos) \notin 1..63
    BY <1>1 DEF After
<1>4. Unit(pos)
    BY <1>2, <1>3 DEF Unit
<1>5. Left = {<<>>}
    BY <1>1, <1>2, <1>4, NameParts, ParserTypes DEF Left
<1>6. /\ match' = (match /\ chars = Len(host)) /\ p' = (IF end # 0 THEN end ELSE pos + 1) /\ pc' = "fields"
      /\ UNCHANGED <<given, phase, count, pos, end, chars, ip>>
    BY DEF Return
<1>7. packet' = packet /\ host' = host /\ phase' = phase /\ count' = count /\ ip' = ip
    BY <1>6 DEF given
<1>8. PICK a \in Word16 : a = Start
    BY ParserTypes, WordRange DEF Start
<1>9. Text(a) # {}
    BY <1>1, <1>5, <1>8 DEF AnswerInv, NamePlace
<1>10. match' <=> IsHost(a)
    <2>1. IsHost(a) <=> match /\ Follows(chars, <<>>)
        BY <1>1, <1>5, <1>8 DEF AnswerInv, NamePlace
    <2>2. Follows(chars, <<>>) <=> chars = Len(host)
        BY DEF Follows
    <2> QED BY <1>6, <2>1, <2>2
<1>11. p' = Behind(a)
    <2>1. Behind(a) = IF end = 0 THEN Behind(pos) ELSE end
        BY <1>1, <1>8 DEF AnswerInv, NamePlace
    <2>2. Behind(pos) = pos + 1
        BY <1>2, <1>3, BehindIs, ParserTypes
    <2> QED BY <1>6, <2>1, <2>2
<1>12. phase = "question" => a = 12 /\ n >= 12 /\ GoodHeader
    BY <1>1, <1>8 DEF AnswerInv, Start
<1>13. phase = "answer" => count + 1 \in Word16 /\ Reference = Address(a, count + 1)
    BY <1>1, <1>8 DEF AnswerInv, Start
<1>14. Owned(a)'
    <2>1. Text(a)' # {} /\ p' = Behind(a)' /\ (match' <=> IsHost(a)')
        BY <1>7, <1>9, <1>10, <1>11, ReplySame
    <2>2. phase' = "answer" => Reference' = Address(a, count + 1)'
        <3>1. Reference' = Reference
            BY <1>7, ReplySame
        <3>2. Address(a, count + 1)' = Address(a, count + 1)
            BY <1>7, ReplySame DEF Address
        <3> QED BY <1>7, <1>13, <3>1, <3>2
    <2> QED BY <1>7, <1>12, <2>1, <2>2 DEF Owned
<1>15. ip' = {}
    BY <1>1, <1>7 DEF AnswerInv
<1>16. phase' = "question" => n' >= 12 /\ GoodHeader'
    BY <1>7, <1>12, ReplySame
<1> QED BY <1>6, <1>7, <1>13, <1>14, <1>15, <1>16 DEF AnswerInv

\* What a turn keeps of what dns_parse() knows.
LEMMA InName ==
    ASSUME IInv, AnswerInv, pc = "name", pc' = "name", packet' = packet, host' = host,
           phase' = phase, p' = p, count' = count, ip' = ip, NamePlace'
    PROVE  AnswerInv'
<1>1. ip' = {}
    BY DEF AnswerInv
<1>2. phase' = "question" => n' >= 12 /\ GoodHeader'
    BY ReplySame DEF AnswerInv
<1>3. phase' = "answer" => count' + 1 \in Word16 /\ Reference' = Address(p, count + 1)'
    <2>1. phase = "answer" => count + 1 \in Word16 /\ Reference = Address(p, count + 1)
        BY DEF AnswerInv
    <2>2. Address(p, count + 1)' = Address(p, count + 1)
        BY ReplySame DEF Address
    <2> QED BY <2>1, <2>2, ReplySame
<1> QED BY <1>1, <1>2, <1>3 DEF AnswerInv

LEMMA StartSame ==
    ASSUME packet' = packet, host' = host, phase' = phase, p' = p
    PROVE  /\ Text(Start)' = Text(Start) /\ (IsHost(Start)' <=> IsHost(Start)) /\ Behind(Start)' = Behind(Start)
           /\ Behind(pos)' = Behind(pos')
<1>1. Start' = Start
    BY DEF Start
<1> QED BY <1>1, ReplySame, ZenonT(40) DEF Text, IsHost, Behind

LEMMA AnswerPointer == ASSUME IInv, AnswerInv, Pointer PROVE AnswerInv'
<1> DEFINE k == (Steps - 1) - steps
           target == (Byte(pos) % 64) * 256 + Byte(pos + 1)
<1>1. pc = "name" /\ More /\ Byte(pos) >= 192 /\ PointerFits /\ steps' = (steps + 1) % 256
    BY DEF Pointer, Turn
<1>2. /\ pos \in Word16 /\ pos \in Nat /\ pos < n /\ k \in 1..(Steps - 1) /\ n \in Nat
      /\ steps' = steps + 1 /\ (Steps - 1) - steps' = k - 1 /\ end \in Nat
    BY <1>1, Turns, ParserTypes, WordRange
<1>3. Byte(pos) \notin 0..191
    BY <1>1
<1>4. After(pos) = pos + 2 /\ Byte(pos) \notin 64..191 /\ Byte(pos) \notin 1..63
    BY <1>1, <1>3 DEF After
<1>5. Unit(pos)
    BY <1>1, <1>2, <1>4 DEF Unit, PointerFits
<1>6. Left = Names[k - 1][target]
    BY <1>1, <1>2, <1>5, NameParts, ParserTypes DEF Left
<1>7. /\ end' = NameEnd /\ pos' = target
      /\ UNCHANGED <<given, pc, phase, p, count, chars, match, ip>>
    BY DEF Pointer
<1> HIDE DEF k, target
<1>8. packet' = packet /\ host' = host /\ phase' = phase /\ p' = p
    BY <1>7 DEF given
<1>9. Left' = Left
    <2>1. Left' = Names[(Steps - 1) - steps'][pos']
        BY <1>8, ReplySame
    <2> QED BY <1>2, <1>6, <1>7, <2>1
<1>10. NamePlace
    BY <1>1 DEF AnswerInv
<1>11. Behind(Start) = end'
    <2>1. Behind(pos) = pos + 2
        BY <1>2, <1>4, BehindIs, ParserTypes
    <2> QED BY <1>7, <1>10, <2>1 DEF NamePlace, NameEnd
<1>12. end' # 0
    BY <1>2, <1>7 DEF NameEnd
<1>13. NamePlace'
    <2>1. Text(Start)' = Text(Start) /\ (IsHost(Start)' <=> IsHost(Start)) /\ Behind(Start)' = Behind(Start)
        BY <1>8, StartSame
    <2>2. \A r : Follows(chars, r)' <=> Follows(chars, r)
        BY <1>7, <1>8 DEF Follows, Dotted, Same, From, Lower
    <2> QED BY <1>7, <1>9, <1>10, <1>11, <1>12, <2>1, <2>2 DEF NamePlace
<1> QED BY <1>1, <1>7, <1>8, <1>13, InName

LEMMA AnswerLabel == ASSUME IInv, AnswerInv, Label PROVE AnswerInv'
<1> DEFINE k == (Steps - 1) - steps
           len == Byte(pos)
           l == Piece(pos)
           R == Names[k - 1][After(pos)]
<1>1. pc = "name" /\ More /\ len \in 1..63 /\ steps' = (steps + 1) % 256
    BY DEF Label, Turn
<1>2. /\ pos \in Word16 /\ pos \in Nat /\ pos < n /\ k \in 1..(Steps - 1) /\ n \in Nat /\ n <= 600 /\ Datagram
      /\ steps' = steps + 1 /\ (Steps - 1) - steps' = k - 1 /\ k - 1 \in 0..(Steps - 1)
    BY <1>1, Turns, ParserTypes
<1>3. After(pos) \in Word16 /\ After(pos) = pos + 1 + len
    BY <1>1, <1>2, NextUnit
<1>4. Unit(pos)
    <2>1. len <= Minus(n, pos + 1) /\ Minus(n, pos + 1) = n - (pos + 1)
        BY <1>2, MinusExact DEF Label
    <2>2. len \notin 64..191
        BY <1>1
    <2>3. After(pos) <= n
        <3> HIDE DEF len
        <3> QED BY <1>1, <1>2, <1>3, <2>1
    <2> QED BY <1>2, <2>2, <2>3 DEF Unit
<1>5. /\ l \in Seq(Octet) /\ Len(l) = len /\ \A i \in 0..(len - 1) : l[i + 1] = Byte(pos + 1 + i)
    BY <1>1, <1>2, <1>4, PieceIs
<1>6. Left = {Joint(l, r) : r \in R}
    BY <1>1, <1>2, <1>4, NameParts DEF Left, Joint, Piece
<1>7. /\ pos' = pos + 1 + len
      /\ chars' = IF From(chars) + len < Len(host) THEN From(chars) + len ELSE Len(host)
      /\ match' = /\ match /\ Dotted(chars) /\ From(chars) + len <= Len(host)
                  /\ \A i \in 0..(len - 1) : Lower(host[From(chars) + i + 1]) = Lower(Byte(pos + 1 + i))
      /\ UNCHANGED <<given, pc, phase, p, count, end, ip>>
    BY Zenon DEF Label
<1>8. R \subseteq Seq(Octet)
    BY <1>2, <1>3, NamesTyped
<1>9. chars \in 0..Len(host) /\ Len(host) \in Nat /\ From(chars) \in Nat
    BY <1>2, ParserTypes, HostType DEF From
<1> HIDE DEF k, len, l, R
<1>10. match' <=> match /\ Matches(chars, l)
    <2>1. (\A i \in 0..(len - 1) : Lower(host[From(chars) + i + 1]) = Lower(Byte(pos + 1 + i)))
             <=> \A i \in 1..Len(l) : Lower(host[From(chars) + i]) = Lower(l[i])
        <3>1. ASSUME NEW i \in 1..len
              PROVE  i - 1 \in 0..(len - 1) /\ (i - 1) + 1 = i /\ From(chars) + (i - 1) + 1 = From(chars) + i
            BY <1>1, <1>9
        <3>2. ASSUME NEW i \in 0..(len - 1) PROVE i + 1 \in 1..len /\ From(chars) + i + 1 = From(chars) + (i + 1)
            BY <1>1, <1>9
        <3> QED BY <1>5, <3>1, <3>2
    <2> QED BY <1>5, <1>7, <2>1 DEF Matches
<1>11. chars' = Passed(chars, l)
    BY <1>5, <1>7 DEF Passed
<1>12. packet' = packet /\ host' = host /\ phase' = phase /\ p' = p /\ end' = end
    BY <1>7 DEF given
<1>13. Left' = R
    <2>1. Left' = Names[(Steps - 1) - steps'][pos']
        BY <1>12, ReplySame
    <2> QED BY <1>2, <1>3, <1>7, <2>1 DEF R
<1>14. NamePlace
    BY <1>1 DEF AnswerInv
<1>15. (\E x \in Left : Follows(chars, x)) <=> Matches(chars, l) /\ \E r \in R : Follows(chars', r)
    <2>1. Len(l) # 0
        BY <1>1, <1>5
    <2>2. \A r \in R : Follows(chars, Joint(l, r)) <=> Matches(chars, l) /\ Follows(Passed(chars, l), r)
        BY <1>2, <1>5, <1>8, <1>9, <2>1, LabelFollows
    <2> QED BY <1>6, <1>11, <2>2
<1>16. Left = {} <=> R = {}
    BY <1>6
<1>17. Behind(pos) = Behind(pos')
    <2>1. Behind(pos) = Behind(After(pos))
        BY <1>1, <1>2, BehindIs DEF len
    <2> QED BY <1>3, <1>7, <2>1
<1>18. NamePlace'
    <2>1. /\ Text(Start)' = Text(Start) /\ (IsHost(Start)' <=> IsHost(Start)) /\ Behind(Start)' = Behind(Start)
          /\ Behind(pos)' = Behind(pos')
        BY <1>12, StartSame
    <2>2. \A r : Follows(chars, r)' <=> Follows(chars', r)
        BY <1>12 DEF Follows, Dotted, Same, From, Lower
    <2>3. IsHost(Start) <=> match' /\ \E r \in R : Follows(chars', r)
        BY <1>10, <1>14, <1>15 DEF NamePlace
    <2>4. Text(Start) = {} <=> R = {}
        BY <1>14, <1>16 DEF NamePlace
    <2>5. Behind(Start) = IF end = 0 THEN Behind(pos') ELSE end
        BY <1>14, <1>17 DEF NamePlace
    <2> QED BY <1>12, <1>13, <2>1, <2>2, <2>3, <2>4, <2>5 DEF NamePlace
<1> QED BY <1>1, <1>7, <1>12, <1>18, InName

LEMMA AnswerStutter == ASSUME AnswerInv, UNCHANGED vars PROVE AnswerInv'
<1>1. packet' = packet /\ host' = host /\ UNCHANGED <<pc, phase, p, count, pos, end, steps, chars, match, ip>>
    BY DEF vars, given, walk
<1>2. pc = "name" => NamePlace'
    <2> SUFFICES ASSUME NamePlace PROVE NamePlace'
        BY DEF AnswerInv
    <2>1. /\ Text(Start)' = Text(Start) /\ (IsHost(Start)' <=> IsHost(Start)) /\ Behind(Start)' = Behind(Start)
          /\ Behind(pos)' = Behind(pos)
        BY <1>1, StartSame
    <2>2. Left' = Left
        BY <1>1, ReplySame DEF Left
    <2>3. \A r : Follows(chars, r)' <=> Follows(chars, r)
        BY <1>1 DEF Follows, Dotted, Same, From, Lower
    <2> QED BY <1>1, <2>1, <2>2, <2>3 DEF NamePlace
<1>3. ASSUME NEW at, Owned(at) PROVE Owned(at)'
    <2>1. Address(at, count + 1)' = Address(at, count + 1)
        BY <1>1, ReplySame DEF Address
    <2> QED BY <1>1, <1>3, <2>1, ReplySame DEF Owned
<1>4. Address(p, count + 1)' = Address(p, count + 1) /\ Address(p, count)' = Address(p, count)
    BY <1>1, ReplySame DEF Address
<1> QED BY <1>1, <1>2, <1>3, <1>4, ReplySame DEF AnswerInv

LEMMA AnswerNext == IInv /\ AnswerInv /\ [Next]_vars => AnswerInv'
BY AnswerHeader, AnswerCutOff, AnswerReturn, AnswerPointer, AnswerLabel, AnswerMalformed,
   AnswerQuestion, AnswerNextRecord, AnswerRecord, AnswerStutter, Zenon DEF Next

\* No step of the socket's ends as a parser's do.
LEMMA SocketGoesOn == ASSUME Socket!Next, pc # "done" PROVE pc' # "done"
<1> USE DEF Socket!Return
<1>1. CASE Socket!Driver
    BY <1>1 DEF Socket!Driver, Socket!Close, Socket!ClearAll, Socket!Open, Socket!Connect, Socket!Send,
       Socket!Connecting, Socket!Fill, Socket!Clear, Socket!Poll
<1>2. CASE Socket!Expiry \/ Socket!Chip
    BY <1>2 DEF Socket!Expiry, Socket!Chip, Socket!ConnectExpires, Socket!FillExpires, Socket!SendExpires,
       Socket!Established, Socket!Refused, Socket!SentOk, Socket!SentNot, Socket!Dropped
<1> QED BY <1>1, <1>2 DEF Socket!Next

\* Where another part runs, no reply is parsed.
Parses ==
    /\ part = "reply" => IInv /\ AnswerInv
    /\ part \in {"socket", "line"} => pc # "done"
    /\ part \in {"reply", "lookup", "socket", "response", "line"}

\* dns_parse finds the address that the reference reads from the datagram, or
\* none, for every datagram, host and limit of steps.
THEOREM AnswersRead == ExchangeSpec => []Agrees
<1>1. ExchangeInit => Parses
    BY InitIInv, AnswerOpen DEF ExchangeInit, Parses, Socket!Init
<1>2. Parses /\ [ExchangeNext]_allVars => Parses'
    <2> SUFFICES ASSUME Parses, [ExchangeNext]_allVars PROVE Parses'
        OBVIOUS
    <2>1. part = "reply" => IInv' /\ AnswerInv'
        BY Parts, NextIInv, AnswerNext DEF Parses
    <2>2. part = "socket" => pc' # "done"
        BY Parts, SocketGoesOn DEF Parses
    <2>3. part = "line" => pc' = pc
        BY DEF ExchangeNext, InReply, InLookup, InSocket, InResponse, InLine, allVars
    <2> QED BY <2>1, <2>2, <2>3, Parts DEF Parses
<1>3. /\ Parses
      /\ part = "lookup" => LookupInv
      /\ part = "response" => ResponseInv
      => Agrees
    <2>1. AnswerInv => Agrees
        BY DEF AnswerInv, Agrees
    <2>2. LookupInv => pc # "done"
        BY DEF LookupInv, Lookup!TypeOK
    <2>3. ResponseInv => pc # "done"
        BY DEF ResponseInv, Response!TypeOK
    <2> QED BY <2>1, <2>2, <2>3 DEF Parses, Agrees
<1> QED BY <1>1, <1>2, <1>3, LookupInvariance, ResponseInvariance, PTL DEF ExchangeSpec

=============================================================================
