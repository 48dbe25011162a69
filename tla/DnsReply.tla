------------------------------ MODULE DnsReply ------------------------------
(***************************************************************************)
(* dns_parse() and name() of src/dns.c on one datagram: a walk through     *)
(* labels, compression pointers and records whose every position and       *)
(* length comes from the network, in 16-bit unsigned arithmetic.           *)
(***************************************************************************)
EXTENDS Integers, Sequences

CONSTANTS
    Packets,  \* datagrams: sequences of bytes
    Hosts,    \* names asked for
    Id,       \* the query's ID
    Steps     \* name() gives up at this step (128)

Octet == 0..255
Letter == 1..127
WordMax == 65535
Word16 == 0..WordMax

ASSUME ReplyAssumption ==
    /\ \A d \in Packets : d \in Seq(Octet) /\ Len(d) <= 600
    /\ \A h \in Hosts : h \in Seq(Letter) /\ h # <<>>
    /\ Id \in Word16 /\ Steps \in Nat /\ 0 < Steps /\ Steps < 256

VARIABLES
    packet, host,  \* the arguments
    pc,            \* "header", "name", "fields", "next", "done"
    phase,         \* whose name and fields: "question" or "answer"
    p, count,      \* dns_parse's position and records left
    pos, end, steps, chars, match,  \* name()'s variables
    touched,       \* history: one past the highest byte that was read
    ip             \* what dns_parse stores: {} or one address

walk == <<pos, end, steps, chars, match>>
given == <<packet, host>>
vars == <<given, pc, phase, p, count, walk, touched, ip>>

n == Len(packet)

\* What lies behind the datagram is what earlier ones left.
Byte(i) == IF i < n THEN packet[i + 1] ELSE 0
Word(i) == Byte(i) * 256 + Byte(i + 1)

Minus(a, b) == (a - b) % 65536

Touch(size) == touched' = IF size > touched THEN size ELSE touched

Lower(c) == IF c \in 65..90 THEN c + 32 ELSE c

Init ==
    /\ packet \in Packets /\ host \in Hosts
    /\ pc = "header" /\ phase = "question"
    /\ p = 0 /\ count = 0
    /\ pos = 0 /\ end = 0 /\ steps = 0 /\ chars = 0 /\ match = TRUE
    /\ touched = 0 /\ ip = {}

Refuse == pc' = "done" /\ UNCHANGED <<given, phase, p, count, walk, ip>>

StartName(at) ==
    /\ pos' = at /\ end' = 0 /\ steps' = 0 /\ chars' = 0 /\ match' = TRUE
    /\ pc' = "name"

\* Flags: a reply, a standard query, not truncated, no error; one question.
GoodHeader == Word(0) = Id /\ Byte(2) \in {128, 129, 132, 133} /\ Byte(3) % 16 = 0 /\ Word(4) = 1

Header ==
    /\ pc = "header"
    /\ Touch(IF n < 12 THEN 0 ELSE 6)
    /\ IF n < 12 \/ ~GoodHeader
         THEN Refuse
         ELSE StartName(12) /\ UNCHANGED <<given, phase, p, count, ip>>

-----------------------------------------------------------------------------
(* name(): one action for each kind of turn of its loop *)

More == pos < n /\ steps + 1 < Steps

Turn == pc = "name" /\ More /\ steps' = (steps + 1) % 256

CutOff ==
    /\ pc = "name" /\ ~More
    /\ UNCHANGED touched
    /\ Refuse

Return ==
    /\ Turn /\ Byte(pos) = 0
    /\ Touch(pos + 1)
    /\ match' = (match /\ chars = Len(host))
    /\ p' = IF end # 0 THEN end ELSE pos + 1
    /\ pc' = "fields"
    /\ UNCHANGED <<given, phase, count, pos, end, chars, ip>>

\* Mutant: a later pointer moves the end of the name.
AfterName == pos + 2

\* The name ends behind its first pointer.
NameEnd == IF end = 0 THEN pos + 2 ELSE end

PointerFits == pos + 1 < n

Pointer ==
    /\ Turn /\ Byte(pos) >= 192
    /\ PointerFits
    /\ Touch(pos + 2)
    /\ end' = NameEnd
    /\ pos' = (Byte(pos) % 64) * 256 + Byte(pos + 1)
    /\ UNCHANGED <<given, pc, phase, p, count, chars, match, ip>>

\* Where the label's characters are compared: behind a dot, except at first.
From(c) == IF c > 0 /\ c < Len(host) /\ host[c + 1] = 46 THEN c + 1 ELSE c

Dotted(c) == c > 0 => c < Len(host) /\ host[c + 1] = 46

Label ==
    /\ Turn /\ Byte(pos) \in 1..63
    /\ LET len == Byte(pos)
           c == From(chars)
       IN  /\ len <= Minus(n, pos + 1)
           /\ Touch(pos + 1 + len)
           /\ match' = /\ match /\ Dotted(chars) /\ c + len <= Len(host)
                       /\ \A i \in 0..(len - 1) : Lower(host[c + i + 1]) = Lower(Byte(pos + 1 + i))
           /\ chars' = IF c + len < Len(host) THEN c + len ELSE Len(host)
           /\ pos' = pos + 1 + len
    /\ UNCHANGED <<given, pc, phase, p, count, end, ip>>

Malformed ==
    /\ pc = "name" /\ More
    /\ \/ Byte(pos) \in 64..191
       \/ Byte(pos) >= 192 /\ ~PointerFits
       \/ Byte(pos) \in 1..63 /\ Byte(pos) > Minus(n, pos + 1)
    /\ Touch(pos + 1)
    /\ Refuse

-----------------------------------------------------------------------------
(* dns_parse() behind a name *)

\* Mutant: the room for the fields is not looked at.
RoomUnchecked(k) == TRUE

\* !(n - p < k)
Room(k) == Minus(n, p) >= k

Question ==
    /\ pc = "fields" /\ phase = "question"
    /\ Touch(IF match /\ Room(4) THEN p + 4 ELSE 0)
    /\ IF match /\ Room(4) /\ Word(p) = 1 /\ Word(p + 2) = 1
         THEN /\ p' = p + 4 /\ count' = Word(6)
              /\ phase' = "answer" /\ pc' = "next"
              /\ UNCHANGED <<given, walk, ip>>
         ELSE Refuse

NextRecord ==
    /\ pc = "next"
    /\ UNCHANGED touched
    /\ IF count = 0
         THEN Refuse
         ELSE count' = count - 1 /\ StartName(p) /\ UNCHANGED <<given, phase, p, ip>>

Wanted(len) == match /\ Word(p) = 1 /\ Word(p + 2) = 1 /\ len = 4

Record ==
    /\ pc = "fields" /\ phase = "answer"
    /\ LET len == Word(p + 8)
           body == p + 10
       IN  CASE ~Room(10) -> UNCHANGED touched /\ Refuse
             [] Room(10) /\ len > Minus(n, body) -> Touch(body) /\ Refuse
             [] OTHER ->
                  IF Wanted(len)
                    THEN /\ ip' = {[i \in 1..4 |-> Byte(body + i - 1)]}
                         /\ Touch(body + 4)
                         /\ pc' = "done"
                         /\ UNCHANGED <<given, phase, p, count, walk>>
                    ELSE /\ p' = body + len /\ pc' = "next"
                         /\ Touch(body)
                         /\ UNCHANGED <<given, phase, count, walk, ip>>

Next ==
    \/ Header \/ CutOff \/ Return \/ Pointer \/ Label \/ Malformed
    \/ Question \/ NextRecord \/ Record

Spec == Init /\ [][Next]_vars

-----------------------------------------------------------------------------
(* The reference: RFC 1035 names, as sets that are empty when there is none *)

\* Where the label, pointer or root at a position ends.
After(at) == CASE Byte(at) = 0 -> at + 1 [] Byte(at) >= 192 -> at + 2 [] OTHER -> at + 1 + Byte(at)

Unit(at) == at < n /\ Byte(at) \notin 64..191 /\ After(at) <= n

\* The dotted texts of the name at a position, from those that are a unit shorter.
Spelled(at, shorter) ==
    IF ~Unit(at) THEN {}
    ELSE CASE Byte(at) = 0 -> {<<>>}
           [] Byte(at) >= 192 -> shorter[(Byte(at) % 64) * 256 + Byte(at + 1)]
           [] OTHER -> {SubSeq(packet, at + 2, After(at)) \o (IF t = <<>> THEN t ELSE <<46>> \o t) :
                          t \in shorter[After(at)]}

\* A name has fewer than Steps labels, pointers and root: the code's limit, which
\* ends a walk that goes in circles.
Text(start) ==
    LET text[k \in 0..(Steps - 1)] ==
          [at \in Word16 |-> IF k = 0 THEN {} ELSE Spelled(at, text[k - 1])]
    IN  text[Steps - 1][start]

IsHost(start) == \E t \in Text(start) : [i \in DOMAIN t |-> Lower(t[i])] = [i \in DOMAIN host |-> Lower(host[i])]

\* The first byte behind the name at a position.
Behind(start) ==
    LET behind[at \in Word16] == IF Byte(at) \in 1..63 THEN behind[After(at)] ELSE After(at)
    IN  behind[start]

\* The address that the record at a position gives, or the records behind it.
Answer(at, others) ==
    LET f == Behind(at)
        next == f + 10 + Word(f + 8)
    IN  IF Text(at) = {} \/ f + 10 > n \/ next > n THEN {}
        ELSE IF IsHost(at) /\ Word(f) = 1 /\ Word(f + 2) = 1 /\ Word(f + 8) = 4
        THEN {SubSeq(packet, f + 11, f + 14)}
        ELSE others[next]

\* The first of k records, from a position on, that gives the host's address.
Address(start, k) ==
    LET address[i \in Word16] == [at \in Word16 |-> IF i = 0 THEN {} ELSE Answer(at, address[i - 1])]
    IN  address[k][start]

Reference ==
    LET q == Behind(12)
    IN  IF n >= 12 /\ GoodHeader /\ IsHost(12) /\ q + 4 <= n /\ Word(q) = 1 /\ Word(q + 2) = 1
          THEN Address(q + 4, Word(6)) ELSE {}

-----------------------------------------------------------------------------
(* Properties *)

TypeOK ==
    /\ packet \in Seq(Octet) /\ host \in Hosts
    /\ pc \in {"header", "name", "fields", "next", "done"}
    /\ phase \in {"question", "answer"}
    /\ {p, count, pos, end, touched} \subseteq Word16
    /\ steps \in 0..(Steps - 1) /\ chars \in 0..Len(host) /\ match \in BOOLEAN
    /\ \A a \in ip : a \in [1..4 -> Octet]

\* No byte behind the datagram is ever read, whatever lengths, pointers and
\* counts it holds: no 16-bit difference n - p or n - pos ever wraps.
InPacket == touched <= n

\* For every datagram, dns_parse gives the address that the reference reads
\* from it, or none: the first A/IN record of the very name that was asked.
Agrees == pc = "done" => ip = Reference
=============================================================================
