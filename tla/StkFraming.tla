----------------------------- MODULE StkFraming -----------------------------
(***************************************************************************)
(* The byte switch of stk500() in src/stk500.c, on a line that damages,    *)
(* drops and invents bytes, with a host that repeats one frame until the   *)
(* noise is over and it is answered.  What a frame does is StkSession's    *)
(* matter: here executing it only leaves its sequence number and body.     *)
(***************************************************************************)
EXTENDS Integers, Sequences

CONSTANTS
    Base,           \* 256: the values of a byte are 0..(Base - 1)
    Xor(_, _),      \* exclusive or, of two bytes
    MESSAGE_START, TOKEN,
    MaxLength,      \* 266
    MaxBody,        \* bound: bytes of the host's frame
    Noise           \* bound: bytes that go wrong

Octet == 0..(Base - 1)

FramingAssumption ==
    /\ Base \in Nat \ {0} /\ {MaxLength, MaxBody, Noise} \subseteq Nat
    /\ \A a, b \in Octet : Xor(a, b) \in Octet /\ Xor(0, a) = a
    /\ MESSAGE_START \in Octet /\ TOKEN \in Octet \ {MESSAGE_START}
    /\ MaxBody <= MaxLength /\ MaxLength < Base * Base

Sum(bytes) ==
    LET x[k \in 0..Len(bytes)] == IF k = 0 THEN 0 ELSE Xor(x[k - 1], bytes[k])
    IN  x[Len(bytes)]

Frame(s, body) ==
    LET most == <<MESSAGE_START, s, Len(body) \div Base, Len(body) % Base, TOKEN>> \o body
    IN  Append(most, Sum(most))

Bodies == UNION {[1..k -> Octet] : k \in 1..MaxBody}

\* Frames in which MESSAGE_START appears only at the start.
Frames == {f \in {Frame(s, b) : s \in Octet, b \in Bodies} : \A k \in 2..Len(f) : f[k] # MESSAGE_START}

VARIABLES
    state, seq, sum, n, packet,  \* stk500()'s; i is the length of packet
    frame,                       \* what the host repeats
    line,                        \* bytes on their way to the board
    noise,                       \* bound
    heard,                       \* history: the bytes since a start was taken for one
    ran                          \* history: the last byte completed a frame that was executed

parser == <<state, seq, sum, n, packet>>
vars == <<parser, frame, line, noise, heard, ran>>

Init ==
    /\ state = 0 /\ seq = 0 /\ sum = 0 /\ n = 0 /\ packet = <<>>
    /\ frame \in Frames
    /\ line = <<>> /\ noise = Noise
    /\ heard = <<>> /\ ran = FALSE

-----------------------------------------------------------------------------
(* The switch *)

Start(c) ==
    /\ state = 0
    /\ IF c = MESSAGE_START
         THEN state' = 1 /\ sum' = c /\ heard' = <<c>>
         ELSE UNCHANGED <<state, sum>> /\ heard' = <<>>
    /\ UNCHANGED <<seq, n, packet>>

Header(c) ==
    /\ state \in 1..2
    /\ state' = state + 1
    /\ sum' = Xor(sum, c)
    /\ IF state = 1 THEN seq' = c /\ UNCHANGED n ELSE n' = c * Base /\ UNCHANGED seq
    /\ UNCHANGED packet

LengthOK(len) == len # 0 /\ len <= MaxLength

Length(c) ==
    /\ state = 3
    /\ n' = n + c
    /\ sum' = Xor(sum, c)
    /\ state' = IF LengthOK(n') THEN 4 ELSE 0
    /\ UNCHANGED <<seq, packet>>

Token(c) ==
    /\ state = 4
    /\ IF c = TOKEN
         THEN state' = 5 /\ sum' = Xor(sum, c) /\ packet' = <<>>
         ELSE state' = 0 /\ UNCHANGED <<sum, packet>>
    /\ UNCHANGED <<seq, n>>

\* Mutant: the checksum is taken for a byte of the body.
CompleteLate == Len(packet') > n

\* i == n
Complete == Len(packet') = n

Body(c) ==
    /\ state = 5
    /\ packet' = Append(packet, c)
    /\ sum' = Xor(sum, c)
    /\ state' = IF Complete THEN 6 ELSE 5
    /\ UNCHANGED <<seq, n>>

\* Mutant: a frame is executed as soon as its length is reached.
AnyChecksum(c) == TRUE

Checksum(c) == c = sum

Final(c) ==
    /\ state = 6
    /\ state' = 0
    /\ ran' = Checksum(c)
    /\ UNCHANGED <<seq, sum, n, packet>>

Hear(c) ==
    \/ Start(c) /\ ran' = FALSE
    \/ /\ Header(c) \/ Length(c) \/ Token(c) \/ Body(c)
       /\ heard' = Append(heard, c) /\ ran' = FALSE
    \/ Final(c) /\ heard' = Append(heard, c)

-----------------------------------------------------------------------------
(* The line *)

Listen ==
    /\ line # <<>>
    /\ Hear(Head(line))
    /\ line' = Tail(line)
    /\ UNCHANGED <<frame, noise>>

\* A byte is invented or, on its way, changed or dropped.
Disturb ==
    /\ noise > 0
    /\ noise' = noise - 1
    /\ \/ \E c \in Octet : line' = <<c>> \o line
       \/ line # <<>> /\ \E c \in Octet : line' = <<c>> \o Tail(line)
       \/ line # <<>> /\ line' = Tail(line)
    /\ UNCHANGED <<parser, frame, heard, ran>>

\* A line error, or two seconds of silence: stk500() returns and starts anew.
Restart ==
    /\ noise > 0
    /\ noise' = noise - 1
    /\ state' = 0 /\ heard' = <<>> /\ ran' = FALSE
    /\ UNCHANGED <<seq, sum, n, packet, frame, line>>

\* No answer in time: the host sends its frame again.
Send ==
    /\ line = <<>>
    /\ line' = frame
    /\ UNCHANGED <<parser, frame, noise, heard, ran>>

Next == Listen \/ Disturb \/ Restart \/ Send

Spec == Init /\ [][Next]_vars

-----------------------------------------------------------------------------
(* Properties *)

TypeOK ==
    /\ state \in 0..6 /\ seq \in Octet /\ sum \in Octet
    /\ n \in 0..(Base * Base - 1)
    /\ packet \in Seq(Octet) /\ Len(packet) <= MaxLength
    /\ noise \in 0..Noise /\ ran \in BOOLEAN

\* stk500() executes exactly the well-formed frames: behind the start of one,
\* start, number, length, token, body and exclusive or must all fit, and what
\* is executed has the number and the body that were sent.
RunsFrames ==
    state = 0 =>
        LET body == SubSeq(heard, 6, Len(heard) - 1)
            whole == Len(heard) >= 7 /\ Len(body) <= MaxLength /\ heard = Frame(heard[2], body)
        IN  ran = whole /\ (ran => seq = heard[2] /\ packet = body)

\* The frame just executed is the one that the host repeats.
Found == ran /\ Frame(seq, packet) = frame
=============================================================================
