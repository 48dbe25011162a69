----------------------------- MODULE UdpReceive -----------------------------
(***************************************************************************)
(* udp_recv() of src/w5500.c under a caller that polls it, as dhcp() and   *)
(* dns() do.  The chip stores every datagram behind a header with its      *)
(* source and length, counts both in one step, and drops a datagram that   *)
(* does not fit.  The driver finds the next header only by the length in   *)
(* the one before: a size read wrongly would lose the framing for good.    *)
(***************************************************************************)
EXTENDS RxRing

CONSTANTS
    Payloads,  \* what senders may send: sequences
    MaxLen,    \* the longest plausible datagram (2040)
    MaxSent    \* bound: datagrams on one socket

DatagramAssumption ==
    /\ Payloads \subseteq Seq(Int) /\ MaxSent \in Nat
    /\ MaxLen \in Nat /\ MaxLen <= Size

VARIABLES
    sent,     \* history: the datagrams the chip stored, in order
    taken_up, \* history: how many of them udp_recv has passed
    result    \* what udp_recv returned last: <<>> or <<datagram>>

vars == <<ringVars, sent, taken_up, result>>

HEADER == 2

Init ==
    /\ \E p \in 0..(Wrap - 1) : InitRing(p)
    /\ sent = <<>> /\ taken_up = 0 /\ result = <<>>

\* A datagram is stored whole behind its header; one that does not fit is lost.
Arrive(d) ==
    /\ pc # "closed"
    /\ Len(sent) < MaxSent
    /\ Store(<<Len(sent), Len(d)>> \o d)
    /\ sent' = Append(sent, d)
    /\ UNCHANGED <<taken_up, result>>

\* n > 2040 || available < n + 8
Plausible(len) == len <= MaxLen /\ n >= len + HEADER

\* Mutant: a datagram that fills the buffer is skipped.
FitsBelow(len) == len < Cap

\* n > cap
Fits(len) == len <= Cap

TooFew ==
    /\ pc = "size"
    /\ n < HEADER
    /\ result' = <<>>
    /\ Restart
    /\ UNCHANGED <<chip, rd, hi, n, sent, taken_up>>

\* The header is transferred; it holds the source and the length.
Length == At(Plus(rd, 1))

Malformed ==
    /\ pc = "size"
    /\ n >= HEADER /\ ~Plausible(Length)
    /\ pc' = "closed"
    /\ result' = <<>>
    /\ UNCHANGED <<chip, rd, reading, n, buf, sent, taken_up>>

Oversized ==
    /\ pc = "size"
    /\ n >= HEADER /\ Plausible(Length) /\ ~Fits(Length)
    /\ n' = 0
    /\ rd' = Plus(rd, Length + HEADER)
    /\ pc' = "recv"
    /\ UNCHANGED <<chip, reading, buf, sent, taken_up, result>>

Begin ==
    /\ pc = "size"
    /\ n >= HEADER /\ Plausible(Length) /\ Fits(Length)
    /\ n' = Length
    /\ pc' = "copy"
    /\ UNCHANGED <<chip, rd, reading, buf, sent, taken_up, result>>

Copy == CopyFrom(HEADER) /\ UNCHANGED <<sent, taken_up, result>>

\* A datagram of no bytes is copied and consumed like any other.
Consume ==
    /\ pc = "copy"
    /\ Len(buf) = n
    /\ WriteRd(n + HEADER)
    /\ UNCHANGED <<sent, taken_up, result>>

Recv ==
    /\ pc = "recv"
    /\ Release
    /\ Restart
    /\ taken_up' = taken_up + 1
    /\ result' = IF buf = <<>> THEN <<>> ELSE <<buf>>
    /\ UNCHANGED <<ring, wr, rd, hi, n, sent>>

\* The next client opens the socket again.
Reopen ==
    /\ pc = "closed" \/ (pc = "high" /\ Len(sent) = MaxSent)
    /\ \E p \in 0..(Wrap - 1) : wr' = p /\ rd' = p /\ taken' = p
    /\ rsr' = 0 /\ n' = 0
    /\ Restart
    /\ sent' = <<>> /\ taken_up' = 0 /\ result' = <<>>
    /\ UNCHANGED <<ring, hi>>

Driver ==
    \/ (ReadHigh \/ ReadLow \/ Expire) /\ UNCHANGED <<sent, taken_up, result>>
    \/ TooFew \/ Malformed \/ Oversized \/ Begin \/ Copy \/ Consume \/ Recv \/ Reopen

Next == Driver \/ \E d \in Payloads : Arrive(d)

Spec == Init /\ [][Next]_vars

-----------------------------------------------------------------------------
(* Properties *)

TypeOK ==
    /\ RingTypeOK
    /\ pc \in {"high", "low", "size", "copy", "recv", "closed"}
    /\ taken_up \in 0..Len(sent)
    /\ Len(result) <= 1

\* The driver never loses the framing: rd is where a datagram's header is, or
\* where the next one will be, whatever arrives while it reads the size
\* register.  So only a datagram that is in fact too long closes the socket.
FramingKept == pc = "closed" => Len(sent[taken_up + 1]) > MaxLen

\* Whatever udp_recv hands over is one datagram, the next one in order, as it
\* was sent; it skips only what the buffer cannot hold, and empty ones.
WholeDatagrams ==
    pc = "recv" /\ pc' = "high" =>
        LET d == sent[taken_up']
        IN  result' = IF Len(d) \in 1..Cap THEN <<d>> ELSE <<>>
=============================================================================
