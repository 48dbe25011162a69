----------------------------- MODULE TcpReceive -----------------------------
(***************************************************************************)
(* net_recv() of src/w5500.c under a caller that calls it until it returns *)
(* -1, as http_byte() does, while the chip stores the server's bytes and   *)
(* changes the socket's state.                                             *)
(***************************************************************************)
EXTENDS RxRing

CONSTANT Stream  \* the bytes the server sends

VARIABLES
    arrived,   \* chip: bytes of the stream that were stored
    status,    \* chip: Sn_SR
    base,      \* history: where OPEN put the pointers
    delivered  \* history: what net_recv has handed to its caller

vars == <<ringVars, arrived, status, base, delivered>>

ESTABLISHED == 23
CLOSE_WAIT == 28
CLOSED == 0

ASSUME StreamAssumption == Stream \in Seq(Int)

Init ==
    /\ base \in 0..(Wrap - 1)
    /\ InitRing(base)
    /\ arrived = 0
    /\ status = ESTABLISHED
    /\ delivered = <<>>

-----------------------------------------------------------------------------
(* The network *)

\* A segment of k bytes; with fin, the last one also ends the stream.
Arrive(k, fin) ==
    /\ status = ESTABLISHED
    /\ IF fin THEN arrived + k = Len(Stream) ELSE arrived + k <= Len(Stream)
    /\ Store(SubSeq(Stream, arrived + 1, arrived + k))
    /\ arrived' = arrived + k
    /\ status' = IF fin THEN CLOSE_WAIT ELSE status
    /\ UNCHANGED <<base, delivered>>

\* The server aborts, or retransmission gives up.
Abort ==
    /\ status # CLOSED
    /\ status' = CLOSED
    /\ UNCHANGED <<ringVars, arrived, base, delivered>>

-----------------------------------------------------------------------------
(* net_recv() *)

\* Mutant: the driver waits until the buffer can be filled.
NothingYetFull == n < Cap

NothingYet == n = 0

HaveSize ==
    /\ pc = "size"
    /\ n' = IF n > Cap THEN Cap ELSE n
    /\ pc' = IF NothingYet THEN "closed?" ELSE "copy"
    /\ UNCHANGED <<chip, rd, reading, buf, arrived, status, base, delivered>>

Ends(s) == status = s

\* net_status() == 0, then net_status() == 0x1c: two reads.
IsClosed ==
    /\ pc = "closed?"
    /\ pc' = IF Ends(CLOSED) THEN "ended" ELSE "close wait?"
    /\ UNCHANGED <<chip, rd, reading, n, buf, arrived, status, base, delivered>>

IsCloseWait ==
    /\ pc = "close wait?"
    /\ IF Ends(CLOSE_WAIT)
         THEN pc' = "ended" /\ UNCHANGED <<prev, moved, buf>>
         ELSE Restart
    /\ UNCHANGED <<chip, rd, hi, n, arrived, status, base, delivered>>

Copy == CopyFrom(0) /\ UNCHANGED <<arrived, status, base, delivered>>

Consume ==
    /\ pc = "copy"
    /\ Len(buf) = n
    /\ WriteRd(n)
    /\ UNCHANGED <<arrived, status, base, delivered>>

Recv ==
    /\ pc = "recv"
    /\ Release
    /\ Restart
    /\ delivered' = delivered \o buf
    /\ UNCHANGED <<ring, wr, rd, hi, n, arrived, status, base>>

\* The next attempt closes and opens the socket.
Reconnect ==
    /\ pc = "ended"
    /\ base' \in 0..(Wrap - 1)
    /\ wr' = base' /\ rd' = base' /\ taken' = base'
    /\ rsr' = 0 /\ n' = 0
    /\ Restart
    /\ arrived' = 0 /\ status' = ESTABLISHED /\ delivered' = <<>>
    /\ UNCHANGED <<ring, hi>>

\* What the server has, in segments that hold something.
Segment == \E k \in 1..Size, fin \in BOOLEAN : Arrive(k, fin)

Network == Abort \/ Segment \/ Arrive(0, TRUE)

Driver ==
    \/ (ReadHigh \/ ReadLow \/ Expire) /\ UNCHANGED <<arrived, status, base, delivered>>
    \/ HaveSize \/ IsClosed \/ IsCloseWait \/ Copy \/ Consume \/ Recv \/ Reconnect

Next == Network \/ Driver

Spec == Init /\ [][Next]_vars

-----------------------------------------------------------------------------
(* Properties *)

TypeOK ==
    /\ RingTypeOK
    /\ pc \in {"high", "low", "size", "closed?", "close wait?", "copy", "recv", "ended"}
    /\ arrived \in 0..Len(Stream)
    /\ status \in {ESTABLISHED, CLOSE_WAIT, CLOSED}
    /\ base \in 0..(Wrap - 1)

\* However often both pointers wrap, whatever the chip stores during stable()
\* and during the copy, the bytes handed over and the bytes in the buffer are
\* the beginning of the stream: none lost, repeated, stale or overwritten.
InOrder ==
    \A i \in 1..(Len(delivered) + Len(buf)) :
        /\ i <= arrived
        /\ (delivered \o buf)[i] = Stream[i]

\* TcpReceive keeps what ByteStream promises.
Promise == INSTANCE ByteStream WITH over <- status # ESTABLISHED, ended <- pc = "ended"
StreamKept == Promise!Spec

\* The window is opened again by what is read: on a connection that is not
\* aborted, every byte is delivered or the end of the connection is reported,
\* so a stream longer than the ring cannot come to a stop.
StreamFlows == <>(status = CLOSED \/ pc = "ended" \/ delivered = Stream)

\* docs/OTA.md: "The connection closes once the image is consumed."  Here: a
\* connection that the server ended in order, and whose bytes have all
\* arrived, is reported as ended only when they have been read.
ClosedOnceConsumed ==
    pc = "ended" /\ status = CLOSE_WAIT => delivered = Stream
=============================================================================
