------------------------------- MODULE RxRing -------------------------------
(***************************************************************************)
(* The receive half of socket 0: the W5500's ring memory and registers,    *)
(* and the steps of src/w5500.c that TCP and UDP reception share: stable() *)
(* over the received-size register, transfer() from the ring, consume().   *)
(*                                                                         *)
(* The chip stores data while the driver runs.  A two-byte register is     *)
(* read one byte at a time, and the chip may change it between the bytes.  *)
(***************************************************************************)
EXTENDS Integers, Sequences

CONSTANTS
    Size,  \* bytes of the ring (2048)
    Wrap,  \* pointers count modulo Wrap (65536)
    Base,  \* values of one register byte (256)
    Cap,   \* sizeof(packet)
    Turns  \* differing readings that stable() takes in 100 ms

RingConstants ==
    /\ Size \in Nat \ {0}
    /\ Wrap \in Nat \ {0} /\ \E k \in 2..Wrap : Wrap = k * Size
    /\ Base \in Nat \ {0}
    /\ Cap \in Nat \ {0}
    /\ Turns \in Nat \ {0}

ASSUME RingAssumption == RingConstants

VARIABLES
    ring,   \* chip: the RX memory
    wr,     \* chip: where the next byte goes
    rsr,    \* chip: Sn_RX_RSR, bytes stored and not released
    taken,  \* chip: the read pointer that the last RECV command used
    rd,     \* Sn_RX_RD, written by the driver
    pc,     \* the driver's next step
    hi,     \* stable(): the high byte just read
    prev,   \* stable(): the reading before this one, or NoReading
    moved,  \* stable(): how often a reading differed from the one before
    n,      \* bytes found, later bytes to copy
    buf     \* packet: the bytes copied so far

chip == <<ring, wr, rsr, taken>>
reading == <<hi, prev, moved>>
ringVars == <<chip, rd, pc, reading, n, buf>>

NoReading == -1

\* Pointers wrap at 2^16, addresses in the ring at its size.
Plus(p, k) == (p + k) % Wrap
At(p) == ring[p % Size]

\* Initially OPEN has left both pointers at p.
InitRing(p) ==
    /\ ring = [o \in 0..(Size - 1) |-> 0]
    /\ wr = p /\ rd = p /\ taken = p
    /\ rsr = 0
    /\ pc = "high" /\ hi = 0 /\ prev = NoReading /\ moved = 0
    /\ n = 0 /\ buf = <<>>

\* The chip stores the bytes s and counts them.
Store(s) ==
    /\ rsr + Len(s) <= Size
    /\ ring' = [o \in 0..(Size - 1) |->
                  IF \E i \in 1..Len(s) : (wr + i - 1) % Size = o
                    THEN s[CHOOSE i \in 1..Len(s) : (wr + i - 1) % Size = o]
                    ELSE ring[o]]
    /\ wr' = Plus(wr, Len(s))
    /\ rsr' = rsr + Len(s)
    /\ UNCHANGED <<taken, rd, pc, reading, n, buf>>

-----------------------------------------------------------------------------
(* stable(0x26) *)

ReadHigh ==
    /\ pc = "high"
    /\ hi' = rsr \div Base
    /\ pc' = "low"
    /\ UNCHANGED <<chip, rd, prev, moved, n, buf>>

Reading == (hi * Base) + (rsr % Base)

\* Mutant: the first reading is good enough.
SettledAtOnce == TRUE

\* while (w != v)
Settled == prev = Reading

ReadLow ==
    /\ pc = "low"
    /\ IF Settled
         THEN n' = Reading /\ pc' = "size" /\ UNCHANGED <<prev, moved>>
         ELSE /\ prev' = Reading
              /\ moved' = IF prev = NoReading THEN 0 ELSE moved + 1
              /\ moved' < Turns
              /\ pc' = "high"
              /\ UNCHANGED n
    /\ UNCHANGED <<chip, rd, hi, buf>>

\* expired(t, 100), looked at before the comparison.
Expire ==
    /\ pc = "low"
    /\ moved = Turns - 1
    /\ prev # NoReading
    /\ n' = 0
    /\ pc' = "size"
    /\ UNCHANGED <<chip, rd, reading, buf>>

-----------------------------------------------------------------------------
(* transfer(3, ...) and consume() *)

\* One byte of the transfer that began skip bytes after rd.
CopyFrom(skip) ==
    /\ pc = "copy"
    /\ Len(buf) < n
    /\ buf' = Append(buf, At(Plus(rd, skip + Len(buf))))
    /\ UNCHANGED <<chip, rd, pc, reading, n>>

\* Mutant: all that is there by now is released, not what was copied.
WriteRdAll(k) ==
    /\ rd' = Plus(rd, rsr)
    /\ pc' = "recv"
    /\ UNCHANGED <<chip, reading, n, buf>>

\* write16(0x28, rd + k)
WriteRd(k) ==
    /\ rd' = Plus(rd, k)
    /\ pc' = "recv"
    /\ UNCHANGED <<chip, reading, n, buf>>

\* command(0x40): the chip releases what lies before rd.
Release ==
    /\ rsr' = rsr - ((rd + Wrap - taken) % Wrap)
    /\ taken' = rd

\* The receive function is called again.
Restart ==
    /\ pc' = "high"
    /\ prev' = NoReading /\ moved' = 0
    /\ buf' = <<>>

RingTypeOK ==
    /\ DOMAIN ring = 0..(Size - 1)
    /\ {wr, rd, taken} \subseteq 0..(Wrap - 1)
    /\ rsr \in 0..Size
    /\ hi \in 0..(Size \div Base)
    /\ prev \in {NoReading} \cup 0..(2 * Size + Base)
    /\ moved \in 0..(Turns - 1)
    /\ n \in 0..Size
    /\ Len(buf) <= n
=============================================================================
