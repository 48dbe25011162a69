-------------------------------- MODULE Crc32 --------------------------------
(***************************************************************************)
(* crc_byte() and crc32() of src/crc32.c over what was written and, beside *)
(* it, over what is found later: in the record, in a page of flash, or in  *)
(* the bytes of a server.  Register and bytes are sets of bit positions.   *)
(***************************************************************************)
EXTENDS Integers, Sequences

CONSTANTS
    Width,   \* bits of the register (32)
    Poly,    \* 0xedb88320
    Bytes,   \* bytes of the data
    Burst,   \* bound: damage is confined to as many bytes
    MaxLen   \* bound: bytes of the data

ASSUME CrcAssumption ==
    /\ Width \in Nat /\ Width > 8
    /\ Poly \subseteq 0..(Width - 1) /\ Width - 1 \in Poly
    /\ Bytes \subseteq SUBSET (0..7)
    /\ Burst \in Nat /\ 8 * Burst <= Width  \* no more bytes than the register has
    /\ MaxLen \in Nat

VARIABLES
    crc, again,      \* the register over what was written, over what is found
    written, found,  \* history: the bytes of each
    first            \* history: where they first differ, or 0

vars == <<crc, again, written, found, first>>

Register == 0..(Width - 1)

Xor(a, b) == (a \ b) \cup (b \ a)

\* crc >>= 1
Shift(c) == {i - 1 : i \in c \ {0}}

\* Mutant: the bit is looked at behind the shift.
BitBehind(c) == IF 0 \in Shift(c) THEN Xor(Shift(c), Poly) ELSE Shift(c)

\* One turn of the loop.
Bit(c) == IF 0 \in c THEN Xor(Shift(c), Poly) ELSE Shift(c)

Four(c) == Bit(Bit(Bit(Bit(c))))

crc_byte(c, b) == Four(Four(Xor(c, b)))

\* Mutant: the register starts empty.
StartEmpty == {}

Start == Register

\* return ~c
Result(c) == Register \ c

Init ==
    /\ crc = Start /\ again = Start
    /\ written = <<>> /\ found = <<>> /\ first = 0

\* The next byte is b, and d is found in its place.
Byte(b, d) ==
    /\ Len(written) < MaxLen
    /\ b # d => first = 0 \/ Len(written) < first + Burst - 1
    /\ crc' = crc_byte(crc, b) /\ again' = crc_byte(again, d)
    /\ written' = Append(written, b) /\ found' = Append(found, d)
    /\ first' = IF first = 0 /\ b # d THEN Len(written') ELSE first

Next == \E b, d \in Bytes : Byte(b, d)

Spec == Init /\ [][Next]_vars

-----------------------------------------------------------------------------
(* The reference: the remainder of a division of polynomials *)

\* Coefficients are counted from the highest down, a byte's lowest bit first.
Message(data) ==
    {j \in 1..(8 * Len(data)) : (j - 1) % 8 \in data[(j - 1) \div 8 + 1]}

\* x^Width + Poly, times a power of x that puts its highest coefficient at j.
Divisor(j) == {j} \cup {j + 1 + i : i \in Poly}

Remainder(m, length) ==
    LET rest[j \in 0..length] ==
          IF j = 0 THEN m
          ELSE LET r == rest[j - 1] IN IF j \in r THEN Xor(r, Divisor(j)) ELSE r
    IN  {j - length - 1 : j \in rest[length]}

\* docs/EEPROM.md: reflected polynomial, initial value and final XOR 0xFFFFFFFF.
Reference(data) == Xor(Register, Remainder(Xor(Message(data), 1..Width), 8 * Len(data)))

-----------------------------------------------------------------------------
(* Properties *)

TypeOK == crc \subseteq Register /\ again \subseteq Register

\* The bit loop computes the CRC that docs/EEPROM.md names and that the record
\* generators take from zlib: their records are valid for cfg_valid().
Agrees == Result(crc) = Reference(written)

\* Damage that is confined to as many bytes as the register has is always
\* seen, wherever it is and whatever follows: a byte that a reset left half
\* written in the record or in a page never passes for the right one.
Detected == written # found => Result(crc) # Result(again)
=============================================================================
