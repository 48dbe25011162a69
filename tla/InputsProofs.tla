---------------------------- MODULE InputsProofs ----------------------------
(***************************************************************************)
(* The inputs of Inputs, for data, URLs and messages of any length.        *)
(***************************************************************************)
EXTENDS Inputs, TLAPS, WellFoundedInduction, FiniteSetTheorems, SequenceTheorems

\* Induction over the naturals, from the least number that is not in S.
LEMMA EveryNatural ==
    ASSUME NEW S, 0 \in S, \A k \in Nat : k \in S => k + 1 \in S
    PROVE  \A k \in Nat : k \in S
<1> DEFINE T == Nat \ S
           R == OpToRel(<, Nat)
<1> SUFFICES ASSUME T # {} PROVE FALSE
    OBVIOUS
<1>1. IsWellFoundedOn(R, Nat)
    BY NatLessThanWellFounded
<1>2. PICK x \in T : \A y \in T : ~(<<y, x>> \in R)
    <2>1. T \subseteq Nat
        OBVIOUS
    <2> HIDE DEF T, R
    <2> QED BY <1>1, <2>1, WFMin
<1>3. x \in Nat \ {0} /\ x - 1 \in Nat /\ (x - 1) + 1 = x
    OBVIOUS
<1>4. <<x - 1, x>> \in R
    BY <1>3 DEF OpToRel
<1>5. x - 1 \in S
    BY <1>2, <1>3, <1>4
<1> QED BY <1>2, <1>3, <1>5

-----------------------------------------------------------------------------
(* crc_byte(), crc32(): a turn of the bit loop can be undone, so registers  *)
(* that differ once differ for ever, and it is linear                       *)

LEMMA XorType ==
    ASSUME NEW a \in SUBSET Register, NEW b \in SUBSET Register
    PROVE  Xor(a, b) \in SUBSET Register
BY DEF Xor

LEMMA XorInjective ==
    ASSUME NEW c, NEW a, NEW b, Xor(c, a) = Xor(c, b)
    PROVE  a = b
<1>1. \A i : i \in Xor(c, a) <=> (i \in c /\ i \notin a) \/ (i \in a /\ i \notin c)
    BY DEF Xor
<1>2. \A i : i \in Xor(c, b) <=> (i \in c /\ i \notin b) \/ (i \in b /\ i \notin c)
    BY DEF Xor
<1> QED BY <1>1, <1>2

\* The result and one operand tell the other.
LEMMA XorRight ==
    ASSUME NEW c, NEW a, NEW b, Xor(a, c) = Xor(b, c)
    PROVE  a = b
<1>1. \A i : i \in Xor(a, c) <=> (i \in c /\ i \notin a) \/ (i \in a /\ i \notin c)
    BY DEF Xor
<1>2. \A i : i \in Xor(b, c) <=> (i \in c /\ i \notin b) \/ (i \in b /\ i \notin c)
    BY DEF Xor
<1> QED BY <1>1, <1>2

LEMMA WidthType == Width \in Nat /\ Width > 8 /\ Poly \in SUBSET Register /\ Width - 1 \in Poly
BY CrcAssumption DEF Register

LEMMA ShiftBits ==
    ASSUME NEW c \in SUBSET Register
    PROVE  /\ Shift(c) \in SUBSET Register /\ Width - 1 \notin Shift(c)
           /\ \A i \in Register : i # 0 => (i \in c <=> i - 1 \in Shift(c))
<1>1. \A j : j \in Shift(c) => \E i \in c : i # 0 /\ j = i - 1
    BY DEF Shift
<1>2. \A i \in c : i \in Int /\ 0 <= i /\ i <= Width - 1
    BY WidthType DEF Register
<1>3. Shift(c) \in SUBSET Register
    BY <1>1, <1>2, WidthType DEF Register
<1>4. Width - 1 \notin Shift(c)
    BY <1>1, <1>2, WidthType
<1>5. ASSUME NEW i \in Register, i # 0, i - 1 \in Shift(c) PROVE i \in c
    <2>1. PICK k \in c : k # 0 /\ i - 1 = k - 1
        BY <1>1, <1>5
    <2>2. i = k
        BY <1>2, <2>1 DEF Register
    <2> QED BY <2>2
<1>6. ASSUME NEW i \in Register, i # 0, i \in c PROVE i - 1 \in Shift(c)
    BY <1>6 DEF Shift
<1> QED BY <1>3, <1>4, <1>5, <1>6

\* The highest bit of the new register tells the lowest of the old one.
LEMMA BitInjective ==
    ASSUME NEW a \in SUBSET Register, NEW b \in SUBSET Register, Bit(a) = Bit(b)
    PROVE  a = b
<1>1. Width - 1 \in Poly /\ Width - 1 \notin Shift(a) /\ Width - 1 \notin Shift(b)
    BY WidthType, ShiftBits
<1>2. 0 \in a <=> Width - 1 \in Bit(a)
    BY <1>1 DEF Bit, Xor
<1>3. 0 \in b <=> Width - 1 \in Bit(b)
    BY <1>1 DEF Bit, Xor
<1>4. 0 \in a <=> 0 \in b
    BY <1>2, <1>3
<1>5. Shift(a) = Shift(b)
    <2>1. CASE 0 \in a
        BY <1>4, <2>1, XorRight DEF Bit
    <2>2. CASE 0 \notin a
        BY <1>4, <2>2 DEF Bit
    <2> QED BY <2>1, <2>2
<1>6. \A i \in Register : i # 0 => (i \in a <=> i \in b)
    BY <1>5, ShiftBits
<1> QED BY <1>4, <1>6

LEMMA BitType ==
    ASSUME NEW c \in SUBSET Register
    PROVE  Bit(c) \in SUBSET Register
BY WidthType, ShiftBits, XorType DEF Bit

LEMMA FourInjective ==
    ASSUME NEW a \in SUBSET Register, NEW b \in SUBSET Register
    PROVE  Four(a) \in SUBSET Register /\ (Four(a) = Four(b) => a = b)
BY BitType, BitInjective DEF Four

LEMMA ByteInjective ==
    ASSUME NEW a \in SUBSET Register, NEW b \in SUBSET Register, NEW x \in Bytes, NEW y \in Bytes
    PROVE  /\ crc_byte(a, x) \in SUBSET Register
           /\ crc_byte(a, x) = crc_byte(a, y) => x = y
           /\ crc_byte(a, x) = crc_byte(b, x) => a = b
<1>1. x \in SUBSET Register /\ y \in SUBSET Register
    <2>1. 0..7 \subseteq Register
        BY WidthType DEF Register
    <2> QED BY <2>1, CrcAssumption
<1>2. Xor(a, x) \in SUBSET Register /\ Xor(a, y) \in SUBSET Register /\ Xor(b, x) \in SUBSET Register
    BY <1>1, XorType
<1>3. crc_byte(a, x) \in SUBSET Register
    BY <1>2, FourInjective DEF crc_byte
<1>4. ASSUME crc_byte(a, x) = crc_byte(a, y) PROVE x = y
    <2>1. Xor(a, x) = Xor(a, y)
        BY <1>2, <1>4, FourInjective DEF crc_byte
    <2> QED BY <2>1, XorInjective
<1>5. ASSUME crc_byte(a, x) = crc_byte(b, x) PROVE a = b
    <2>1. Xor(a, x) = Xor(b, x)
        BY <1>2, <1>5, FourInjective DEF crc_byte
    <2> QED BY <2>1, XorRight
<1> QED BY <1>3, <1>4, <1>5

LEMMA ShiftMember ==
    ASSUME NEW c \in SUBSET Register
    PROVE  /\ Shift(c) \in SUBSET Register /\ Width - 1 \notin Shift(c)
           /\ \A j \in Nat : j \in Shift(c) <=> j + 1 \in c
<1>1. ASSUME NEW j \in Nat, j \in Shift(c) PROVE j + 1 \in c
    <2>1. PICK i \in c : i # 0 /\ j = i - 1
        BY <1>1 DEF Shift
    <2>2. Register \subseteq Int
        BY DEF Register
    <2>3. i \in Int
        BY <2>1, <2>2
    <2>4. i = j + 1
        BY <2>1, <2>3
    <2> QED BY <2>1, <2>4
<1>2. ASSUME NEW j \in Nat, j + 1 \in c PROVE j \in Shift(c)
    <2>1. j + 1 # 0 /\ j = (j + 1) - 1
        OBVIOUS
    <2> QED BY <1>2, <2>1 DEF Shift
<1> QED BY <1>1, <1>2, ShiftBits

LEMMA XorMember == ASSUME NEW a, NEW b, NEW x PROVE x \in Xor(a, b) <=> ((x \in a) # (x \in b))
BY DEF Xor

\* Exclusive or of two pairs, in another order.
LEMMA XorPairs ==
    ASSUME NEW a, NEW b, NEW x, NEW y
    PROVE  Xor(Xor(a, x), Xor(b, y)) = Xor(Xor(a, b), Xor(x, y))
BY DEF Xor

LEMMA BitXor ==
    ASSUME NEW a \in SUBSET Register, NEW b \in SUBSET Register
    PROVE  Bit(Xor(a, b)) = Xor(Bit(a), Bit(b))
<1>1. Shift(Xor(a, b)) = Xor(Shift(a), Shift(b))
    <2>1. Xor(a, b) \in SUBSET Register
        BY XorType
    <2>2. Register \subseteq Nat
        BY DEF Register
    <2>3. \A j \in Nat : j \in Shift(Xor(a, b)) <=> j \in Xor(Shift(a), Shift(b))
        BY <2>1, ShiftMember DEF Xor
    <2>4. Shift(Xor(a, b)) \subseteq Nat /\ Xor(Shift(a), Shift(b)) \subseteq Nat
        BY <2>1, <2>2, ShiftMember DEF Xor
    <2> QED BY <2>3, <2>4
<1>2. 0 \in Xor(a, b) <=> ~(0 \in a <=> 0 \in b)
    BY DEF Xor
<1>3. \A s, t, p : /\ Xor(Xor(s, t), p) = Xor(Xor(s, p), t)
                   /\ Xor(Xor(s, t), p) = Xor(s, Xor(t, p))
                   /\ Xor(s, t) = Xor(Xor(s, p), Xor(t, p))
    BY DEF Xor
<1> QED BY <1>1, <1>2, <1>3 DEF Bit

LEMMA FourXor ==
    ASSUME NEW a \in SUBSET Register, NEW b \in SUBSET Register
    PROVE  Four(Xor(a, b)) = Xor(Four(a), Four(b))
BY BitXor, BitType DEF Four

\* Eight turns: what a byte does to the register behind the exclusive or.
Turns(c) == Four(Four(c))

LEMMA TurnsXor ==
    ASSUME NEW a \in SUBSET Register, NEW b \in SUBSET Register
    PROVE  Turns(Xor(a, b)) = Xor(Turns(a), Turns(b))
BY FourXor, FourInjective DEF Turns

\* The difference of two registers runs through the loop by itself.
LEMMA Difference ==
    ASSUME NEW a \in SUBSET Register, NEW b \in SUBSET Register, NEW x \in Bytes, NEW y \in Bytes
    PROVE  Xor(crc_byte(a, x), crc_byte(b, y)) = Turns(Xor(Xor(a, b), Xor(x, y)))
<1>1. x \in SUBSET Register /\ y \in SUBSET Register
    <2>1. 0..7 \subseteq Register
        BY WidthType DEF Register
    <2> QED BY <2>1, CrcAssumption
<1>2. Xor(a, x) \in SUBSET Register /\ Xor(b, y) \in SUBSET Register
    BY <1>1, XorType
<1>3. crc_byte(a, x) = Turns(Xor(a, x)) /\ crc_byte(b, y) = Turns(Xor(b, y))
    BY DEF crc_byte, Turns
<1>4. Xor(Xor(a, x), Xor(b, y)) = Xor(Xor(a, b), Xor(x, y))
    BY XorPairs
<1>5. Turns(Xor(Xor(a, x), Xor(b, y))) = Xor(Turns(Xor(a, x)), Turns(Xor(b, y)))
    BY <1>2, TurnsXor
<1> QED BY <1>3, <1>4, <1>5

\* A turn that leaves the upper bits empty has only shifted.
LEMMA BitLow ==
    ASSUME NEW c \in SUBSET Register, NEW l \in Nat, NEW k \in Nat, k <= Width - 1, Bit(c) \subseteq l..(k - 1)
    PROVE  c \subseteq (l + 1)..k
<1>1. Width - 1 \notin Bit(c)
    BY WidthType
<1>2. 0 \notin c
    <2>1. Width - 1 \in Poly /\ Width - 1 \notin Shift(c)
        BY WidthType, ShiftMember
    <2> QED BY <1>1, <2>1 DEF Bit, Xor
<1>3. Shift(c) \subseteq l..(k - 1)
    BY <1>2 DEF Bit
<1>4. ASSUME NEW i \in c PROVE i \in (l + 1)..k
    <2>0. Register \subseteq Nat
        BY DEF Register
    <2>4. i \in Nat /\ i # 0
        BY <1>2, <2>0
    <2>1. i \in Nat /\ i - 1 \in Nat /\ (i - 1) + 1 = i
        BY <2>4
    <2>2. i - 1 \in Shift(c)
        BY <2>1, ShiftMember
    <2>3. i - 1 \in l..(k - 1)
        BY <1>3, <2>2
    <2> QED BY <2>1, <2>3
<1> QED BY <1>4

LEMMA FourLow ==
    ASSUME NEW c \in SUBSET Register, NEW l \in Nat, NEW k \in Nat, k + 4 <= Width, Four(c) \subseteq l..(k - 1)
    PROVE  c \subseteq (l + 4)..(k + 3)
<1>0. Width \in Nat
    BY WidthType
<1>1. Bit(c) \in SUBSET Register /\ Bit(Bit(c)) \in SUBSET Register /\ Bit(Bit(Bit(c))) \in SUBSET Register
    BY BitType
<1>2. Bit(Bit(Bit(c))) \subseteq (l + 1)..k
    BY <1>0, <1>1, BitLow DEF Four
<1>3. Bit(Bit(c)) \subseteq (l + 2)..(k + 1)
    <2>1. l + 1 \in Nat /\ k + 1 \in Nat /\ k + 1 <= Width - 1 /\ (k + 1) - 1 = k /\ (l + 1) + 1 = l + 2
        BY <1>0
    <2> QED BY <1>1, <1>2, <2>1, BitLow
<1>4. Bit(c) \subseteq (l + 3)..(k + 2)
    <2>1. l + 2 \in Nat /\ k + 2 \in Nat /\ k + 2 <= Width - 1 /\ (k + 2) - 1 = k + 1 /\ (l + 2) + 1 = l + 3
        BY <1>0
    <2> QED BY <1>1, <1>3, <2>1, BitLow
<1>5. c \subseteq (l + 4)..(k + 3)
    <2>1. l + 3 \in Nat /\ k + 3 \in Nat /\ k + 3 <= Width - 1 /\ (k + 3) - 1 = k + 2 /\ (l + 3) + 1 = l + 4
        BY <1>0
    <2> QED BY <1>4, <2>1, BitLow
<1> QED BY <1>5

LEMMA TurnsLow ==
    ASSUME NEW c \in SUBSET Register, NEW k \in Nat, k + 8 <= Width, Turns(c) \subseteq 0..(k - 1)
    PROVE  c \subseteq 8..(k + 7)
<1>0. Width \in Nat /\ Four(c) \in SUBSET Register
    BY WidthType, FourInjective
<1>1. Four(c) \subseteq 4..(k + 3)
    <2>1. k + 4 <= Width /\ 0 + 4 = 4
        BY <1>0
    <2> QED BY <1>0, <2>1, FourLow DEF Turns
<1>2. c \subseteq 8..(k + 7)
    <2>1. k + 4 \in Nat /\ (k + 4) + 4 <= Width /\ (k + 4) - 1 = k + 3 /\ (k + 4) + 3 = k + 7 /\ 4 + 4 = 8
        BY <1>0
    <2> QED BY <1>1, <2>1, FourLow
<1> QED BY <1>2

-----------------------------------------------------------------------------
(* Damage is always seen *)

\* How many bytes of damage may still come, in bits.
Room == IF Len(written) - first + 1 < Burst THEN 8 * (Burst - (Len(written) - first + 1)) ELSE 0

\* Equal registers over equal data; behind a difference they differ above all
\* the bits that the rest of the damage could still undo.
DamageInv ==
    /\ crc \in SUBSET Register /\ again \in SUBSET Register
    /\ written \in Seq(Bytes) /\ first \in Nat /\ first <= Len(written)
    /\ first = 0 => written = found /\ crc = again
    /\ first # 0 => ~(Xor(crc, again) \subseteq 0..(Room - 1))

LEMMA DamageStart == Init => DamageInv
BY DEF Init, DamageInv, Start, Register

LEMMA ByteTypes ==
    ASSUME NEW x \in Bytes, NEW y \in Bytes
    PROVE  /\ Xor(x, y) \in SUBSET Register /\ Xor(x, y) \subseteq 0..7
           /\ x = y => Xor(x, y) = {}
           /\ x # y => Xor(x, y) # {}
<1>1. x \subseteq 0..7 /\ y \subseteq 0..7
    BY CrcAssumption
<1>2. 0..7 \subseteq Register
    BY WidthType DEF Register
<1>3. Xor(x, y) \subseteq 0..7
    BY <1>1 DEF Xor
<1>4. x # y => Xor(x, y) # {}
    <2> SUFFICES ASSUME Xor(x, y) = {} PROVE x = y
        OBVIOUS
    <2>1. \A i : i \in x <=> i \in y
        BY XorMember
    <2> QED BY <2>1
<1>5. x = y => Xor(x, y) = {}
    BY DEF Xor
<1> QED BY <1>2, <1>3, <1>4, <1>5

LEMMA DamageByte ==
    ASSUME DamageInv, NEW b \in Bytes, NEW d \in Bytes, Byte(b, d)
    PROVE  DamageInv'
<1>1. /\ crc' = crc_byte(crc, b) /\ again' = crc_byte(again, d)
      /\ written' = Append(written, b) /\ found' = Append(found, d)
      /\ first' = IF first = 0 /\ b # d THEN Len(written') ELSE first
      /\ b # d => first = 0 \/ Len(written) < first + Burst - 1
    BY DEF Byte
<1>2. crc' \in SUBSET Register /\ again' \in SUBSET Register
    BY <1>1, ByteInjective DEF DamageInv
<1>3. written' \in Seq(Bytes) /\ Len(written') = Len(written) + 1 /\ Len(written) \in Nat
    BY <1>1 DEF DamageInv
<1>4. first \in Nat /\ first <= Len(written)
    BY DEF DamageInv
<1>5. first' \in Nat /\ first' <= Len(written')
    BY <1>1, <1>3, <1>4
<1> DEFINE D == Xor(crc, again)
           e == Xor(b, d)
           m == Len(written) - first + 1
<1>6. /\ D \in SUBSET Register /\ e \in SUBSET Register /\ Xor(D, e) \in SUBSET Register
      /\ e \subseteq 0..7 /\ (b = d => e = {}) /\ (b # d => e # {})
    BY ByteTypes, XorType DEF DamageInv
<1>7. Xor(crc', again') = Turns(Xor(D, e))
    BY <1>1, Difference DEF DamageInv
<1>8. Burst \in Nat /\ Width \in Nat /\ 8 * Burst <= Width /\ Width > 8
    BY CrcAssumption
<1>9. CASE first = 0 /\ b = d
    BY <1>1, <1>2, <1>3, <1>5, <1>9 DEF DamageInv
<1>10. CASE first = 0 /\ b # d
    <2>1. first' # 0 /\ Len(written') - first' + 1 = 1
        BY <1>1, <1>3, <1>10
    <2>2. Room' = IF 1 < Burst THEN 8 * (Burst - 1) ELSE 0
        BY <2>1 DEF Room
    <2>3. Room' \in Nat /\ Room' + 8 <= Width
        BY <1>8, <2>2
    <2>4. Xor(D, e) = e
        <3>1. crc = again
            BY <1>10 DEF DamageInv
        <3> QED BY <3>1 DEF Xor
    <2>5. ASSUME Xor(crc', again') \subseteq 0..(Room' - 1) PROVE FALSE
        <3>1. e \subseteq 8..(Room' + 7)
            BY <1>6, <1>7, <2>3, <2>4, <2>5, TurnsLow
        <3>2. ASSUME NEW i \in e PROVE FALSE
            <4>1. i \in 0..7 /\ i \in 8..(Room' + 7)
                BY <1>6, <3>1
            <4> QED BY <2>3, <4>1
        <3> QED BY <1>6, <1>10, <3>2
    <2> QED BY <1>2, <1>3, <1>5, <2>1, <2>5 DEF DamageInv
<1>11. CASE first # 0
    <2>1. first' = first /\ Len(written') - first' + 1 = m + 1 /\ m \in Nat
        BY <1>1, <1>3, <1>4, <1>11
    <2>2. Room' = IF m + 1 < Burst THEN 8 * (Burst - (m + 1)) ELSE 0
        BY <2>1 DEF Room
    <2>3. Room' \in Nat /\ Room' + 8 <= Width
        BY <1>8, <2>1, <2>2
    <2>4. Room = IF m < Burst THEN 8 * (Burst - m) ELSE 0
        BY DEF Room
    <2>5. ~(D \subseteq 0..(Room - 1))
        BY <1>11 DEF DamageInv
    <2>6. b # d => m < Burst
        BY <1>1, <1>3, <1>4, <1>8, <1>11
    <2>7. ASSUME Xor(crc', again') \subseteq 0..(Room' - 1) PROVE FALSE
        <3>1. Xor(D, e) \subseteq 8..(Room' + 7)
            BY <1>6, <1>7, <2>3, <2>7, TurnsLow
        <3>2. CASE m < Burst
            <4>1. Room' + 7 = Room - 1 /\ Room \in Nat /\ Room >= 8
                <5>1. Room = 8 * (Burst - m)
                    BY <2>4, <3>2
                <5> HIDE DEF m
                <5>2. CASE m + 1 < Burst
                    <6>1. Room' = 8 * (Burst - (m + 1))
                        BY <2>2, <5>2
                    <6> QED BY <1>8, <2>1, <5>1, <5>2, <6>1
                <5>3. CASE m + 1 = Burst
                    <6>1. Room' = 0 /\ Room = 8
                        BY <1>8, <2>1, <2>2, <5>1, <5>3
                    <6> QED BY <6>1
                <5> QED BY <1>8, <2>1, <3>2, <5>2, <5>3
            <4>2. ASSUME NEW i \in D PROVE i \in 0..(Room - 1)
                <5>1. CASE i \in e
                    <6>1. i \in 0..7
                        BY <1>6, <5>1
                    <6> QED BY <4>1, <6>1
                <5>2. CASE i \notin e
                    <6>1. i \in Xor(D, e)
                        BY <4>2, <5>2, XorMember
                    <6>2. i \in 8..(Room' + 7)
                        BY <3>1, <6>1
                    <6> QED BY <4>1, <6>2
                <5> QED BY <5>1, <5>2
            <4> QED BY <2>5, <4>2
        <3>3. CASE ~(m < Burst)
            <4>1. e = {} /\ Room' = 0
                BY <1>6, <1>8, <2>1, <2>2, <2>6, <3>3
            <4>2. ASSUME NEW i \in D PROVE FALSE
                <5>1. i \in Xor(D, e)
                    BY <4>1, <4>2, XorMember
                <5>2. i \in 8..(0 + 7)
                    BY <3>1, <4>1, <5>1
                <5> QED BY <5>2
            <4> QED BY <2>5, <4>2
        <3> QED BY <3>2, <3>3
    <2> QED BY <1>2, <1>3, <1>5, <1>11, <2>1, <2>7 DEF DamageInv
<1> QED BY <1>9, <1>10, <1>11

LEMMA DamageNext == DamageInv /\ [Next]_vars => DamageInv'
<1>1. DamageInv /\ UNCHANGED vars => DamageInv'
    BY DEF vars, DamageInv, Room
<1> QED BY <1>1, DamageByte DEF Next

-----------------------------------------------------------------------------
(* The division, by induction over its steps *)

\* r[j] is what is left of m when its coefficients up to the j-th are gone.
Division(r, m, k) ==
    r = [j \in 0..k |->
           IF j = 0 THEN m
           ELSE IF j \in r[j - 1] THEN Xor(r[j - 1], Divisor(j)) ELSE r[j - 1]]

LEMMA DivisionStep ==
    ASSUME NEW r, NEW m, NEW k \in Nat, Division(r, m, k), NEW j \in 1..k
    PROVE  r[j] = IF j \in r[j - 1] THEN Xor(r[j - 1], Divisor(j)) ELSE r[j - 1]
<1>1. j \in 0..k /\ j # 0
    OBVIOUS
<1> QED BY <1>1 DEF Division

LEMMA DivisionsExist == ASSUME NEW m, NEW k \in Nat PROVE \E r : Division(r, m, k)
<1> DEFINE S == {l \in Nat : \E r : Division(r, m, l)}
<1>1. 0 \in S
    <2> DEFINE r == [j \in 0..0 |-> m]
    <2>1. Division(r, m, 0)
        BY DEF Division
    <2> QED BY <2>1
<1>2. ASSUME NEW l \in Nat, l \in S PROVE l + 1 \in S
    <2>1. PICK r : Division(r, m, l)
        BY <1>2
    <2> DEFINE last == IF l + 1 \in r[l] THEN Xor(r[l], Divisor(l + 1)) ELSE r[l]
               g == [j \in 0..(l + 1) |-> IF j = l + 1 THEN last ELSE r[j]]
    <2>2. ASSUME NEW j \in 0..(l + 1)
          PROVE  g[j] = IF j = 0 THEN m ELSE IF j \in g[j - 1] THEN Xor(g[j - 1], Divisor(j)) ELSE g[j - 1]
        <3>1. CASE j = l + 1
            <4>1. j # 0 /\ j - 1 = l /\ g[j - 1] = r[l] /\ g[j] = last
                BY <3>1
            <4> HIDE DEF g
            <4> QED BY <3>1, <4>1
        <3>2. CASE j \in 0..l
            <4>1. g[j] = r[j]
                BY <3>2
            <4>2. j = 0 => r[j] = m
                BY <2>1, <3>2 DEF Division
            <4>3. j # 0 => j \in 1..l /\ g[j - 1] = r[j - 1]
                BY <3>2
            <4>4. j # 0 => r[j] = IF j \in r[j - 1] THEN Xor(r[j - 1], Divisor(j)) ELSE r[j - 1]
                BY <2>1, <4>3, DivisionStep
            <4> HIDE DEF g
            <4> QED BY <4>1, <4>2, <4>3, <4>4
        <3> QED BY <3>1, <3>2
    <2>3. Division(g, m, l + 1)
        <3>1. g = [j \in 0..(l + 1) |-> g[j]]
            OBVIOUS
        <3> HIDE DEF g
        <3> QED BY <2>2, <3>1 DEF Division
    <2> QED BY <2>3
<1> HIDE DEF S
<1>3. k \in S
    BY <1>1, <1>2, EveryNatural
<1> QED BY <1>3 DEF S

LEMMA RemainderOf ==
    ASSUME NEW m, NEW k \in Nat
    PROVE  \E r : Division(r, m, k) /\ Remainder(m, k) = {j - k - 1 : j \in r[k]}
<1> DEFINE R == CHOOSE x : Division(x, m, k)
<1>1. Remainder(m, k) = {j - k - 1 : j \in R[k]}
    BY DEF Remainder, Division
<1>2. Division(R, m, k)
    BY DivisionsExist
<1> HIDE DEF R
<1> QED BY <1>1, <1>2

\* Coefficients behind the first k pass through the first k steps unchanged.
LEMMA DivisionBehind ==
    ASSUME NEW m, NEW s, NEW k \in Nat, NEW l \in Nat, k <= l, \A x \in s : x \notin 0..k,
           NEW r, Division(r, m, k), NEW g, Division(g, Xor(m, s), l)
    PROVE  g[k] = Xor(r[k], s)
<1> DEFINE S == {j \in Nat : j <= k => g[j] = Xor(r[j], s)}
<1>1. 0 \in S
    <2>1. r[0] = m /\ g[0] = Xor(m, s)
        BY DEF Division
    <2> QED BY <2>1
<1>2. ASSUME NEW j \in Nat, j \in S PROVE j + 1 \in S
    <2> SUFFICES ASSUME j + 1 <= k PROVE g[j + 1] = Xor(r[j + 1], s)
        OBVIOUS
    <2>1. j + 1 \in 1..k /\ j + 1 \in 1..l /\ (j + 1) - 1 = j /\ j + 1 \in 0..k
        OBVIOUS
    <2>2. g[j] = Xor(r[j], s)
        BY <1>2, <2>1
    <2> DEFINE i == j + 1
               a == r[j]
               p == Divisor(i)
    <2>3. r[i] = IF i \in a THEN Xor(a, p) ELSE a
        BY <2>1, DivisionStep
    <2>4. g[i] = IF i \in g[j] THEN Xor(g[j], p) ELSE g[j]
        BY <2>1, DivisionStep
    <2>5. i \notin s
        BY <2>1
    <2> HIDE DEF i, a, p
    <2>6. i \in Xor(a, s) <=> i \in a
        BY <2>5, XorMember
    <2>7. Xor(Xor(a, s), p) = Xor(Xor(a, p), s)
        BY DEF Xor
    <2>8. g[j] = Xor(a, s)
        BY <2>2 DEF a
    <2>9. g[i] = Xor(r[i], s)
        BY <2>3, <2>4, <2>6, <2>7, <2>8
    <2> QED BY <2>9 DEF i
<1> HIDE DEF S
<1>3. k \in S
    BY <1>1, <1>2, EveryNatural
<1> QED BY <1>3 DEF S

\* The register's bits as coefficients, behind the first j of them.
Behind(j, c) == {j + 1 + i : i \in c}

LEMMA BehindMember ==
    ASSUME NEW j \in Nat, NEW c, c \subseteq Nat
    PROVE  /\ Behind(j, c) \subseteq Nat /\ \A x \in Behind(j, c) : x > j
           /\ \A i \in Nat : j + 1 + i \in Behind(j, c) <=> i \in c
<1>1. ASSUME NEW x \in Behind(j, c) PROVE x \in Nat /\ x > j
    <2>1. PICK i \in c : x = j + 1 + i
        BY DEF Behind
    <2>2. i \in Nat
        OBVIOUS
    <2> QED BY <2>1, <2>2
<1>2. ASSUME NEW i \in Nat, j + 1 + i \in Behind(j, c) PROVE i \in c
    <2>1. PICK h \in c : j + 1 + i = j + 1 + h
        BY <1>2 DEF Behind
    <2>2. h \in Nat
        OBVIOUS
    <2>3. h = i
        BY <2>1, <2>2
    <2> QED BY <2>3
<1>3. ASSUME NEW i \in c PROVE j + 1 + i \in Behind(j, c)
    BY DEF Behind
<1> QED BY <1>1, <1>2, <1>3

\* Two sets of coefficients behind the j-th are told apart there.
LEMMA BehindSame ==
    ASSUME NEW j \in Nat, NEW a, a \subseteq Nat, NEW c, c \subseteq Nat, \A x \in a : x > j,
           \A i \in Nat : j + 1 + i \in a <=> i \in c
    PROVE  a = Behind(j, c)
<1>1. ASSUME NEW x PROVE x \in a <=> x \in Behind(j, c)
    <2>1. CASE x \in Nat /\ x > j
        <3>1. PICK i \in Nat : x = j + 1 + i
            <4>1. x - j - 1 \in Nat /\ x = j + 1 + (x - j - 1)
                BY <2>1
            <4> QED BY <4>1
        <3> QED BY <3>1, BehindMember
    <2>2. CASE ~(x \in Nat /\ x > j)
        BY <2>2, BehindMember
    <2> QED BY <2>1, <2>2
<1> QED BY <1>1

\* A step of the division is a turn of the bit loop.
LEMMA DivisionIsBit ==
    ASSUME NEW j \in Nat, NEW c \in SUBSET Register, NEW r, r = Behind(j, c)
    PROVE  Behind(j + 1, Bit(c)) = IF j + 1 \in r THEN Xor(r, Divisor(j + 1)) ELSE r
<1> DEFINE q == Divisor(j + 1)
           s == IF j + 1 \in r THEN Xor(r, q) ELSE r
<1>1. c \subseteq Nat /\ Bit(c) \in SUBSET Register /\ Bit(c) \subseteq Nat /\ Poly \subseteq Nat /\ Register \subseteq Nat
    <2>1. Register \subseteq Nat
        BY DEF Register
    <2> QED BY <2>1, BitType, WidthType
<1>2. j + 1 \in r <=> 0 \in c
    <2>1. 0 \in Nat /\ j + 1 + 0 = j + 1
        OBVIOUS
    <2> QED BY <1>1, <2>1, BehindMember
<1>3. q \subseteq Nat /\ j + 1 \in q /\ \A x \in q : x >= j + 1
    <2>1. q = {j + 1} \cup {(j + 1) + 1 + i : i \in Poly}
        BY DEF Divisor
    <2>2. \A i \in Poly : i \in Nat /\ (j + 1) + 1 + i \in Nat /\ (j + 1) + 1 + i >= j + 1
        BY <1>1
    <2> HIDE DEF q
    <2> QED BY <2>1, <2>2
<1>4. ASSUME NEW i \in Nat PROVE (j + 1) + 1 + i \in q <=> i \in Poly
    <2>1. q = {j + 1} \cup Behind(j + 1, Poly)
        BY DEF Divisor, Behind
    <2>2. (j + 1) + 1 + i # j + 1 /\ j + 1 \in Nat
        OBVIOUS
    <2> HIDE DEF q
    <2> QED BY <1>1, <2>1, <2>2, BehindMember
<1>5. ASSUME NEW i \in Nat PROVE (j + 1) + 1 + i \in r <=> i \in Shift(c)
    <2>1. (j + 1) + 1 + i = j + 1 + (i + 1) /\ i + 1 \in Nat
        OBVIOUS
    <2>2. j + 1 + (i + 1) \in r <=> i + 1 \in c
        BY <1>1, <2>1, BehindMember
    <2> QED BY <2>1, <2>2, ShiftMember
<1>6. r \subseteq Nat /\ \A x \in r : x > j
    BY <1>1, BehindMember
<1> HIDE DEF q
<1>7. s \subseteq Nat /\ \A x \in s : x > j + 1
    <2>1. s \subseteq Nat
        BY <1>3, <1>6 DEF Xor
    <2>2. j + 1 \notin s
        BY <1>3, XorMember
    <2>3. \A x \in s : x >= j + 1
        <3>1. \A x \in r : x >= j + 1
            BY <1>6
        <3> QED BY <1>3, <3>1 DEF Xor
    <2> HIDE DEF s
    <2> QED BY <2>1, <2>2, <2>3
<1>8. ASSUME NEW i \in Nat PROVE (j + 1) + 1 + i \in s <=> i \in Bit(c)
    <2>1. CASE 0 \in c
        <3>1. s = Xor(r, q) /\ Bit(c) = Xor(Shift(c), Poly)
            BY <1>2, <2>1 DEF Bit
        <3> HIDE DEF s
        <3> QED BY <1>4, <1>5, <3>1, XorMember
    <2>2. CASE 0 \notin c
        <3>1. s = r /\ Bit(c) = Shift(c)
            BY <1>2, <2>2 DEF Bit
        <3> HIDE DEF s
        <3> QED BY <1>5, <3>1
    <2> QED BY <2>1, <2>2
<1>9. s = Behind(j + 1, Bit(c))
    <2> HIDE DEF s
    <2>1. j + 1 \in Nat
        OBVIOUS
    <2> QED BY <1>1, <1>7, <1>8, <2>1, BehindSame
<1> QED BY <1>9 DEF q

LEMMA DivisionIsFour ==
    ASSUME NEW r, NEW m, NEW k \in Nat, Division(r, m, k), NEW j \in Nat, j + 4 <= k,
           NEW c \in SUBSET Register, r[j] = Behind(j, c)
    PROVE  r[j + 4] = Behind(j + 4, Four(c))
<1>1. ASSUME NEW h \in Nat, h + 1 <= k, NEW d \in SUBSET Register, r[h] = Behind(h, d)
      PROVE  r[h + 1] = Behind(h + 1, Bit(d)) /\ Bit(d) \in SUBSET Register
    <2>1. h + 1 \in 1..k /\ (h + 1) - 1 = h
        BY <1>1
    <2>2. r[h + 1] = IF h + 1 \in r[h] THEN Xor(r[h], Divisor(h + 1)) ELSE r[h]
        BY <2>1, DivisionStep
    <2> QED BY <1>1, <2>2, DivisionIsBit, BitType
<1>2. r[j + 1] = Behind(j + 1, Bit(c)) /\ Bit(c) \in SUBSET Register
    BY <1>1
<1>3. r[j + 2] = Behind(j + 2, Bit(Bit(c))) /\ Bit(Bit(c)) \in SUBSET Register
    <2>1. j + 1 \in Nat /\ (j + 1) + 1 <= k /\ (j + 1) + 1 = j + 2
        OBVIOUS
    <2> QED BY <1>1, <1>2, <2>1
<1>4. r[j + 3] = Behind(j + 3, Bit(Bit(Bit(c)))) /\ Bit(Bit(Bit(c))) \in SUBSET Register
    <2>1. j + 2 \in Nat /\ (j + 2) + 1 <= k /\ (j + 2) + 1 = j + 3
        OBVIOUS
    <2> QED BY <1>1, <1>3, <2>1
<1>5. r[j + 4] = Behind(j + 4, Bit(Bit(Bit(Bit(c)))))
    <2>1. j + 3 \in Nat /\ (j + 3) + 1 <= k /\ (j + 3) + 1 = j + 4
        OBVIOUS
    <2> QED BY <1>1, <1>4, <2>1
<1> QED BY <1>5 DEF Four

\* The coefficients of one more byte stand behind those of the others.
LEMMA MessageAppend ==
    ASSUME NEW w \in Seq(Bytes), NEW b \in Bytes
    PROVE  /\ Message(w) \subseteq 1..(8 * Len(w))
           /\ Message(Append(w, b)) = Xor(Message(w), Behind(8 * Len(w), b))
<1> DEFINE l == Len(w)
           a == Append(w, b)
           M == Message(w)
           N == Message(a)
<1>1. l \in Nat /\ Len(a) = l + 1 /\ a[l + 1] = b /\ \A i \in 1..l : a[i] = w[i]
    OBVIOUS
<1>2. b \subseteq 0..7
    BY CrcAssumption
<1>3. M = {j \in 1..(8 * l) : (j - 1) % 8 \in w[(j - 1) \div 8 + 1]}
    BY DEF Message
<1>4. N = {j \in 1..(8 * (l + 1)) : (j - 1) % 8 \in a[(j - 1) \div 8 + 1]}
    BY <1>1 DEF Message
<1> HIDE DEF l, a, M, N
<1>5. ASSUME NEW j \in 1..(8 * l) PROVE j \in N <=> j \in M
    <2>1. j \in 1..(8 * (l + 1))
        BY <1>1
    <2>2. (j - 1) \div 8 + 1 \in 1..l
        BY <1>1
    <2>3. a[(j - 1) \div 8 + 1] = w[(j - 1) \div 8 + 1]
        BY <1>1, <2>2
    <2> QED BY <1>3, <1>4, <2>1, <2>3
<1>6. ASSUME NEW j \in (8 * l + 1)..(8 * l + 8) PROVE j \in N <=> j - 1 - 8 * l \in b
    <2>1. j \in 1..(8 * (l + 1))
        BY <1>1
    <2>2. (j - 1) \div 8 = l /\ (j - 1) % 8 = j - 1 - 8 * l
        BY <1>1
    <2> QED BY <1>1, <1>4, <2>1, <2>2
<1>7. N \subseteq 1..(8 * l + 8) /\ M \subseteq 1..(8 * l)
    BY <1>1, <1>3, <1>4
<1>8. 8 * l \in Nat /\ b \subseteq Nat
    BY <1>1, <1>2
<1>9. Behind(8 * l, b) \subseteq (8 * l + 1)..(8 * l + 8)
    BY <1>1, <1>2 DEF Behind
<1>10. ASSUME NEW j \in 1..(8 * l + 8) PROVE j \in N <=> j \in Xor(M, Behind(8 * l, b))
    <2>1. CASE j \in 1..(8 * l)
        <3>1. j \notin Behind(8 * l, b)
            BY <1>1, <1>9, <2>1
        <3> QED BY <1>5, <2>1, <3>1, XorMember
    <2>2. CASE j \in (8 * l + 1)..(8 * l + 8)
        <3>1. j \notin M
            BY <1>1, <1>7, <2>2
        <3>2. PICK i \in Nat : i = j - 1 - 8 * l /\ 8 * l + 1 + i = j
            BY <1>1, <2>2
        <3>3. j \in Behind(8 * l, b) <=> j - 1 - 8 * l \in b
            <4>1. 8 * l + 1 + i \in Behind(8 * l, b) <=> i \in b
                BY <1>8, BehindMember
            <4> QED BY <3>2, <4>1
        <3> QED BY <1>6, <2>2, <3>1, <3>3, XorMember
    <2> QED BY <1>1, <2>1, <2>2
<1>11. Xor(M, Behind(8 * l, b)) \subseteq 1..(8 * l + 8)
    <2>1. 1..(8 * l) \subseteq 1..(8 * l + 8) /\ (8 * l + 1)..(8 * l + 8) \subseteq 1..(8 * l + 8)
        BY <1>1
    <2>2. M \subseteq 1..(8 * l + 8) /\ Behind(8 * l, b) \subseteq 1..(8 * l + 8)
        BY <1>7, <1>9, <2>1, Zenon
    <2> QED BY <2>2, Zenon DEF Xor
<1>12. N = Xor(M, Behind(8 * l, b))
    BY <1>7, <1>10, <1>11
<1> QED BY <1>7, <1>12 DEF l, a, M, N

-----------------------------------------------------------------------------
(* crc32() computes the remainder *)

\* What the register holds is what the division of the data so far has left.
RemainderInv ==
    /\ crc \in SUBSET Register /\ written \in Seq(Bytes)
    /\ \E r : /\ Division(r, Xor(Message(written), 1..Width), 8 * Len(written))
              /\ r[8 * Len(written)] = Behind(8 * Len(written), crc)

LEMMA RemainderStart == Init => RemainderInv
<1> SUFFICES ASSUME Init PROVE RemainderInv
    OBVIOUS
<1>1. crc = Register /\ written = <<>>
    BY DEF Init, Start
<1>2. Len(written) = 0 /\ 8 * Len(written) = 0 /\ written \in Seq(Bytes)
    BY <1>1
<1> DEFINE m == Xor(Message(written), 1..Width)
<1>3. m = 1..Width
    <2>1. Message(written) = {}
        BY <1>2 DEF Message
    <2> QED BY <2>1 DEF Xor
<1>4. PICK r : Division(r, m, 0)
    BY DivisionsExist
<1>5. r[0] = m
    BY <1>4 DEF Division
<1>6. Behind(0, Register) = 1..Width
    <2>1. \A i \in Register : 0 + 1 + i \in 1..Width
        BY WidthType DEF Register
    <2>2. \A x \in 1..Width : x - 1 \in Register /\ x = 0 + 1 + (x - 1)
        BY WidthType DEF Register
    <2> QED BY <2>1, <2>2 DEF Behind
<1> QED BY <1>1, <1>2, <1>3, <1>4, <1>5, <1>6 DEF RemainderInv

LEMMA RemainderByte ==
    ASSUME RemainderInv, NEW b \in Bytes, NEW d \in Bytes, Byte(b, d)
    PROVE  RemainderInv'
<1> DEFINE l == Len(written)
           m == Xor(Message(written), 1..Width)
           e == 8 * l
<1>1. crc' = crc_byte(crc, b) /\ written' = Append(written, b)
    BY DEF Byte
<1>2. crc \in SUBSET Register /\ written \in Seq(Bytes) /\ l \in Nat /\ e \in Nat
    BY DEF RemainderInv
<1>3. crc' \in SUBSET Register /\ written' \in Seq(Bytes) /\ Len(written') = l + 1 /\ 8 * Len(written') = e + 8
    BY <1>1, <1>2, ByteInjective
<1>4. b \in SUBSET Register /\ b \subseteq Nat /\ Xor(crc, b) \in SUBSET Register
    <2>1. b \subseteq 0..7 /\ 0..7 \subseteq Register
        BY CrcAssumption, WidthType DEF Register
    <2>2. Register \subseteq Nat
        BY DEF Register
    <2> QED BY <1>2, <2>1, <2>2, XorType
<1>5. PICK r : Division(r, m, e) /\ r[e] = Behind(e, crc)
    BY DEF RemainderInv
<1> DEFINE s == Behind(e, b)
<1>6. Xor(Message(written'), 1..Width) = Xor(m, s)
    <2>1. Message(written') = Xor(Message(written), s)
        BY <1>1, <1>2, MessageAppend
    <2> QED BY <2>1 DEF Xor
<1> HIDE DEF l, m, e
<1>7. e + 8 \in Nat /\ e <= e + 8
    BY <1>2
<1>8. PICK g : Division(g, Xor(m, s), e + 8)
    BY <1>7, DivisionsExist
<1>9. g[e] = Xor(r[e], s)
    <2>1. \A x \in s : x \notin 0..e
        <3>1. \A x \in s : x \in Nat /\ x > e
            BY <1>2, <1>4, BehindMember
        <3> QED BY <1>2, <3>1
    <2> HIDE DEF s
    <2> QED BY <1>2, <1>5, <1>7, <1>8, <2>1, DivisionBehind
<1>10. g[e] = Behind(e, Xor(crc, b))
    <2>1. crc \subseteq Nat /\ Xor(crc, b) \subseteq Nat
        <3>1. Register \subseteq Nat
            BY DEF Register
        <3> QED BY <1>2, <1>4, <3>1
    <2>2. /\ g[e] \subseteq Nat /\ \A x \in g[e] : x > e
        <3>1. Behind(e, crc) \subseteq Nat /\ s \subseteq Nat /\ \A x \in Behind(e, crc) \cup s : x > e
            BY <1>2, <1>4, <2>1, BehindMember
        <3> HIDE DEF s
        <3> QED BY <1>5, <1>9, <3>1 DEF Xor
    <2>3. ASSUME NEW i \in Nat PROVE e + 1 + i \in g[e] <=> i \in Xor(crc, b)
        <3>1. e + 1 + i \in Behind(e, crc) <=> i \in crc
            BY <1>2, <2>1, BehindMember
        <3>2. e + 1 + i \in s <=> i \in b
            BY <1>2, <1>4, BehindMember
        <3> HIDE DEF s
        <3> QED BY <1>5, <1>9, <3>1, <3>2, XorMember
    <2> QED BY <1>2, <2>1, <2>2, <2>3, BehindSame
<1>11. g[e + 4] = Behind(e + 4, Four(Xor(crc, b)))
    BY <1>2, <1>4, <1>7, <1>8, <1>10, DivisionIsFour
<1>12. g[e + 8] = Behind(e + 8, crc')
    <2>1. e + 4 \in Nat /\ (e + 4) + 4 = e + 8 /\ Four(Xor(crc, b)) \in SUBSET Register
        BY <1>2, <1>4, FourInjective
    <2>2. g[(e + 4) + 4] = Behind((e + 4) + 4, Four(Four(Xor(crc, b))))
        BY <1>7, <1>8, <1>11, <2>1, DivisionIsFour
    <2> QED BY <1>1, <2>1, <2>2 DEF crc_byte
<1> QED BY <1>3, <1>6, <1>8, <1>12 DEF RemainderInv

LEMMA RemainderNext == RemainderInv /\ [Next]_vars => RemainderInv'
<1>1. RemainderInv /\ UNCHANGED vars => RemainderInv'
    BY DEF vars, RemainderInv
<1> QED BY <1>1, RemainderByte DEF Next

LEMMA RemainderAgrees == RemainderInv => Agrees
<1> SUFFICES ASSUME RemainderInv PROVE Agrees
    OBVIOUS
<1> DEFINE e == 8 * Len(written)
           m == Xor(Message(written), 1..Width)
<1>1. e \in Nat /\ crc \in SUBSET Register
    BY DEF RemainderInv
<1>2. PICK r : Division(r, m, e) /\ r[e] = Behind(e, crc)
    BY DEF RemainderInv
<1>3. PICK g : Division(g, m, e) /\ Remainder(m, e) = {j - e - 1 : j \in g[e]}
    BY <1>1, RemainderOf
<1> HIDE DEF e, m
<1>4. g[e] = r[e]
    <2>1. Xor(m, {}) = m /\ Xor(r[e], {}) = r[e] /\ e <= e
        BY <1>1 DEF Xor
    <2>2. Division(g, Xor(m, {}), e)
        BY <1>3, <2>1
    <2>3. g[e] = Xor(r[e], {})
        BY <1>1, <1>2, <2>1, <2>2, DivisionBehind
    <2> QED BY <2>1, <2>3
<1>5. Remainder(m, e) = crc
    <2>1. \A i \in crc : i \in Nat
        BY <1>1 DEF Register
    <2>2. Behind(e, crc) = {e + 1 + i : i \in crc}
        BY DEF Behind
    <2>3. \A i \in crc : (e + 1 + i) - e - 1 = i
        BY <1>1, <2>1
    <2> QED BY <1>2, <1>3, <1>4, <2>2, <2>3
<1>6. Xor(Register, crc) = Result(crc)
    BY <1>1 DEF Xor, Result
<1> QED BY <1>5, <1>6 DEF Agrees, Reference, m, e

-----------------------------------------------------------------------------
(* What holds of one input holds of all of them: those of the others rest *)

LEMMA CrcStep == InputNext => [Next]_vars
BY DEF InputNext, crcVars

LEMMA CrcBegins == InputInit => Init
BY DEF InputInit, CrcRests, Init

\* Both registers keep to their width, for any polynomial of that width.
THEOREM TypeCorrect == InputSpec => []TypeOK
<1>1. InputInit => DamageInv
    BY CrcBegins, DamageStart
<1>2. DamageInv /\ [InputNext]_inputVars => DamageInv'
    <2>1. UNCHANGED inputVars => UNCHANGED vars
        BY DEF inputVars, crcVars
    <2> QED BY <2>1, CrcStep, DamageNext
<1>3. DamageInv => TypeOK
    BY DEF DamageInv, TypeOK
<1> QED BY <1>1, <1>2, <1>3, PTL DEF InputSpec

\* Whatever happens to no more bytes in a row than the register has, wherever
\* they are in data of any length, changes the CRC: a byte that a reset left
\* half written in the record or in a page never passes for the right one.
THEOREM DamageDetected == InputSpec => []Detected
<1>1. InputInit => DamageInv
    BY CrcBegins, DamageStart
<1>2. DamageInv /\ [InputNext]_inputVars => DamageInv'
    <2>1. UNCHANGED inputVars => UNCHANGED vars
        BY DEF inputVars, crcVars
    <2> QED BY <2>1, CrcStep, DamageNext
<1>3. DamageInv => Detected
    <2> SUFFICES ASSUME DamageInv, written # found PROVE Result(crc) # Result(again)
        BY DEF Detected
    <2>1. crc # again
        <3> SUFFICES ASSUME crc = again PROVE FALSE
            OBVIOUS
        <3>1. first # 0
            BY DEF DamageInv
        <3>2. Xor(crc, again) = {}
            BY DEF Xor
        <3> QED BY <3>1, <3>2 DEF DamageInv
    <2>2. \A i \in Register : (i \in Result(crc) <=> i \notin crc) /\ (i \in Result(again) <=> i \notin again)
        BY DEF Result
    <2> QED BY <2>1, <2>2 DEF DamageInv
<1> QED BY <1>1, <1>2, <1>3, PTL DEF InputSpec

\* The bit loop of crc_byte() computes, for data of any length, the remainder
\* that docs/EEPROM.md names and that the record generators take from zlib.
THEOREM RemainderComputed == InputSpec => []Agrees
<1>1. InputInit => RemainderInv
    BY CrcBegins, RemainderStart
<1>2. RemainderInv /\ [InputNext]_inputVars => RemainderInv'
    <2>1. UNCHANGED inputVars => UNCHANGED vars
        BY DEF inputVars, crcVars
    <2> QED BY <2>1, CrcStep, RemainderNext
<1> QED BY <1>1, <1>2, RemainderAgrees, PTL DEF InputSpec

-----------------------------------------------------------------------------
(* dhcp_parse() *)

\* Nothing of a message that is dropped is kept: the offer, or mask, gateway
\* and DNS server, change only with the last step of one that is taken.
THEOREM TakenWhole == InputSpec => OffersWhole
<1>1. [InputNext]_inputVars => (input = "dhcp" => Dhcp!NothingHalfTaken)
    <2> SUFFICES ASSUME [InputNext]_inputVars, input = "dhcp", statics' # statics \/ config' # config
                 PROVE  pc' = "taken"
        BY DEF Dhcp!NothingHalfTaken
    <2>1. Dhcp!Next
        <3>1. (statics' = statics /\ config' = config) \/ InputNext
            BY DEF inputVars, dhcpVars
        <3> QED BY <3>1 DEF InputNext
    <2> QED BY <2>1 DEF Dhcp!Next, Dhcp!Header, Dhcp!Pad, Dhcp!End, Dhcp!Truncated, Dhcp!Drop, Dhcp!Option,
                        Dhcp!Offer, Dhcp!Ack, Dhcp!Refuse
<1> QED BY <1>1, PTL DEF InputSpec, OffersWhole

\* What the message is known to be.
DhcpGiven == message \in Messages /\ kind \in {2, 5}

DhcpOption == [opt : Dhcp!Octet, value : Seq(Dhcp!Octet)]
OptionAt(k) == [opt |-> Dhcp!Byte(k), value |-> SubSeq(Dhcp!options, k + 3, k + 2 + Dhcp!Byte(k + 1))]

LEMMA MessageType ==
    ASSUME DhcpGiven
    PROVE  /\ message.ours \in BOOLEAN /\ message.yiaddr \in Dhcp!Address
           /\ Dhcp!options \in Seq(Dhcp!Octet) /\ Dhcp!n \in Nat /\ Dhcp!n = Len(Dhcp!options)
           /\ \A k \in Nat : Dhcp!Byte(k) \in 0..255
           /\ \A k \in Nat : k < Dhcp!n => Dhcp!Byte(k) = Dhcp!options[k + 1]
<1>1. message.ours \in BOOLEAN /\ message.yiaddr \in Dhcp!Address /\ message.options \in Seq(Dhcp!Octet)
    BY InputAssumption DEF DhcpGiven, Dhcp!MessageAssumption
<1>2. Dhcp!options \in Seq(Dhcp!Octet) /\ Dhcp!n \in Nat /\ Dhcp!n = Len(Dhcp!options)
    BY <1>1 DEF Dhcp!options, Dhcp!n
<1>3. ASSUME NEW k \in Nat PROVE Dhcp!Byte(k) \in 0..255
    <2>1. k < Dhcp!n => Dhcp!options[k + 1] \in Dhcp!Octet
        BY <1>2
    <2> QED BY <2>1 DEF Dhcp!Byte, Dhcp!Octet
<1>4. \A k \in Nat : k < Dhcp!n => Dhcp!Byte(k) = Dhcp!options[k + 1]
    BY DEF Dhcp!Byte
<1> QED BY <1>1, <1>2, <1>3, <1>4

\* The lists of options by where they begin, from position a on.
Table(l, a) ==
    l = [k \in a..(Dhcp!n + 256) |->
          CASE k >= Dhcp!n -> {}
            [] k < Dhcp!n /\ Dhcp!Byte(k) = 255 -> {<<>>}
            [] k < Dhcp!n /\ Dhcp!Byte(k) = 0 -> l[k + 1]
            [] OTHER ->
                 IF k + 1 >= Dhcp!n \/ k + 2 + Dhcp!Byte(k + 1) > Dhcp!n THEN {}
                 ELSE {<<[opt |-> Dhcp!Byte(k), value |-> SubSeq(Dhcp!options, k + 3, k + 2 + Dhcp!Byte(k + 1))]>> \o rest :
                         rest \in l[k + 2 + Dhcp!Byte(k + 1)]}]

\* An option without a length byte, or longer than what is left.
Torn(k) == k + 1 >= Dhcp!n \/ k + 2 + Dhcp!Byte(k + 1) > Dhcp!n

\* An entry, from those behind it.
Entry(l, k) ==
    IF k >= Dhcp!n THEN {}
    ELSE IF Dhcp!Byte(k) = 255 THEN {<<>>}
    ELSE IF Dhcp!Byte(k) = 0 THEN l[k + 1]
    ELSE IF Torn(k) THEN {}
    ELSE {<<OptionAt(k)>> \o rest : rest \in l[k + 2 + Dhcp!Byte(k + 1)]}

LEMMA TableEntries ==
    ASSUME DhcpGiven, NEW l, NEW a \in Nat
    PROVE  Table(l, a) <=> l = [k \in a..(Dhcp!n + 256) |-> Entry(l, k)]
<1>1. Dhcp!n \in Nat
    BY MessageType
<1>2. ASSUME NEW k \in a..(Dhcp!n + 256)
      PROVE  Entry(l, k) =
          CASE k >= Dhcp!n -> {}
            [] k < Dhcp!n /\ Dhcp!Byte(k) = 255 -> {<<>>}
            [] k < Dhcp!n /\ Dhcp!Byte(k) = 0 -> l[k + 1]
            [] OTHER ->
                 IF k + 1 >= Dhcp!n \/ k + 2 + Dhcp!Byte(k + 1) > Dhcp!n THEN {}
                 ELSE {<<[opt |-> Dhcp!Byte(k), value |-> SubSeq(Dhcp!options, k + 3, k + 2 + Dhcp!Byte(k + 1))]>> \o rest :
                         rest \in l[k + 2 + Dhcp!Byte(k + 1)]}
    <2>1. k \in Int /\ (k < Dhcp!n <=> ~(k >= Dhcp!n))
        BY <1>1
    <2>2. CASE k >= Dhcp!n
        BY <2>1, <2>2 DEF Entry
    <2>3. CASE k < Dhcp!n /\ Dhcp!Byte(k) = 255
        BY <2>1, <2>3 DEF Entry
    <2>4. CASE k < Dhcp!n /\ Dhcp!Byte(k) = 0
        BY <2>1, <2>4 DEF Entry
    <2>5. CASE k < Dhcp!n /\ Dhcp!Byte(k) # 0 /\ Dhcp!Byte(k) # 255
        BY <2>1, <2>5 DEF Entry, Torn, OptionAt
    <2>6. \/ k >= Dhcp!n
          \/ k < Dhcp!n /\ Dhcp!Byte(k) = 255
          \/ k < Dhcp!n /\ Dhcp!Byte(k) = 0
          \/ k < Dhcp!n /\ Dhcp!Byte(k) # 0 /\ Dhcp!Byte(k) # 255
        BY <2>1, Zenon
    <2> QED BY <2>2, <2>3, <2>4, <2>5, <2>6, Zenon
<1> QED BY <1>2, ZenonT(40) DEF Table

LEMMA EntrySame ==
    ASSUME DhcpGiven, NEW k \in 0..(Dhcp!n + 256), NEW l, NEW g,
           \A j \in (k + 1)..(Dhcp!n + 256) : g[j] = l[j]
    PROVE  Entry(g, k) = Entry(l, k)
<1>1. Dhcp!n \in Nat /\ k \in Nat /\ Dhcp!Byte(k + 1) \in 0..255
    <2>1. Dhcp!n \in Nat
        BY MessageType
    <2>2. k \in Nat /\ k + 1 \in Nat
        BY <2>1
    <2> QED BY <2>1, <2>2, MessageType
<1>2. k < Dhcp!n => k + 1 \in (k + 1)..(Dhcp!n + 256)
    BY <1>1
<1>3. ~Torn(k) => k + 2 + Dhcp!Byte(k + 1) \in (k + 1)..(Dhcp!n + 256)
    BY <1>1 DEF Torn
<1>4. CASE k >= Dhcp!n \/ Dhcp!Byte(k) = 255 \/ Torn(k)
    BY <1>1, <1>2, <1>4 DEF Entry
<1>5. CASE k < Dhcp!n /\ Dhcp!Byte(k) = 0
    BY <1>2, <1>5 DEF Entry
<1>6. CASE ~Torn(k)
    <2>1. g[k + 2 + Dhcp!Byte(k + 1)] = l[k + 2 + Dhcp!Byte(k + 1)]
        BY <1>3, <1>6
    <2>2. k < Dhcp!n => g[k + 1] = l[k + 1]
        BY <1>2
    <2> QED BY <1>1, <2>1, <2>2 DEF Entry
<1> QED BY <1>1, <1>4, <1>5, <1>6

LEMMA TablesExist == DhcpGiven => \E l : Table(l, 0)
<1> SUFFICES ASSUME DhcpGiven PROVE \E l : Table(l, 0)
    OBVIOUS
<1> DEFINE N == Dhcp!n + 256
           S == {d \in Nat : d <= N => \E l : l = [k \in (N - d)..N |-> Entry(l, k)]}
<1>1. N \in Nat /\ Dhcp!n \in Nat
    BY MessageType
<1> HIDE DEF N
<1>2. 0 \in S
    <2> DEFINE g == [k \in N..N |-> {}]
    <2>1. \A k \in N..N : Entry(g, k) = {}
        BY <1>1 DEF Entry, N
    <2>2. g = [k \in N..N |-> Entry(g, k)] /\ N - 0 = N
        BY <1>1, <2>1
    <2> QED BY <1>1, <2>2
<1>3. ASSUME NEW d \in Nat, d \in S PROVE d + 1 \in S
    <2> SUFFICES ASSUME d + 1 <= N PROVE \E l : l = [k \in (N - (d + 1))..N |-> Entry(l, k)]
        OBVIOUS
    <2>1. d <= N
        BY <1>1
    <2>2. PICK l : l = [k \in (N - d)..N |-> Entry(l, k)]
        BY <1>3, <2>1
    <2> DEFINE a == N - (d + 1)
               g == [k \in a..N |-> IF k = a THEN Entry(l, k) ELSE l[k]]
    <2>3. a \in 0..N /\ a + 1 = N - d
        BY <1>1
    <2>4. \A j \in (a + 1)..N : g[j] = l[j]
        BY <1>1, <2>3
    <2>5. g[a] = Entry(l, a)
        BY <1>1, <2>3
    <2>6. g = [k \in a..N |-> g[k]]
        OBVIOUS
    <2> HIDE DEF g, a
    <2>7. ASSUME NEW k \in a..N PROVE g[k] = Entry(g, k)
        <3>1. k \in 0..N /\ (k = a \/ k \in (a + 1)..N) /\ \A j \in (k + 1)..N : j \in (a + 1)..N
            BY <1>1, <2>3
        <3>2. Entry(g, k) = Entry(l, k)
            BY <2>4, <3>1, EntrySame DEF N
        <3>3. k \in (a + 1)..N => l[k] = Entry(l, k)
            BY <2>2, <2>3
        <3> QED BY <2>4, <2>5, <3>1, <3>2, <3>3
    <2>8. g = [k \in a..N |-> Entry(g, k)]
        BY <2>6, <2>7
    <2> QED BY <2>8 DEF a
<1> HIDE DEF S
<1>4. N \in S
    BY <1>1, <1>2, <1>3, EveryNatural
<1>5. PICK l : l = [k \in (N - N)..N |-> Entry(l, k)]
    BY <1>1, <1>4 DEF S
<1>6. N - N = 0
    BY <1>1
<1>7. l = [k \in 0..N |-> Entry(l, k)]
    BY <1>5, <1>6
<1>8. Table(l, 0)
    BY <1>7, TableEntries DEF N
<1> QED BY <1>8

\* A list of options, by its first one.
LEMMA ListsStep ==
    ASSUME DhcpGiven, NEW k \in 0..(Dhcp!n + 256)
    PROVE  /\ k >= Dhcp!n => Dhcp!Lists(k) = {}
           /\ k < Dhcp!n /\ Dhcp!Byte(k) = 255 => Dhcp!Lists(k) = {<<>>}
           /\ k < Dhcp!n /\ Dhcp!Byte(k) = 0 => Dhcp!Lists(k) = Dhcp!Lists(k + 1)
           /\ k < Dhcp!n /\ Dhcp!Byte(k) \notin {0, 255} =>
                 IF Torn(k) THEN Dhcp!Lists(k) = {}
                 ELSE Dhcp!Lists(k) = {<<OptionAt(k)>> \o rest : rest \in Dhcp!Lists(k + 2 + Dhcp!Byte(k + 1))}
<1> DEFINE R == CHOOSE x : Table(x, 0)
<1>1. \A j : Dhcp!Lists(j) = R[j]
    BY DEF Dhcp!Lists, Table
<1>2. Table(R, 0)
    BY TablesExist
<1> HIDE DEF R
<1>3. R = [j \in 0..(Dhcp!n + 256) |-> Entry(R, j)]
    BY <1>2, TableEntries
<1>4. Dhcp!Lists(k) = Entry(R, k)
    BY <1>1, <1>3
<1>5. Dhcp!n \in Nat
    BY MessageType
<1>6. k >= Dhcp!n => Entry(R, k) = {}
    BY DEF Entry
<1>7. k < Dhcp!n => ~(k >= Dhcp!n)
    BY <1>5
<1>8. k < Dhcp!n /\ Dhcp!Byte(k) = 255 => Entry(R, k) = {<<>>}
    BY <1>7 DEF Entry
<1>9. k < Dhcp!n /\ Dhcp!Byte(k) = 0 => Entry(R, k) = R[k + 1]
    BY <1>7 DEF Entry
<1>10. k < Dhcp!n /\ Dhcp!Byte(k) \notin {0, 255} =>
          Entry(R, k) = IF Torn(k) THEN {} ELSE {<<OptionAt(k)>> \o rest : rest \in R[k + 2 + Dhcp!Byte(k + 1)]}
    BY <1>7 DEF Entry
<1> QED BY <1>1, <1>4, <1>6, <1>8, <1>9, <1>10

LEMMA OptionType ==
    ASSUME DhcpGiven, NEW k \in Nat, ~Torn(k)
    PROVE  LET x == OptionAt(k)
               len == Dhcp!Byte(k + 1)
           IN  /\ x \in DhcpOption /\ x.opt = Dhcp!Byte(k) /\ Len(x.value) = len
               /\ len = 1 => x.value = <<Dhcp!Byte(k + 2)>>
               /\ len >= 4 => SubSeq(x.value, 1, 4) = Dhcp!AddressAt(k + 2)
<1> DEFINE o == Dhcp!options
           len == Dhcp!Byte(k + 1)
           v == SubSeq(o, k + 3, k + 2 + len)
<1>1. o \in Seq(Dhcp!Octet) /\ Dhcp!n = Len(o) /\ Dhcp!n \in Nat
    BY MessageType
<1>2. Dhcp!Byte(k) \in Dhcp!Octet /\ len \in 0..255
    BY MessageType DEF Dhcp!Octet
<1>3. k + 2 + len <= Len(o) /\ k + 2 + len <= Dhcp!n
    <2>1. ~(k + 2 + len > Dhcp!n)
        BY DEF Torn
    <2> HIDE DEF len, o
    <2> QED BY <1>1, <1>2, <2>1
<1>4. ASSUME NEW j \in 1..len PROVE o[k + 2 + j] = Dhcp!Byte(k + 1 + j)
    <2> HIDE DEF len, o
    <2>1. k + 1 + j \in Nat /\ k + 1 + j < Dhcp!n /\ (k + 1 + j) + 1 = k + 2 + j
        BY <1>1, <1>2, <1>3
    <2> USE DEF o
    <2>2. Dhcp!Byte(k + 1 + j) = o[(k + 1 + j) + 1]
        BY <2>1, MessageType
    <2> QED BY <2>1, <2>2
<1> HIDE DEF o, len
<1>5. v \in Seq(Dhcp!Octet) /\ Len(v) = len
    BY <1>1, <1>2, <1>3
<1>6. ASSUME NEW j \in 1..len PROVE v[j] = Dhcp!Byte(k + 1 + j)
    <2>1. k + 3 \in Nat /\ (k + 2 + len) - (k + 3) + 1 = len /\ (k + 3) + j - 1 = k + 2 + j
        BY <1>2
    <2>2. \A s \in Seq(Dhcp!Octet), a, b \in Nat :
              SubSeq(s, a, b) = [i \in 1..(b - a + 1) |-> s[a + i - 1]]
        OBVIOUS
    <2>3. v = [i \in 1..((k + 2 + len) - (k + 3) + 1) |-> o[(k + 3) + i - 1]]
        BY <1>1, <1>2, <2>1, <2>2
    <2>4. v[j] = o[(k + 3) + j - 1]
        BY <2>1, <2>3
    <2> QED BY <1>4, <2>1, <2>4
<1> HIDE DEF v
<1>7. len = 1 => v = <<Dhcp!Byte(k + 2)>>
    <2> SUFFICES ASSUME len = 1 PROVE v = <<Dhcp!Byte(k + 2)>>
        OBVIOUS
    <2>1. Len(v) = 1 /\ v[1] = Dhcp!Byte(k + 1 + 1) /\ k + 1 + 1 = k + 2
        BY <1>5, <1>6
    <2> QED BY <1>5, <2>1
<1>8. len >= 4 => SubSeq(v, 1, 4) = Dhcp!AddressAt(k + 2)
    <2> SUFFICES ASSUME len >= 4 PROVE SubSeq(v, 1, 4) = Dhcp!AddressAt(k + 2)
        OBVIOUS
    <2>1. SubSeq(v, 1, 4) = [j \in 1..4 |-> v[1 + j - 1]]
        BY <1>5
    <2>2. ASSUME NEW j \in 1..4 PROVE v[1 + j - 1] = Dhcp!Byte(k + 2 + j - 1)
        <3>1. j \in 1..len /\ 1 + j - 1 = j /\ k + 2 + j - 1 = k + 1 + j
            BY <1>2
        <3> QED BY <1>6, <3>1
    <2> QED BY <2>1, <2>2 DEF Dhcp!AddressAt
<1>9. OptionAt(k) = [opt |-> Dhcp!Byte(k), value |-> v]
    BY DEF OptionAt, o, len, v
<1>10. OptionAt(k) \in DhcpOption /\ OptionAt(k).opt = Dhcp!Byte(k) /\ OptionAt(k).value = v
    BY <1>2, <1>5, <1>9 DEF DhcpOption
<1> QED BY <1>5, <1>7, <1>8, <1>10 DEF len

LEMMA ListsType == DhcpGiven => \A k \in 0..(Dhcp!n + 256) : Dhcp!Lists(k) \subseteq Seq(DhcpOption)
<1> SUFFICES ASSUME DhcpGiven PROVE \A k \in 0..(Dhcp!n + 256) : Dhcp!Lists(k) \subseteq Seq(DhcpOption)
    OBVIOUS
<1> DEFINE N == Dhcp!n + 256
           S == {d \in Nat : d <= N => \A k \in (N - d)..N : Dhcp!Lists(k) \subseteq Seq(DhcpOption)}
<1>1. N \in Nat /\ Dhcp!n \in Nat /\ N = Dhcp!n + 256
    BY MessageType
<1>2. 0 \in S
    <2> HIDE DEF N
    <2>1. Dhcp!Lists(N) = {}
        <3>1. N \in 0..(Dhcp!n + 256) /\ N >= Dhcp!n
            BY <1>1
        <3> QED BY <3>1, ListsStep
    <2>2. \A k \in (N - 0)..N : k = N
        BY <1>1
    <2> QED BY <2>1, <2>2
<1>3. ASSUME NEW d \in Nat, d \in S PROVE d + 1 \in S
    <2> SUFFICES ASSUME d + 1 <= N, NEW k \in (N - (d + 1))..N PROVE Dhcp!Lists(k) \subseteq Seq(DhcpOption)
        OBVIOUS
    <2>1. \A j \in (N - d)..N : Dhcp!Lists(j) \subseteq Seq(DhcpOption)
        BY <1>1, <1>3
    <2>2. k \in 0..N /\ k \in Nat /\ (k \in (N - d)..N \/ \A j \in (k + 1)..N : j \in (N - d)..N)
        BY <1>1
    <2> HIDE DEF N
    <2>3. CASE k \in (N - d)..N
        BY <2>1, <2>3
    <2>4. CASE \A j \in (k + 1)..N : j \in (N - d)..N
        <3>1. CASE k >= Dhcp!n
            <4>1. k \in 0..(Dhcp!n + 256)
                BY <1>1, <2>2
            <4>2. Dhcp!Lists(k) = {}
                BY <3>1, <4>1, ListsStep
            <4> QED BY <4>2
        <3>2. CASE k < Dhcp!n /\ Dhcp!Byte(k) = 255
            <4>1. Dhcp!Lists(k) = {<<>>}
                BY <1>1, <2>2, <3>2, ListsStep
            <4> QED BY <4>1
        <3>3. CASE k < Dhcp!n /\ Dhcp!Byte(k) = 0
            <4>1. Dhcp!Lists(k) = Dhcp!Lists(k + 1)
                BY <1>1, <2>2, <3>3, ListsStep
            <4>2. k + 1 \in (k + 1)..N
                BY <1>1, <2>2, <3>3
            <4> QED BY <2>1, <2>4, <4>1, <4>2
        <3>4. CASE k < Dhcp!n /\ Dhcp!Byte(k) \notin {0, 255} /\ Torn(k)
            BY <1>1, <2>2, <3>4, ListsStep
        <3>5. CASE k < Dhcp!n /\ Dhcp!Byte(k) \notin {0, 255} /\ ~Torn(k)
            <4> DEFINE next == k + 2 + Dhcp!Byte(k + 1)
            <4>1. Dhcp!Lists(k) = {<<OptionAt(k)>> \o rest : rest \in Dhcp!Lists(next)}
                BY <1>1, <2>2, <3>5, ListsStep
            <4>2. Dhcp!Byte(k + 1) \in 0..255
                BY <2>2, MessageType
            <4>3. next \in (k + 1)..N
                BY <1>1, <2>2, <3>5, <4>2 DEF Torn
            <4>4. Dhcp!Lists(next) \subseteq Seq(DhcpOption)
                BY <2>1, <2>4, <4>3
            <4>5. OptionAt(k) \in DhcpOption
                BY <2>2, <3>5, OptionType
            <4> HIDE DEF next
            <4>6. \A rest \in Seq(DhcpOption) : <<OptionAt(k)>> \o rest \in Seq(DhcpOption)
                BY <4>5
            <4> QED BY <4>1, <4>4, <4>6
        <3> QED BY <1>1, <2>2, <3>1, <3>2, <3>3, <3>4, <3>5
    <2> QED BY <2>2, <2>3, <2>4
<1> HIDE DEF S
<1>4. N \in S
    BY <1>1, <1>2, <1>3, EveryNatural
<1>5. \A k \in (N - N)..N : Dhcp!Lists(k) \subseteq Seq(DhcpOption)
    BY <1>1, <1>4 DEF S
<1>6. N - N = 0
    BY <1>1
<1> QED BY <1>5, <1>6 DEF N

\* The k-th option has a length that its kind allows, and is not a second type.
Fits(l, k) ==
    /\ l[k].opt = 53 => Len(l[k].value) = 1 /\ \A j \in 1..(k - 1) : l[j].opt = 53 => l[j].value = <<0>>
    /\ l[k].opt \in {54, 1} => Len(l[k].value) = 4
    /\ l[k].opt \in {3, 6} => Len(l[k].value) > 0 /\ Len(l[k].value) % 4 = 0

LEMMA SoundFits ==
    ASSUME NEW l
    PROVE  Dhcp!Sound(l) <=> /\ \A k \in DOMAIN l : Fits(l, k)
                             /\ \E k \in DOMAIN l : l[k].opt = 53 /\ l[k].value = <<kind>>
<1>1. ASSUME NEW k \in DOMAIN l
      PROVE  (LET size == Len(l[k].value) IN
              CASE l[k].opt = Dhcp!TYPE -> size = 1 /\ \A j \in 1..(k - 1) : l[j].opt = Dhcp!TYPE => l[j].value = <<0>>
                [] l[k].opt \in {Dhcp!SERVER, Dhcp!MASK} -> size = 4
                [] l[k].opt \in {Dhcp!ROUTER, Dhcp!DNS} -> size > 0 /\ size % 4 = 0
                [] OTHER -> TRUE) <=> Fits(l, k)
    <2> DEFINE size == Len(l[k].value)
               once == \A j \in 1..(k - 1) : l[j].opt = 53 => l[j].value = <<0>>
               fours == size > 0 /\ size % 4 = 0
               o == l[k].opt
    <2>0. Fits(l, k) <=> /\ o = 53 => size = 1 /\ once
                         /\ o \in {54, 1} => size = 4
                         /\ o \in {3, 6} => fours
        BY DEF Fits
    <2> SUFFICES (CASE o = 53 -> size = 1 /\ once
                    [] o \in {54, 1} -> size = 4
                    [] o \in {3, 6} -> fours
                    [] OTHER -> TRUE) <=> Fits(l, k)
        BY DEF Dhcp!TYPE, Dhcp!SERVER, Dhcp!MASK, Dhcp!ROUTER, Dhcp!DNS
    <2> HIDE DEF size, once, fours, o
    <2>1. CASE o = 53
        BY <2>0, <2>1
    <2>2. CASE o \in {54, 1}
        BY <2>0, <2>2
    <2>3. CASE o \in {3, 6}
        BY <2>0, <2>3
    <2>4. CASE o \notin {53, 54, 1, 3, 6}
        BY <2>0, <2>4
    <2> QED BY <2>1, <2>2, <2>3, <2>4
<1> QED BY <1>1 DEF Dhcp!Sound, Dhcp!TYPE

\* One more option behind those of l.
LEMMA Appended ==
    ASSUME NEW l \in Seq(DhcpOption), NEW x \in DhcpOption
    PROVE  LET a == Append(l, x) IN
           /\ a \in Seq(DhcpOption) /\ Len(a) = Len(l) + 1 /\ Len(l) \in Nat
           /\ DOMAIN l = 1..Len(l) /\ DOMAIN a = 1..(Len(l) + 1)
           /\ a[Len(l) + 1] = x
           /\ \A k \in 1..Len(l) : a[k] = l[k]
OBVIOUS

\* The first elements of c are those of a.
Begins(a, c) == Len(a) <= Len(c) /\ \A k \in 1..Len(a) : c[k] = a[k]

LEMMA Regroup ==
    ASSUME NEW S, NEW l \in Seq(S), NEW x \in S, NEW rest \in Seq(S)
    PROVE  /\ l \o (<<x>> \o rest) = Append(l, x) \o rest
           /\ l \o (<<x>> \o rest) \in Seq(S)
           /\ Begins(Append(l, x), Append(l, x) \o rest)
<1>1. <<x>> \o rest \in Seq(S) /\ Len(<<x>> \o rest) = 1 + Len(rest)
    OBVIOUS
<1>2. l \o (<<x>> \o rest) = (l \o <<x>>) \o rest
    OBVIOUS
<1>3. l \o <<x>> = Append(l, x)
    OBVIOUS
<1>4. Begins(Append(l, x), Append(l, x) \o rest)
    BY DEF Begins
<1> QED BY <1>1, <1>2, <1>3, <1>4

LEMMA FitsBegins ==
    ASSUME NEW a, NEW c, Len(a) \in Nat, Begins(a, c), NEW k \in 1..Len(a)
    PROVE  Fits(c, k) <=> Fits(a, k)
<1>1. c[k] = a[k] /\ \A j \in 1..(k - 1) : c[j] = a[j]
    BY DEF Begins
<1> QED BY <1>1 DEF Fits

\* The last of the options of a kind counts.
LEMMA ValueAppend ==
    ASSUME NEW l \in Seq(DhcpOption), NEW x \in DhcpOption, NEW o
    PROVE  Dhcp!Value(Append(l, x), o) = IF x.opt = o THEN {SubSeq(x.value, 1, 4)} ELSE Dhcp!Value(l, o)
<1> DEFINE a == Append(l, x)
           m == Len(l)
           Last(s, k) == s[k].opt = o /\ \A j \in (k + 1)..Len(s) : s[j].opt # o
<1>1. /\ Len(a) = m + 1 /\ m \in Nat /\ DOMAIN l = 1..m /\ DOMAIN a = 1..(m + 1)
      /\ a[m + 1] = x /\ \A k \in 1..m : a[k] = l[k]
    BY Appended
<1>2. Dhcp!Value(l, o) = {SubSeq(l[k].value, 1, 4) : k \in {j \in DOMAIN l : Last(l, j)}}
    BY DEF Dhcp!Value
<1>3. Dhcp!Value(a, o) = {SubSeq(a[k].value, 1, 4) : k \in {j \in DOMAIN a : Last(a, j)}}
    BY DEF Dhcp!Value
<1> HIDE DEF a
<1>4. Last(a, m + 1) <=> x.opt = o
    BY <1>1
<1>5. ASSUME NEW k \in 1..m PROVE Last(a, k) <=> Last(l, k) /\ x.opt # o
    <2>1. \A j \in (k + 1)..(m + 1) : j = m + 1 \/ j \in (k + 1)..m
        BY <1>1
    <2>2. m + 1 \in (k + 1)..(m + 1) /\ \A j \in (k + 1)..m : j \in 1..m /\ j \in (k + 1)..(m + 1)
        BY <1>1
    <2>3. Len(a) = m + 1 /\ Len(l) = m /\ a[k] = l[k]
        BY <1>1
    <2>4. (\A j \in (k + 1)..(m + 1) : a[j].opt # o) <=> (\A j \in (k + 1)..m : l[j].opt # o) /\ x.opt # o
        BY <1>1, <2>1, <2>2, Zenon
    <2> HIDE DEF m
    <2> QED BY <2>3, <2>4, Zenon
<1> HIDE DEF Last
<1>6. CASE x.opt = o
    <2>1. {j \in DOMAIN a : Last(a, j)} = {m + 1}
        <3>1. \A j \in 1..(m + 1) : j \in 1..m \/ j = m + 1
            BY <1>1
        <3>2. m + 1 \in 1..(m + 1)
            BY <1>1
        <3> QED BY <1>1, <1>4, <1>5, <1>6, <3>1, <3>2, Zenon
    <2> QED BY <1>1, <1>3, <1>6, <2>1 DEF a
<1>7. CASE x.opt # o
    <2>1. {j \in DOMAIN a : Last(a, j)} = {j \in DOMAIN l : Last(l, j)}
        BY <1>1, <1>4, <1>5, <1>7
    <2>2. {SubSeq(a[k].value, 1, 4) : k \in {j \in DOMAIN l : Last(l, j)}}
            = {SubSeq(l[k].value, 1, 4) : k \in {j \in DOMAIN l : Last(l, j)}}
        BY <1>1, SMTT(30)
    <2>3. Dhcp!Value(a, o) = Dhcp!Value(l, o)
        BY <1>2, <1>3, <2>1, <2>2
    <2> QED BY <1>7, <2>3 DEF a
<1> QED BY <1>6, <1>7

\* l is what the walk has read, and with the rest of the message it makes up
\* every list of the message.
DhcpRead(l) ==
    /\ \A k \in DOMAIN l : Fits(l, k)
    /\ \A k \in DOMAIN l : l[k].opt = 53 => l[k].value \in {<<0>>, <<type>>}
    /\ type # 0 => \E k \in DOMAIN l : l[k].opt = 53 /\ l[k].value = <<type>>
    /\ \A o \in Dhcp!Wanted : Dhcp!Value(l, o) = IF o \in DOMAIN opts THEN {opts[o]} ELSE {}
    /\ Dhcp!Lists(0) = IF end THEN {l} ELSE {l \o rest : rest \in Dhcp!Lists(at)}

\* The walk's place and what it has read; behind it, the judgement.
DhcpInv ==
    input = "dhcp" =>
        /\ DhcpGiven
        /\ Dhcp!TypeOK
        /\ pc \in {"header", "walk"} =>
              /\ statics \in Statics /\ config = {}
              /\ \E l \in Seq(DhcpOption) : DhcpRead(l)
        /\ pc = "walk" => message.ours
        /\ Dhcp!Agrees

LEMMA MessageSame ==
    ASSUME message' = message, kind' = kind
    PROVE  /\ Dhcp!n' = Dhcp!n /\ \A k : Dhcp!Byte(k)' = Dhcp!Byte(k)
           /\ DhcpGiven' = DhcpGiven
           /\ \A k : Dhcp!Lists(k)' = Dhcp!Lists(k)
           /\ \A l, s : Dhcp!Takes(l, s)' = Dhcp!Takes(l, s)
<1>1. Dhcp!n' = Dhcp!n /\ \A k : Dhcp!Byte(k)' = Dhcp!Byte(k)
    BY DEF Dhcp!n, Dhcp!Byte, Dhcp!options
<1>2. DhcpGiven' = DhcpGiven
    BY DEF DhcpGiven
<1>3. \A k : Dhcp!Lists(k)' = Dhcp!Lists(k)
    BY SMT DEF Dhcp!Lists, Dhcp!n, Dhcp!Byte, Dhcp!options
<1>4. \A l, s : Dhcp!Takes(l, s)' = Dhcp!Takes(l, s)
    <2>1. ASSUME NEW l PROVE Dhcp!Sound(l)' = Dhcp!Sound(l)
        <3>1. Dhcp!Sound(l)' <=> Dhcp!Sound(l)
            BY SoundFits, SMT DEF Dhcp!Sound
        <3> QED BY <3>1 DEF Dhcp!Sound
    <2>2. ASSUME NEW l, NEW o PROVE Dhcp!Value(l, o)' = Dhcp!Value(l, o)
        BY DEF Dhcp!Value
    <2>3. Dhcp!Usable(message.yiaddr)' = Dhcp!Usable(message.yiaddr)
        BY DEF Dhcp!Usable
    <2> QED BY <2>1, <2>2, <2>3 DEF Dhcp!Takes
<1> QED BY <1>1, <1>2, <1>3, <1>4

LEMMA DhcpBegins == InputInit => DhcpInv
<1> SUFFICES ASSUME InputInit, input = "dhcp" PROVE DhcpInv
    BY DEF DhcpInv
<1>1. Dhcp!Init
    BY DEF InputInit
<1>2. /\ message \in Messages /\ kind \in {2, 5} /\ pc = "header" /\ at = 0 /\ type = 0 /\ end = FALSE
      /\ opts = [o \in {} |-> <<>>] /\ touched = 0 /\ statics \in Statics /\ config = {}
    BY <1>1 DEF Dhcp!Init
<1>3. DhcpGiven
    BY <1>2 DEF DhcpGiven
<1>4. Dhcp!n \in Nat
    BY <1>3, MessageType
<1>5. Dhcp!TypeOK
    <2>1. DOMAIN opts = {}
        BY <1>2
    <2>2. at \in 0..Dhcp!n /\ touched \in 0..Dhcp!n /\ type \in Dhcp!Octet
        BY <1>2, <1>4 DEF Dhcp!Octet
    <2> QED BY <1>2, <2>1, <2>2 DEF Dhcp!TypeOK
<1>6. Dhcp!Agrees
    BY <1>2 DEF Dhcp!Agrees
<1>7. <<>> \in Seq(DhcpOption) /\ DhcpRead(<<>>)
    <2>1. \A rest \in Seq(DhcpOption) : <<>> \o rest = rest
        OBVIOUS
    <2>2. Dhcp!Lists(0) \subseteq Seq(DhcpOption)
        BY <1>3, <1>4, ListsType
    <2>3. {<<>> \o rest : rest \in Dhcp!Lists(0)} = Dhcp!Lists(0)
        BY <2>1, <2>2
    <2>4. \A o : Dhcp!Value(<<>>, o) = {}
        BY DEF Dhcp!Value
    <2>5. DOMAIN opts = {} /\ DOMAIN <<>> = {}
        BY <1>2
    <2> QED BY <1>2, <2>3, <2>4, <2>5 DEF DhcpRead
<1> QED BY <1>2, <1>3, <1>5, <1>6, <1>7 DEF DhcpInv

-----------------------------------------------------------------------------
(* What is dropped is rightly dropped *)

LEMMA TornDropped ==
    ASSUME DhcpGiven, NEW l \in Seq(DhcpOption), DhcpRead(l), end = FALSE, at \in 0..Dhcp!n,
           at >= Dhcp!n \/ (Dhcp!Byte(at) \notin {0, 255} /\ Torn(at))
    PROVE  Dhcp!Lists(0) = {}
<1>1. Dhcp!n \in Nat /\ at \in 0..(Dhcp!n + 256)
    BY MessageType
<1>2. at >= Dhcp!n \/ (at < Dhcp!n /\ Dhcp!Byte(at) \notin {0, 255} /\ Torn(at))
    BY <1>1
<1>3. Dhcp!Lists(at) = {}
    BY <1>1, <1>2, ListsStep
<1> QED BY <1>3 DEF DhcpRead

\* An option that was read is in every list, behind those that were read
\* before it.
LEMMA ListsAppend ==
    ASSUME DhcpGiven, NEW l \in Seq(DhcpOption), DhcpRead(l), end = FALSE, at \in Nat, at < Dhcp!n,
           Dhcp!Byte(at) \notin {0, 255}, ~Torn(at)
    PROVE  LET x == OptionAt(at)
               next == at + 2 + Dhcp!Byte(at + 1)
           IN  /\ x \in DhcpOption /\ Append(l, x) \in Seq(DhcpOption) /\ next \in 0..Dhcp!n
               /\ Dhcp!Lists(0) = {Append(l, x) \o rest : rest \in Dhcp!Lists(next)}
               /\ \A c \in Dhcp!Lists(0) : c \in Seq(DhcpOption) /\ Begins(Append(l, x), c)
<1> DEFINE x == OptionAt(at)
           len == Dhcp!Byte(at + 1)
           next == at + 2 + len
<1>1. Dhcp!n \in Nat /\ len \in 0..255 /\ at \in 0..(Dhcp!n + 256)
    BY MessageType
<1>2. ~(next > Dhcp!n)
    BY DEF Torn
<1>3. Dhcp!Lists(at) = {<<x>> \o rest : rest \in Dhcp!Lists(next)}
    BY <1>1, ListsStep
<1>4. x \in DhcpOption
    BY OptionType
<1> HIDE DEF x, len
<1>5. next \in 0..Dhcp!n /\ next \in 0..(Dhcp!n + 256)
    BY <1>1, <1>2
<1> HIDE DEF next
<1>6. Dhcp!Lists(next) \subseteq Seq(DhcpOption)
    BY <1>5, ListsType
<1>7. \A rest \in Dhcp!Lists(next) :
         /\ l \o (<<x>> \o rest) = Append(l, x) \o rest
         /\ l \o (<<x>> \o rest) \in Seq(DhcpOption)
         /\ Begins(Append(l, x), Append(l, x) \o rest)
    BY <1>4, <1>6, Regroup
<1>8. Dhcp!Lists(0) = {l \o r : r \in Dhcp!Lists(at)}
    BY DEF DhcpRead
<1>9. Dhcp!Lists(0) = {l \o (<<x>> \o rest) : rest \in Dhcp!Lists(next)}
    BY <1>3, <1>8
<1>10. Dhcp!Lists(0) = {Append(l, x) \o rest : rest \in Dhcp!Lists(next)}
    BY <1>7, <1>9
<1>11. \A c \in Dhcp!Lists(0) : c \in Seq(DhcpOption) /\ Begins(Append(l, x), c)
    BY <1>7, <1>10
<1>12. Append(l, x) \in Seq(DhcpOption)
    BY <1>4, Appended
<1> QED BY <1>4, <1>5, <1>10, <1>11, <1>12 DEF x, len, next

LEMMA BadDropped ==
    ASSUME DhcpGiven, NEW l \in Seq(DhcpOption), DhcpRead(l), end = FALSE, at \in Nat, at < Dhcp!n,
           Dhcp!Byte(at) \notin {0, 255}, ~Torn(at), type \in Nat,
           ~Dhcp!GoodLength(Dhcp!Byte(at), Dhcp!Byte(at + 1)),
           NEW c \in Dhcp!Lists(0)
    PROVE  ~Dhcp!Sound(c)
<1> DEFINE x == OptionAt(at)
           len == Dhcp!Byte(at + 1)
           a == Append(l, x)
           m == Len(l) + 1
<1>1. x \in DhcpOption /\ c \in Seq(DhcpOption) /\ Begins(a, c)
    BY ListsAppend
<1>2. x.opt = Dhcp!Byte(at) /\ Len(x.value) = len
    BY OptionType
<1>3. len \in 0..255
    BY MessageType
<1> HIDE DEF x, len
<1>4. Len(a) = m /\ m \in Nat /\ a[m] = x /\ DOMAIN l = 1..(m - 1) /\ m \in 1..Len(a) /\ \A k \in 1..(m - 1) : a[k] = l[k]
    BY <1>1, Appended
<1>5. Fits(c, m) <=> Fits(a, m)
    <2>1. Len(a) \in Nat /\ Begins(a, c) /\ m \in 1..Len(a)
        BY <1>1, <1>4
    <2> HIDE DEF a, m
    <2> QED BY <2>1, FitsBegins
<1>6. m \in DOMAIN c
    BY <1>1, <1>4 DEF Begins
<1>7. ~Fits(a, m)
    <2> SUFFICES ASSUME Fits(a, m) PROVE FALSE
        OBVIOUS
    <2>1. /\ x.opt = 53 => len = 1 /\ \A j \in 1..(m - 1) : a[j].opt = 53 => a[j].value = <<0>>
          /\ x.opt \in {54, 1} => len = 4
          /\ x.opt \in {3, 6} => len > 0 /\ len % 4 = 0
        BY <1>2, <1>4 DEF Fits
    <2>2. ~(/\ x.opt = 53 => len = 1 /\ type = 0
            /\ x.opt \in {54, 1} => len = 4
            /\ x.opt \in {3, 6} => len # 0 /\ len % 4 = 0)
        BY <1>2 DEF Dhcp!GoodLength, Dhcp!TYPE, Dhcp!SERVER, Dhcp!MASK, Dhcp!ROUTER, Dhcp!DNS, len
    <2>3. x.opt = 53 /\ type # 0
        BY <1>3, <2>1, <2>2
    <2>4. PICK k \in DOMAIN l : l[k].opt = 53 /\ l[k].value = <<type>>
        BY <2>3 DEF DhcpRead
    <2>5. a[k].opt = 53 /\ a[k].value = <<type>> /\ k \in 1..(m - 1)
        BY <1>4, <2>4
    <2>6. <<type>> = <<0>>
        BY <2>1, <2>3, <2>5
    <2>7. <<type>>[1] = type /\ <<0>>[1] = 0
        OBVIOUS
    <2> QED BY <2>3, <2>6, <2>7
<1> QED BY <1>5, <1>6, <1>7, SoundFits

-----------------------------------------------------------------------------
(* What is read is kept *)

\* A good option joins those that were read.
LEMMA ReadOption ==
    ASSUME DhcpInv, input = "dhcp", Dhcp!Option, input' = input,
           Dhcp!GoodLength(Dhcp!Byte(at), Dhcp!Byte(at + 1)),
           NEW l \in Seq(DhcpOption), DhcpRead(l), NEW a, a = Append(l, OptionAt(at))
    PROVE  a \in Seq(DhcpOption) /\ DhcpRead(a)'
<1> DEFINE k == at
           b == Dhcp!Byte(k)
           len == Dhcp!Byte(k + 1)
           x == OptionAt(k)
           m == Len(l) + 1
<1>1. /\ message' = message /\ kind' = kind /\ end' = end /\ end = FALSE
      /\ k < Dhcp!n /\ b \notin {0, 255} /\ k + 1 < Dhcp!n /\ len <= Dhcp!n - (k + 2)
      /\ at' = k + 2 + len
      /\ type' = IF b = 53 THEN Dhcp!Byte(k + 2) ELSE type
      /\ opts' = IF b \in Dhcp!Wanted THEN Dhcp!With(opts, b, Dhcp!AddressAt(k + 2)) ELSE opts
    BY DEF Dhcp!Option, Dhcp!Walking, Dhcp!Inside, Dhcp!given, Dhcp!TYPE, DhcpInv, Dhcp!TypeOK
<1>2. DhcpGiven /\ k \in 0..Dhcp!n /\ type \in 0..255 /\ Dhcp!n \in Nat /\ DOMAIN opts \subseteq Dhcp!Wanted
    BY MessageType DEF DhcpInv, Dhcp!TypeOK, Dhcp!Octet
<1>3. k \in Nat /\ len \in 0..255 /\ Dhcp!Byte(k + 2) \in 0..255
    BY <1>2, MessageType
<1>4. ~Torn(k)
    <2>1. Torn(k) <=> k + 1 >= Dhcp!n \/ k + 2 + len > Dhcp!n
        BY DEF Torn
    <2> HIDE DEF k, len
    <2> QED BY <1>1, <1>2, <1>3, <2>1
<1>5. /\ x \in DhcpOption /\ x.opt = b /\ Len(x.value) = len
      /\ len = 1 => x.value = <<Dhcp!Byte(k + 2)>>
      /\ len >= 4 => SubSeq(x.value, 1, 4) = Dhcp!AddressAt(k + 2)
    BY <1>2, <1>3, <1>4, OptionType
<1>6. Dhcp!Lists(0) = {a \o rest : rest \in Dhcp!Lists(k + 2 + len)}
    <2>1. DhcpGiven /\ end = FALSE /\ at \in Nat /\ at < Dhcp!n /\ Dhcp!Byte(at) \notin {0, 255} /\ ~Torn(at)
        BY <1>1, <1>2, <1>3, <1>4
    <2>2. Dhcp!Lists(0) = {Append(l, OptionAt(at)) \o rest : rest \in Dhcp!Lists(at + 2 + Dhcp!Byte(at + 1))}
        BY <2>1, ListsAppend
    <2> QED BY <2>2
<1>7. /\ b = 53 => len = 1 /\ type = 0
      /\ b \in {54, 1} => len = 4
      /\ b \in {3, 6} => len # 0 /\ len % 4 = 0
    BY DEF Dhcp!GoodLength, Dhcp!TYPE, Dhcp!SERVER, Dhcp!MASK, Dhcp!ROUTER, Dhcp!DNS
<1>8. b \in Dhcp!Wanted => len >= 4
    <2>1. len # 0 /\ len % 4 = 0 => len >= 4
        <3> HIDE DEF len
        <3>1. 1 % 4 = 1 /\ 2 % 4 = 2 /\ 3 % 4 = 3
            OBVIOUS
        <3>2. len # 0 => len \in {1, 2, 3} \/ len >= 4
            BY <1>3
        <3> QED BY <3>1, <3>2
    <2> QED BY <1>7, <2>1 DEF Dhcp!Wanted, Dhcp!SERVER, Dhcp!MASK, Dhcp!ROUTER, Dhcp!DNS
<1>9. \A o : Dhcp!Value(a, o) = IF b = o THEN {SubSeq(x.value, 1, 4)} ELSE Dhcp!Value(l, o)
    <2>1. a = Append(l, x)
        OBVIOUS
    <2> HIDE DEF x
    <2> QED BY <1>5, <2>1, ValueAppend
<1> HIDE DEF k, b, len, x
<1>10. /\ a \in Seq(DhcpOption) /\ Len(a) = m /\ m \in Nat /\ m \in 1..Len(a) /\ a[m] = x
       /\ DOMAIN l = 1..(m - 1) /\ DOMAIN a = 1..m /\ \A j \in 1..(m - 1) : a[j] = l[j]
    BY <1>5, Appended DEF x, k
<1>11. Len(l) \in Nat /\ Len(l) = m - 1 /\ Begins(l, a)
    BY <1>10 DEF Begins
<1> HIDE DEF m
<1>12. \A j \in 1..(m - 1) : (l[j].opt = 53 => l[j].value \in {<<0>>, <<type>>})
    BY <1>10 DEF DhcpRead
<1>13. \A j \in DOMAIN a : Fits(a, j)
    <2>1. \A j \in 1..(m - 1) : Fits(a, j)
        BY <1>10, <1>11, FitsBegins DEF DhcpRead
    <2>2. Fits(a, m)
        <3>1. b = 53 => \A j \in 1..(m - 1) : a[j].opt = 53 => a[j].value = <<0>>
            BY <1>7, <1>10, <1>12
        <3>2. len # 0 => len > 0
            BY <1>3
        <3>3. /\ b = 53 => len = 1
              /\ b \in {54, 1} => len = 4
              /\ b \in {3, 6} => len > 0 /\ len % 4 = 0
            BY <1>7, <3>2, Zenon
        <3>4. a[m].opt = b /\ Len(a[m].value) = len
            BY <1>5, <1>10
        <3> QED BY <3>1, <3>3, <3>4, Zenon DEF Fits
    <2> QED BY <1>10, <2>1, <2>2
<1>14. \A j \in DOMAIN a : a[j].opt = 53 => a[j].value \in {<<0>>, <<type'>>}
    <2>1. CASE b = 53
        <3>1. a[m].value = <<type'>>
            BY <1>1, <1>5, <1>7, <1>10, <2>1
        <3>2. \A j \in 1..(m - 1) : a[j].opt = 53 => a[j].value = <<0>>
            BY <1>7, <1>10, <1>12, <2>1
        <3>3. \A j \in DOMAIN a : j = m \/ j \in 1..(m - 1)
            BY <1>10
        <3> QED BY <3>1, <3>2, <3>3
    <2>2. CASE b # 53
        <3>1. type' = type /\ a[m].opt # 53
            BY <1>1, <1>5, <1>10, <2>2
        <3>2. \A j \in DOMAIN a : j = m \/ j \in 1..(m - 1)
            BY <1>10
        <3> QED BY <1>10, <1>12, <3>1, <3>2
    <2> QED BY <2>1, <2>2
<1>15. type' # 0 => \E j \in DOMAIN a : a[j].opt = 53 /\ a[j].value = <<type'>>
    <2>1. CASE b = 53
        BY <1>1, <1>5, <1>7, <1>10, <2>1
    <2>2. CASE b # 53
        <3> SUFFICES ASSUME type' # 0 PROVE \E j \in DOMAIN a : a[j].opt = 53 /\ a[j].value = <<type'>>
            OBVIOUS
        <3>1. type' = type
            BY <1>1, <2>2
        <3>2. PICK j \in DOMAIN l : l[j].opt = 53 /\ l[j].value = <<type>>
            BY <3>1 DEF DhcpRead
        <3>3. j \in DOMAIN a /\ a[j] = l[j]
            BY <1>10, <3>2
        <3> QED BY <3>1, <3>2, <3>3
    <2> QED BY <2>1, <2>2
<1>16. ASSUME NEW o \in Dhcp!Wanted PROVE Dhcp!Value(a, o) = IF o \in DOMAIN opts' THEN {opts'[o]} ELSE {}
    <2>1. Dhcp!Value(l, o) = IF o \in DOMAIN opts THEN {opts[o]} ELSE {}
        BY DEF DhcpRead
    <2>2. CASE b = o
        <3>1. o \in DOMAIN opts' /\ opts'[o] = Dhcp!AddressAt(k + 2)
            BY <1>1, <2>2 DEF Dhcp!With
        <3> QED BY <1>5, <1>8, <1>9, <2>2, <3>1
    <2>3. CASE b # o
        <3>1. CASE b \in Dhcp!Wanted
            <4>1. DOMAIN opts' = DOMAIN opts \cup {b} /\ (o \in DOMAIN opts => opts'[o] = opts[o])
                BY <1>1, <2>3, <3>1 DEF Dhcp!With
            <4> QED BY <1>9, <2>1, <2>3, <4>1
        <3>2. CASE b \notin Dhcp!Wanted
            BY <1>1, <1>9, <2>1, <2>3, <3>2
        <3> QED BY <3>1, <3>2
    <2> QED BY <2>2, <2>3
<1>17. Dhcp!Lists(0)' = {a \o rest : rest \in Dhcp!Lists(at)'}
    <2>1. Dhcp!Lists(0)' = Dhcp!Lists(0) /\ Dhcp!Lists(at)' = Dhcp!Lists(k + 2 + len)
        BY <1>1, MessageSame
    <2> QED BY <1>6, <2>1
<1> QED BY <1>1, <1>10, <1>13, <1>14, <1>15, <1>16, <1>17 DEF DhcpRead

\* At the end of the options, what they are says whether the message is to be
\* taken: it has one list, and that is what was read.
LEMMA Judged ==
    ASSUME DhcpInv, input = "dhcp", pc = "walk", end = TRUE
    PROVE  \E l \in Dhcp!Lists(0) :
              /\ Dhcp!Lists(0) = {l}
              /\ \A o \in Dhcp!Wanted : Dhcp!Value(l, o) = IF o \in DOMAIN opts THEN {opts[o]} ELSE {}
              /\ Dhcp!Takes(l, statics) <=> Dhcp!Complete /\ (kind = 5 => Dhcp!Confirms)
              /\ \A s : Dhcp!Takes(l, s) <=>
                    /\ Dhcp!Complete
                    /\ kind = 5 => DOMAIN opts = Dhcp!Wanted /\ opts[54] = s.server /\ message.yiaddr = s.offered
<1>1. /\ kind \in {2, 5} /\ message.ours /\ DOMAIN opts \subseteq Dhcp!Wanted
      /\ statics \in [offered : Dhcp!Address, server : Dhcp!Address]
    BY InputAssumption DEF DhcpInv, DhcpGiven, Dhcp!TypeOK, Dhcp!MessageAssumption
<1>2. PICK l \in Seq(DhcpOption) : DhcpRead(l)
    BY DEF DhcpInv
<1>3. Dhcp!Lists(0) = {l}
    BY <1>2 DEF DhcpRead
<1>4. \A o \in Dhcp!Wanted : Dhcp!Value(l, o) = IF o \in DOMAIN opts THEN {opts[o]} ELSE {}
    BY <1>2 DEF DhcpRead
<1>5. Dhcp!Sound(l) <=> type = kind
    <2>1. Dhcp!Sound(l) <=> \E k \in DOMAIN l : l[k].opt = 53 /\ l[k].value = <<kind>>
        BY <1>2, SoundFits DEF DhcpRead
    <2>2. CASE type = kind
        BY <1>1, <1>2, <2>1, <2>2 DEF DhcpRead
    <2>3. CASE type # kind
        <3> SUFFICES ASSUME NEW k \in DOMAIN l, l[k].opt = 53, l[k].value = <<kind>> PROVE FALSE
            BY <2>1, <2>3
        <3>1. <<kind>> = <<0>> \/ <<kind>> = <<type>>
            BY <1>2 DEF DhcpRead
        <3>2. <<kind>>[1] = kind /\ <<0>>[1] = 0 /\ <<type>>[1] = type
            OBVIOUS
        <3>3. kind = 0 \/ kind = type
            BY <3>1, <3>2, Zenon
        <3> QED BY <1>1, <2>3, <3>3
    <2> QED BY <2>2, <2>3
<1> USE DEF Dhcp!Wanted, Dhcp!SERVER, Dhcp!MASK, Dhcp!ROUTER, Dhcp!DNS
<1>6. \A o \in {54, 1, 3, 6} : (Dhcp!Value(l, o) # {} <=> o \in DOMAIN opts)
    <2>1. ASSUME NEW o \in Dhcp!Wanted PROVE Dhcp!Value(l, o) # {} <=> o \in DOMAIN opts
        <3>1. CASE o \in DOMAIN opts
            BY <1>4, <3>1, ZenonT(40)
        <3>2. CASE o \notin DOMAIN opts
            BY <1>4, <3>2, Zenon
        <3> QED BY <3>1, <3>2
    <2> QED BY <2>1
<1>7. 54 \in DOMAIN opts => \A v : Dhcp!Value(l, 54) = {v} <=> opts[54] = v
    BY <1>4
<1>8. ASSUME NEW s
      PROVE  Dhcp!Takes(l, s) <=>
                /\ Dhcp!Complete
                /\ kind = 5 => DOMAIN opts = Dhcp!Wanted /\ opts[54] = s.server /\ message.yiaddr = s.offered
    <2>1. DOMAIN opts = Dhcp!Wanted <=> 54 \in DOMAIN opts /\ 1 \in DOMAIN opts /\ 3 \in DOMAIN opts /\ 6 \in DOMAIN opts
        BY <1>1
    <2>2. Dhcp!Complete <=> type = kind /\ 54 \in DOMAIN opts /\ Dhcp!Usable(message.yiaddr)
        BY DEF Dhcp!Complete
    <2>3. Dhcp!Takes(l, s) <=> /\ type = kind /\ Dhcp!Usable(message.yiaddr) /\ 54 \in DOMAIN opts
                               /\ kind = 5 => /\ 1 \in DOMAIN opts /\ 3 \in DOMAIN opts /\ 6 \in DOMAIN opts
                                              /\ opts[54] = s.server /\ message.yiaddr = s.offered
        BY <1>1, <1>5, <1>6, <1>7 DEF Dhcp!Takes
    <2> QED BY <2>1, <2>2, <2>3
<1>9. Dhcp!Confirms <=> DOMAIN opts = Dhcp!Wanted /\ opts[54] = statics.server /\ message.yiaddr = statics.offered
    BY <1>1 DEF Dhcp!Confirms
<1>10. Dhcp!Takes(l, statics) <=> Dhcp!Complete /\ (kind = 5 => Dhcp!Confirms)
    BY <1>8, <1>9
<1> QED BY <1>3, <1>4, <1>8, <1>10

-----------------------------------------------------------------------------
(* Steps *)

\* A step that goes on.
LEMMA GoesOn ==
    ASSUME DhcpInv, input = "dhcp", message' = message, kind' = kind, statics' = statics, config' = config,
           pc = "walk" \/ (pc = "header" /\ message.ours), pc' = "walk",
           Dhcp!TypeOK', NEW l \in Seq(DhcpOption), DhcpRead(l)'
    PROVE  DhcpInv'
<1>1. DhcpGiven' /\ message'.ours
    BY MessageSame DEF DhcpInv
<1>2. Dhcp!Agrees'
    BY DEF Dhcp!Agrees
<1>3. statics' \in Statics /\ config' = {}
    BY DEF DhcpInv
<1> QED BY <1>1, <1>2, <1>3 DEF DhcpInv

\* A step that drops the message.
LEMMA Drops ==
    ASSUME DhcpInv, input = "dhcp", message' = message, kind' = kind, statics' = statics,
           pc' = "dropped", Dhcp!TypeOK', \A l \in Dhcp!Lists(0) : ~Dhcp!Takes(l, statics)
    PROVE  DhcpInv'
<1>1. DhcpGiven'
    BY MessageSame DEF DhcpInv
<1>2. \A l \in Dhcp!Lists(0)' : ~(Dhcp!Takes(l, statics)')
    <2>1. Dhcp!Lists(0)' = Dhcp!Lists(0)
        BY MessageSame
    <2>2. ASSUME NEW l \in Dhcp!Lists(0) PROVE ~(Dhcp!Takes(l, statics)')
        <3>1. Dhcp!Takes(l, statics)' <=> Dhcp!Takes(l, statics)
            BY DEF Dhcp!Takes, Dhcp!Sound, Dhcp!Value, Dhcp!Usable
        <3> QED BY <3>1
    <2> QED BY <2>1, <2>2
<1>3. Dhcp!Agrees'
    BY <1>2 DEF Dhcp!Agrees
<1> QED BY <1>1, <1>3 DEF DhcpInv

\* What the walk knows of its place.
LEMMA WalkTypes ==
    ASSUME DhcpInv, input = "dhcp"
    PROVE  /\ DhcpGiven /\ Dhcp!n \in Nat /\ at \in 0..Dhcp!n /\ at \in Nat /\ type \in Dhcp!Octet
           /\ end \in BOOLEAN /\ touched \in 0..Dhcp!n /\ DOMAIN opts \subseteq Dhcp!Wanted
           /\ \A k \in Nat : Dhcp!Byte(k) \in 0..255
BY MessageType DEF DhcpInv, Dhcp!TypeOK

LEMMA Touches ==
    ASSUME DhcpInv, input = "dhcp", NEW size \in 0..Dhcp!n, Dhcp!Touch(size)
    PROVE  touched' \in 0..Dhcp!n
BY WalkTypes DEF Dhcp!Touch

LEMMA HeaderStep == ASSUME DhcpInv, input = "dhcp", Dhcp!Header, input' = input PROVE DhcpInv'
<1>1. /\ pc = "header" /\ message' = message /\ kind' = kind /\ at' = at /\ type' = type /\ end' = end /\ opts' = opts
      /\ touched' = touched /\ statics' = statics /\ config' = config
      /\ pc' = IF message.ours THEN "walk" ELSE "dropped"
    BY DEF Dhcp!Header, Dhcp!given
<1>2. Dhcp!TypeOK'
    BY <1>1, MessageSame DEF DhcpInv, Dhcp!TypeOK
<1>3. CASE message.ours
    <2>1. PICK l \in Seq(DhcpOption) : DhcpRead(l)
        BY <1>1 DEF DhcpInv
    <2>2. DhcpRead(l)'
        BY <1>1, <2>1, MessageSame DEF DhcpRead
    <2> QED BY <1>1, <1>2, <1>3, <2>2, GoesOn
<1>4. CASE ~message.ours
    <2>1. \A l \in Dhcp!Lists(0) : ~Dhcp!Takes(l, statics)
        BY <1>4 DEF Dhcp!Takes
    <2> QED BY <1>1, <1>2, <1>4, <2>1, Drops
<1> QED BY <1>3, <1>4

LEMMA PadStep == ASSUME DhcpInv, input = "dhcp", Dhcp!Pad, input' = input PROVE DhcpInv'
<1>1. /\ pc = "walk" /\ end = FALSE /\ at < Dhcp!n /\ Dhcp!Byte(at) = 0
      /\ at' = at + 1 /\ Dhcp!Touch(at + 1)
      /\ message' = message /\ kind' = kind /\ type' = type /\ end' = end /\ opts' = opts
      /\ statics' = statics /\ config' = config /\ pc' = pc
    BY WalkTypes DEF Dhcp!Pad, Dhcp!Walking, Dhcp!given
<1>2. at + 1 \in 0..Dhcp!n /\ at \in 0..(Dhcp!n + 256)
    BY <1>1, WalkTypes
<1>3. Dhcp!n' = Dhcp!n /\ touched' \in 0..Dhcp!n
    BY <1>1, <1>2, MessageSame, Touches
<1>4. Dhcp!TypeOK'
    BY <1>1, <1>2, <1>3 DEF DhcpInv, Dhcp!TypeOK
<1>5. PICK l \in Seq(DhcpOption) : DhcpRead(l)
    BY <1>1 DEF DhcpInv
<1>6. DhcpRead(l)'
    <2>1. Dhcp!Lists(at) = Dhcp!Lists(at + 1)
        BY <1>1, <1>2, WalkTypes, ListsStep
    <2>2. Dhcp!Lists(0)' = Dhcp!Lists(0) /\ Dhcp!Lists(at)' = Dhcp!Lists(at + 1)
        BY <1>1, MessageSame
    <2> QED BY <1>1, <1>5, <2>1, <2>2 DEF DhcpRead
<1> QED BY <1>1, <1>4, <1>6, GoesOn

LEMMA EndStep == ASSUME DhcpInv, input = "dhcp", Dhcp!End, input' = input PROVE DhcpInv'
<1>1. /\ pc = "walk" /\ end = FALSE /\ at < Dhcp!n /\ Dhcp!Byte(at) = 255
      /\ at' = at + 1 /\ end' = TRUE /\ Dhcp!Touch(at + 1)
      /\ message' = message /\ kind' = kind /\ type' = type /\ opts' = opts
      /\ statics' = statics /\ config' = config /\ pc' = pc
    BY WalkTypes DEF Dhcp!End, Dhcp!Walking, Dhcp!given
<1>2. at + 1 \in 0..Dhcp!n /\ at \in 0..(Dhcp!n + 256)
    BY <1>1, WalkTypes
<1>3. Dhcp!n' = Dhcp!n /\ touched' \in 0..Dhcp!n
    BY <1>1, <1>2, MessageSame, Touches
<1>4. Dhcp!TypeOK'
    BY <1>1, <1>2, <1>3 DEF DhcpInv, Dhcp!TypeOK
<1>5. PICK l \in Seq(DhcpOption) : DhcpRead(l)
    BY <1>1 DEF DhcpInv
<1>6. DhcpRead(l)'
    <2>1. Dhcp!Lists(at) = {<<>>}
        BY <1>1, <1>2, WalkTypes, ListsStep
    <2>2. l \o <<>> = l
        OBVIOUS
    <2>3. Dhcp!Lists(0) = {l}
        BY <1>1, <1>5, <2>1, <2>2 DEF DhcpRead
    <2>4. Dhcp!Lists(0)' = Dhcp!Lists(0)
        BY <1>1, MessageSame
    <2> QED BY <1>1, <1>5, <2>3, <2>4 DEF DhcpRead
<1> QED BY <1>1, <1>4, <1>6, GoesOn

LEMMA TruncatedStep == ASSUME DhcpInv, input = "dhcp", Dhcp!Truncated, input' = input PROVE DhcpInv'
<1>1. /\ pc = "walk" /\ end = FALSE /\ at < Dhcp!n /\ Dhcp!Byte(at) \notin {0, 255}
      /\ at + 1 >= Dhcp!n \/ ~(Dhcp!Byte(at + 1) <= Dhcp!n - (at + 2))
      /\ Dhcp!Touch(IF at + 1 < Dhcp!n THEN at + 2 ELSE at + 1)
      /\ message' = message /\ kind' = kind /\ at' = at /\ type' = type /\ end' = end /\ opts' = opts
      /\ statics' = statics /\ config' = config /\ pc' = "dropped"
    BY WalkTypes DEF Dhcp!Truncated, Dhcp!Drop, Dhcp!Inside, Dhcp!Walking, Dhcp!given
<1>2. (IF at + 1 < Dhcp!n THEN at + 2 ELSE at + 1) \in 0..Dhcp!n
    BY <1>1, WalkTypes
<1>3. Dhcp!n' = Dhcp!n /\ touched' \in 0..Dhcp!n
    BY <1>1, <1>2, MessageSame, Touches
<1>4. Dhcp!TypeOK'
    BY <1>1, <1>3 DEF DhcpInv, Dhcp!TypeOK
<1>5. PICK l \in Seq(DhcpOption) : DhcpRead(l)
    BY <1>1 DEF DhcpInv
<1>6. Torn(at)
    <2> DEFINE len == Dhcp!Byte(at + 1)
    <2>1. at \in Nat /\ at + 1 \in Nat /\ Dhcp!n \in Nat
        BY WalkTypes
    <2>2. len \in 0..255
        BY <2>1, WalkTypes
    <2>3. at + 1 >= Dhcp!n \/ ~(len <= Dhcp!n - (at + 2))
        BY <1>1
    <2> HIDE DEF len
    <2>4. at + 1 >= Dhcp!n \/ at + 2 + len > Dhcp!n
        BY <2>1, <2>2, <2>3
    <2> QED BY <2>4 DEF Torn, len
<1>7. Dhcp!Lists(0) = {}
    BY <1>1, <1>5, <1>6, WalkTypes, TornDropped
<1> QED BY <1>1, <1>4, <1>7, Drops

LEMMA OptionStep == ASSUME DhcpInv, input = "dhcp", Dhcp!Option, input' = input PROVE DhcpInv'
<1> DEFINE b == Dhcp!Byte(at)
           len == Dhcp!Byte(at + 1)
           good == Dhcp!GoodLength(b, len)
           size == IF b \in Dhcp!Wanted /\ good THEN at + 2 + 4 ELSE at + 2 + len
<1>1. /\ pc = "walk" /\ end = FALSE /\ at < Dhcp!n /\ b \notin {0, 255} /\ at + 1 < Dhcp!n /\ len <= Dhcp!n - (at + 2)
      /\ Dhcp!Touch(size)
      /\ message' = message /\ kind' = kind /\ statics' = statics /\ config' = config
    BY WalkTypes DEF Dhcp!Option, Dhcp!Inside, Dhcp!Walking, Dhcp!given
<1>2. /\ ~good => pc' = "dropped" /\ at' = at /\ type' = type /\ end' = end /\ opts' = opts
      /\ good => /\ pc' = pc /\ end' = end /\ at' = at + 2 + len
                 /\ type' = IF b = 53 THEN Dhcp!Byte(at + 2) ELSE type
                 /\ opts' = IF b \in Dhcp!Wanted THEN Dhcp!With(opts, b, Dhcp!AddressAt(at + 2)) ELSE opts
    BY DEF Dhcp!Option, Dhcp!Drop, Dhcp!TYPE
<1>3. len \in 0..255 /\ Dhcp!Byte(at + 2) \in Dhcp!Octet
    BY WalkTypes DEF Dhcp!Octet
<1>4. b \in Dhcp!Wanted /\ good => len >= 4
    <2> SUFFICES ASSUME b \in Dhcp!Wanted, good PROVE len >= 4
        OBVIOUS
    <2>1. len = 4 \/ (len # 0 /\ len % 4 = 0)
        BY DEF Dhcp!GoodLength, Dhcp!Wanted, Dhcp!TYPE, Dhcp!SERVER, Dhcp!MASK, Dhcp!ROUTER, Dhcp!DNS
    <2> HIDE DEF len
    <2>2. 1 % 4 = 1 /\ 2 % 4 = 2 /\ 3 % 4 = 3
        OBVIOUS
    <2>3. len # 0 => len \in {1, 2, 3} \/ len >= 4
        BY <1>3
    <2> QED BY <2>1, <2>2, <2>3
<1>5. size \in 0..Dhcp!n /\ at + 2 + len \in 0..Dhcp!n
    <2> HIDE DEF b, len, good
    <2> QED BY <1>1, <1>3, <1>4, WalkTypes
<1> HIDE DEF size
<1>6. Dhcp!n' = Dhcp!n /\ touched' \in 0..Dhcp!n
    BY <1>1, <1>5, MessageSame, Touches
<1>7. PICK l \in Seq(DhcpOption) : DhcpRead(l)
    BY <1>1 DEF DhcpInv
<1>8. CASE good
    <2>1. DOMAIN opts' \subseteq Dhcp!Wanted
        <3>1. b \in Dhcp!Wanted => DOMAIN opts' = DOMAIN opts \cup {b}
            BY <1>2, <1>8 DEF Dhcp!With
        <3> QED BY <1>2, <1>8, <3>1, WalkTypes
    <2>2. type' \in Dhcp!Octet
        BY <1>2, <1>3, <1>8, WalkTypes
    <2>3. Dhcp!TypeOK'
        BY <1>1, <1>2, <1>5, <1>6, <1>8, <2>1, <2>2 DEF DhcpInv, Dhcp!TypeOK
    <2>4. PICK a : a = Append(l, OptionAt(at))
        OBVIOUS
    <2>5. a \in Seq(DhcpOption) /\ DhcpRead(a)'
        BY <1>7, <1>8, <2>4, ReadOption
    <2> QED BY <1>1, <1>2, <1>8, <2>3, <2>5, GoesOn
<1>9. CASE ~good
    <2>1. Dhcp!TypeOK'
        BY <1>1, <1>2, <1>6, <1>9 DEF DhcpInv, Dhcp!TypeOK
    <2>2. ~Torn(at)
        <3>1. Torn(at) <=> at + 1 >= Dhcp!n \/ at + 2 + len > Dhcp!n
            BY DEF Torn
        <3> HIDE DEF len
        <3> QED BY <1>1, <1>3, <3>1, WalkTypes
    <2>3. type \in Nat
        <3>1. type \in 0..255
            BY WalkTypes DEF Dhcp!Octet
        <3> QED BY <3>1
    <2>4. \A c \in Dhcp!Lists(0) : ~Dhcp!Sound(c)
        BY <1>1, <1>7, <1>9, <2>2, <2>3, WalkTypes, BadDropped
    <2>5. \A c \in Dhcp!Lists(0) : ~Dhcp!Takes(c, statics)
        BY <2>4 DEF Dhcp!Takes
    <2> QED BY <1>1, <1>2, <1>9, <2>1, <2>5, Drops
<1> QED BY <1>8, <1>9

LEMMA RefuseStep == ASSUME DhcpInv, input = "dhcp", Dhcp!Refuse, input' = input PROVE DhcpInv'
<1>1. /\ pc = "walk" /\ (end = TRUE \/ (end = FALSE /\ at >= Dhcp!n))
      /\ ~(Dhcp!Complete /\ (kind = 5 => Dhcp!Confirms))
      /\ message' = message /\ kind' = kind /\ at' = at /\ type' = type /\ end' = end /\ opts' = opts
      /\ touched' = touched /\ statics' = statics /\ config' = config /\ pc' = "dropped"
    BY WalkTypes DEF Dhcp!Refuse, Dhcp!Walking, Dhcp!given
<1>2. Dhcp!TypeOK'
    BY <1>1, MessageSame DEF DhcpInv, Dhcp!TypeOK
<1>3. \A l \in Dhcp!Lists(0) : ~Dhcp!Takes(l, statics)
    <2>1. CASE end = TRUE
        BY <1>1, <2>1, Judged
    <2>2. CASE end = FALSE /\ at >= Dhcp!n
        <3>1. PICK l \in Seq(DhcpOption) : DhcpRead(l)
            BY <1>1 DEF DhcpInv
        <3>2. Dhcp!Lists(0) = {}
            BY <2>2, <3>1, WalkTypes, TornDropped
        <3> QED BY <3>2
    <2> QED BY <1>1, <2>1, <2>2
<1> QED BY <1>1, <1>2, <1>3, Drops

\* A message that is taken ends with END.
LEMMA Finished ==
    ASSUME DhcpInv, input = "dhcp", Dhcp!Complete
    PROVE  end = TRUE
BY WalkTypes DEF Dhcp!Complete

LEMMA OfferStep == ASSUME DhcpInv, input = "dhcp", Dhcp!Offer, input' = input PROVE DhcpInv'
<1>1. /\ pc = "walk" /\ kind = 2 /\ Dhcp!Complete
      /\ statics' = [offered |-> message.yiaddr, server |-> opts[54]]
      /\ message' = message /\ kind' = kind /\ at' = at /\ type' = type /\ end' = end /\ opts' = opts
      /\ touched' = touched /\ config' = config /\ pc' = "taken"
    BY DEF Dhcp!Offer, Dhcp!given, Dhcp!SERVER
<1>2. Dhcp!TypeOK'
    BY <1>1, MessageSame DEF DhcpInv, Dhcp!TypeOK
<1>3. PICK l \in Dhcp!Lists(0) :
         /\ \A o \in Dhcp!Wanted : Dhcp!Value(l, o) = IF o \in DOMAIN opts THEN {opts[o]} ELSE {}
         /\ \A s : Dhcp!Takes(l, s) <=>
               /\ Dhcp!Complete
               /\ kind = 5 => DOMAIN opts = Dhcp!Wanted /\ opts[54] = s.server /\ message.yiaddr = s.offered
    BY <1>1, Finished, Judged
<1>4. \A s : Dhcp!Takes(l, s)
    BY <1>1, <1>3
<1>5. (Dhcp!Takes(l, statics))'
    <2>1. \A s : Dhcp!Takes(l, s)'
        BY <1>1, <1>4, MessageSame
    <2> QED BY <2>1 DEF Dhcp!Takes, Dhcp!Sound, Dhcp!Value, Dhcp!Usable
<1>6. {statics'.server} = Dhcp!Value(l, 54)
    BY <1>1, <1>3 DEF Dhcp!Complete, Dhcp!Wanted, Dhcp!SERVER
<1>7. l \in Dhcp!Lists(0)'
    BY <1>1, <1>3, MessageSame
<1>8. Dhcp!Value(l, 54)' = Dhcp!Value(l, 54)
    BY DEF Dhcp!Value
<1>9. Dhcp!Agrees'
    BY <1>1, <1>5, <1>6, <1>7, <1>8 DEF Dhcp!Agrees, Dhcp!SERVER
<1>10. DhcpGiven'
    BY <1>1, MessageSame DEF DhcpInv
<1> QED BY <1>1, <1>2, <1>9, <1>10 DEF DhcpInv

LEMMA AckStep == ASSUME DhcpInv, input = "dhcp", Dhcp!Ack, input' = input PROVE DhcpInv'
<1>1. /\ pc = "walk" /\ kind = 5 /\ Dhcp!Complete /\ Dhcp!Confirms
      /\ config' = {<<opts[1], opts[3], opts[6]>>}
      /\ message' = message /\ kind' = kind /\ at' = at /\ type' = type /\ end' = end /\ opts' = opts
      /\ touched' = touched /\ statics' = statics /\ pc' = "taken"
    BY DEF Dhcp!Ack, Dhcp!given, Dhcp!MASK, Dhcp!ROUTER, Dhcp!DNS
<1>2. Dhcp!TypeOK'
    BY <1>1, MessageSame DEF DhcpInv, Dhcp!TypeOK
<1>3. PICK l \in Dhcp!Lists(0) :
         /\ \A o \in Dhcp!Wanted : Dhcp!Value(l, o) = IF o \in DOMAIN opts THEN {opts[o]} ELSE {}
         /\ Dhcp!Takes(l, statics) <=> Dhcp!Complete /\ (kind = 5 => Dhcp!Confirms)
    BY <1>1, Finished, Judged
<1>4. Dhcp!Takes(l, statics)
    BY <1>1, <1>3
<1>5. (Dhcp!Takes(l, statics))'
    BY <1>1, <1>4 DEF Dhcp!Takes, Dhcp!Sound, Dhcp!Value, Dhcp!Usable
<1>6. DOMAIN opts = Dhcp!Wanted /\ statics = [offered |-> message.yiaddr, server |-> opts[54]]
    BY <1>1 DEF Dhcp!Confirms, Dhcp!SERVER
<1>7. /\ Dhcp!Value(l, 54) = {opts[54]} /\ Dhcp!Value(l, 1) = {opts[1]}
      /\ Dhcp!Value(l, 3) = {opts[3]} /\ Dhcp!Value(l, 6) = {opts[6]}
    BY <1>3, <1>6 DEF Dhcp!Wanted, Dhcp!SERVER, Dhcp!MASK, Dhcp!ROUTER, Dhcp!DNS
<1>8. config' = Dhcp!Value(l, 1) \X Dhcp!Value(l, 3) \X Dhcp!Value(l, 6)
    BY <1>1, <1>7
<1>9. l \in Dhcp!Lists(0)' /\ \A o : Dhcp!Value(l, o)' = Dhcp!Value(l, o)
    <2>1. \A o : Dhcp!Value(l, o)' = Dhcp!Value(l, o)
        BY DEF Dhcp!Value
    <2> QED BY <1>1, <1>3, <2>1, MessageSame
<1>10. Dhcp!Agrees'
    <2>1. statics'.offered = message'.yiaddr /\ {statics'.server} = Dhcp!Value(l, 54)'
        BY <1>1, <1>6, <1>7, <1>9
    <2>2. config' = Dhcp!Value(l, 1)' \X Dhcp!Value(l, 3)' \X Dhcp!Value(l, 6)'
        BY <1>8, <1>9
    <2> QED BY <1>1, <1>5, <1>9, <2>1, <2>2 DEF Dhcp!Agrees, Dhcp!SERVER, Dhcp!MASK, Dhcp!ROUTER, Dhcp!DNS
<1>11. DhcpGiven'
    BY <1>1, MessageSame DEF DhcpInv
<1> QED BY <1>1, <1>2, <1>10, <1>11 DEF DhcpInv

LEMMA DhcpNext == DhcpInv /\ [InputNext]_inputVars => DhcpInv'
<1> SUFFICES ASSUME DhcpInv, [InputNext]_inputVars PROVE DhcpInv'
    OBVIOUS
<1>1. input' = input
    BY DEF InputNext, inputVars
<1>2. CASE input # "dhcp"
    BY <1>1, <1>2 DEF DhcpInv
<1>3. CASE input = "dhcp" /\ UNCHANGED <<pc, dhcpVars>>
    <2>1. /\ message' = message /\ kind' = kind /\ at' = at /\ type' = type /\ end' = end /\ opts' = opts
          /\ touched' = touched /\ statics' = statics /\ config' = config /\ pc' = pc
        BY <1>3 DEF dhcpVars
    <2>2. \A l : DhcpRead(l)' <=> DhcpRead(l)
        BY <2>1, MessageSame DEF DhcpRead
    <2>3. Dhcp!TypeOK'
        BY <1>3, <2>1, MessageSame DEF DhcpInv, Dhcp!TypeOK
    <2>4. Dhcp!Agrees' <=> Dhcp!Agrees
        <3>1. Dhcp!Lists(0)' = Dhcp!Lists(0) /\ \A l : (Dhcp!Takes(l, statics))' <=> Dhcp!Takes(l, statics)
            BY <2>1, MessageSame DEF Dhcp!Takes, Dhcp!Sound, Dhcp!Value, Dhcp!Usable
        <3>2. \A l, o : Dhcp!Value(l, o)' = Dhcp!Value(l, o)
            BY DEF Dhcp!Value
        <3> QED BY <2>1, <3>1, <3>2 DEF Dhcp!Agrees
    <2>5. DhcpGiven' = DhcpGiven
        BY <2>1, MessageSame
    <2> QED BY <1>1, <1>3, <2>1, <2>2, <2>3, <2>4, <2>5 DEF DhcpInv
<1>4. CASE input = "dhcp" /\ Dhcp!Next
    BY <1>1, <1>4, HeaderStep, PadStep, EndStep, TruncatedStep, OptionStep, OfferStep, AckStep, RefuseStep DEF Dhcp!Next
<1> QED BY <1>2, <1>3, <1>4 DEF InputNext, inputVars

\* dhcp_parse takes a message of any length exactly when its list of options
\* says so, and keeps what that list says; no option it reads ends behind the
\* datagram.
THEOREM OffersJudged == InputSpec => []OffersAgree
<1>1. DhcpInv => OffersAgree
    BY DEF DhcpInv, OffersAgree
<1> QED BY DhcpBegins, DhcpNext, <1>1, PTL DEF InputSpec

\* What the digits up to the j-th are worth.
Worth(v, d, k) == v = [j \in 0..k |-> IF j = 0 THEN 0 ELSE v[j - 1] * 10 + Url!Digit(d[j])]

LEMMA WorthStep ==
    ASSUME NEW v, NEW d, NEW k \in Nat, Worth(v, d, k), NEW j \in 1..k
    PROVE  v[j] = v[j - 1] * 10 + Url!Digit(d[j])
<1>1. j \in 0..k /\ j # 0
    OBVIOUS
<1> QED BY <1>1 DEF Worth

LEMMA WorthExists == ASSUME NEW d, NEW k \in Nat PROVE \E v : Worth(v, d, k)
<1> DEFINE S == {l \in Nat : \E v : Worth(v, d, l)}
<1>1. 0 \in S
    <2> DEFINE v == [j \in 0..0 |-> 0]
    <2>1. Worth(v, d, 0)
        BY DEF Worth
    <2> QED BY <2>1
<1>2. ASSUME NEW l \in Nat, l \in S PROVE l + 1 \in S
    <2>1. PICK v : Worth(v, d, l)
        BY <1>2
    <2> DEFINE last == v[l] * 10 + Url!Digit(d[l + 1])
               g == [j \in 0..(l + 1) |-> IF j = l + 1 THEN last ELSE v[j]]
    <2>2. ASSUME NEW j \in 0..(l + 1)
          PROVE  g[j] = IF j = 0 THEN 0 ELSE g[j - 1] * 10 + Url!Digit(d[j])
        <3>1. CASE j = l + 1
            <4>1. j # 0 /\ j - 1 = l /\ g[j - 1] = v[l] /\ g[j] = last
                BY <3>1
            <4> HIDE DEF g
            <4> QED BY <3>1, <4>1
        <3>2. CASE j \in 0..l
            <4>1. g[j] = v[j]
                BY <3>2
            <4>2. j = 0 => v[j] = 0
                BY <2>1, <3>2 DEF Worth
            <4>3. j # 0 => j \in 1..l /\ g[j - 1] = v[j - 1]
                BY <3>2
            <4>4. j # 0 => v[j] = v[j - 1] * 10 + Url!Digit(d[j])
                BY <2>1, <4>3, WorthStep
            <4> HIDE DEF g
            <4> QED BY <4>1, <4>2, <4>3, <4>4
        <3> QED BY <3>1, <3>2
    <2>3. Worth(g, d, l + 1)
        <3>1. g = [j \in 0..(l + 1) |-> g[j]]
            OBVIOUS
        <3> HIDE DEF g
        <3> QED BY <2>2, <3>1 DEF Worth
    <2> QED BY <2>3
<1> HIDE DEF S
<1>3. k \in S
    BY <1>1, <1>2, EveryNatural
<1> QED BY <1>3 DEF S

LEMMA ValueOf ==
    ASSUME NEW d, Len(d) \in Nat
    PROVE  \E v : Worth(v, d, Len(d)) /\ Url!Value(d) = v[Len(d)]
<1> DEFINE R == CHOOSE x : Worth(x, d, Len(d))
<1>1. Url!Value(d) = R[Len(d)]
    BY DEF Url!Value, Worth
<1>2. Worth(R, d, Len(d))
    BY WorthExists
<1> HIDE DEF R
<1> QED BY <1>1, <1>2

\* Only the digits in front count.
LEMMA WorthSame ==
    ASSUME NEW d, NEW e, NEW k \in Nat, NEW l \in Nat, k <= l, \A j \in 1..k : d[j] = e[j],
           NEW v, Worth(v, d, k), NEW w, Worth(w, e, l)
    PROVE  v[k] = w[k] /\ v[k] \in Nat
<1> DEFINE S == {j \in Nat : j <= k => v[j] = w[j] /\ v[j] \in Nat}
<1>1. 0 \in S
    <2>1. v[0] = 0 /\ w[0] = 0
        BY DEF Worth
    <2> QED BY <2>1
<1>2. ASSUME NEW j \in Nat, j \in S PROVE j + 1 \in S
    <2> SUFFICES ASSUME j + 1 <= k PROVE v[j + 1] = w[j + 1] /\ v[j + 1] \in Nat
        OBVIOUS
    <2>1. j + 1 \in 1..k /\ j + 1 \in 1..l /\ (j + 1) - 1 = j /\ d[j + 1] = e[j + 1]
        OBVIOUS
    <2>2. v[j] = w[j] /\ v[j] \in Nat
        BY <1>2, <2>1
    <2>3. v[j + 1] = v[j] * 10 + Url!Digit(d[j + 1])
        BY <2>1, WorthStep
    <2>4. w[j + 1] = w[j] * 10 + Url!Digit(e[j + 1])
        BY <2>1, WorthStep
    <2>5. Url!Digit(d[j + 1]) \in Nat
        BY DEF Url!Digit
    <2> QED BY <2>1, <2>2, <2>3, <2>4, <2>5
<1> HIDE DEF S
<1>3. k \in S
    BY <1>1, <1>2, EveryNatural
<1> QED BY <1>3 DEF S

LEMMA ValueType == ASSUME NEW S, NEW d \in Seq(S) PROVE Url!Value(d) \in Nat
<1>1. Len(d) \in Nat /\ Len(d) <= Len(d)
    OBVIOUS
<1>2. PICK v : Worth(v, d, Len(d)) /\ Url!Value(d) = v[Len(d)]
    BY <1>1, ValueOf
<1>3. v[Len(d)] = v[Len(d)] /\ v[Len(d)] \in Nat
    <2> DEFINE k == Len(d)
    <2>1. k \in Nat /\ k <= k /\ Worth(v, d, k)
        BY <1>1, <1>2
    <2>2. \A j \in 1..k : d[j] = d[j]
        OBVIOUS
    <2> HIDE DEF k
    <2>3. v[k] = v[k] /\ v[k] \in Nat
        BY <2>1, <2>2, WorthSame
    <2> QED BY <2>3 DEF k
<1> QED BY <1>2, <1>3

\* One more digit.
LEMMA ValueDigit ==
    ASSUME NEW S, NEW d \in Seq(S), NEW c \in S
    PROVE  /\ Url!Value(d) \in Nat /\ Url!Digit(c) \in 0..9
           /\ Url!Value(Append(d, c)) = Url!Value(d) * 10 + Url!Digit(c)
<1> DEFINE k == Len(d)
           e == Append(d, c)
<1>1. k \in Nat /\ Len(e) = k + 1 /\ e[k + 1] = c /\ \A j \in 1..k : d[j] = e[j]
    OBVIOUS
<1> HIDE DEF k, e
<1>2. PICK v : Worth(v, d, k) /\ Url!Value(d) = v[k]
    BY <1>1, ValueOf DEF k
<1>3. PICK w : Worth(w, e, k + 1) /\ Url!Value(e) = w[k + 1]
    <2>1. Len(e) \in Nat
        BY <1>1
    <2> QED BY <1>1, <2>1, ValueOf
<1>4. v[k] = w[k] /\ v[k] \in Nat
    BY <1>1, <1>2, <1>3, WorthSame
<1>5. w[k + 1] = w[k] * 10 + Url!Digit(c)
    <2>1. k + 1 \in 1..(k + 1) /\ (k + 1) - 1 = k /\ k + 1 \in Nat
        BY <1>1
    <2> QED BY <1>1, <1>3, <2>1, WorthStep
<1>6. Url!Digit(c) \in 0..9
    BY DEF Url!Digit
<1> QED BY <1>2, <1>3, <1>4, <1>5, <1>6 DEF e

\* The digits of s from the a-th to the b-th, and one more.
LEMMA ValueFurther ==
    ASSUME NEW S, NEW s \in Seq(S), NEW a \in Nat \ {0}, NEW b \in Nat, a <= b + 1, b + 1 <= Len(s)
    PROVE  /\ Url!Value(SubSeq(s, a, b)) \in Nat
           /\ Url!Value(SubSeq(s, a, b + 1)) = Url!Value(SubSeq(s, a, b)) * 10 + Url!Digit(s[b + 1])
<1>1. SubSeq(s, a, b) \in Seq(S) /\ s[b + 1] \in S
    OBVIOUS
<1>2. SubSeq(s, a, b + 1) = Append(SubSeq(s, a, b), s[b + 1])
    OBVIOUS
<1> QED BY <1>1, <1>2, ValueDigit

LEMMA ValueEmpty == Url!Value(<<>>) = 0
<1>1. Len(<<>>) = 0
    OBVIOUS
<1>2. PICK v : Worth(v, <<>>, 0) /\ Url!Value(<<>>) = v[0]
    BY <1>1, ValueOf
<1> QED BY <1>2 DEF Worth

\* More digits are not worth less.
LEMMA ValueGrows ==
    ASSUME NEW S, NEW s \in Seq(S), NEW a \in Nat \ {0}, NEW b \in Nat, a <= b + 1,
           NEW c \in Nat, b <= c, c <= Len(s)
    PROVE  Url!Value(SubSeq(s, a, b)) <= Url!Value(SubSeq(s, a, c))
<1> DEFINE V(k) == Url!Value(SubSeq(s, a, k))
           T == {k \in Nat : b + k <= c => V(b + k) \in Nat /\ V(b) <= V(b + k)}
<1>1. V(b) \in Nat
    <2>1. SubSeq(s, a, b) \in Seq(S)
        OBVIOUS
    <2> QED BY <2>1, ValueType
<1>2. \A k \in Nat : b + k + 1 <= c => V(b + k) \in Nat /\ V(b + k + 1) = V(b + k) * 10 + Url!Digit(s[b + k + 1])
    <2> SUFFICES ASSUME NEW k \in Nat, b + k + 1 <= c
                 PROVE  V(b + k) \in Nat /\ V(b + k + 1) = V(b + k) * 10 + Url!Digit(s[b + k + 1])
        OBVIOUS
    <2>1. b + k \in Nat /\ a <= (b + k) + 1 /\ (b + k) + 1 <= Len(s)
        OBVIOUS
    <2> HIDE DEF V
    <2> QED BY <2>1, ValueFurther DEF V
<1> HIDE DEF V
<1>3. 0 \in T
    BY <1>1
<1>4. ASSUME NEW k \in Nat, k \in T PROVE k + 1 \in T
    <2>1. \A x : Url!Digit(x) \in Nat
        BY DEF Url!Digit
    <2>2. b + (k + 1) = b + k + 1
        OBVIOUS
    <2> SUFFICES ASSUME b + k + 1 <= c PROVE V(b + k + 1) \in Nat /\ V(b) <= V(b + k + 1)
        BY <2>2
    <2>3. V(b + k) \in Nat /\ V(b) <= V(b + k)
        BY <1>4
    <2>4. V(b + k + 1) = V(b + k) * 10 + Url!Digit(s[b + k + 1])
        BY <1>2
    <2> QED BY <1>1, <2>1, <2>3, <2>4
<1> HIDE DEF T
<1>5. c - b \in T /\ b + (c - b) = c
    BY <1>3, <1>4, EveryNatural
<1> QED BY <1>5 DEF T, V

LEMMA UrlConstants ==
    /\ MaxUrl \in Nat \ {0} /\ MaxLabel \in Nat \ {0} /\ MaxPort \in Nat \ {0}
    /\ MaxOctet \in Nat \ {0} /\ MaxDigits \in Nat \ {0}
BY InputAssumption DEF Url!UrlAssumption

LEMMA SubSeqOf ==
    ASSUME NEW S, NEW s \in Seq(S), NEW a \in Nat \ {0}, NEW b \in Nat, a <= b + 1, b <= Len(s)
    PROVE  /\ SubSeq(s, a, b) \in Seq(S) /\ Len(SubSeq(s, a, b)) = b - a + 1
           /\ \A k \in 1..(b - a + 1) : SubSeq(s, a, b)[k] = s[a + k - 1]
OBVIOUS

LEMMA SubSeqSame ==
    ASSUME NEW S, NEW s \in Seq(S), NEW x \in Seq(S), NEW a \in Nat \ {0}, NEW b \in Nat,
           a <= b + 1, b <= Len(s), b <= Len(x), \A k \in a..b : s[k] = x[k]
    PROVE  SubSeq(s, a, b) = SubSeq(x, a, b)
<1> DEFINE y == SubSeq(s, a, b)
           z == SubSeq(x, a, b)
           n == b - a + 1
<1>1. /\ y \in Seq(S) /\ z \in Seq(S) /\ Len(y) = n /\ Len(z) = n
      /\ \A k \in 1..n : y[k] = s[a + k - 1] /\ z[k] = x[a + k - 1]
    BY SubSeqOf
<1>2. \A k \in 1..n : a + k - 1 \in a..b
    OBVIOUS
<1>3. \A k \in 1..n : y[k] = z[k]
    BY <1>1, <1>2
<1> HIDE DEF y, z, n
<1>4. y = z
    BY <1>1, <1>3
<1> QED BY <1>4 DEF y, z

\* What is nowhere allowed.
Stray == {"#", " "}

\* A URL, by where its host and its port end.
UrlAt(s, h, q) ==
    /\ Url!IsHost(SubSeq(s, 1, h))
    /\ q # h => /\ s[h + 1] = ":"
                /\ \A k \in (h + 2)..q : s[k] \in Url!Digits
                /\ Url!Value(SubSeq(s, h + 2, q)) \in 1..MaxPort
    /\ s[q + 1] = "/"
    /\ \A k \in (q + 2)..Len(s) : s[k] \notin Stray
    /\ (\A k \in 1..h : s[k] # "a") => Url!IsAddress(SubSeq(s, 1, h))

LEMMA IsUrlAt == ASSUME NEW s PROVE Url!IsUrl(s) <=> \E h \in 1..Len(s) : \E q \in h..(Len(s) - 1) : UrlAt(s, h, q)
BY DEF Url!IsUrl, UrlAt, Stray

LEMMA TokensDiffer ==
    /\ Url!Digits \subseteq Url!HostTokens /\ Url!HostTokens \subseteq Url!Tokens
    /\ Url!HostTokens \cap ({":", "/"} \cup Stray) = {} /\ Url!Digits \cap ({"a", ".", ":", "/"} \cup Stray) = {}
    /\ Url!Tokens = Url!HostTokens \cup {":", "/"} \cup Stray /\ Url!HostTokens = Url!Digits \cup {"a", "."}
    /\ ":" \notin Stray /\ "/" \notin Stray
BY DEF Url!Digits, Url!HostTokens, Url!Tokens, Stray

\* The host ends in front of the first byte that no host has.
LEMMA HostEnds ==
    ASSUME NEW s \in Seq(Url!Tokens), NEW h \in 1..Len(s), NEW q \in h..(Len(s) - 1), UrlAt(s, h, q)
    PROVE  /\ h + 1 \in 1..Len(s) /\ q + 1 \in 1..Len(s) /\ s[h + 1] \in {":", "/"} /\ s[h + 1] \notin Url!HostTokens
           /\ SubSeq(s, 1, h) \in Seq(Url!Tokens) /\ Len(SubSeq(s, 1, h)) = h
           /\ \A k \in 1..h : SubSeq(s, 1, h)[k] = s[k] /\ s[k] \in Url!HostTokens
<1>1. h + 1 \in 1..Len(s) /\ q + 1 \in 1..Len(s) /\ h \in Nat /\ h <= Len(s)
    OBVIOUS
<1>2. /\ SubSeq(s, 1, h) \in Seq(Url!Tokens) /\ Len(SubSeq(s, 1, h)) = h - 1 + 1
      /\ \A k \in 1..(h - 1 + 1) : SubSeq(s, 1, h)[k] = s[1 + k - 1]
    BY <1>1, SubSeqOf
<1>3. h - 1 + 1 = h /\ \A k \in 1..h : 1 + k - 1 = k
    BY <1>1
<1>4. DOMAIN SubSeq(s, 1, h) = 1..h
    BY <1>2, <1>3
<1>5. \A k \in 1..h : SubSeq(s, 1, h)[k] \in Url!HostTokens
    BY <1>4 DEF UrlAt, Url!IsHost
<1>6. s[h + 1] \in {":", "/"}
    BY DEF UrlAt
<1> QED BY <1>1, <1>2, <1>3, <1>5, <1>6, TokensDiffer

LEMMA HostEndsAt ==
    ASSUME NEW s \in Seq(Url!Tokens), NEW h \in 1..Len(s), NEW q \in h..(Len(s) - 1), UrlAt(s, h, q),
           NEW m \in 0..Len(s), \A k \in 1..m : s[k] \in Url!HostTokens
    PROVE  h >= m /\ (m < Len(s) /\ s[m + 1] \notin Url!HostTokens => h = m)
<1>1. h + 1 \in 1..Len(s) /\ s[h + 1] \notin Url!HostTokens /\ \A k \in 1..h : s[k] \in Url!HostTokens
    BY HostEnds
<1>2. ~(h + 1 \in 1..m)
    BY <1>1
<1>3. h \in Nat /\ m \in Nat
    OBVIOUS
<1>4. h >= m
    BY <1>2, <1>3
<1>5. m < Len(s) /\ s[m + 1] \notin Url!HostTokens => ~(m + 1 \in 1..h)
    BY <1>1
<1> QED BY <1>3, <1>4, <1>5

-----------------------------------------------------------------------------
(* The host *)

\* A host as far as it has been read, with lab characters behind its last dot.
HostSoFar(h, lab) ==
    /\ h \in Seq(Url!HostTokens)
    /\ lab \in 0..MaxLabel /\ lab <= Len(h)
    /\ \A k \in (Len(h) - lab + 1)..Len(h) : h[k] # "."
    /\ lab < Len(h) => h[Len(h) - lab] = "."
    /\ h # <<>> => h[1] # "."
    /\ \A k \in 1..(Len(h) - 1) : h[k] # "." \/ h[k + 1] # "."
    /\ \A k \in 1..(Len(h) - MaxLabel) : \E j \in k..(k + MaxLabel) : h[j] = "."

\* What url_parse_impl refuses in a host.
BadHere(lab, c) ==
    \/ c \in Url!HostTokens \ {"."} /\ lab >= MaxLabel
    \/ c \in {".", ":", "/"} /\ lab = 0
    \/ c \in Stray

LEMMA HostRefused ==
    ASSUME NEW x, NEW lab, HostSoFar(x, lab), NEW c \in Url!Tokens, BadHere(lab, c),
           NEW s \in Seq(Url!Tokens), Begins(Append(x, c), s)
    PROVE  ~Url!IsUrl(s)
<1> SUFFICES ASSUME NEW h \in 1..Len(s), NEW q \in h..(Len(s) - 1), UrlAt(s, h, q) PROVE FALSE
    BY IsUrlAt
<1> DEFINE m == Len(x)
           y == SubSeq(s, 1, h)
<1>1. /\ x \in Seq(Url!HostTokens) /\ m \in Nat /\ \A k \in 1..m : x[k] \in Url!HostTokens
      /\ Len(Append(x, c)) = m + 1 /\ Append(x, c)[m + 1] = c /\ \A k \in 1..m : Append(x, c)[k] = x[k]
    BY DEF HostSoFar
<1>2. m + 1 <= Len(s) /\ s[m + 1] = c /\ \A k \in 1..m : s[k] = x[k]
    BY <1>1 DEF Begins
<1>3. h \in Nat /\ Len(s) \in Nat
    OBVIOUS
<1>4. /\ h + 1 \in 1..Len(s) /\ s[h + 1] \in {":", "/"}
      /\ Len(y) = h /\ \A k \in 1..h : y[k] = s[k] /\ s[k] \in Url!HostTokens
    BY HostEnds
<1>5. Url!IsHost(y)
    BY DEF UrlAt
<1> HIDE DEF m, y
<1>6. /\ h >= 1 /\ y[1] # "." /\ y[h] # "."
      /\ \A k \in 1..(h - 1) : y[k] # "." \/ y[k + 1] # "."
      /\ \A k \in 1..(h - MaxLabel) : \E j \in k..(k + MaxLabel) : y[j] = "."
    BY <1>4, <1>5 DEF Url!IsHost
<1>7. h >= m /\ (c \notin Url!HostTokens => h = m)
    <2>1. m \in 0..Len(s) /\ m < Len(s) /\ \A k \in 1..m : s[k] \in Url!HostTokens
        BY <1>1, <1>2, <1>3
    <2>2. h >= m /\ (m < Len(s) /\ s[m + 1] \notin Url!HostTokens => h = m)
        BY <2>1, HostEndsAt
    <2> QED BY <1>2, <2>1, <2>2
<1>8. c \in Url!HostTokens => h >= m + 1
    <2> SUFFICES ASSUME c \in Url!HostTokens, h = m PROVE FALSE
        BY <1>1, <1>3, <1>7
    <2> QED BY <1>2, <1>4, TokensDiffer
<1>9. CASE c \in Url!HostTokens \ {"."} /\ lab >= MaxLabel
    <2>1. lab = MaxLabel /\ lab \in Nat /\ lab <= m /\ \A k \in (m - lab + 1)..m : x[k] # "."
        BY <1>9, UrlConstants DEF HostSoFar, m
    <2> DEFINE k == m + 1 - MaxLabel
    <2>2. k \in 1..(h - MaxLabel)
        BY <1>1, <1>3, <1>8, <1>9, <2>1, UrlConstants
    <2>3. PICK j \in k..(k + MaxLabel) : y[j] = "."
        BY <1>6, <2>2
    <2>4. j \in 1..h /\ (j = m + 1 \/ (j \in 1..m /\ j \in (m - lab + 1)..m))
        BY <1>1, <1>3, <1>8, <1>9, <2>1, <2>2, UrlConstants
    <2>5. y[j] = s[j]
        BY <1>4, <2>4
    <2> QED BY <1>2, <1>9, <2>1, <2>3, <2>4, <2>5
<1>10. CASE c = "." /\ lab = 0
    <2>1. h >= m + 1
        BY <1>8, <1>10, TokensDiffer
    <2>2. m + 1 \in 1..h /\ y[m + 1] = "."
        BY <1>1, <1>2, <1>3, <1>4, <1>10, <2>1
    <2>3. CASE m = 0
        BY <1>6, <2>2, <2>3
    <2>4. CASE m # 0
        <3>1. x[m] = "." /\ m \in 1..h /\ m \in 1..m
            <4>1. lab < m /\ m - lab = m
                BY <1>1, <1>10, <2>4
            <4> QED BY <1>1, <1>3, <2>1, <2>4, <4>1 DEF HostSoFar, m
        <3>2. y[m] = "."
            BY <1>2, <1>4, <3>1
        <3>3. m \in 1..(h - 1)
            BY <1>1, <1>3, <2>1, <2>4
        <3> QED BY <1>6, <2>2, <3>2, <3>3
    <2> QED BY <2>3, <2>4
<1>11. CASE c \in {":", "/"} /\ lab = 0
    <2>1. h = m
        BY <1>7, <1>11, TokensDiffer
    <2>2. x[m] = "." /\ m \in 1..m
        <3>1. lab < m /\ m - lab = m
            BY <1>1, <1>6, <1>11, <2>1
        <3> QED BY <1>1, <1>6, <2>1, <3>1 DEF HostSoFar, m
    <2>3. y[h] = "."
        BY <1>2, <1>4, <2>1, <2>2
    <2> QED BY <1>6, <2>3
<1>12. CASE c \in Stray
    <2>1. h = m
        BY <1>7, <1>12, TokensDiffer
    <2> QED BY <1>2, <1>4, <1>12, <2>1, TokensDiffer
<1> QED BY <1>9, <1>10, <1>11, <1>12 DEF BadHere

\* A character that the host takes.
LEMMA HostGoes ==
    ASSUME NEW h, NEW lab, HostSoFar(h, lab), NEW c \in Url!HostTokens, ~BadHere(lab, c)
    PROVE  HostSoFar(Append(h, c), IF c = "." THEN 0 ELSE lab + 1)
<1> DEFINE a == Append(h, c)
           m == Len(h)
           lab2 == IF c = "." THEN 0 ELSE lab + 1
<1>1. /\ h \in Seq(Url!HostTokens) /\ a \in Seq(Url!HostTokens) /\ m \in Nat /\ Len(a) = m + 1
      /\ a[m + 1] = c /\ \A k \in 1..m : a[k] = h[k]
    BY DEF HostSoFar
<1>2. /\ lab \in 0..MaxLabel /\ lab <= m
      /\ \A k \in (m - lab + 1)..m : h[k] # "."
      /\ lab < m => h[m - lab] = "."
      /\ m # 0 => h[1] # "."
      /\ \A k \in 1..(m - 1) : h[k] # "." \/ h[k + 1] # "."
      /\ \A k \in 1..(m - MaxLabel) : \E j \in k..(k + MaxLabel) : h[j] = "."
    BY DEF HostSoFar
<1>3. c # "." => lab < MaxLabel
    <2>1. c # "." => ~(lab >= MaxLabel)
        BY DEF BadHere
    <2> QED BY <1>2, <2>1, UrlConstants
<1>4. c = "." => lab # 0
    BY DEF BadHere
<1> HIDE DEF a, m
<1>5. lab2 \in 0..MaxLabel /\ lab2 <= m + 1
    BY <1>1, <1>2, <1>3, UrlConstants
<1>6. \A k \in (m + 1 - lab2 + 1)..(m + 1) : a[k] # "."
    <2>1. CASE c = "."
        BY <1>1, <2>1
    <2>2. CASE c # "."
        <3>1. \A k \in (m + 1 - lab2 + 1)..(m + 1) : k = m + 1 \/ (k \in (m - lab + 1)..m /\ k \in 1..m)
            BY <1>1, <1>2, <2>2
        <3> QED BY <1>1, <1>2, <2>2, <3>1
    <2> QED BY <2>1, <2>2
<1>7. lab2 < m + 1 => a[m + 1 - lab2] = "."
    <2>1. CASE c = "."
        BY <1>1, <2>1
    <2>2. CASE c # "."
        <3>1. lab2 < m + 1 => lab < m /\ m + 1 - lab2 = m - lab /\ m - lab \in 1..m
            BY <1>1, <1>2, <2>2
        <3> QED BY <1>1, <1>2, <3>1
    <2> QED BY <2>1, <2>2
<1>8. a[1] # "."
    <2>1. CASE m = 0
        BY <1>1, <1>2, <1>4, <2>1
    <2>2. CASE m # 0
        BY <1>1, <1>2, <2>2
    <2> QED BY <2>1, <2>2
<1>9. ASSUME NEW k \in 1..m PROVE a[k] # "." \/ a[k + 1] # "."
    <2>1. CASE k \in 1..(m - 1)
        <3>1. k + 1 \in 1..m
            BY <1>1, <2>1
        <3> QED BY <1>1, <1>2, <2>1, <3>1
    <2>2. CASE k = m /\ c = "."
        <3>1. m \in (m - lab + 1)..m
            BY <1>1, <1>2, <1>4, <2>2
        <3> QED BY <1>1, <1>2, <2>2, <3>1
    <2>3. CASE k = m /\ c # "."
        BY <1>1, <2>3
    <2> QED BY <1>1, <2>1, <2>2, <2>3
<1>10. ASSUME NEW k \in 1..(m + 1 - MaxLabel) PROVE \E j \in k..(k + MaxLabel) : a[j] = "."
    <2>1. CASE k \in 1..(m - MaxLabel)
        <3>1. PICK j \in k..(k + MaxLabel) : h[j] = "."
            BY <1>2, <2>1
        <3>2. j \in 1..m
            BY <1>1, <2>1, UrlConstants
        <3> QED BY <1>1, <3>1, <3>2
    <2>2. CASE k = m + 1 - MaxLabel /\ c = "."
        <3>1. m + 1 \in k..(k + MaxLabel)
            BY <1>1, <2>2, UrlConstants
        <3> QED BY <1>1, <2>2, <3>1
    <2>3. CASE k = m + 1 - MaxLabel /\ c # "."
        <3>1. lab < m /\ m - lab \in k..(k + MaxLabel) /\ m - lab \in 1..m
            BY <1>1, <1>2, <1>3, <2>3, UrlConstants
        <3> QED BY <1>1, <1>2, <3>1
    <2> QED BY <1>1, <2>1, <2>2, <2>3, UrlConstants
<1>11. Len(a) - 1 = m
    BY <1>1
<1> HIDE DEF lab2
<1>12. HostSoFar(a, lab2)
    <2>1. (\A k \in (Len(a) - lab2 + 1)..Len(a) : a[k] # ".") /\ (lab2 < Len(a) => a[Len(a) - lab2] = ".")
        BY <1>1, <1>5, <1>6, <1>7
    <2>2. \A k \in 1..(Len(a) - 1) : a[k] # "." \/ a[k + 1] # "."
        BY <1>9, <1>11
    <2>3. \A k \in 1..(Len(a) - MaxLabel) : \E j \in k..(k + MaxLabel) : a[j] = "."
        <3>1. Len(a) - MaxLabel = m + 1 - MaxLabel
            BY <1>1, UrlConstants
        <3> QED BY <1>10, <3>1, Zenon
    <2>4. lab2 <= Len(a)
        BY <1>1, <1>5
    <2> QED BY <1>1, <1>5, <1>8, <2>1, <2>2, <2>3, <2>4, Zenon DEF HostSoFar
<1> QED BY <1>12 DEF a, lab2

\* A host is whole behind a label that is not empty.
LEMMA HostWhole ==
    ASSUME NEW h, NEW lab, HostSoFar(h, lab), lab # 0
    PROVE  Url!IsHost(h) /\ Len(h) \in Nat \ {0} /\ h \in Seq(Url!HostTokens)
<1> DEFINE m == Len(h)
<1>1. /\ h \in Seq(Url!HostTokens) /\ m \in Nat /\ DOMAIN h = 1..m /\ lab \in Nat /\ lab <= m
      /\ \A k \in (m - lab + 1)..m : h[k] # "."
    BY DEF HostSoFar
<1>2. m # 0 /\ h # <<>> /\ m \in (m - lab + 1)..m
    BY <1>1
<1>3. h[m] # "."
    BY <1>1, <1>2
<1>4. \A k \in DOMAIN h : h[k] \in Url!HostTokens
    BY <1>1
<1> QED BY <1>1, <1>2, <1>3, <1>4 DEF HostSoFar, Url!IsHost

LEMMA SeqWider == ASSUME NEW S, NEW T, S \subseteq T, NEW s \in Seq(S) PROVE s \in Seq(T)
OBVIOUS

\* Nothing ends a URL within its host.
LEMMA HostCut == ASSUME NEW s \in Seq(Url!HostTokens) PROVE ~Url!IsUrl(s)
<1> SUFFICES ASSUME NEW h \in 1..Len(s), NEW q \in h..(Len(s) - 1), UrlAt(s, h, q) PROVE FALSE
    BY IsUrlAt
<1>1. s \in Seq(Url!Tokens) /\ Len(s) \in Nat /\ \A k \in 1..Len(s) : s[k] \in Url!HostTokens
    <2>1. Len(s) \in Nat /\ \A k \in 1..Len(s) : s[k] \in Url!HostTokens
        OBVIOUS
    <2>2. s \in Seq(Url!Tokens)
        <3>1. Url!HostTokens \subseteq Url!Tokens
            BY TokensDiffer
        <3> QED BY <3>1, SeqWider
    <2> QED BY <2>1, <2>2
<1>2. h >= Len(s)
    BY <1>1, HostEndsAt
<1> QED BY <1>1, <1>2

-----------------------------------------------------------------------------
(* The port and the path *)

\* s begins with the host h.
HostOf(s, h) ==
    /\ s \in Seq(Url!Tokens) /\ h \in Seq(Url!HostTokens) /\ Url!IsHost(h)
    /\ Len(h) \in 1..(Len(s) - 1)
    /\ \A k \in 1..Len(h) : s[k] = h[k]
    /\ s[Len(h) + 1] \in {":", "/"}

InPort(s, h, p) ==
    /\ HostOf(s, h) /\ s[Len(h) + 1] = ":"
    /\ \A k \in (Len(h) + 2)..Len(s) : s[k] \in Url!Digits
    /\ p = Url!Value(SubSeq(s, Len(h) + 2, Len(s))) /\ p <= MaxPort

InPath(s, h, q) ==
    /\ HostOf(s, h) /\ q \in Len(h)..(Len(s) - 1)
    /\ q # Len(h) => /\ s[Len(h) + 1] = ":"
                     /\ \A k \in (Len(h) + 2)..q : s[k] \in Url!Digits
                     /\ Url!Value(SubSeq(s, Len(h) + 2, q)) \in 1..MaxPort
    /\ s[q + 1] = "/"
    /\ \A k \in (q + 2)..Len(s) : s[k] \notin Stray

\* Whatever follows, the host is the same.
LEMMA HostFixed ==
    ASSUME NEW x, NEW host1, HostOf(x, host1), NEW s \in Seq(Url!Tokens), Begins(x, s)
    PROVE  /\ HostOf(s, host1) /\ Len(host1) \in Nat \ {0} /\ Len(host1) + 1 <= Len(x) /\ Len(x) <= Len(s)
           /\ Len(x) \in Nat /\ Len(s) \in Nat
           /\ \A k \in 1..Len(x) : s[k] = x[k]
           /\ SubSeq(s, 1, Len(host1)) = host1
           /\ \A h \in 1..Len(s) : \A q \in h..(Len(s) - 1) : UrlAt(s, h, q) => h = Len(host1)
<1> DEFINE l == Len(host1)
<1>1. /\ x \in Seq(Url!Tokens) /\ host1 \in Seq(Url!HostTokens) /\ l \in Nat \ {0} /\ l + 1 <= Len(x)
      /\ \A k \in 1..l : x[k] = host1[k]
      /\ x[l + 1] \in {":", "/"} /\ Len(x) \in Nat
    BY DEF HostOf
<1>2. Len(x) <= Len(s) /\ Len(s) \in Nat /\ \A k \in 1..Len(x) : s[k] = x[k]
    BY DEF Begins
<1>3. (\A k \in 1..l : s[k] = host1[k]) /\ s[l + 1] = x[l + 1]
    <2>1. l + 1 \in 1..Len(x) /\ \A k \in 1..l : k \in 1..Len(x)
        BY <1>1
    <2> QED BY <1>1, <1>2, <2>1
<1>4. HostOf(s, host1)
    <2>1. l \in 1..(Len(s) - 1)
        BY <1>1, <1>2
    <2> QED BY <1>1, <1>3, <2>1 DEF HostOf
<1>5. SubSeq(s, 1, l) = host1
    <2>1. host1 \in Seq(Url!Tokens) /\ SubSeq(host1, 1, l) = host1
        <3>1. host1 \in Seq(Url!Tokens)
            <4>1. Url!HostTokens \subseteq Url!Tokens
                BY TokensDiffer
            <4> QED BY <1>1, <4>1, SeqWider
        <3>2. SubSeq(host1, 1, Len(host1)) = host1
            BY <3>1
        <3> QED BY <3>1, <3>2
    <2>2. l <= Len(s) /\ l <= Len(host1) /\ 1 <= l + 1 /\ l \in Nat
        BY <1>1, <1>2
    <2>3. SubSeq(s, 1, l) = SubSeq(host1, 1, l)
        BY <1>3, <2>1, <2>2, SubSeqSame
    <2> QED BY <2>1, <2>3
<1>6. ASSUME NEW h \in 1..Len(s), NEW q \in h..(Len(s) - 1), UrlAt(s, h, q) PROVE h = l
    <2>1. l \in 0..Len(s) /\ l < Len(s)
        BY <1>1, <1>2
    <2>2. \A k \in 1..l : s[k] \in Url!HostTokens
        BY <1>1, <1>3
    <2>3. s[l + 1] \notin Url!HostTokens
        BY <1>1, <1>3, TokensDiffer
    <2> HIDE DEF l
    <2> QED BY <1>6, <2>1, <2>2, <2>3, HostEndsAt
<1> QED BY <1>1, <1>2, <1>4, <1>5, <1>6

\* port > 6553 || (port == 6553 && *p > '5') says that ten times the port and
\* the digit are more than the highest port.
LEMMA TooHighSays ==
    ASSUME NEW p \in Nat, NEW v \in 0..9
    PROVE  p > MaxPort \div 10 \/ (p = MaxPort \div 10 /\ v > MaxPort % 10) <=> p * 10 + v > MaxPort
<1> DEFINE d == MaxPort \div 10
           r == MaxPort % 10
<1>1. MaxPort \in Nat /\ d \in Nat /\ r \in 0..9 /\ MaxPort = d * 10 + r
    BY UrlConstants
<1> HIDE DEF d, r
<1> QED BY <1>1 DEF d, r

\* What url_parse_impl refuses in a port.
BadPort(p, c) ==
    ~(c \in Url!Digits /\ p * 10 + Url!Digit(c) <= MaxPort) /\ ~(c = "/" /\ p # 0)

\* The port ends in front of the first byte that is not a digit.
LEMMA PortEnds ==
    ASSUME NEW x, NEW host1, NEW p, InPort(x, host1, p), NEW s \in Seq(Url!Tokens), Begins(x, s),
           NEW q \in Len(host1)..(Len(s) - 1), UrlAt(s, Len(host1), q)
    PROVE  /\ Len(x) \in Nat /\ Len(s) \in Nat /\ Len(x) <= q
           /\ Len(host1) \in Nat \ {0} /\ Len(host1) + 1 <= Len(x)
           /\ \A k \in (Len(host1) + 2)..q : s[k] \in Url!Digits
           /\ Url!Value(SubSeq(s, Len(host1) + 2, q)) \in 1..MaxPort
           /\ p = Url!Value(SubSeq(s, Len(host1) + 2, Len(x))) /\ p \in Nat
<1> DEFINE l == Len(host1)
           m == Len(x)
<1>1. /\ l \in Nat \ {0} /\ l + 1 <= m /\ m <= Len(s) /\ m \in Nat /\ Len(s) \in Nat
      /\ \A k \in 1..m : s[k] = x[k]
    BY HostFixed DEF InPort
<1>2. /\ x \in Seq(Url!Tokens) /\ x[l + 1] = ":" /\ \A k \in (l + 2)..m : x[k] \in Url!Digits
      /\ p = Url!Value(SubSeq(x, l + 2, m))
    BY DEF InPort, HostOf
<1>3. s[q + 1] = "/"
    BY DEF UrlAt
<1> HIDE DEF l, m
<1>4. s[l + 1] = ":"
    <2>1. l + 1 \in 1..m
        BY <1>1
    <2> QED BY <1>1, <1>2, <2>1
<1>5. q \in Nat /\ q >= l /\ q # l
    <2>1. q \in Nat /\ q >= l
        BY <1>1 DEF l
    <2> QED BY <1>3, <1>4, <2>1
<1>6. (\A k \in (l + 2)..q : s[k] \in Url!Digits) /\ Url!Value(SubSeq(s, l + 2, q)) \in 1..MaxPort
    BY <1>5 DEF UrlAt, l
<1>7. m <= q
    <2> SUFFICES ASSUME ~(m <= q) PROVE FALSE
        OBVIOUS
    <2>1. q + 1 \in (l + 2)..m /\ q + 1 \in 1..m
        BY <1>1, <1>5
    <2>2. s[q + 1] \in Url!Digits
        BY <1>1, <1>2, <2>1
    <2> QED BY <1>3, <2>2, TokensDiffer
<1>8. p = Url!Value(SubSeq(s, l + 2, m)) /\ p \in Nat
    <2>1. l + 2 \in Nat \ {0} /\ l + 2 <= m + 1 /\ m <= Len(s) /\ m <= Len(x) /\ \A k \in (l + 2)..m : s[k] = x[k]
        BY <1>1 DEF m
    <2>2. SubSeq(s, l + 2, m) = SubSeq(x, l + 2, m)
        BY <1>1, <1>2, <2>1, SubSeqSame
    <2>3. SubSeq(x, l + 2, m) \in Seq(Url!Tokens)
        BY <1>1, <1>2, <2>1, SubSeqOf
    <2> QED BY <1>2, <2>2, <2>3, ValueType
<1> QED BY <1>1, <1>6, <1>7, <1>8 DEF l, m

LEMMA PortRefused ==
    ASSUME NEW x, NEW host1, NEW p, InPort(x, host1, p), NEW c \in Url!Tokens, BadPort(p, c),
           NEW s \in Seq(Url!Tokens), Begins(Append(x, c), s)
    PROVE  ~Url!IsUrl(s)
<1> DEFINE l == Len(host1)
           m == Len(x)
<1>1. x \in Seq(Url!Tokens) /\ HostOf(x, host1)
    BY DEF InPort, HostOf
<1>2. Len(Append(x, c)) = m + 1 /\ Append(x, c)[m + 1] = c /\ m \in Nat /\ \A k \in 1..m : Append(x, c)[k] = x[k]
    BY <1>1
<1>3. Begins(x, s) /\ m + 1 <= Len(s) /\ s[m + 1] = c
    BY <1>2 DEF Begins
<1> SUFFICES ASSUME NEW h \in 1..Len(s), NEW q1 \in h..(Len(s) - 1), UrlAt(s, h, q1) PROVE FALSE
    BY IsUrlAt
<1>4. h = l
    BY <1>1, <1>3, HostFixed
<1>5. PICK q \in l..(Len(s) - 1) : UrlAt(s, l, q)
    BY <1>4
<1>6. /\ m \in Nat /\ Len(s) \in Nat /\ m <= q /\ l \in Nat \ {0} /\ l + 1 <= m
      /\ \A k \in (l + 2)..q : s[k] \in Url!Digits
      /\ Url!Value(SubSeq(s, l + 2, q)) \in 1..MaxPort
      /\ p = Url!Value(SubSeq(s, l + 2, m)) /\ p \in Nat
    BY <1>3, <1>5, PortEnds
<1>7. s[q + 1] = "/"
    BY <1>5 DEF UrlAt
<1> HIDE DEF l, m
<1>8. q \in Nat /\ q + 1 <= Len(s)
    BY <1>5, <1>6
<1>9. CASE q = m
    <2>1. c = "/" /\ p # 0
        BY <1>3, <1>6, <1>7, <1>9
    <2> QED BY <2>1 DEF BadPort
<1>10. CASE q # m
    <2>1. m + 1 \in (l + 2)..q
        BY <1>6, <1>8, <1>10
    <2>2. c \in Url!Digits
        BY <1>3, <1>6, <2>1
    <2>3. p * 10 + Url!Digit(c) > MaxPort
        <3>1. Url!Digit(c) \in Nat
            BY DEF Url!Digit
        <3>2. ~(p * 10 + Url!Digit(c) <= MaxPort)
            BY <2>2 DEF BadPort
        <3> QED BY <1>6, <3>1, <3>2, UrlConstants
    <2>4. Url!Value(SubSeq(s, l + 2, m + 1)) = p * 10 + Url!Digit(c)
        <3>1. l + 2 \in Nat \ {0} /\ l + 2 <= m + 1 /\ m + 1 <= Len(s)
            BY <1>3, <1>6
        <3> QED BY <1>3, <1>6, <3>1, ValueFurther
    <2>5. Url!Value(SubSeq(s, l + 2, m + 1)) <= Url!Value(SubSeq(s, l + 2, q))
        <3>1. l + 2 \in Nat \ {0} /\ l + 2 <= (m + 1) + 1 /\ m + 1 \in Nat /\ m + 1 <= q /\ q <= Len(s)
            BY <1>6, <1>8, <1>10
        <3> QED BY <1>8, <3>1, ValueGrows
    <2>6. Url!Digit(c) \in Nat
        BY DEF Url!Digit
    <2> QED BY <1>6, <2>3, <2>4, <2>5, <2>6, UrlConstants
<1> QED BY <1>9, <1>10

\* The path ends neither the port nor the host anew.
LEMMA PathRefused ==
    ASSUME NEW x, NEW host1, NEW q0, InPath(x, host1, q0), NEW c \in Url!Tokens, c \in Stray,
           NEW s \in Seq(Url!Tokens), Begins(Append(x, c), s)
    PROVE  ~Url!IsUrl(s)
<1> DEFINE l == Len(host1)
           m == Len(x)
<1>1. x \in Seq(Url!Tokens) /\ HostOf(x, host1)
    BY DEF InPath, HostOf
<1>2. Len(Append(x, c)) = m + 1 /\ Append(x, c)[m + 1] = c /\ m \in Nat /\ \A k \in 1..m : Append(x, c)[k] = x[k]
    BY <1>1
<1>3. Begins(x, s) /\ m + 1 <= Len(s) /\ s[m + 1] = c /\ \A k \in 1..m : s[k] = x[k]
    BY <1>2 DEF Begins
<1> SUFFICES ASSUME NEW h \in 1..Len(s), NEW q1 \in h..(Len(s) - 1), UrlAt(s, h, q1) PROVE FALSE
    BY IsUrlAt
<1>4. h = l /\ l \in Nat \ {0} /\ l + 1 <= m /\ Len(s) \in Nat
    BY <1>1, <1>3, HostFixed
<1>5. PICK q \in l..(Len(s) - 1) : UrlAt(s, l, q)
    BY <1>4
<1>6. /\ q0 \in l..(m - 1) /\ x[q0 + 1] = "/"
      /\ q0 # l => x[l + 1] = ":" /\ \A k \in (l + 2)..q0 : x[k] \in Url!Digits
    BY DEF InPath
<1>7. /\ q # l => s[l + 1] = ":" /\ \A k \in (l + 2)..q : s[k] \in Url!Digits
      /\ s[q + 1] = "/" /\ \A k \in (q + 2)..Len(s) : s[k] \notin Stray
    BY <1>5 DEF UrlAt
<1> HIDE DEF l, m
<1>8. q \in Nat /\ q >= l /\ q + 1 <= Len(s) /\ q0 \in Nat /\ q0 >= l /\ q0 + 1 <= m
    <2>1. q \in l..(Len(s) - 1) /\ q0 \in l..(m - 1) /\ l \in Nat /\ m \in Nat /\ Len(s) \in Nat
        BY <1>2, <1>4, <1>5, <1>6
    <2> QED BY <2>1
<1>9. s[q0 + 1] = "/" /\ (q0 # l => s[l + 1] = ":" /\ \A k \in (l + 2)..q0 : s[k] \in Url!Digits)
    <2>1. q0 + 1 \in 1..m /\ l + 1 \in 1..m /\ \A k \in (l + 2)..q0 : k \in 1..m
        <3>1. l \in Nat /\ l + 1 <= m /\ m \in Nat
            BY <1>2, <1>4
        <3> QED BY <1>8, <3>1
    <2> QED BY <1>3, <1>6, <2>1
<1>10. q = q0
    <2>1. CASE q0 = l
        BY <1>7, <1>9, <2>1
    <2>2. CASE q0 # l
        <3>1. q # l
            BY <1>7, <1>9, <2>2
        <3>2. ~(q + 1 \in (l + 2)..q0)
            BY <1>7, <1>9, <2>2, TokensDiffer
        <3>3. ~(q0 + 1 \in (l + 2)..q)
            BY <1>7, <1>9, <3>1, TokensDiffer
        <3>4. l \in Nat
            BY <1>4
        <3> QED BY <1>8, <2>2, <3>1, <3>2, <3>3, <3>4
    <2> QED BY <2>1, <2>2
<1>11. m + 1 \in (q + 2)..Len(s)
    <2>1. m + 1 <= Len(s) /\ m \in Nat /\ Len(s) \in Nat
        BY <1>2, <1>3, <1>4
    <2> QED BY <1>8, <1>10, <2>1
<1> QED BY <1>3, <1>7, <1>11

\* Nothing ends a URL within its port.
LEMMA PortCut == ASSUME NEW x, NEW host1, NEW p, InPort(x, host1, p) PROVE ~Url!IsUrl(x)
<1>1. x \in Seq(Url!Tokens) /\ HostOf(x, host1)
    BY DEF InPort, HostOf
<1>2. Len(x) \in Nat /\ Begins(x, x)
    BY <1>1 DEF Begins
<1> SUFFICES ASSUME NEW h \in 1..Len(x), NEW q \in h..(Len(x) - 1), UrlAt(x, h, q) PROVE FALSE
    BY IsUrlAt
<1>3. h = Len(host1)
    BY <1>1, <1>2, HostFixed
<1>4. Len(x) <= q
    BY <1>1, <1>2, <1>3, PortEnds
<1> QED BY <1>2, <1>4

\* What has a host and a path is a URL, unless its host is a malformed address.
LEMMA PathWhole ==
    ASSUME NEW x, NEW host1, NEW q0, InPath(x, host1, q0)
    PROVE  Url!IsUrl(x) <=> ((\A k \in DOMAIN host1 : host1[k] # "a") => Url!IsAddress(host1))
<1> DEFINE l == Len(host1)
<1>1. x \in Seq(Url!Tokens) /\ HostOf(x, host1) /\ host1 \in Seq(Url!HostTokens) /\ Url!IsHost(host1)
    BY DEF InPath, HostOf
<1>2. Len(x) \in Nat /\ Begins(x, x)
    BY <1>1 DEF Begins
<1>3. /\ l \in Nat \ {0} /\ l + 1 <= Len(x) /\ SubSeq(x, 1, l) = host1
      /\ \A h \in 1..Len(x) : \A q \in h..(Len(x) - 1) : UrlAt(x, h, q) => h = l
    BY <1>1, <1>2, HostFixed
<1>4. \A k \in 1..l : x[k] = host1[k]
    BY <1>1 DEF HostOf
<1>5. DOMAIN host1 = 1..l
    BY <1>1
<1> HIDE DEF l
<1>6. (\A k \in 1..l : x[k] # "a") <=> (\A k \in DOMAIN host1 : host1[k] # "a")
    BY <1>4, <1>5
<1>7. l \in 1..Len(x) /\ q0 \in l..(Len(x) - 1)
    <2>1. q0 \in l..(Len(x) - 1)
        BY DEF InPath, l
    <2> QED BY <1>2, <1>3, <2>1
<1>8. ((\A k \in DOMAIN host1 : host1[k] # "a") => Url!IsAddress(host1)) => UrlAt(x, l, q0)
    BY <1>1, <1>3, <1>6 DEF InPath, UrlAt, l
<1>9. ASSUME Url!IsUrl(x) PROVE (\A k \in DOMAIN host1 : host1[k] # "a") => Url!IsAddress(host1)
    <2>1. PICK h \in 1..Len(x) : \E q \in h..(Len(x) - 1) : UrlAt(x, h, q)
        BY <1>9, IsUrlAt
    <2>2. h = l
        BY <1>3, <2>1
    <2>3. (\A k \in 1..l : x[k] # "a") => Url!IsAddress(SubSeq(x, 1, l))
        BY <2>1, <2>2 DEF UrlAt
    <2> QED BY <1>3, <1>6, <2>3
<1> QED BY <1>7, <1>8, <1>9, IsUrlAt

\* The dots of h in front of k.
Dots(h, k) == {j \in 1..k : h[j] = "."}

\* What separates octets: the dots, and both ends.
Marks(h) == {0, Len(h) + 1} \cup {k \in DOMAIN h : h[k] = "."}

\* Nothing of S lies between a and b.
Next2(S, a, b) == a < b /\ \A c \in S : c <= a \/ c >= b

\* What lies between the marks a and b is an octet.
OctetAt(h, a, b) == b - a - 1 \in 1..MaxDigits /\ Url!Value(SubSeq(h, a + 1, b - 1)) <= MaxOctet

LEMMA SameCount == \A S : Url!Cardinality(S) = Cardinality(S)
BY DEF Url!Cardinality, Cardinality

LEMMA AddressMarks ==
    ASSUME NEW h
    PROVE  Url!IsAddress(h) <=> /\ Cardinality(Marks(h)) = 5
                                /\ \A a, b \in Marks(h) : Next2(Marks(h), a, b) => OctetAt(h, a, b)
<1> DEFINE M == {0, Len(h) + 1} \cup {k \in DOMAIN h : h[k] = "."}
<1>1. Url!IsAddress(h) <=>
        /\ Cardinality(M) = 5
        /\ \A a, b \in M : a < b /\ (\A c \in M : c <= a \/ c >= b) =>
              b - a - 1 \in 1..MaxDigits /\ Url!Value(SubSeq(h, a + 1, b - 1)) <= MaxOctet
    BY SameCount DEF Url!IsAddress
<1>2. M = Marks(h)
    BY DEF Marks
<1> HIDE DEF M
<1>3. \A a, b \in M : Next2(M, a, b) <=> a < b /\ \A c \in M : c <= a \/ c >= b
    BY DEF Next2
<1> QED BY <1>1, <1>2, <1>3 DEF OctetAt

\* An address as far as it has been read, up to p: n octets behind which dg
\* digits, worth oc, have been read of the next.
Literal(h, n, oc, dg, p) ==
    /\ h \in Seq(Url!HostTokens) /\ \A k \in DOMAIN h : h[k] # "a"
    /\ n \in 0..3 /\ p \in 0..Len(h) /\ dg \in 0..p /\ dg <= MaxDigits
    /\ p - dg # 0 => h[p - dg] = "."
    /\ \A k \in (p - dg + 1)..p : h[k] \in Url!Digits
    /\ oc = Url!Value(SubSeq(h, p - dg + 1, p)) /\ oc <= MaxOctet
    /\ Cardinality(Dots(h, p - dg)) = n
    /\ LET S == {0} \cup Dots(h, p - dg) IN \A a, b \in S : Next2(S, a, b) => OctetAt(h, a, b)

LEMMA LiteralTypes ==
    ASSUME NEW h, NEW n, NEW oc, NEW dg, NEW p, Literal(h, n, oc, dg, p)
    PROVE  /\ Len(h) \in Nat /\ DOMAIN h = 1..Len(h) /\ p \in Nat /\ p <= Len(h) /\ dg \in Nat /\ dg <= p
           /\ n \in Nat /\ n <= 3 /\ oc \in Nat
           /\ \A k \in 1..Len(h) : h[k] \in Url!Digits \/ h[k] = "."
           /\ \A k \in Int : IsFiniteSet(Dots(h, k))
<1>1. h \in Seq(Url!HostTokens) /\ \A k \in DOMAIN h : h[k] # "a"
    BY DEF Literal
<1>2. Len(h) \in Nat /\ DOMAIN h = 1..Len(h) /\ \A k \in 1..Len(h) : h[k] \in Url!HostTokens
    BY <1>1
<1>3. p \in Nat /\ p <= Len(h) /\ dg \in Nat /\ dg <= p /\ n \in Nat /\ n <= 3
    BY <1>2 DEF Literal
<1>4. oc \in Nat
    <2>1. SubSeq(h, p - dg + 1, p) \in Seq(Url!HostTokens)
        BY <1>1, <1>2, <1>3
    <2>2. oc = Url!Value(SubSeq(h, p - dg + 1, p))
        BY DEF Literal
    <2> QED BY <2>1, <2>2, ValueType
<1>5. ASSUME NEW k \in Int PROVE IsFiniteSet(Dots(h, k))
    <2>1. IsFiniteSet(1..k)
        BY FS_Interval
    <2> QED BY <2>1, FS_Subset DEF Dots
<1> QED BY <1>1, <1>2, <1>3, <1>4, <1>5, TokensDiffer

\* One more digit.
LEMMA LiteralDigit ==
    ASSUME NEW h, NEW n, NEW oc, NEW dg, NEW p, Literal(h, n, oc, dg, p),
           p < Len(h), h[p + 1] \in Url!Digits,
           dg + 1 <= MaxDigits, oc * 10 + Url!Digit(h[p + 1]) <= MaxOctet
    PROVE  Literal(h, n, oc * 10 + Url!Digit(h[p + 1]), dg + 1, p + 1)
<1>1. /\ Len(h) \in Nat /\ p \in Nat /\ p <= Len(h) /\ dg \in Nat /\ dg <= p /\ n \in Nat /\ n <= 3
    BY LiteralTypes
<1>2. (p + 1) - (dg + 1) = p - dg /\ p + 1 \in 0..Len(h) /\ dg + 1 \in 0..(p + 1)
    BY <1>1
<1>3. \A k \in (p - dg + 1)..(p + 1) : h[k] \in Url!Digits
    <2>1. \A k \in (p - dg + 1)..(p + 1) : k = p + 1 \/ k \in (p - dg + 1)..p
        BY <1>1
    <2> QED BY <2>1 DEF Literal
<1>4. oc * 10 + Url!Digit(h[p + 1]) = Url!Value(SubSeq(h, p - dg + 1, p + 1))
    <2>1. h \in Seq(Url!HostTokens) /\ oc = Url!Value(SubSeq(h, p - dg + 1, p))
        BY DEF Literal
    <2>2. p - dg + 1 \in Nat \ {0} /\ p - dg + 1 <= p + 1 /\ p + 1 <= Len(h)
        BY <1>1
    <2> QED BY <1>1, <2>1, <2>2, ValueFurther
<1> DEFINE oc2 == oc * 10 + Url!Digit(h[p + 1])
<1> HIDE DEF oc2
<1>5. oc2 = Url!Value(SubSeq(h, (p + 1) - (dg + 1) + 1, p + 1)) /\ oc2 <= MaxOctet
    BY <1>2, <1>4 DEF oc2
<1>6. \A k \in ((p + 1) - (dg + 1) + 1)..(p + 1) : h[k] \in Url!Digits
    BY <1>2, <1>3
<1>7. Literal(h, n, oc2, dg + 1, p + 1)
    <2>1. /\ h \in Seq(Url!HostTokens) /\ \A k \in DOMAIN h : h[k] # "a"
          /\ n \in 0..3
          /\ p - dg # 0 => h[p - dg] = "."
          /\ Cardinality(Dots(h, p - dg)) = n
          /\ LET S == {0} \cup Dots(h, p - dg) IN \A a, b \in S : Next2(S, a, b) => OctetAt(h, a, b)
        BY DEF Literal
    <2> QED BY <1>2, <1>5, <1>6, <2>1, Zenon DEF Literal
<1> QED BY <1>7 DEF oc2

\* Between the last dot and p + 1 there is none.
LEMMA CutNext ==
    ASSUME NEW h, NEW n, NEW oc, NEW dg, NEW p, Literal(h, n, oc, dg, p)
    PROVE  LET cut == p - dg IN
           /\ cut \in Nat /\ cut <= p /\ (cut # 0 => cut \in Dots(h, cut)) /\ cut \in {0} \cup Dots(h, cut)
           /\ Dots(h, cut) \subseteq 1..cut /\ Dots(h, cut) \subseteq Marks(h)
           /\ \A j \in DOMAIN h : h[j] = "." => j \in Dots(h, cut) \/ j > p
           /\ cut \in Marks(h)
           /\ \A j \in Marks(h) : j \in Nat /\ (j <= cut \/ j > p)
           /\ \A j \in Marks(h) : j <= cut => j \in {0} \cup Dots(h, cut)
<1> DEFINE cut == p - dg
<1>1. /\ Len(h) \in Nat /\ DOMAIN h = 1..Len(h) /\ p \in Nat /\ p <= Len(h) /\ dg \in Nat /\ dg <= p
    BY LiteralTypes
<1>2. cut \in Nat /\ cut <= p
    BY <1>1
<1>3. (cut # 0 => h[cut] = ".") /\ \A k \in (cut + 1)..p : h[k] \in Url!Digits
    BY DEF Literal
<1> HIDE DEF cut
<1>4. cut # 0 => cut \in Dots(h, cut)
    BY <1>2, <1>3 DEF Dots
<1>5. Dots(h, cut) \subseteq 1..cut
    BY DEF Dots
<1>6. Dots(h, cut) \subseteq Marks(h)
    BY <1>1, <1>2 DEF Dots, Marks
<1>7. ASSUME NEW j \in DOMAIN h, h[j] = "." PROVE j \in Dots(h, cut) \/ j > p
    <2>1. j \notin (cut + 1)..p
        BY <1>3, <1>7, TokensDiffer
    <2>2. j \in 1..cut \/ j > p
        BY <1>1, <1>2, <2>1
    <2> QED BY <1>7, <2>2 DEF Dots
<1>8. cut \in Marks(h)
    BY <1>4, <1>6 DEF Marks
<1>9. ASSUME NEW j \in Marks(h) PROVE j \in Nat /\ (j \in {0} \cup Dots(h, cut) \/ j > p)
    <2>1. CASE j = 0
        BY <2>1
    <2>2. CASE j = Len(h) + 1
        BY <1>1, <2>2
    <2>3. CASE j \in DOMAIN h /\ h[j] = "."
        BY <1>1, <1>7, <2>3
    <2> QED BY <2>1, <2>2, <2>3 DEF Marks
<1>10. \A j \in {0} \cup Dots(h, cut) : j <= cut
    BY <1>2, <1>5
<1>11. \A j \in Marks(h) : j \in Nat /\ (j <= cut \/ j > p)
    BY <1>9, <1>10
<1>12. \A j \in Marks(h) : j <= cut => j \in {0} \cup Dots(h, cut)
    BY <1>1, <1>2, <1>9
<1> QED BY <1>2, <1>4, <1>5, <1>6, <1>7, <1>8, <1>11, <1>12 DEF cut

LEMMA Least == ASSUME NEW S \in SUBSET Nat, S # {} PROVE \E x \in S : \A y \in S : x <= y
<1> DEFINE R == OpToRel(<, Nat)
<1>1. IsWellFoundedOn(R, Nat)
    BY NatLessThanWellFounded
<1>2. PICK x \in S : \A y \in S : ~(<<y, x>> \in R)
    <2> HIDE DEF R
    <2> QED BY <1>1, WFMin
<1>3. ASSUME NEW y \in S PROVE x <= y
    <2>1. x \in Nat /\ y \in Nat
        OBVIOUS
    <2>2. y < x => <<y, x>> \in R
        BY <2>1 DEF OpToRel
    <2> HIDE DEF R
    <2>3. ~(y < x)
        BY <1>2, <2>2
    <2> QED BY <2>1, <2>3
<1> QED BY <1>3

DotAt(h, p) == p < Len(h) /\ h[p + 1] = "."

\* Behind the last octet that was read, a mark.
EndsAt(h, p) == DotAt(h, p) \/ p = Len(h)

LEMMA MarkNext ==
    ASSUME NEW h, NEW n, NEW oc, NEW dg, NEW p, Literal(h, n, oc, dg, p), EndsAt(h, p)
    PROVE  p + 1 \in Marks(h) /\ Next2(Marks(h), p - dg, p + 1)
<1> DEFINE cut == p - dg
<1>1. /\ Len(h) \in Nat /\ DOMAIN h = 1..Len(h) /\ p \in Nat /\ p <= Len(h) /\ dg \in Nat /\ dg <= p
    BY LiteralTypes
<1>2. p + 1 \in Marks(h)
    <2>1. p < Len(h) => p + 1 \in DOMAIN h
        BY <1>1
    <2> QED BY <1>1, <2>1 DEF EndsAt, DotAt, Marks
<1>3. cut < p + 1
    BY <1>1
<1>4. \A c \in Marks(h) : c <= cut \/ c >= p + 1
    <2>1. \A c \in Marks(h) : c \in Nat /\ (c <= cut \/ c > p)
        BY CutNext
    <2> HIDE DEF cut
    <2> QED BY <1>1, <2>1
<1> QED BY <1>2, <1>3, <1>4 DEF Next2

\* A digit too many, or an octet that is too high.
LEMMA LiteralTooLong ==
    ASSUME NEW h, NEW n, NEW oc, NEW dg, NEW p, Literal(h, n, oc, dg, p),
           p < Len(h), h[p + 1] \in Url!Digits,
           dg + 1 > MaxDigits \/ oc * 10 + Url!Digit(h[p + 1]) > MaxOctet
    PROVE  ~Url!IsAddress(h)
<1> DEFINE cut == p - dg
           S == {k \in Marks(h) : k > cut}
<1>1. /\ Len(h) \in Nat /\ DOMAIN h = 1..Len(h) /\ p \in Nat /\ p <= Len(h) /\ dg \in Nat /\ dg <= p
    BY LiteralTypes
<1>2. cut \in Nat /\ cut <= p /\ cut \in Marks(h) /\ \A j \in Marks(h) : j \in Nat /\ (j <= cut \/ j > p)
    <2>1. cut \in Nat
        BY <1>1
    <2> QED BY <2>1, CutNext
<1> HIDE DEF cut
<1>3. S \in SUBSET Nat /\ Len(h) + 1 \in S
    BY <1>1, <1>2 DEF Marks
<1> HIDE DEF S
<1>4. PICK b \in S : \A y \in S : b <= y
    BY <1>3, Least
<1>5. b \in Marks(h) /\ b \in Nat /\ b > cut /\ b > p /\ b <= Len(h) + 1
    BY <1>1, <1>2, <1>3, <1>4 DEF S
<1>6. Next2(Marks(h), cut, b)
    <2>1. \A c \in Marks(h) : c <= cut \/ c >= b
        BY <1>2, <1>4, <1>5 DEF S
    <2> QED BY <1>5, <2>1 DEF Next2
<1>7. b # p + 1
    <2>1. p + 1 # 0 /\ p + 1 # Len(h) + 1
        BY <1>1
    <2>2. h[p + 1] # "."
        BY TokensDiffer
    <2> QED BY <1>5, <2>1, <2>2 DEF Marks
<1>8. b - 1 \in Nat /\ p + 1 <= b - 1 /\ b - 1 <= Len(h)
    BY <1>1, <1>5, <1>7
<1>9. ~OctetAt(h, cut, b)
    <2> SUFFICES ASSUME OctetAt(h, cut, b) PROVE FALSE
        OBVIOUS
    <2>1. b - cut - 1 \in 1..MaxDigits /\ Url!Value(SubSeq(h, cut + 1, b - 1)) <= MaxOctet
        BY DEF OctetAt
    <2>2. dg + 1 <= b - cut - 1
        BY <1>1, <1>5, <1>8 DEF cut
    <2>3. oc * 10 + Url!Digit(h[p + 1]) > MaxOctet
        BY <1>1, <1>2, <1>5, <2>1, <2>2, UrlConstants
    <2>4. h \in Seq(Url!HostTokens) /\ oc = Url!Value(SubSeq(h, cut + 1, p))
        BY DEF Literal, cut
    <2>5. cut + 1 \in Nat \ {0} /\ cut + 1 <= p + 1 /\ p + 1 <= Len(h) /\ p + 1 \in Nat /\ cut + 1 <= (p + 1) + 1
        BY <1>1, <1>2
    <2>6. Url!Value(SubSeq(h, cut + 1, p + 1)) = oc * 10 + Url!Digit(h[p + 1])
        BY <1>1, <2>4, <2>5, ValueFurther
    <2>7. Url!Value(SubSeq(h, cut + 1, p + 1)) <= Url!Value(SubSeq(h, cut + 1, b - 1))
        BY <1>8, <2>4, <2>5, ValueGrows
    <2>8. Url!Value(SubSeq(h, cut + 1, p + 1)) \in Nat /\ Url!Value(SubSeq(h, cut + 1, b - 1)) \in Nat
        <3>1. SubSeq(h, cut + 1, p + 1) \in Seq(Url!HostTokens)
            BY <2>4, <2>5, SubSeqOf
        <3>2. SubSeq(h, cut + 1, b - 1) \in Seq(Url!HostTokens)
            <4>1. cut + 1 <= (b - 1) + 1
                BY <1>2, <1>5
            <4> QED BY <1>8, <2>4, <2>5, <4>1, SubSeqOf
        <3> QED BY <3>1, <3>2, ValueType
    <2> QED BY <2>1, <2>3, <2>6, <2>7, <2>8, UrlConstants
<1> QED BY <1>2, <1>5, <1>6, <1>9, AddressMarks

\* An octet without digits.
LEMMA LiteralEmpty ==
    ASSUME NEW h, NEW n, NEW oc, NEW dg, NEW p, Literal(h, n, oc, dg, p), EndsAt(h, p), dg = 0
    PROVE  ~Url!IsAddress(h)
<1>1. p \in Nat /\ p - dg = p
    BY LiteralTypes
<1>2. p + 1 \in Marks(h) /\ Next2(Marks(h), p, p + 1) /\ p \in Marks(h)
    BY <1>1, MarkNext, CutNext
<1>3. ~OctetAt(h, p, p + 1)
    BY <1>1 DEF OctetAt
<1> QED BY <1>2, <1>3, AddressMarks

Miscounted(h, n, p) == (n = 3 /\ DotAt(h, p)) \/ (n # 3 /\ p = Len(h))

\* A fifth octet, or an end in front of the fourth.
LEMMA LiteralCount ==
    ASSUME NEW h, NEW n, NEW oc, NEW dg, NEW p, Literal(h, n, oc, dg, p),
           Miscounted(h, n, p)
    PROVE  ~Url!IsAddress(h)
<1> DEFINE cut == p - dg
           D == Dots(h, cut)
<1>1. /\ Len(h) \in Nat /\ DOMAIN h = 1..Len(h) /\ p \in Nat /\ p <= Len(h) /\ dg \in Nat /\ dg <= p /\ n \in Nat /\ n <= 3
    BY LiteralTypes
<1>2. cut \in Nat /\ cut <= p /\ D \subseteq 1..cut /\ D \subseteq Marks(h) /\ \A j \in DOMAIN h : h[j] = "." => j \in D \/ j > p
    BY CutNext
<1>3. IsFiniteSet(D) /\ Cardinality(D) = n
    <2>1. cut \in Int
        BY <1>2
    <2>2. IsFiniteSet(D)
        BY <2>1, LiteralTypes
    <2>3. Cardinality(D) = n
        BY DEF Literal
    <2> QED BY <2>2, <2>3
<1> HIDE DEF D, cut
<1>4. 0 \notin D /\ Len(h) + 1 \notin D \cup {0}
    <2>1. 0 \notin 1..cut /\ Len(h) + 1 \notin 1..cut /\ Len(h) + 1 # 0
        BY <1>1, <1>2
    <2> QED BY <1>2, <2>1
<1>5. IsFiniteSet(D \cup {0}) /\ Cardinality(D \cup {0}) = n + 1
    BY <1>3, <1>4, FS_AddElement
<1> DEFINE E == (D \cup {0}) \cup {Len(h) + 1}
<1>6. IsFiniteSet(E) /\ Cardinality(E) = n + 2
    <2>1. IsFiniteSet(E) /\ Cardinality(E) = (n + 1) + 1
        <3> DEFINE E0 == D \cup {0}
        <3>1. IsFiniteSet(E0) /\ Cardinality(E0) = n + 1 /\ Len(h) + 1 \notin E0
            BY <1>4, <1>5
        <3>2. E = E0 \cup {Len(h) + 1}
            OBVIOUS
        <3> HIDE DEF E0, E
        <3> QED BY <3>1, <3>2, FS_AddElement
    <2>2. (n + 1) + 1 = n + 2
        BY <1>1
    <2> QED BY <2>1, <2>2
<1>7. E \subseteq Marks(h)
    BY <1>2 DEF Marks
<1>8. CASE n = 3 /\ DotAt(h, p)
    <2>1. p + 1 \in Marks(h) /\ p + 1 \notin E
        BY <1>1, <1>2, <1>8 DEF Marks, DotAt
    <2> HIDE DEF E
    <2>2. IsFiniteSet(E \cup {p + 1}) /\ Cardinality(E \cup {p + 1}) = (n + 2) + 1
        BY <1>6, <2>1, FS_AddElement
    <2>3. E \cup {p + 1} \in SUBSET Marks(h)
        BY <1>7, <2>1
    <2>4. IsFiniteSet(Marks(h))
        <3>1. 0 \in Int /\ Len(h) + 1 \in Int
            BY <1>1
        <3>2. IsFiniteSet(0..(Len(h) + 1))
            BY <3>1, FS_Interval
        <3>3. 0 \in 0..(Len(h) + 1) /\ Len(h) + 1 \in 0..(Len(h) + 1) /\ 1..Len(h) \subseteq 0..(Len(h) + 1)
            BY <1>1
        <3>4. Marks(h) \in SUBSET (0..(Len(h) + 1))
            BY <1>1, <3>3 DEF Marks
        <3> QED BY <3>2, <3>4, FS_Subset
    <2>5. Cardinality(E \cup {p + 1}) <= Cardinality(Marks(h))
        BY <2>3, <2>4, FS_Subset
    <2>6. 6 <= Cardinality(Marks(h))
        BY <1>8, <2>2, <2>5
    <2>7. Cardinality(Marks(h)) # 5
        BY <2>6
    <2> QED BY <2>7, AddressMarks
<1>9. CASE n # 3 /\ p = Len(h)
    <2>1. \A j \in DOMAIN h : h[j] = "." => j \in D
        BY <1>1, <1>2, <1>9
    <2>2. Marks(h) = E
        BY <1>7, <2>1 DEF Marks
    <2>3. Cardinality(Marks(h)) # 5
        BY <1>1, <1>6, <1>9, <2>2
    <2> QED BY <2>3, AddressMarks
<1> QED BY <1>8, <1>9 DEF Miscounted

\* The end of an octet that others follow.
LEMMA LiteralOctet ==
    ASSUME NEW h, NEW n, NEW oc, NEW dg, NEW p, Literal(h, n, oc, dg, p), dg # 0, n < 3, DotAt(h, p)
    PROVE  Literal(h, n + 1, 0, 0, p + 1)
<1> DEFINE cut == p - dg
           D == Dots(h, cut)
           E == Dots(h, p + 1)
<1>1. /\ Len(h) \in Nat /\ DOMAIN h = 1..Len(h) /\ p \in Nat /\ p <= Len(h) /\ dg \in Nat /\ dg <= p /\ n \in Nat /\ n <= 3
      /\ oc <= MaxOctet /\ dg <= MaxDigits /\ h \in Seq(Url!HostTokens) /\ \A k \in DOMAIN h : h[k] # "a"
    BY LiteralTypes DEF Literal
<1>2. /\ cut \in Nat /\ cut <= p /\ D \subseteq 1..cut /\ cut \in {0} \cup D
      /\ \A j \in DOMAIN h : h[j] = "." => j \in D \/ j > p
    BY CutNext
<1>3. p < Len(h) /\ h[p + 1] = "."
    BY DEF DotAt
<1>4. IsFiniteSet(D) /\ Cardinality(D) = n
    <2>1. cut \in Int
        BY <1>2
    <2>2. IsFiniteSet(D)
        BY <2>1, LiteralTypes
    <2>3. Cardinality(D) = n
        BY DEF Literal
    <2> QED BY <2>2, <2>3
<1>5. \A a, b \in {0} \cup D : Next2({0} \cup D, a, b) => OctetAt(h, a, b)
    BY DEF Literal
<1>6. oc = Url!Value(SubSeq(h, cut + 1, p))
    BY DEF Literal
<1>7. p - cut = dg
    BY <1>1
<1>8. \A j \in D : j \in 1..cut /\ h[j] = "."
    BY DEF Dots
<1> HIDE DEF D, cut
<1>9. E = D \cup {p + 1}
    <2>1. ASSUME NEW j \in E PROVE j \in D \cup {p + 1}
        <3>1. j \in 1..(p + 1) /\ h[j] = "."
            BY DEF Dots
        <3>2. j \in DOMAIN h /\ (j > p => j = p + 1)
            BY <1>1, <1>3, <3>1
        <3> QED BY <1>2, <3>1, <3>2
    <2>2. ASSUME NEW j \in D PROVE j \in E
        <3>1. j \in 1..(p + 1)
            BY <1>1, <1>2, <1>8
        <3> QED BY <1>8, <3>1 DEF Dots
    <2>3. p + 1 \in E
        BY <1>1, <1>3 DEF Dots
    <2> HIDE DEF E
    <2> QED BY <2>1, <2>2, <2>3
<1>10. p + 1 \notin D
    BY <1>1, <1>2, <1>8
<1> HIDE DEF E
<1>11. Cardinality(E) = n + 1
    BY <1>4, <1>9, <1>10, FS_AddElement
<1>12. OctetAt(h, cut, p + 1)
    <2>1. (p + 1) - 1 = p /\ (p + 1) - cut - 1 = dg /\ dg \in 1..MaxDigits
        BY <1>1, <1>2, <1>7, UrlConstants
    <2> QED BY <1>1, <1>6, <2>1 DEF OctetAt
<1>13. \A a, b \in {0} \cup E : Next2({0} \cup E, a, b) => OctetAt(h, a, b)
    <2> SUFFICES ASSUME NEW a \in {0} \cup E, NEW b \in {0} \cup E, Next2({0} \cup E, a, b) PROVE OctetAt(h, a, b)
        OBVIOUS
    <2>1. a < b /\ \A c \in {0} \cup E : c <= a \/ c >= b
        BY DEF Next2
    <2>2. \A c \in {0} \cup D : c \in Nat /\ c <= cut
        BY <1>2, <1>8
    <2>3. CASE a \in {0} \cup D /\ b \in {0} \cup D
        <3>1. Next2({0} \cup D, a, b)
            BY <1>9, <2>1 DEF Next2
        <3> QED BY <1>5, <2>3, <3>1
    <2>4. CASE a = p + 1
        <3>1. b \in Nat /\ b <= p + 1
            BY <1>1, <1>2, <1>9, <2>2
        <3> QED BY <1>1, <2>1, <2>4, <3>1
    <2>5. CASE a \in {0} \cup D /\ b = p + 1
        <3>1. a \in Nat /\ a <= cut
            BY <2>2, <2>5
        <3>2. cut \in {0} \cup E
            BY <1>2, <1>9
        <3>3. cut <= a \/ cut >= p + 1
            BY <2>1, <2>5, <3>2
        <3>4. a = cut
            BY <1>1, <1>2, <3>1, <3>3
        <3> QED BY <1>12, <2>5, <3>4
    <2> QED BY <1>9, <2>3, <2>4, <2>5
<1>14. Url!Value(SubSeq(h, (p + 1) - 0 + 1, p + 1)) = 0
    <2>1. (p + 1) - 0 + 1 = p + 2
        BY <1>1
    <2>2. SubSeq(h, p + 2, p + 1) = <<>>
        BY <1>1
    <2> QED BY <2>1, <2>2, ValueEmpty
<1>15. /\ (p + 1) - 0 = p + 1 /\ n + 1 \in 0..3 /\ p + 1 \in 0..Len(h) /\ 0 \in 0..(p + 1) /\ 0 <= MaxDigits /\ 0 <= MaxOctet
       /\ ((p + 1) - 0 + 1)..(p + 1) = {}
    BY <1>1, <1>3, UrlConstants
<1>16. Cardinality(Dots(h, (p + 1) - 0)) = n + 1
       /\ LET S == {0} \cup Dots(h, (p + 1) - 0) IN \A a, b \in S : Next2(S, a, b) => OctetAt(h, a, b)
    BY <1>11, <1>13, <1>15 DEF E
<1> QED BY <1>1, <1>3, <1>14, <1>15, <1>16, Zenon DEF Literal

\* The end of the fourth octet is that of the address.
LEMMA LiteralDone ==
    ASSUME NEW h, NEW n, NEW oc, NEW dg, NEW p, Literal(h, n, oc, dg, p), dg # 0, n = 3, p = Len(h)
    PROVE  Url!IsAddress(h)
<1> DEFINE cut == p - dg
           D == Dots(h, cut)
           Z == {0} \cup D
<1>1. /\ Len(h) \in Nat /\ DOMAIN h = 1..Len(h) /\ p \in Nat /\ dg \in Nat /\ dg <= p
      /\ oc <= MaxOctet /\ dg <= MaxDigits
    BY LiteralTypes DEF Literal
<1>2. /\ cut \in Nat /\ cut <= p /\ D \subseteq 1..cut /\ cut \in Z
      /\ \A j \in DOMAIN h : h[j] = "." => j \in D \/ j > p
    BY CutNext
<1>3. D \subseteq Marks(h)
    BY CutNext
<1>4. IsFiniteSet(D) /\ Cardinality(D) = 3
    <2>1. cut \in Int
        BY <1>2
    <2>2. IsFiniteSet(D)
        BY <2>1, LiteralTypes
    <2>3. Cardinality(D) = n
        BY DEF Literal
    <2> QED BY <2>2, <2>3
<1>5. \A a, b \in Z : Next2(Z, a, b) => OctetAt(h, a, b)
    BY DEF Literal
<1>6. oc = Url!Value(SubSeq(h, cut + 1, p))
    BY DEF Literal
<1>7. p - cut = dg
    BY <1>1
<1> HIDE DEF D, cut
<1>8. 0 \notin D /\ p + 1 \notin D /\ p + 1 # 0 /\ \A c \in Z : c \in Nat /\ c <= cut
    BY <1>1, <1>2
<1>9. IsFiniteSet(Z) /\ Cardinality(Z) = 4
    <2>1. Z = D \cup {0}
        OBVIOUS
    <2>2. IsFiniteSet(D \cup {0}) /\ Cardinality(D \cup {0}) = 3 + 1
        BY <1>4, <1>8, FS_AddElement
    <2>3. 3 + 1 = 4
        OBVIOUS
    <2> QED BY <2>1, <2>2, <2>3
<1>10. Marks(h) = Z \cup {p + 1}
    <2>1. \A j \in DOMAIN h : h[j] = "." => j \in D
        BY <1>1, <1>2
    <2> QED BY <1>3, <2>1 DEF Marks
<1>11. p + 1 \notin Z
    BY <1>8
<1> HIDE DEF Z
<1>12. Cardinality(Marks(h)) = 5
    <2>1. Cardinality(Z \cup {p + 1}) = 4 + 1
        BY <1>9, <1>11, FS_AddElement
    <2>2. 4 + 1 = 5
        OBVIOUS
    <2> QED BY <1>10, <2>1, <2>2
<1>13. OctetAt(h, cut, p + 1)
    <2>1. (p + 1) - 1 = p /\ (p + 1) - cut - 1 = dg /\ dg \in 1..MaxDigits
        BY <1>1, <1>2, <1>7, UrlConstants
    <2> QED BY <1>1, <1>6, <2>1 DEF OctetAt
<1>14. ASSUME NEW a \in Marks(h), NEW b \in Marks(h), Next2(Marks(h), a, b) PROVE OctetAt(h, a, b)
    <2>1. a < b /\ \A c \in Marks(h) : c <= a \/ c >= b
        BY <1>14 DEF Next2
    <2>2. CASE a \in Z /\ b \in Z
        <3>1. Next2(Z, a, b)
            BY <1>10, <2>1 DEF Next2
        <3> QED BY <1>5, <2>2, <3>1
    <2>3. CASE a = p + 1
        <3>1. b \in Nat /\ b <= p + 1
            <4>1. b \in Z => b \in Nat /\ b <= cut
                BY <1>8
            <4>2. b \in Z \/ b = p + 1
                BY <1>10
            <4> QED BY <1>1, <1>2, <4>1, <4>2
        <3> QED BY <1>1, <2>1, <2>3, <3>1
    <2>4. CASE a \in Z /\ b = p + 1
        <3>1. a \in Nat /\ a <= cut
            BY <1>8, <2>4
        <3>2. cut \in Marks(h)
            BY <1>2, <1>10
        <3>3. cut <= a \/ cut >= p + 1
            BY <2>1, <2>4, <3>2
        <3>4. a = cut
            BY <1>1, <1>2, <3>1, <3>3
        <3> QED BY <1>13, <2>4, <3>4
    <2> QED BY <1>10, <2>2, <2>3, <2>4
<1> QED BY <1>12, <1>14, AddressMarks

LEMMA HostNames ==
    ASSUME NEW h, NEW lab, HostSoFar(h, lab), lab # 0, NEW c \in {":", "/"}
    PROVE  /\ HostOf(Append(h, c), h) /\ Len(h) \in Nat \ {0} /\ Append(h, c)[Len(h) + 1] = c
           /\ Append(h, c) \in Seq(Url!Tokens) /\ Len(Append(h, c)) = Len(h) + 1
<1>1. Url!IsHost(h) /\ Len(h) \in Nat \ {0} /\ h \in Seq(Url!HostTokens)
    BY HostWhole
<1>2. h \in Seq(Url!Tokens) /\ c \in Url!Tokens
    BY <1>1, TokensDiffer, SeqWider
<1> DEFINE a == Append(h, c)
<1>3. a \in Seq(Url!Tokens) /\ Len(a) = Len(h) + 1 /\ a[Len(h) + 1] = c /\ \A k \in 1..Len(h) : a[k] = h[k]
    BY <1>1, <1>2
<1> HIDE DEF a
<1>4. Len(h) \in 1..(Len(a) - 1)
    BY <1>1, <1>3
<1>5. HostOf(a, h)
    BY <1>1, <1>3, <1>4, Zenon DEF HostOf
<1> QED BY <1>1, <1>3, <1>5 DEF a

\* A colon behind the host.
LEMMA HostColon ==
    ASSUME NEW h, NEW lab, HostSoFar(h, lab), lab # 0
    PROVE  InPort(Append(h, ":"), h, 0)
<1> DEFINE a == Append(h, ":")
           m == Len(h)
<1>1. HostOf(a, h) /\ m \in Nat \ {0} /\ a[m + 1] = ":" /\ a \in Seq(Url!Tokens) /\ Len(a) = m + 1
    BY HostNames
<1> HIDE DEF a, m
<1>2. (m + 2)..Len(a) = {} /\ 0 <= MaxPort
    BY <1>1, UrlConstants
<1>3. SubSeq(a, m + 2, Len(a)) = <<>>
    BY <1>1
<1>4. 0 = Url!Value(SubSeq(a, m + 2, Len(a)))
    BY <1>3, ValueEmpty
<1>5. InPort(a, h, 0)
    BY <1>1, <1>2, <1>4, Zenon DEF InPort, m
<1> QED BY <1>5 DEF a

\* A slash behind the host.
LEMMA HostSlash ==
    ASSUME NEW h, NEW lab, HostSoFar(h, lab), lab # 0
    PROVE  InPath(Append(h, "/"), h, Len(h))
<1> DEFINE a == Append(h, "/")
           m == Len(h)
<1>1. HostOf(a, h) /\ m \in Nat \ {0} /\ a[m + 1] = "/" /\ a \in Seq(Url!Tokens) /\ Len(a) = m + 1
    BY HostNames
<1> HIDE DEF a, m
<1>2. (m + 2)..Len(a) = {} /\ m \in m..(Len(a) - 1)
    BY <1>1
<1>3. InPath(a, h, m)
    BY <1>1, <1>2, Zenon DEF InPath, m
<1> QED BY <1>3 DEF a, m

\* What the port and the path know of their bytes, with one more.
LEMMA OneMore ==
    ASSUME NEW x, NEW h, HostOf(x, h), NEW c \in Url!Tokens
    PROVE  /\ HostOf(Append(x, c), h) /\ Append(x, c) \in Seq(Url!Tokens)
           /\ Len(x) \in Nat /\ Len(Append(x, c)) = Len(x) + 1 /\ Append(x, c)[Len(x) + 1] = c
           /\ \A k \in 1..Len(x) : Append(x, c)[k] = x[k]
           /\ Len(h) \in Nat \ {0} /\ Len(h) + 1 <= Len(x)
<1> DEFINE a == Append(x, c)
<1>1. x \in Seq(Url!Tokens) /\ h \in Seq(Url!HostTokens) /\ Len(h) \in 1..(Len(x) - 1)
    BY DEF HostOf
<1>2. Len(h) \in Nat \ {0} /\ Len(h) + 1 <= Len(x) /\ Len(x) \in Nat
    BY <1>1
<1>3. a \in Seq(Url!Tokens) /\ Len(a) = Len(x) + 1 /\ a[Len(x) + 1] = c /\ \A k \in 1..Len(x) : a[k] = x[k]
    BY <1>1
<1> HIDE DEF a
<1>4. Len(h) \in 1..(Len(a) - 1) /\ Len(h) + 1 \in 1..Len(x) /\ \A k \in 1..Len(h) : k \in 1..Len(x)
    BY <1>2, <1>3
<1>5. HostOf(a, h)
    BY <1>1, <1>3, <1>4, Zenon DEF HostOf
<1> QED BY <1>2, <1>3, <1>5 DEF a

LEMMA PortDigit ==
    ASSUME NEW x, NEW h, NEW p, InPort(x, h, p), NEW c \in Url!Digits, p * 10 + Url!Digit(c) <= MaxPort
    PROVE  InPort(Append(x, c), h, p * 10 + Url!Digit(c))
<1> DEFINE a == Append(x, c)
           m == Len(h)
           v == p * 10 + Url!Digit(c)
<1>1. HostOf(x, h) /\ c \in Url!Tokens /\ x \in Seq(Url!Tokens)
    BY TokensDiffer DEF InPort, HostOf
<1>2. /\ HostOf(a, h) /\ a \in Seq(Url!Tokens) /\ Len(x) \in Nat /\ Len(a) = Len(x) + 1 /\ a[Len(x) + 1] = c
      /\ \A k \in 1..Len(x) : a[k] = x[k]
      /\ m \in Nat \ {0} /\ m + 1 <= Len(x)
    BY <1>1, OneMore
<1>3. /\ x[m + 1] = ":" /\ \A k \in (m + 2)..Len(x) : x[k] \in Url!Digits
      /\ p = Url!Value(SubSeq(x, m + 2, Len(x)))
    BY DEF InPort
<1>4. v <= MaxPort
    OBVIOUS
<1> HIDE DEF a, m
<1>5. SubSeq(a, m + 2, Len(x)) = SubSeq(x, m + 2, Len(x))
    <2>1. m + 2 \in Nat \ {0} /\ m + 2 <= Len(x) + 1 /\ Len(x) <= Len(a) /\ \A k \in (m + 2)..Len(x) : k \in 1..Len(x)
        BY <1>2
    <2> QED BY <1>1, <1>2, <2>1, SubSeqSame
<1>6. v = Url!Value(SubSeq(a, m + 2, Len(a)))
    <2>1. m + 2 \in Nat \ {0} /\ m + 2 <= Len(x) + 1 /\ Len(x) + 1 <= Len(a)
        BY <1>2
    <2>2. Url!Value(SubSeq(a, m + 2, Len(x) + 1)) = Url!Value(SubSeq(a, m + 2, Len(x))) * 10 + Url!Digit(a[Len(x) + 1])
        BY <1>2, <2>1, ValueFurther
    <2> QED BY <1>2, <1>3, <1>5, <2>2, Zenon
<1>7. ASSUME NEW k \in (m + 2)..Len(a) PROVE a[k] \in Url!Digits
    <2>1. k = Len(x) + 1 \/ (k \in (m + 2)..Len(x) /\ k \in 1..Len(x))
        BY <1>2
    <2> QED BY <1>2, <1>3, <2>1, Zenon
<1>8. a[m + 1] = ":"
    <2>1. m + 1 \in 1..Len(x)
        BY <1>2
    <2> QED BY <1>2, <1>3, <2>1
<1> HIDE DEF v
<1>9. InPort(a, h, v)
    BY <1>2, <1>4, <1>6, <1>7, <1>8, Zenon DEF InPort, m
<1> QED BY <1>9 DEF a, v

LEMMA PortSlash ==
    ASSUME NEW x, NEW h, NEW p, InPort(x, h, p), p # 0
    PROVE  InPath(Append(x, "/"), h, Len(x))
<1> DEFINE a == Append(x, "/")
           m == Len(h)
           n == Len(x)
<1>1. HostOf(x, h) /\ "/" \in Url!Tokens /\ x \in Seq(Url!Tokens)
    BY TokensDiffer DEF InPort, HostOf
<1>2. /\ HostOf(a, h) /\ a \in Seq(Url!Tokens) /\ n \in Nat /\ Len(a) = n + 1 /\ a[n + 1] = "/"
      /\ \A k \in 1..n : a[k] = x[k]
      /\ m \in Nat \ {0} /\ m + 1 <= n
    BY <1>1, OneMore
<1>3. /\ x[m + 1] = ":" /\ \A k \in (m + 2)..n : x[k] \in Url!Digits
      /\ p = Url!Value(SubSeq(x, m + 2, n)) /\ p <= MaxPort
    BY DEF InPort
<1> HIDE DEF a, m
<1>4. m + 2 \in Nat \ {0} /\ m + 2 <= n + 1 /\ n <= Len(a) /\ m + 1 \in 1..n /\ \A k \in (m + 2)..n : k \in 1..n
    BY <1>2
<1>5. SubSeq(a, m + 2, n) = SubSeq(x, m + 2, n)
    BY <1>1, <1>2, <1>4, SubSeqSame
<1>6. Url!Value(SubSeq(a, m + 2, n)) \in 1..MaxPort
    <2>1. SubSeq(x, m + 2, n) \in Seq(Url!Tokens)
        BY <1>1, <1>4, SubSeqOf
    <2>2. p \in Nat
        BY <1>3, <2>1, ValueType
    <2>3. p \in 1..MaxPort
        BY <1>3, <2>2, UrlConstants
    <2> QED BY <1>3, <1>5, <2>3
<1>7. a[m + 1] = ":" /\ \A k \in (m + 2)..n : a[k] \in Url!Digits
    BY <1>2, <1>3, <1>4, Zenon
<1> HIDE DEF n
<1>8. n \in m..(Len(a) - 1) /\ (n + 2)..Len(a) = {}
    BY <1>2
<1>9. InPath(a, h, n)
    BY <1>2, <1>6, <1>7, <1>8, Zenon DEF InPath, m
<1> QED BY <1>9 DEF a, n

LEMMA PathByte ==
    ASSUME NEW x, NEW h, NEW q, InPath(x, h, q), NEW c \in Url!Tokens, c \notin Stray
    PROVE  InPath(Append(x, c), h, q)
<1> DEFINE a == Append(x, c)
           m == Len(h)
           n == Len(x)
<1>1. HostOf(x, h) /\ x \in Seq(Url!Tokens) /\ q \in m..(n - 1)
    BY DEF InPath, HostOf
<1>2. /\ HostOf(a, h) /\ a \in Seq(Url!Tokens) /\ n \in Nat /\ Len(a) = n + 1 /\ a[n + 1] = c
      /\ \A k \in 1..n : a[k] = x[k]
      /\ m \in Nat \ {0} /\ m + 1 <= n
    BY <1>1, OneMore
<1>3. /\ q # m => /\ x[m + 1] = ":"
                  /\ \A k \in (m + 2)..q : x[k] \in Url!Digits
                  /\ Url!Value(SubSeq(x, m + 2, q)) \in 1..MaxPort
      /\ x[q + 1] = "/"
      /\ \A k \in (q + 2)..n : x[k] \notin Stray
    BY Zenon DEF InPath
<1> HIDE DEF a, m, n
<1>4. /\ q \in Nat /\ m <= q /\ q + 1 <= n /\ q + 1 \in 1..n /\ m + 1 \in 1..n /\ q \in m..(Len(a) - 1)
      /\ \A k \in (m + 2)..q : k \in 1..n
      /\ m + 2 \in Nat \ {0} /\ q <= n /\ q <= Len(a)
    BY <1>1, <1>2
<1>5. q # m => SubSeq(a, m + 2, q) = SubSeq(x, m + 2, q)
    <2> SUFFICES ASSUME q # m PROVE SubSeq(a, m + 2, q) = SubSeq(x, m + 2, q)
        OBVIOUS
    <2>1. m + 2 <= q + 1
        BY <1>2, <1>4
    <2> QED BY <1>1, <1>2, <1>4, <2>1, SubSeqSame DEF n
<1>6. q # m => /\ a[m + 1] = ":"
               /\ \A k \in (m + 2)..q : a[k] \in Url!Digits
               /\ Url!Value(SubSeq(a, m + 2, q)) \in 1..MaxPort
    BY <1>2, <1>3, <1>4, <1>5, Zenon
<1>7. a[q + 1] = "/"
    BY <1>2, <1>3, <1>4
<1>8. ASSUME NEW k \in (q + 2)..Len(a) PROVE a[k] \notin Stray
    <2>1. k = n + 1 \/ (k \in (q + 2)..n /\ k \in 1..n)
        BY <1>2, <1>4
    <2> QED BY <1>2, <1>3, <2>1, Zenon
<1>9. InPath(a, h, q)
    BY <1>2, <1>4, <1>6, <1>7, <1>8, Zenon DEF InPath, m
<1> QED BY <1>9 DEF a

\* Whatever begins with what was refused.
LEMMA RestBegins ==
    ASSUME NEW x \in Seq(Url!Tokens), NEW t \in Url!Rests
    PROVE  x \o t \in Seq(Url!Tokens) /\ Begins(x, x \o t)
<1>1. {"/", "a", ".", "6"} \subseteq Url!Tokens
    BY TokensDiffer DEF Url!Digits
<1> DEFINE T == Url!Tokens
<1> HIDE DEF T
<1>2. t \in Seq(T)
    <2>1. "/" \in T /\ "a" \in T /\ "." \in T /\ "6" \in T
        BY <1>1 DEF T
    <2>2. <<>> \in Seq(T) /\ \A e, f, g \in T : <<e>> \in Seq(T) /\ <<e, f>> \in Seq(T) /\ <<e, f, g>> \in Seq(T)
        OBVIOUS
    <2>3. t \in {<<>>, <<"/">>, <<"a", "/">>, <<".", "a", "/">>, <<"6", "/">>}
        BY DEF Url!Rests
    <2> QED BY <2>1, <2>2, <2>3, Zenon
<1>3. x \in Seq(T)
    BY DEF T
<1>4. x \o t \in Seq(T) /\ Len(x \o t) = Len(x) + Len(t) /\ Len(x) \in Nat /\ Len(t) \in Nat
      /\ \A k \in 1..Len(x) : (x \o t)[k] = x[k]
    BY <1>2, <1>3
<1>5. Len(x) <= Len(x \o t)
    BY <1>4
<1> QED BY <1>4, <1>5 DEF Begins, T

\* What has been read, and what is kept of it: a URL's host, port or path as
\* far as they go, and behind the path the octets of the host.
UrlPlace ==
    /\ Url!TypeOK
    /\ url \in Seq(Url!Tokens) /\ host \in Seq(Url!HostTokens) /\ ip \in Seq(0..MaxOctet)
    /\ pc = "host" => url = host /\ HostSoFar(host, label) /\ port = 80
    /\ pc = "port" => InPort(url, host, port)
    /\ pc \in {"path", "numeric", "literal", "accepted"} => \E q : InPath(url, host, q)
    /\ pc \in {"host", "port", "path", "numeric"} => ip = <<>> /\ octet = 0 /\ digits = 0 /\ pos = 0
    /\ pc = "literal" => Literal(host, Len(ip), octet, digits, pos)
    /\ Url!OneGrammar /\ Url!NumericNeverAsked

UrlInv == input = "url" => UrlPlace

\* A refused byte: no URL begins like this.
LEMMA UrlRefused ==
    ASSUME UrlPlace, NEW c \in Url!Tokens, url' = Append(url, c), pc' = "refused",
           UNCHANGED <<host, label, port, ip, octet, digits, pos>>,
           \A s \in Seq(Url!Tokens) : Begins(Append(url, c), s) => ~Url!IsUrl(s)
    PROVE  UrlPlace'
<1>1. url' \in Seq(Url!Tokens)
    BY DEF UrlPlace
<1>2. \A t \in Url!Rests : ~Url!IsUrl(url' \o t)
    BY <1>1, RestBegins
<1>3. Url!TypeOK'
    BY DEF UrlPlace, Url!TypeOK
<1>4. Url!OneGrammar'
    BY <1>2 DEF Url!OneGrammar
<1>5. Url!NumericNeverAsked'
    BY DEF Url!NumericNeverAsked
<1>6. host' \in Seq(Url!HostTokens) /\ ip' \in Seq(0..MaxOctet)
    BY DEF UrlPlace
<1> QED BY <1>1, <1>3, <1>4, <1>5, <1>6 DEF UrlPlace

LEMMA UrlHostStep ==
    ASSUME UrlPlace, NEW c \in Url!Tokens, Url!Host(c)
    PROVE  UrlPlace'
<1>1. /\ pc = "host" /\ url' = Append(url, c) /\ UNCHANGED <<ip, octet, digits, pos>>
      /\ IF BadHere(label, c)
           THEN pc' = "refused" /\ UNCHANGED <<host, label, port>>
           ELSE /\ pc' = CASE c = ":" -> "port" [] c = "/" -> "path" [] OTHER -> "host"
                /\ host' = IF c \in Url!HostTokens THEN Append(host, c) ELSE host
                /\ label' = CASE c = "." -> 0 [] c \in {":", "/"} -> label [] OTHER -> label + 1
                /\ port' = IF c = ":" THEN 0 ELSE port
    BY Zenon DEF Url!Host, Url!Read, Url!LabelFull, Url!literal, BadHere, Stray
<1>2. /\ url = host /\ HostSoFar(host, label) /\ port = 80 /\ ip = <<>> /\ octet = 0 /\ digits = 0 /\ pos = 0
      /\ url \in Seq(Url!Tokens) /\ host \in Seq(Url!HostTokens) /\ label \in 0..MaxLabel
    BY <1>1 DEF UrlPlace, Url!TypeOK
<1>3. CASE BadHere(label, c)
    <2>1. \A s \in Seq(Url!Tokens) : Begins(Append(url, c), s) => ~Url!IsUrl(s)
        BY <1>2, <1>3, HostRefused
    <2>2. pc' = "refused" /\ UNCHANGED <<host, label, port>>
        BY <1>1, <1>3, Zenon
    <2> QED BY <1>1, <2>1, <2>2, UrlRefused
<1>4. CASE ~BadHere(label, c)
    <2>1. ip' = <<>> /\ octet' = 0 /\ digits' = 0 /\ pos' = 0 /\ ip' \in Seq(0..MaxOctet) /\ url' \in Seq(Url!Tokens)
        BY <1>1, <1>2
    <2>2. c \in Url!HostTokens \/ c = ":" \/ c = "/"
        BY <1>4, TokensDiffer, Zenon DEF BadHere
    <2>3. c \in Url!HostTokens \ {"."} => label < MaxLabel
        <3>1. c \in Url!HostTokens \ {"."} => ~(label >= MaxLabel)
            BY <1>4 DEF BadHere
        <3> QED BY <1>2, <3>1, UrlConstants
    <2>4. c \in {":", "/"} => label # 0
        BY <1>4, Zenon DEF BadHere
    <2>5. CASE c \in Url!HostTokens
        <3>1. c # ":" /\ c # "/"
            BY <2>5, TokensDiffer, Zenon
        <3>2. pc' = "host" /\ host' = Append(host, c) /\ port' = port /\ label' = IF c = "." THEN 0 ELSE label + 1
            BY <1>1, <1>4, <2>5, <3>1
        <3>3. HostSoFar(host', label')
            BY <1>2, <1>4, <2>5, <3>2, HostGoes
        <3>4. host' \in Seq(Url!HostTokens) /\ url' = host'
            BY <1>1, <1>2, <2>5, <3>2
        <3>5. label' \in 0..MaxLabel
            BY <3>3 DEF HostSoFar
        <3>6. Url!TypeOK' /\ Url!OneGrammar' /\ Url!NumericNeverAsked'
            BY <2>1, <3>2, <3>5, <1>2, UrlConstants DEF Url!TypeOK, Url!OneGrammar, Url!NumericNeverAsked
        <3> QED BY <1>2, <2>1, <3>2, <3>3, <3>4, <3>6 DEF UrlPlace
    <2>6. CASE c = ":"
        <3>1. c \notin Url!HostTokens
            BY <2>6, TokensDiffer, Zenon
        <3>2. pc' = "port" /\ host' = host /\ port' = 0 /\ label' = label
            BY <1>1, <1>4, <2>6, <3>1
        <3>3. InPort(url', host', port')
            <4>1. InPort(Append(host, ":"), host, 0)
                BY <1>2, <2>4, <2>6, HostColon
            <4> QED BY <1>1, <1>2, <2>6, <3>2, <4>1, Zenon
        <3>4. Url!TypeOK' /\ Url!OneGrammar' /\ Url!NumericNeverAsked'
            BY <2>1, <3>2, <1>2, UrlConstants DEF Url!TypeOK, Url!OneGrammar, Url!NumericNeverAsked
        <3> QED BY <1>2, <2>1, <3>2, <3>3, <3>4 DEF UrlPlace
    <2>7. CASE c = "/"
        <3>1. c \notin Url!HostTokens
            BY <2>7, TokensDiffer, Zenon
        <3>2. pc' = "path" /\ host' = host /\ port' = port /\ label' = label
            BY <1>1, <1>4, <2>7, <3>1
        <3>3. InPath(url', host', Len(host))
            <4>1. InPath(Append(host, "/"), host, Len(host))
                BY <1>2, <2>4, <2>7, HostSlash
            <4> QED BY <1>1, <1>2, <2>7, <3>2, <4>1, Zenon
        <3>4. Url!TypeOK' /\ Url!OneGrammar' /\ Url!NumericNeverAsked'
            BY <2>1, <3>2, <1>2, UrlConstants DEF Url!TypeOK, Url!OneGrammar, Url!NumericNeverAsked
        <3> QED BY <1>2, <2>1, <3>2, <3>3, <3>4 DEF UrlPlace
    <2> QED BY <2>2, <2>5, <2>6, <2>7
<1> QED BY <1>3, <1>4

LEMMA UrlPortStep ==
    ASSUME UrlPlace, NEW c \in Url!Tokens, Url!Port(c)
    PROVE  UrlPlace'
<1>1. /\ pc = "port" /\ url' = Append(url, c) /\ UNCHANGED <<host, label, ip, octet, digits, pos>>
      /\ IF c \in Url!Digits /\ ~Url!TooHigh(Url!Digit(c))
           THEN port' = port * 10 + Url!Digit(c) /\ pc' = pc
           ELSE pc' = (IF c = "/" /\ port # 0 THEN "path" ELSE "refused") /\ port' = port
    BY Zenon DEF Url!Port, Url!Read, Url!literal
<1>2. /\ InPort(url, host, port) /\ ip = <<>> /\ octet = 0 /\ digits = 0 /\ pos = 0
      /\ url \in Seq(Url!Tokens) /\ host \in Seq(Url!HostTokens) /\ label \in 0..MaxLabel
    BY <1>1 DEF UrlPlace, Url!TypeOK
<1>3. port \in Nat /\ port <= MaxPort
    <2>1. port <= MaxPort
        BY <1>2 DEF InPort
    <2>2. port \in 0..MaxPort \cup {80}
        BY DEF UrlPlace, Url!TypeOK
    <2> QED BY <2>1, <2>2, UrlConstants
<1>4. Url!Digit(c) \in 0..9
    BY ValueDigit, TokensDiffer DEF Url!Digit
<1>5. Url!TooHigh(Url!Digit(c)) <=> port * 10 + Url!Digit(c) > MaxPort
    BY <1>3, <1>4, TooHighSays, Zenon DEF Url!TooHigh
<1>6. port * 10 + Url!Digit(c) > MaxPort <=> ~(port * 10 + Url!Digit(c) <= MaxPort)
    BY <1>3, <1>4, UrlConstants
<1>7. ip' = <<>> /\ octet' = 0 /\ digits' = 0 /\ pos' = 0 /\ ip' \in Seq(0..MaxOctet) /\ url' \in Seq(Url!Tokens)
    BY <1>1, <1>2
<1>8. host' \in Seq(Url!HostTokens) /\ host' = host /\ label' \in 0..MaxLabel /\ label' = label
    BY <1>1, <1>2
<1>9. CASE c \in Url!Digits /\ port * 10 + Url!Digit(c) <= MaxPort
    <2>1. port' = port * 10 + Url!Digit(c) /\ pc' = "port"
        BY <1>1, <1>5, <1>6, <1>9, Zenon
    <2>2. InPort(url', host', port')
        BY <1>1, <1>2, <1>8, <1>9, <2>1, PortDigit
    <2>3. port' \in 0..MaxPort
        BY <1>3, <1>4, <1>9, <2>1, UrlConstants
    <2>4. Url!TypeOK' /\ Url!OneGrammar' /\ Url!NumericNeverAsked'
        BY <1>7, <1>8, <2>1, <2>3, UrlConstants DEF Url!TypeOK, Url!OneGrammar, Url!NumericNeverAsked
    <2> QED BY <1>7, <1>8, <2>1, <2>2, <2>4 DEF UrlPlace
<1>10. CASE c = "/" /\ port # 0
    <2>1. c \notin Url!Digits
        BY <1>10, TokensDiffer, Zenon
    <2>2. pc' = "path" /\ port' = port
        BY <1>1, <1>10, <2>1, Zenon
    <2>3. InPath(url', host', Len(url))
        <3>1. InPath(Append(url, "/"), host, Len(url))
            BY <1>2, <1>10, PortSlash
        <3> QED BY <1>1, <1>8, <1>10, <3>1, Zenon
    <2>4. Url!TypeOK' /\ Url!OneGrammar' /\ Url!NumericNeverAsked'
        BY <1>3, <1>7, <1>8, <2>2, UrlConstants DEF Url!TypeOK, Url!OneGrammar, Url!NumericNeverAsked
    <2> QED BY <1>7, <1>8, <2>2, <2>3, <2>4 DEF UrlPlace
<1>11. CASE BadPort(port, c)
    <2>1. \A s \in Seq(Url!Tokens) : Begins(Append(url, c), s) => ~Url!IsUrl(s)
        BY <1>2, <1>11, PortRefused
    <2>2. pc' = "refused" /\ port' = port
        BY <1>1, <1>5, <1>6, <1>11, Zenon DEF BadPort
    <2> QED BY <1>1, <2>1, <2>2, UrlRefused
<1> QED BY <1>9, <1>10, <1>11, Zenon DEF BadPort

LEMMA UrlPathStep ==
    ASSUME UrlPlace, NEW c \in Url!Tokens, Url!Path(c)
    PROVE  UrlPlace'
<1>1. /\ pc = "path" /\ url' = Append(url, c) /\ UNCHANGED <<host, label, port, ip, octet, digits, pos>>
      /\ pc' = IF c \in Stray THEN "refused" ELSE pc
    BY Zenon DEF Url!Path, Url!Read, Url!literal, Stray
<1>2. PICK q : InPath(url, host, q)
    BY <1>1 DEF UrlPlace
<1>3. url \in Seq(Url!Tokens) /\ host \in Seq(Url!HostTokens) /\ ip = <<>> /\ octet = 0 /\ digits = 0 /\ pos = 0
    BY <1>1 DEF UrlPlace
<1>4. CASE c \in Stray
    <2>1. \A s \in Seq(Url!Tokens) : Begins(Append(url, c), s) => ~Url!IsUrl(s)
        BY <1>2, <1>4, PathRefused
    <2>2. pc' = "refused"
        BY <1>1, <1>4, Zenon
    <2> QED BY <1>1, <2>1, <2>2, UrlRefused
<1>5. CASE c \notin Stray
    <2>1. pc' = "path" /\ host' = host
        BY <1>1, <1>5, Zenon
    <2>2. InPath(url', host', q)
        BY <1>1, <1>2, <1>5, <2>1, PathByte
    <2>3. ip' = <<>> /\ octet' = 0 /\ digits' = 0 /\ pos' = 0 /\ ip' \in Seq(0..MaxOctet) /\ url' \in Seq(Url!Tokens)
        BY <1>1, <1>3
    <2>4. Url!TypeOK'
        BY <1>1, <2>1 DEF UrlPlace, Url!TypeOK
    <2>5. Url!OneGrammar' /\ Url!NumericNeverAsked'
        BY <2>1 DEF Url!OneGrammar, Url!NumericNeverAsked
    <2> QED BY <1>3, <2>1, <2>2, <2>3, <2>4, <2>5 DEF UrlPlace
<1> QED BY <1>4, <1>5

LEMMA UrlEndStep == ASSUME UrlPlace, Url!End PROVE UrlPlace'
<1>1. /\ pc \in {"host", "port", "path"} /\ pc' = (IF pc = "path" THEN "numeric" ELSE "malformed")
      /\ UNCHANGED <<url, host, label, port, ip, octet, digits, pos>>
    BY Zenon DEF Url!End, Url!literal
<1>2. Url!TypeOK'
    BY <1>1 DEF UrlPlace, Url!TypeOK
<1>3. url' \in Seq(Url!Tokens) /\ host' \in Seq(Url!HostTokens) /\ ip' \in Seq(0..MaxOctet)
    BY <1>1 DEF UrlPlace
<1>4. CASE pc = "path"
    <2>1. pc' = "numeric"
        BY <1>1, <1>4
    <2>2. \E q : InPath(url', host', q)
        BY <1>1, <1>4 DEF UrlPlace
    <2>3. ip' = <<>> /\ octet' = 0 /\ digits' = 0 /\ pos' = 0
        BY <1>1 DEF UrlPlace
    <2>4. Url!OneGrammar' /\ Url!NumericNeverAsked'
        BY <2>1 DEF Url!OneGrammar, Url!NumericNeverAsked
    <2> QED BY <1>2, <1>3, <2>1, <2>2, <2>3, <2>4 DEF UrlPlace
<1>5. CASE pc # "path"
    <2>1. pc' = "malformed"
        BY <1>1, <1>5
    <2>2. ~Url!IsUrl(url)
        <3>1. CASE pc = "host"
            <4>1. url \in Seq(Url!HostTokens)
                BY <3>1 DEF UrlPlace
            <4> QED BY <4>1, HostCut
        <3>2. CASE pc = "port"
            <4>1. InPort(url, host, port)
                BY <3>2 DEF UrlPlace
            <4> QED BY <4>1, PortCut
        <3> QED BY <1>1, <1>5, <3>1, <3>2
    <2>3. Url!OneGrammar' /\ Url!NumericNeverAsked'
        BY <1>1, <2>1, <2>2 DEF Url!OneGrammar, Url!NumericNeverAsked
    <2> QED BY <1>2, <1>3, <2>1, <2>3 DEF UrlPlace
<1> QED BY <1>4, <1>5

LEMMA UrlNumericStep == ASSUME UrlPlace, Url!IsNumeric PROVE UrlPlace'
<1>1. /\ pc = "numeric" /\ pc' = IF Url!Numeric THEN "literal" ELSE "accepted"
      /\ UNCHANGED <<url, host, label, port, ip, octet, digits, pos>>
    BY Zenon DEF Url!IsNumeric, Url!literal
<1>2. /\ url \in Seq(Url!Tokens) /\ host \in Seq(Url!HostTokens)
      /\ ip = <<>> /\ octet = 0 /\ digits = 0 /\ pos = 0
    BY <1>1 DEF UrlPlace
<1>3. PICK q : InPath(url, host, q)
    BY <1>1 DEF UrlPlace
<1>4. Url!TypeOK'
    BY <1>1 DEF UrlPlace, Url!TypeOK
<1>5. url' = url /\ host' = host /\ ip' = <<>> /\ octet' = 0 /\ digits' = 0 /\ pos' = 0 /\ ip' \in Seq(0..MaxOctet)
    BY <1>1, <1>2
<1>6. CASE Url!Numeric
    <2>1. pc' = "literal"
        BY <1>1, <1>6
    <2>2. Literal(host, 0, 0, 0, 0)
        <3>1. \A k \in DOMAIN host : host[k] # "a"
            BY <1>6 DEF Url!Numeric
        <3>2. 0 - 0 = 0 /\ (0 - 0 + 1)..0 = {} /\ 0 \in 0..3 /\ 0 \in 0..Len(host) /\ 0 \in 0..0 /\ 0 <= MaxDigits /\ 0 <= MaxOctet
            BY <1>2, UrlConstants
        <3>3. Dots(host, 0 - 0) = {}
            BY <3>2 DEF Dots
        <3>4. Cardinality(Dots(host, 0 - 0)) = 0
            BY <3>3, FS_EmptySet
        <3>5. \A a, b \in {0} \cup Dots(host, 0 - 0) : Next2({0} \cup Dots(host, 0 - 0), a, b) => OctetAt(host, a, b)
            <4>1. \A a, b \in {0} : ~(a < b)
                OBVIOUS
            <4> QED BY <3>3, <4>1 DEF Next2
        <3>6. 0 = Url!Value(SubSeq(host, 0 - 0 + 1, 0))
            <4>1. SubSeq(host, 0 - 0 + 1, 0) = <<>>
                BY <1>2
            <4> QED BY <4>1, ValueEmpty
        <3> QED BY <1>2, <3>1, <3>2, <3>4, <3>5, <3>6, Zenon DEF Literal
    <2>3. Literal(host', Len(ip'), octet', digits', pos')
        <3>1. Len(ip') = 0
            BY <1>5
        <3> QED BY <1>5, <2>2, <3>1
    <2>4. Url!OneGrammar' /\ Url!NumericNeverAsked'
        BY <2>1 DEF Url!OneGrammar, Url!NumericNeverAsked
    <2> QED BY <1>2, <1>3, <1>4, <1>5, <2>1, <2>3, <2>4 DEF UrlPlace
<1>7. CASE ~Url!Numeric
    <2>1. pc' = "accepted"
        BY <1>1, <1>7
    <2>2. \E k \in DOMAIN host : host[k] = "a"
        BY <1>7 DEF Url!Numeric
    <2>3. Url!IsUrl(url)
        BY <1>3, <2>2, PathWhole
    <2>4. Url!OneGrammar'
        BY <1>5, <2>1, <2>3 DEF Url!OneGrammar
    <2>5. Url!NumericNeverAsked'
        BY <1>5, <2>2 DEF Url!NumericNeverAsked
    <2> QED BY <1>2, <1>3, <1>4, <1>5, <2>1, <2>4, <2>5 DEF UrlPlace
<1> QED BY <1>6, <1>7

\* An address that is none: neither is the URL one.
LEMMA UrlMalformed ==
    ASSUME UrlPlace, pc = "literal", ~Url!IsAddress(host), pc' = "malformed", UNCHANGED <<url, host, label, port>>,
           ip' \in Seq(0..MaxOctet), Len(ip') <= 4, octet' <= MaxOctet * 10 + 9, digits' <= MaxDigits + 1
    PROVE  UrlPlace'
<1>1. PICK q : InPath(url, host, q)
    BY DEF UrlPlace
<1>2. \A k \in DOMAIN host : host[k] # "a"
    BY DEF UrlPlace, Literal
<1>3. ~Url!IsUrl(url)
    BY <1>1, <1>2, PathWhole
<1>4. Url!TypeOK'
    BY DEF UrlPlace, Url!TypeOK
<1>5. Url!OneGrammar' /\ Url!NumericNeverAsked'
    BY <1>3 DEF Url!OneGrammar, Url!NumericNeverAsked
<1>6. url' \in Seq(Url!Tokens) /\ host' \in Seq(Url!HostTokens)
    BY DEF UrlPlace
<1> QED BY <1>4, <1>5, <1>6 DEF UrlPlace

LEMMA LiteralKept ==
    ASSUME UrlPlace, pc = "literal"
    PROVE  /\ Literal(host, Len(ip), octet, digits, pos) /\ ip \in Seq(0..MaxOctet)
           /\ Len(ip) \in Nat /\ Len(ip) <= 3 /\ octet \in Nat /\ octet <= MaxOctet /\ digits \in Nat /\ digits <= MaxDigits
           /\ pos \in Nat /\ pos <= Len(host) /\ Len(host) \in Nat
           /\ octet <= MaxOctet * 10 + 9 /\ 0 <= MaxOctet * 10 + 9 /\ digits <= MaxDigits + 1 /\ 0 <= MaxDigits + 1
<1>1. Literal(host, Len(ip), octet, digits, pos) /\ ip \in Seq(0..MaxOctet)
    BY DEF UrlPlace
<1>2. /\ Len(ip) \in Nat /\ Len(ip) <= 3 /\ octet \in Nat /\ digits \in Nat
      /\ pos \in Nat /\ pos <= Len(host) /\ Len(host) \in Nat
    BY <1>1, LiteralTypes
<1>3. octet <= MaxOctet /\ digits <= MaxDigits
    BY <1>1 DEF Literal
<1>4. octet <= MaxOctet * 10 + 9 /\ 0 <= MaxOctet * 10 + 9
    <2>1. \A x, y \in Nat : x <= y => x <= y * 10 + 9 /\ 0 <= y * 10 + 9
        OBVIOUS
    <2> QED BY <1>2, <1>3, <2>1, UrlConstants
<1>5. digits <= MaxDigits + 1 /\ 0 <= MaxDigits + 1
    BY <1>2, <1>3, UrlConstants
<1> QED BY <1>1, <1>2, <1>3, <1>4, <1>5

\* Where the literal is read.
LEMMA AtLiteral ==
    ASSUME UrlPlace, pc = "literal"
    PROVE  /\ Url!Character \in Url!Digits => pos < Len(host) /\ host[pos + 1] = Url!Character
           /\ Url!Character \notin Url!Digits =>
                  (pos = Len(host) /\ Url!Character = "NUL") \/ (DotAt(host, pos) /\ Url!Character = ".")
<1>1. Literal(host, Len(ip), octet, digits, pos) /\ pos \in Nat /\ pos <= Len(host) /\ Len(host) \in Nat
    BY LiteralKept
<1>2. \A k \in 1..Len(host) : host[k] \in Url!Digits \/ host[k] = "."
    BY <1>1, LiteralTypes
<1>3. "NUL" \notin Url!Digits
    BY DEF Url!Digits
<1>4. pos < Len(host) => Url!Character = host[pos + 1]
    BY DEF Url!Character
<1>5. ~(pos < Len(host)) => Url!Character = "NUL"
    BY DEF Url!Character
<1>6. pos < Len(host) => pos + 1 \in 1..Len(host)
    BY <1>1
<1>7. pos # Len(host) => pos < Len(host)
    BY <1>1
<1> QED BY <1>2, <1>3, <1>4, <1>5, <1>6, <1>7, Zenon DEF DotAt

LEMMA FourOctets ==
    ASSUME NEW x \in Seq(0..MaxOctet), Len(x) = 4
    PROVE  x # <<>> /\ \A k \in 1..4 : x[k] <= MaxOctet
<1> DEFINE S == 0..MaxOctet
           n == Len(x)
<1>1. /\ DOMAIN x = 1..4 /\ \A k \in DOMAIN x : x[k] \in S
    <2>1. x \in Seq(S) /\ n = 4
        OBVIOUS
    <2> HIDE DEF S
    <2>2. DOMAIN x = 1..n /\ \A k \in 1..n : x[k] \in S
        BY <2>1, SMTT(30)
    <2> QED BY <2>1, <2>2, Zenon
<1>2. \A y \in 0..MaxOctet : y <= MaxOctet
    BY UrlConstants
<1>3. Len(<<>>) = 0
    OBVIOUS
<1>4. x # <<>>
    BY <1>3, SMTT(30)
<1> QED BY <1>1, <1>2, <1>4

LEMMA UrlDigitStep == ASSUME UrlPlace, Url!OctetDigit PROVE UrlPlace'
<1> DEFINE c == Url!Character
           oc == octet * 10 + Url!Digit(c)
<1>1. /\ pc = "literal" /\ c \in Url!Digits /\ octet' = oc /\ digits' = digits + 1 /\ pos' = pos + 1
      /\ pc' = (IF digits' > MaxDigits \/ octet' > MaxOctet THEN "malformed" ELSE pc)
      /\ UNCHANGED <<url, host, label, port, ip>>
    BY Zenon DEF Url!OctetDigit
<1>2. /\ Literal(host, Len(ip), octet, digits, pos) /\ ip \in Seq(0..MaxOctet)
      /\ Len(ip) \in Nat /\ Len(ip) <= 3 /\ octet \in Nat /\ octet <= MaxOctet /\ digits \in Nat /\ digits <= MaxDigits
      /\ pos < Len(host) /\ host[pos + 1] = c
    BY <1>1, AtLiteral, LiteralKept
<1>3. Url!Digit(c) \in 0..9
    BY DEF Url!Digit
<1> HIDE DEF c
<1>4. oc \in Nat /\ oc <= MaxOctet * 10 + 9
    <2>1. \A x, y \in Nat : \A d \in 0..9 : x <= y => x * 10 + d \in Nat /\ x * 10 + d <= y * 10 + 9
        OBVIOUS
    <2> QED BY <1>2, <1>3, <2>1, UrlConstants
<1> HIDE DEF oc
<1>5. Len(ip') <= 4 /\ octet' <= MaxOctet * 10 + 9 /\ digits' <= MaxDigits + 1 /\ ip' \in Seq(0..MaxOctet)
    <2>1. Len(ip) <= 4 /\ digits + 1 <= MaxDigits + 1
        BY <1>2, UrlConstants
    <2> QED BY <1>1, <1>2, <1>4, <2>1
<1>6. CASE digits + 1 > MaxDigits \/ oc > MaxOctet
    <2>1. pc' = "malformed"
        BY <1>1, <1>6, Zenon
    <2>2. host[pos + 1] \in Url!Digits /\ (digits + 1 > MaxDigits \/ octet * 10 + Url!Digit(host[pos + 1]) > MaxOctet)
        BY <1>1, <1>2, <1>6, Zenon DEF oc
    <2>3. ~Url!IsAddress(host)
        BY <1>2, <2>2, LiteralTooLong
    <2> QED BY <1>1, <1>5, <2>1, <2>3, UrlMalformed
<1>7. CASE ~(digits + 1 > MaxDigits \/ oc > MaxOctet)
    <2>1. pc' = "literal"
        BY <1>1, <1>7, Zenon
    <2>2. digits + 1 <= MaxDigits /\ oc <= MaxOctet
        BY <1>2, <1>4, <1>7, UrlConstants
    <2>3. host[pos + 1] \in Url!Digits /\ oc = octet * 10 + Url!Digit(host[pos + 1])
        BY <1>1, <1>2, Zenon DEF oc
    <2>4. Literal(host, Len(ip), oc, digits + 1, pos + 1)
        BY <1>2, <2>2, <2>3, LiteralDigit
    <2>5. Literal(host', Len(ip'), octet', digits', pos')
        BY <1>1, <2>4, Zenon
    <2>6. \E q : InPath(url', host', q)
        BY <1>1 DEF UrlPlace
    <2>7. Url!TypeOK'
        BY <1>1, <1>5, <2>1 DEF UrlPlace, Url!TypeOK
    <2>8. Url!OneGrammar' /\ Url!NumericNeverAsked'
        BY <2>1 DEF Url!OneGrammar, Url!NumericNeverAsked
    <2>9. url' \in Seq(Url!Tokens) /\ host' \in Seq(Url!HostTokens)
        BY <1>1 DEF UrlPlace
    <2> QED BY <1>5, <2>1, <2>5, <2>6, <2>7, <2>8, <2>9 DEF UrlPlace
<1> QED BY <1>6, <1>7

LEMMA UrlOctetStep == ASSUME UrlPlace, Url!OctetEnd PROVE UrlPlace'
<1> DEFINE c == Url!Character
           bad == digits = 0 \/ c # (IF Len(ip) = 3 THEN "NUL" ELSE ".")
<1>1. /\ pc = "literal" /\ c \notin Url!Digits /\ UNCHANGED <<url, host, label, port>>
      /\ IF bad THEN pc' = "malformed" /\ UNCHANGED <<ip, octet, digits, pos>>
                ELSE /\ ip' = Append(ip, octet) /\ octet' = 0 /\ digits' = 0 /\ pos' = pos + 1
                     /\ pc' = IF Len(ip) = 3 THEN "accepted" ELSE pc
    BY Zenon DEF Url!OctetEnd, Url!literal
<1>2. /\ Literal(host, Len(ip), octet, digits, pos) /\ ip \in Seq(0..MaxOctet)
      /\ Len(ip) \in Nat /\ Len(ip) <= 3 /\ octet \in Nat /\ octet <= MaxOctet
      /\ octet <= MaxOctet * 10 + 9 /\ 0 <= MaxOctet * 10 + 9 /\ digits <= MaxDigits + 1 /\ 0 <= MaxDigits + 1
    BY <1>1, LiteralKept
<1>3. (pos = Len(host) /\ c = "NUL") \/ (DotAt(host, pos) /\ c = ".")
    BY <1>1, AtLiteral
<1> HIDE DEF c, bad
<1>4. EndsAt(host, pos)
    BY <1>3 DEF EndsAt
<1>5. Len(ip) <= 4
    BY <1>2
<1>6. url' \in Seq(Url!Tokens) /\ host' \in Seq(Url!HostTokens)
    BY <1>1 DEF UrlPlace
<1>7. "NUL" # "."
    OBVIOUS
<1>8. CASE bad
    <2>1. pc' = "malformed" /\ UNCHANGED <<ip, octet, digits, pos>>
        BY <1>1, <1>8, Zenon
    <2>2. CASE digits = 0
        <3>1. ~Url!IsAddress(host)
            BY <1>2, <1>4, <2>2, LiteralEmpty
        <3>2. ip' \in Seq(0..MaxOctet) /\ Len(ip') <= 4 /\ octet' <= MaxOctet * 10 + 9 /\ digits' <= MaxDigits + 1
            BY <1>2, <1>5, <2>1
        <3> QED BY <1>1, <2>1, <3>1, <3>2, UrlMalformed
    <2>3. CASE c # (IF Len(ip) = 3 THEN "NUL" ELSE ".")
        <3>1. Miscounted(host, Len(ip), pos)
            BY <1>7, <1>3, <2>3, Zenon DEF Miscounted
        <3>2. ~Url!IsAddress(host)
            BY <1>2, <3>1, LiteralCount
        <3>3. ip' \in Seq(0..MaxOctet) /\ Len(ip') <= 4 /\ octet' <= MaxOctet * 10 + 9 /\ digits' <= MaxDigits + 1
            BY <1>2, <1>5, <2>1
        <3> QED BY <1>1, <2>1, <3>2, <3>3, UrlMalformed
    <2> QED BY <1>8, <2>2, <2>3 DEF bad
<1>9. CASE ~bad
    <2>1. /\ ip' = Append(ip, octet) /\ octet' = 0 /\ digits' = 0 /\ pos' = pos + 1
          /\ pc' = IF Len(ip) = 3 THEN "accepted" ELSE pc
        BY <1>1, <1>9, Zenon
    <2>2. digits # 0 /\ c = IF Len(ip) = 3 THEN "NUL" ELSE "."
        BY <1>9, Zenon DEF bad
    <2>3. ip' \in Seq(0..MaxOctet) /\ Len(ip') = Len(ip) + 1
        <3>1. octet \in 0..MaxOctet
            BY <1>2, UrlConstants
        <3> QED BY <1>2, <2>1, <3>1
    <2>4. Len(ip') <= 4 /\ octet' <= MaxOctet * 10 + 9 /\ digits' <= MaxDigits + 1
        <3>1. Len(ip) + 1 <= 4
            BY <1>2
        <3> QED BY <1>2, <2>1, <2>3, <3>1
    <2>5. CASE Len(ip) = 3
        <3>1. pc' = "accepted"
            BY <2>1, <2>5, Zenon
        <3>2. pos = Len(host)
            BY <1>3, <1>7, <2>2, <2>5, Zenon
        <3>3. Url!IsAddress(host)
            BY <1>2, <2>2, <2>5, <3>2, LiteralDone
        <3>4. PICK q : InPath(url, host, q)
            BY <1>1 DEF UrlPlace
        <3>5. Url!IsUrl(url)
            BY <3>3, <3>4, PathWhole
        <3>6. Url!TypeOK'
            BY <1>1, <2>4, <3>1 DEF UrlPlace, Url!TypeOK
        <3>7. Url!OneGrammar'
            BY <1>1, <3>1, <3>5 DEF Url!OneGrammar
        <3>8. Url!NumericNeverAsked'
            <4>1. Len(ip') = 4
                BY <2>3, <2>5
            <4>2. ip' # <<>> /\ \A k \in 1..4 : ip'[k] <= MaxOctet
                BY <2>3, <4>1, FourOctets
            <4>3. Url!IsAddress(host')
                BY <1>1, <3>3
            <4> QED BY <4>2, <4>3, Zenon DEF Url!NumericNeverAsked
        <3>9. InPath(url', host', q)
            BY <1>1, <3>4
        <3> QED BY <1>6, <2>3, <3>1, <3>6, <3>7, <3>8, <3>9 DEF UrlPlace
    <2>6. CASE Len(ip) # 3
        <3>1. pc' = "literal"
            BY <1>1, <2>1, <2>6, Zenon
        <3>2. DotAt(host, pos)
            BY <1>3, <1>7, <2>2, <2>6, Zenon
        <3>3. Len(ip) < 3
            <4>1. \A x \in Nat : x <= 3 /\ x # 3 => x < 3
                OBVIOUS
            <4> QED BY <1>2, <2>6, <4>1, Zenon
        <3>4. Literal(host, Len(ip) + 1, 0, 0, pos + 1)
            BY <1>2, <2>2, <3>2, <3>3, LiteralOctet
        <3>5. Literal(host', Len(ip'), octet', digits', pos')
            BY <1>1, <2>1, <2>3, <3>4, Zenon
        <3>6. \E q : InPath(url', host', q)
            BY <1>1 DEF UrlPlace
        <3>7. Url!TypeOK'
            BY <1>1, <2>4, <3>1 DEF UrlPlace, Url!TypeOK
        <3>8. Url!OneGrammar' /\ Url!NumericNeverAsked'
            BY <3>1 DEF Url!OneGrammar, Url!NumericNeverAsked
        <3> QED BY <1>6, <2>3, <3>1, <3>5, <3>6, <3>7, <3>8 DEF UrlPlace
    <2> QED BY <2>5, <2>6
<1> QED BY <1>8, <1>9

LEMMA UrlNext ==
    ASSUME UrlPlace, Url!Next
    PROVE  UrlPlace'
BY UrlHostStep, UrlPortStep, UrlPathStep, UrlEndStep, UrlNumericStep, UrlDigitStep, UrlOctetStep DEF Url!Next

LEMMA UrlInit == ASSUME Url!Init PROVE UrlPlace
<1>1. /\ pc = "host" /\ url = <<>> /\ host = <<>> /\ label = 0 /\ port = 80
      /\ ip = <<>> /\ octet = 0 /\ digits = 0 /\ pos = 0
    BY DEF Url!Init
<1>2. url \in Seq(Url!Tokens) /\ host \in Seq(Url!HostTokens) /\ ip \in Seq(0..MaxOctet)
    BY <1>1
<1>3. HostSoFar(host, label)
    <2>1. Len(host) = 0 /\ label = 0 /\ 0 \in 0..MaxLabel /\ host = <<>>
        BY <1>1, UrlConstants
    <2>2. (Len(host) - label + 1)..Len(host) = {} /\ ~(label < Len(host)) /\ 1..(Len(host) - 1) = {} /\ 1..(Len(host) - MaxLabel) = {}
        BY <2>1, UrlConstants
    <2> QED BY <1>2, <2>1, <2>2 DEF HostSoFar
<1>4. Url!TypeOK /\ Url!OneGrammar /\ Url!NumericNeverAsked
    BY <1>1, UrlConstants DEF Url!TypeOK, Url!OneGrammar, Url!NumericNeverAsked
<1> QED BY <1>1, <1>2, <1>3, <1>4 DEF UrlPlace

\* For every URL, of any length and under every limit of labels,
\* port and octets, the parser accepts it exactly when the record generator's
\* grammar does, and a numeric host is never looked up (url_parse_impl, dns).
THEOREM UrlsParsed == InputSpec => []UrlsAgree
<1>1. InputInit => UrlInv
    BY UrlInit DEF InputInit, UrlInv
<1>2. UrlInv /\ [InputNext]_inputVars => UrlInv'
    <2> SUFFICES ASSUME UrlInv, [InputNext]_inputVars, input' = "url" PROVE UrlPlace'
        BY DEF UrlInv
    <2>1. CASE UNCHANGED inputVars
        <3>1. input' = input /\ UNCHANGED <<pc, url, host, label, port, ip, octet, digits, pos>>
            BY <2>1 DEF inputVars, urlVars
        <3>2. UrlPlace
            BY <3>1 DEF UrlInv
        <3> QED BY <3>1, <3>2 DEF UrlPlace, Url!TypeOK, Url!OneGrammar, Url!NumericNeverAsked
    <2>2. CASE InputNext
        <3>1. input' = input
            BY <2>2 DEF InputNext
        <3>2. UrlPlace /\ Url!Next
            BY <2>2, <3>1 DEF InputNext, UrlInv
        <3> QED BY <3>2, UrlNext
    <2> QED BY <2>1, <2>2
<1>3. UrlInv => UrlsAgree
    BY DEF UrlInv, UrlPlace, UrlsAgree
<1> QED BY <1>1, <1>2, <1>3, PTL DEF InputSpec

-----------------------------------------------------------------------------
(* HTTP: texts are lines with a CR and an LF behind each; the first line of *)
(* a text is the only one it can be                                         *)

Blank == " "
Sign == {"CR", "LF", "NUL", "S", "L", "T", "X", Blank, "0", "1"}
Plain == Sign \ {"CR", "LF", "NUL"}

\* The line h, and y behind it.
Led(h, y) == (h \o Http!Crlf) \o y

LEMMA SignTypes ==
    /\ "CR" \in Sign /\ "LF" \in Sign /\ "NUL" \in Sign
    /\ "CR" \notin Plain /\ "LF" \notin Plain /\ "NUL" \notin Plain /\ "CR" # "LF" /\ "CR" # "NUL"
    /\ Plain \subseteq Sign
BY DEF Sign, Plain

LEMMA CrlfType ==
    /\ Http!Crlf \in Seq(Sign) /\ Len(Http!Crlf) = 2
    /\ Http!Crlf[1] = "CR" /\ Http!Crlf[2] = "LF"
BY SignTypes DEF Http!Crlf

LEMMA LedType ==
    ASSUME NEW h \in Seq(Sign), NEW y \in Seq(Sign)
    PROVE  /\ Led(h, y) \in Seq(Sign) /\ Len(Led(h, y)) = Len(h) + 2 + Len(y)
           /\ \A i \in 1..Len(h) : Led(h, y)[i] = h[i]
           /\ Led(h, y)[Len(h) + 1] = "CR" /\ Led(h, y)[Len(h) + 2] = "LF"
           /\ \A i \in 1..Len(y) : Led(h, y)[Len(h) + 2 + i] = y[i]
<1> DEFINE e == h \o Http!Crlf
<1>1. /\ e \in Seq(Sign) /\ Len(e) = Len(h) + 2
      /\ \A i \in 1..(Len(h) + 2) : e[i] = IF i <= Len(h) THEN h[i] ELSE Http!Crlf[i - Len(h)]
    <2>1. /\ e \in Seq(Sign) /\ Len(e) = Len(h) + Len(Http!Crlf)
          /\ \A i \in 1..(Len(h) + Len(Http!Crlf)) : e[i] = IF i <= Len(h) THEN h[i] ELSE Http!Crlf[i - Len(h)]
        BY CrlfType, ConcatProperties
    <2> HIDE DEF e
    <2> QED BY <2>1, CrlfType
<1>0. Len(h) \in Nat /\ Len(y) \in Nat
    BY LenProperties
<1>2. /\ \A i \in 1..Len(h) : e[i] = h[i]
      /\ e[Len(h) + 1] = "CR" /\ e[Len(h) + 2] = "LF"
    <2>1. \A i \in 1..Len(h) : i \in 1..(Len(h) + 2) /\ i <= Len(h)
        BY <1>0
    <2>2. /\ Len(h) + 1 \in 1..(Len(h) + 2) /\ ~(Len(h) + 1 <= Len(h)) /\ (Len(h) + 1) - Len(h) = 1
          /\ Len(h) + 2 \in 1..(Len(h) + 2) /\ ~(Len(h) + 2 <= Len(h)) /\ (Len(h) + 2) - Len(h) = 2
        BY <1>0
    <2>3. e[Len(h) + 1] = Http!Crlf[1] /\ e[Len(h) + 2] = Http!Crlf[2]
        BY <1>1, <2>2
    <2> HIDE DEF e
    <2> QED BY <1>1, <2>1, <2>3, CrlfType
<1>3. Led(h, y) = e \o y
    BY DEF Led
<1> HIDE DEF e
<1>4. /\ Led(h, y) \in Seq(Sign) /\ Len(Led(h, y)) = Len(e) + Len(y)
      /\ \A i \in 1..(Len(e) + Len(y)) : Led(h, y)[i] = IF i <= Len(e) THEN e[i] ELSE y[i - Len(e)]
    <2>1. e \in Seq(Sign)
        BY <1>1
    <2>2. /\ e \o y \in Seq(Sign) /\ Len(e \o y) = Len(e) + Len(y)
          /\ \A i \in 1..(Len(e) + Len(y)) : (e \o y)[i] = IF i <= Len(e) THEN e[i] ELSE y[i - Len(e)]
        BY <2>1, ConcatProperties
    <2> QED BY <1>3, <2>2
<1>5. \A i \in 1..(Len(h) + 2) : Led(h, y)[i] = e[i]
    <2>1. \A i \in 1..(Len(h) + 2) : i \in 1..(Len(e) + Len(y)) /\ i <= Len(e)
        BY <1>0, <1>1
    <2> QED BY <1>4, <2>1
<1>6. \A i \in 1..Len(y) : Led(h, y)[Len(h) + 2 + i] = y[i]
    <2> TAKE i \in 1..Len(y)
    <2>1. /\ Len(h) + 2 + i \in 1..(Len(e) + Len(y)) /\ ~(Len(h) + 2 + i <= Len(e))
          /\ (Len(h) + 2 + i) - Len(e) = i
        BY <1>0, <1>1
    <2> QED BY <1>4, <2>1
<1>7. /\ \A i \in 1..Len(h) : i \in 1..(Len(h) + 2)
      /\ Len(h) + 1 \in 1..(Len(h) + 2) /\ Len(h) + 2 \in 1..(Len(h) + 2)
    BY <1>0
<1>8. Len(Led(h, y)) = Len(h) + 2 + Len(y)
    BY <1>1, <1>4
<1>9. /\ \A i \in 1..Len(h) : Led(h, y)[i] = h[i]
      /\ Led(h, y)[Len(h) + 1] = "CR" /\ Led(h, y)[Len(h) + 2] = "LF"
    BY <1>2, <1>5, <1>7
<1> QED BY <1>4, <1>6, <1>8, <1>9

LEMMA LedAssociates ==
    ASSUME NEW h \in Seq(Sign), NEW y \in Seq(Sign), NEW z \in Seq(Sign)
    PROVE  Led(h, y) \o z = Led(h, y \o z)
<1>1. h \o Http!Crlf \in Seq(Sign)
    BY CrlfType, ConcatProperties
<1> QED BY <1>1, ConcatAssociative, SMTT(30) DEF Led

LEMMA PlainIsSign == ASSUME NEW h \in Seq(Plain) PROVE h \in Seq(Sign)
BY SignTypes, SeqMonotonic

\* The first CR ends the line.
LEMMA CarriageReturn ==
    ASSUME NEW h \in Seq(Plain), NEW y \in Seq(Sign), NEW x \in Seq(Plain), NEW c \in Sign, c \notin Plain,
           NEW z \in Seq(Sign), Led(h, y) = (x \o <<c>>) \o z
    PROVE  Len(x) = Len(h) /\ c = "CR"
<1> DEFINE w == (x \o <<c>>) \o z
<1>1. h \in Seq(Sign) /\ x \in Seq(Sign) /\ Len(h) \in Nat /\ Len(x) \in Nat /\ Len(z) \in Nat
    BY PlainIsSign, LenProperties
<1>2. <<c>> \in Seq(Sign) /\ Len(<<c>>) = 1 /\ <<c>>[1] = c
    OBVIOUS
<1>3. /\ x \o <<c>> \in Seq(Sign) /\ Len(x \o <<c>>) = Len(x) + 1
      /\ \A i \in 1..(Len(x) + 1) : (x \o <<c>>)[i] = IF i <= Len(x) THEN x[i] ELSE <<c>>[i - Len(x)]
    BY <1>1, <1>2, ConcatProperties
<1>4. \A i \in 1..((Len(x) + 1) + Len(z)) : w[i] = IF i <= Len(x) + 1 THEN (x \o <<c>>)[i] ELSE z[i - (Len(x) + 1)]
    BY <1>1, <1>3, ConcatProperties
<1>5. /\ \A i \in 1..Len(x) : i \in 1..(Len(x) + 1) /\ i <= Len(x) + 1 /\ i \in 1..((Len(x) + 1) + Len(z)) /\ i <= Len(x)
      /\ Len(x) + 1 \in 1..(Len(x) + 1) /\ Len(x) + 1 \in 1..((Len(x) + 1) + Len(z))
      /\ Len(x) + 1 <= Len(x) + 1 /\ ~(Len(x) + 1 <= Len(x)) /\ (Len(x) + 1) - Len(x) = 1
    BY <1>1
<1>6. \A i \in 1..Len(x) : w[i] = x[i]
    BY <1>3, <1>4, <1>5
<1>7. w[Len(x) + 1] = c
    BY <1>2, <1>3, <1>4, <1>5
<1>0. w = Led(h, y)
    OBVIOUS
<1> HIDE DEF w
<1>8. /\ \A i \in 1..Len(h) : w[i] = h[i]
      /\ w[Len(h) + 1] = "CR"
    <2>1. /\ \A i \in 1..Len(h) : Led(h, y)[i] = h[i]
          /\ Led(h, y)[Len(h) + 1] = "CR"
        BY <1>1, LedType
    <2> QED BY <1>0, <2>1
<1>9. (\A i \in 1..Len(h) : h[i] \in Plain) /\ (\A i \in 1..Len(x) : x[i] \in Plain)
    BY ElementOfSeq
<1>10. ~(Len(x) < Len(h))
    <2> SUFFICES ASSUME Len(x) < Len(h) PROVE FALSE
        OBVIOUS
    <2>1. Len(x) + 1 \in 1..Len(h)
        BY <1>1
    <2> QED BY <2>1, <1>7, <1>8, <1>9
<1>11. ~(Len(h) < Len(x))
    <2> SUFFICES ASSUME Len(h) < Len(x) PROVE FALSE
        OBVIOUS
    <2>1. Len(h) + 1 \in 1..Len(x)
        BY <1>1
    <2> QED BY <2>1, <1>6, <1>8, <1>9, SignTypes
<1>12. Len(x) = Len(h)
    BY <1>1, <1>10, <1>11
<1> QED BY <1>7, <1>8, <1>12

LEMMA LedOnce ==
    ASSUME NEW h \in Seq(Plain), NEW y \in Seq(Sign), NEW x \in Seq(Plain), NEW z \in Seq(Sign), Led(h, y) = Led(x, z)
    PROVE  h = x /\ y = z
<1>1. h \in Seq(Sign) /\ x \in Seq(Sign)
    BY PlainIsSign
<1>2. <<"CR">> \in Seq(Sign) /\ <<"LF">> \in Seq(Sign) /\ <<"LF">> \o z \in Seq(Sign) /\ Http!Crlf = <<"CR">> \o <<"LF">>
    BY SignTypes DEF Http!Crlf
<1>3. Led(x, z) = (x \o <<"CR">>) \o (<<"LF">> \o z)
    <2>1. x \o <<"CR">> \in Seq(Sign)
        BY <1>1, <1>2, ConcatProperties
    <2>2. x \o Http!Crlf = (x \o <<"CR">>) \o <<"LF">>
        BY <1>1, <1>2, ConcatAssociative
    <2>3. ((x \o <<"CR">>) \o <<"LF">>) \o z = (x \o <<"CR">>) \o (<<"LF">> \o z)
        BY <1>2, <2>1, ConcatAssociative
    <2> QED BY <2>2, <2>3 DEF Led
<1>4. Len(x) = Len(h) /\ Len(h) \in Nat /\ Len(y) \in Nat /\ Len(z) \in Nat
    <2>1. Led(h, y) = (x \o <<"CR">>) \o (<<"LF">> \o z)
        BY <1>3
    <2> QED BY <1>1, <1>2, <2>1, CarriageReturn, SignTypes, LenProperties
<1>5. /\ Len(Led(h, y)) = Len(h) + 2 + Len(y)
      /\ \A i \in 1..Len(h) : Led(h, y)[i] = h[i]
      /\ \A i \in 1..Len(y) : Led(h, y)[Len(h) + 2 + i] = y[i]
    BY <1>1, LedType
<1>6. /\ Len(Led(h, y)) = Len(x) + 2 + Len(z)
      /\ \A i \in 1..Len(x) : Led(h, y)[i] = x[i]
      /\ \A i \in 1..Len(z) : Led(h, y)[Len(x) + 2 + i] = z[i]
    <2>1. /\ Len(Led(x, z)) = Len(x) + 2 + Len(z)
          /\ \A i \in 1..Len(x) : Led(x, z)[i] = x[i]
          /\ \A i \in 1..Len(z) : Led(x, z)[Len(x) + 2 + i] = z[i]
        BY <1>1, LedType
    <2> QED BY <2>1
<1>7. Len(y) = Len(z)
    BY <1>4, <1>5, <1>6
<1>8. (\A i \in 1..Len(h) : h[i] = x[i]) /\ (\A i \in 1..Len(y) : y[i] = z[i])
    BY <1>4, <1>5, <1>6, <1>7
<1> QED BY <1>1, <1>4, <1>7, <1>8, SeqEqual

\* An LF follows the CR.
LEMMA LineFeed ==
    ASSUME NEW h \in Seq(Plain), NEW y \in Seq(Sign), NEW x \in Seq(Plain), NEW c \in Sign,
           NEW z \in Seq(Sign), Led(h, y) = ((x \o <<"CR">>) \o <<c>>) \o z
    PROVE  c = "LF"
<1>1. h \in Seq(Sign) /\ x \in Seq(Sign) /\ Len(h) \in Nat /\ Len(x) \in Nat /\ Len(z) \in Nat
    BY PlainIsSign, LenProperties
<1>2. <<"CR">> \in Seq(Sign) /\ <<c>> \in Seq(Sign) /\ Len(<<c>>) = 1 /\ Len(<<"CR">>) = 1 /\ <<c>>[1] = c
    BY SignTypes
<1> DEFINE e == x \o <<"CR">>
           d == e \o <<c>>
<1>3. e \in Seq(Sign) /\ Len(e) = Len(x) + 1
    BY <1>1, <1>2, ConcatProperties
<1>4. <<c>> \o z \in Seq(Sign) /\ (e \o <<c>>) \o z = e \o (<<c>> \o z)
    BY <1>2, <1>3, ConcatAssociative, ConcatProperties, SMTT(30)
<1>5. Len(x) = Len(h)
    <2>1. Led(h, y) = (x \o <<"CR">>) \o (<<c>> \o z)
        BY <1>4
    <2> QED BY <1>4, <2>1, CarriageReturn, SignTypes
<1> HIDE DEF e
<1>6. /\ d \in Seq(Sign) /\ Len(d) = Len(x) + 2
      /\ \A i \in 1..(Len(x) + 2) : d[i] = IF i <= Len(x) + 1 THEN e[i] ELSE <<c>>[i - (Len(x) + 1)]
    <2>1. /\ d \in Seq(Sign) /\ Len(d) = Len(e) + Len(<<c>>)
          /\ \A i \in 1..(Len(e) + Len(<<c>>)) : d[i] = IF i <= Len(e) THEN e[i] ELSE <<c>>[i - Len(e)]
        BY <1>2, <1>3, ConcatProperties
    <2>2. Len(e) + Len(<<c>>) = Len(x) + 2
        BY <1>1, <1>2, <1>3
    <2> QED BY <1>3, <2>1, <2>2
<1>7. Len(x) + 2 \in 1..(Len(x) + 2) /\ ~(Len(x) + 2 <= Len(x) + 1) /\ (Len(x) + 2) - (Len(x) + 1) = 1
    BY <1>1
<1>8. d[Len(x) + 2] = c
    BY <1>2, <1>6, <1>7
<1> HIDE DEF d
<1>9. (d \o z)[Len(x) + 2] = d[Len(x) + 2]
    <2>1. \A i \in 1..(Len(d) + Len(z)) : (d \o z)[i] = IF i <= Len(d) THEN d[i] ELSE z[i - Len(d)]
        BY <1>6, ConcatProperties
    <2>2. Len(x) + 2 \in 1..(Len(d) + Len(z)) /\ Len(x) + 2 <= Len(d)
        BY <1>1, <1>6
    <2> QED BY <2>1, <2>2
<1>10. Led(h, y) = d \o z
    BY DEF d, e
<1>11. Led(h, y)[Len(h) + 2] = "LF"
    BY <1>1, LedType
<1> QED BY <1>5, <1>8, <1>9, <1>10, <1>11

LEMMA HttpConstants ==
    /\ MaxLine \in Nat \ {0} /\ MaxTotal \in Nat \ {0} /\ APP_END \in Nat \ {0} /\ Chunk \in Nat \ {0}
    /\ Watched \in Nat /\ Sizes \subseteq 1..APP_END /\ HttpTokens \subseteq Sign
<1>1. /\ {Chunk, Attempts, MaxTotal, MaxLine, APP_END} \subseteq Nat \ {0}
      /\ Watched \in Nat /\ Sizes \subseteq 1..APP_END
    BY InputAssumption, Zenon DEF Http!ResponseAssumption
<1>2. HttpTokens \subseteq Sign
    BY InputAssumption, Zenon DEF Http!ResponseAssumption, Sign, Blank
<1> QED BY <1>1, <1>2

LEMMA VisiblePlain == Http!Visible \subseteq Plain
BY HttpConstants DEF Http!Visible, Plain

LEMMA SeqsAre ==
    ASSUME NEW S, NEW k \in Nat
    PROVE  \A s : s \in Http!Seqs(S, k) <=> s \in Seq(S) /\ Len(s) <= k
<1>1. ASSUME NEW s \in Http!Seqs(S, k) PROVE s \in Seq(S) /\ Len(s) <= k
    <2>1. PICK j \in 0..k : s \in [1..j -> S]
        BY <1>1 DEF Http!Seqs
    <2>2. j \in Nat /\ j <= k
        OBVIOUS
    <2>3. s \in Seq(S) /\ Len(s) = j
        BY <2>1, <2>2
    <2> QED BY <2>2, <2>3
<1>2. ASSUME NEW s \in Seq(S), Len(s) <= k PROVE s \in Http!Seqs(S, k)
    <2>1. Len(s) \in 0..k /\ s \in [1..Len(s) -> S]
        BY <1>2, LenProperties
    <2> QED BY <2>1 DEF Http!Seqs
<1> QED BY <1>1, <1>2

LEMMA MarkTypes ==
    /\ {"0", "1"} \subseteq Plain /\ {Blank} \subseteq Plain /\ Http!Names \subseteq Plain
    /\ "S" \in Plain /\ "L" \in Plain /\ "X" \in Plain /\ "T" \in Plain
<1>1. Blank \notin {"CR", "LF", "NUL"}
    BY Zenon DEF Blank
<1> QED BY <1>1 DEF Plain, Sign, Http!Names

LEMMA OneType == ASSUME NEW S, NEW c \in S PROVE <<c>> \in Seq(S) /\ Len(<<c>>) = 1 /\ <<c>>[1] = c
OBVIOUS

\* A line at one of its bytes.
LEMMA SplitAt ==
    ASSUME NEW S, NEW h \in Seq(S), NEW k \in 1..Len(h)
    PROVE  /\ SubSeq(h, 1, k - 1) \in Seq(S) /\ Len(SubSeq(h, 1, k - 1)) = k - 1
           /\ SubSeq(h, k + 1, Len(h)) \in Seq(S) /\ Len(SubSeq(h, k + 1, Len(h))) = Len(h) - k
           /\ \A i \in 1..(k - 1) : SubSeq(h, 1, k - 1)[i] = h[i]
           /\ h[k] \in S /\ h = SubSeq(h, 1, k - 1) \o <<h[k]>> \o SubSeq(h, k + 1, Len(h))
<1> DEFINE d == SubSeq(h, 1, k - 1)
           t == SubSeq(h, k + 1, Len(h))
<1>1. Len(h) \in Nat /\ k \in Nat /\ 1 <= k /\ k <= Len(h)
    BY LenProperties
<1>2. d \in Seq(S) /\ Len(d) = k - 1 /\ \A i \in 1..(k - 1) : d[i] = h[i]
    <2>1. 1 \in Nat \ {0} /\ k - 1 \in Nat /\ 1 <= (k - 1) + 1 /\ k - 1 <= Len(h) /\ (k - 1) - 1 + 1 = k - 1
        BY <1>1
    <2>2. /\ d \in Seq(S) /\ Len(d) = (k - 1) - 1 + 1
          /\ \A i \in 1..((k - 1) - 1 + 1) : d[i] = h[1 + i - 1]
        BY <2>1, SubSeqOf
    <2>3. \A i \in 1..(k - 1) : 1 + i - 1 = i
        BY <1>1
    <2> HIDE DEF d
    <2> QED BY <2>1, <2>2, <2>3
<1>3. t \in Seq(S) /\ Len(t) = Len(h) - k /\ \A i \in 1..(Len(h) - k) : t[i] = h[i + k]
    <2>1. k + 1 \in Nat \ {0} /\ Len(h) \in Nat /\ k + 1 <= Len(h) + 1 /\ Len(h) <= Len(h) /\ Len(h) - (k + 1) + 1 = Len(h) - k
        BY <1>1
    <2>2. /\ t \in Seq(S) /\ Len(t) = Len(h) - (k + 1) + 1
          /\ \A i \in 1..(Len(h) - (k + 1) + 1) : t[i] = h[(k + 1) + i - 1]
        BY <2>1, SubSeqOf
    <2>3. \A i \in 1..(Len(h) - k) : (k + 1) + i - 1 = i + k
        BY <1>1
    <2> HIDE DEF t
    <2> QED BY <2>1, <2>2, <2>3
<1>4. h[k] \in S
    BY <1>1, ElementOfSeq
<1> HIDE DEF d, t
<1> DEFINE e == d \o <<h[k]>>
<1>5. e \in Seq(S) /\ Len(e) = k /\ e[k] = h[k] /\ \A i \in 1..(k - 1) : e[i] = h[i]
    BY <1>1, <1>2, <1>4
<1>6. \A i \in 1..k : e[i] = h[i]
    BY <1>1, <1>5, SMTT(30)
<1> HIDE DEF e
<1>7. /\ e \o t \in Seq(S) /\ Len(e \o t) = Len(e) + Len(t)
      /\ \A i \in 1..(Len(e) + Len(t)) : (e \o t)[i] = IF i <= Len(e) THEN e[i] ELSE t[i - Len(e)]
    <2>1. e \in Seq(S) /\ t \in Seq(S)
        BY <1>3, <1>5
    <2> QED BY <2>1, ConcatProperties
<1>8. Len(e \o t) = Len(h) /\ Len(e) + Len(t) = Len(h)
    BY <1>1, <1>3, <1>5, <1>7
<1>9. \A i \in 1..Len(h) : (e \o t)[i] = h[i]
    <2> TAKE i \in 1..Len(h)
    <2>1. CASE i <= k
        <3>1. i \in 1..k
            BY <1>1, <2>1
        <3> QED BY <1>5, <1>6, <1>7, <1>8, <2>1, <3>1
    <2>2. CASE ~(i <= k)
        <3>1. i - k \in 1..(Len(h) - k) /\ (i - k) + k = i
            BY <1>1, <2>2
        <3>2. t[i - k] = h[(i - k) + k]
            BY <1>3, <3>1
        <3> QED BY <1>5, <1>7, <1>8, <2>2, <3>1, <3>2
    <2> QED BY <2>1, <2>2
<1>10. e \o t = h
    BY <1>7, <1>8, <1>9, SeqEqual
<1> QED BY <1>2, <1>3, <1>4, <1>10 DEF d, t, e

\* A status line: what http_open takes for one.
LEMMA StatusIs ==
    /\ Http!Status \subseteq Seq(Plain)
    /\ \A h \in Http!Status : Len(h) \in 1..MaxLine
    /\ \A h \in Seq(Http!Visible) : Len(h) <= MaxLine => (h \in Http!Status <=> Http!StatusOK(h))
<1> DEFINE V == Http!Seqs(Http!Visible, MaxLine)
<1>1. \A h : h \in Http!Status <=> Len(h) <= MaxLine /\ (h = <<"S">> \/ \E t \in V : h = <<"S", Blank>> \o t)
    BY Zenon DEF Http!Status, Http!Short, Blank
<1>2. \A h : Http!StatusOK(h) <=> Len(h) >= 1 /\ h[1] = "S" /\ (Len(h) > 1 => h[2] = Blank)
    BY Zenon DEF Http!StatusOK, Blank
<1>3. \A t : t \in V <=> t \in Seq(Http!Visible) /\ Len(t) <= MaxLine
    BY SeqsAre, HttpConstants
<1> HIDE DEF V
<1>4. <<"S", Blank>> \in Seq(Plain) /\ Len(<<"S", Blank>>) = 2
    BY MarkTypes
<1>5. ASSUME NEW t \in V
      PROVE  /\ <<"S", Blank>> \o t \in Seq(Plain) /\ Len(<<"S", Blank>> \o t) = 2 + Len(t) /\ Len(t) \in Nat
             /\ (<<"S", Blank>> \o t)[1] = "S" /\ (<<"S", Blank>> \o t)[2] = Blank
    <2>1. t \in Seq(Plain) /\ Len(t) \in Nat
        BY <1>3, VisiblePlain, SeqMonotonic, LenProperties
    <2>2. /\ <<"S", Blank>> \o t \in Seq(Plain) /\ Len(<<"S", Blank>> \o t) = Len(<<"S", Blank>>) + Len(t)
          /\ \A i \in 1..(Len(<<"S", Blank>>) + Len(t)) : (<<"S", Blank>> \o t)[i] =
                IF i <= Len(<<"S", Blank>>) THEN <<"S", Blank>>[i] ELSE t[i - Len(<<"S", Blank>>)]
        BY <1>4, <2>1, ConcatProperties
    <2> QED BY <1>4, <2>1, <2>2
<1>6. <<"S">> \in Seq(Plain) /\ Len(<<"S">>) = 1 /\ <<"S">>[1] = "S"
    BY MarkTypes
<1>7. ASSUME NEW h \in Http!Status PROVE h \in Seq(Plain) /\ Len(h) \in 1..MaxLine /\ Http!StatusOK(h)
    <2>0. Len(h) <= MaxLine
        BY <1>1
    <2>1. CASE h = <<"S">>
        <3>1. Len(h) >= 1 /\ ~(Len(h) > 1) /\ Len(h) \in 1..MaxLine
            BY <1>6, <2>0, <2>1, HttpConstants
        <3> QED BY <1>2, <1>6, <2>1, <3>1
    <2>2. CASE \E t \in V : h = <<"S", Blank>> \o t
        <3>1. PICK t \in V : h = <<"S", Blank>> \o t
            BY <2>2
        <3>2. h \in Seq(Plain) /\ Len(h) = 2 + Len(t) /\ Len(t) \in Nat /\ h[1] = "S" /\ h[2] = Blank
            BY <1>5, <3>1
        <3>3. Len(h) >= 1 /\ Len(h) \in 1..MaxLine
            BY <2>0, <3>2, HttpConstants
        <3> QED BY <1>2, <3>2, <3>3
    <2> QED BY <1>1, <2>1, <2>2
<1>8. ASSUME NEW h \in Seq(Http!Visible), Len(h) <= MaxLine, Http!StatusOK(h) PROVE h \in Http!Status
    <2>1. Len(h) \in Nat /\ Len(h) >= 1 /\ h[1] = "S"
        BY <1>2, <1>8, LenProperties
    <2>2. CASE Len(h) = 1
        <3>1. h = <<"S">>
            BY <2>1, <2>2
        <3> QED BY <1>1, <1>8, <3>1
    <2>3. CASE Len(h) > 1
        <3> DEFINE d == SubSeq(h, 1, 2 - 1)
                   t == SubSeq(h, 2 + 1, Len(h))
        <3>1. h[2] = Blank
            BY <1>2, <1>8, <2>3
        <3>2. 2 \in 1..Len(h)
            BY <2>1, <2>3
        <3>3. /\ d \in Seq(Http!Visible) /\ Len(d) = 2 - 1 /\ t \in Seq(Http!Visible) /\ Len(t) = Len(h) - 2
              /\ \A i \in 1..(2 - 1) : d[i] = h[i]
              /\ h = d \o <<h[2]>> \o t
            BY <3>2, SplitAt, ZenonT(40)
        <3> HIDE DEF d, t
        <3>4. t \in V
            <4>1. t \in Seq(Http!Visible) /\ Len(t) <= MaxLine
                BY <1>8, <2>1, <3>3, HttpConstants
            <4> QED BY <1>3, <4>1
        <3>5. d = <<"S">>
            BY <2>1, <3>3
        <3>6. d \o <<h[2]>> = <<"S", Blank>>
            <4>1. ASSUME NEW a, NEW b PROVE <<a>> \o <<b>> = <<a, b>>
                <5>1. <<a>> \in Seq({a, b}) /\ <<b>> \in Seq({a, b})
                    OBVIOUS
                <5>2. /\ Len(<<a>> \o <<b>>) = 2 /\ <<a>> \o <<b>> \in Seq({a, b})
                      /\ (<<a>> \o <<b>>)[1] = a /\ (<<a>> \o <<b>>)[2] = b
                    BY <5>1
                <5>3. <<a, b>> \in Seq({a, b}) /\ Len(<<a, b>>) = 2 /\ <<a, b>>[1] = a /\ <<a, b>>[2] = b
                    OBVIOUS
                <5>4. \A i \in 1..2 : i = 1 \/ i = 2
                    OBVIOUS
                <5> QED BY <5>2, <5>3, <5>4, SeqEqual
            <4> QED BY <3>1, <3>5, <4>1, Zenon
        <3>7. h = <<"S", Blank>> \o t
            BY <3>3, <3>6
        <3> QED BY <1>1, <1>8, <3>4, <3>7
    <2> QED BY <2>1, <2>2, <2>3
<1> QED BY <1>7, <1>8

\* A header that is neither a length nor an encoding.
Unnamed(l, k) == k \in 1..Len(l) /\ Http!Colon(l, k) /\ (k = 1 => l[1] = "X")

Header(d, x, t) == d \o <<x>> \o t

LEMMA OthersAre ==
    /\ Http!Others \subseteq Seq(Plain)
    /\ \A h \in Http!Others : Len(h) \in 1..MaxLine /\ h[1] # "L" /\ \E k : Unnamed(h, k)
    /\ \A h \in Seq(Http!Visible) : \A k : Len(h) <= MaxLine /\ Unnamed(h, k) => h \in Http!Others
<1> DEFINE V == Http!Seqs(Http!Visible, MaxLine)
           D == Http!Seqs({"0", "1"}, MaxLine)
<1>1. \A h : h \in Http!Others <=> /\ Len(h) <= MaxLine
                                   /\ \E d \in D, x \in Http!Names \cap HttpTokens, t \in V : h = d \o <<x>> \o t
                                   /\ ~\E x \in {"L", "T"}, t \in V : h = <<x>> \o t
    <2> DEFINE C == {"L", "T"}
               T == {d \o <<x>> \o t : d \in D, x \in Http!Names \cap HttpTokens, t \in V}
               U == {<<x>> \o t : x \in C, t \in V}
    <2> HIDE DEF V, D, C
    <2>1. Http!Others = Http!Short(T) \ U
        BY DEF Http!Others, V, D, C
    <2>2. \A h : h \in T <=> \E d \in D, x \in Http!Names \cap HttpTokens, t \in V : h = d \o <<x>> \o t
        <3> DEFINE N == Http!Names \cap HttpTokens
                   P == {Header(d, x, t) : d \in D, x \in N, t \in V}
        <3> HIDE DEF N, U, T
        <3>1. \A h : h \in P <=> \E d \in D, x \in N, t \in V : h = Header(d, x, t)
            OBVIOUS
        <3>2. T = P
            BY DEF T, N, Header
        <3> HIDE DEF P
        <3> QED BY <3>1, <3>2, Zenon DEF N, Header
    <2>3. \A h : h \in U <=> \E x \in C, t \in V : h = <<x>> \o t
        OBVIOUS
    <2> HIDE DEF T, U
    <2>4. \A h : h \in Http!Others <=> h \in T /\ Len(h) <= MaxLine /\ h \notin U
        BY <2>1, Zenon DEF Http!Short
    <2> QED BY <2>2, <2>3, <2>4, Zenon DEF C
<1>2. /\ \A t : t \in V <=> t \in Seq(Http!Visible) /\ Len(t) <= MaxLine
      /\ \A d : d \in D <=> d \in Seq({"0", "1"}) /\ Len(d) <= MaxLine
    BY SeqsAre, HttpConstants
<1> HIDE DEF V, D
<1>3. ASSUME NEW d \in D, NEW x \in Http!Names, NEW t \in V
      PROVE  /\ d \o <<x>> \o t \in Seq(Plain) /\ Len(d \o <<x>> \o t) = Len(d) + 1 + Len(t) /\ Len(d) \in Nat /\ Len(t) \in Nat
             /\ (d \o <<x>> \o t)[Len(d) + 1] = x
             /\ \A j \in 1..Len(d) : (d \o <<x>> \o t)[j] \in {"0", "1"}
    <2>1. d \in Seq(Plain) /\ t \in Seq(Plain) /\ <<x>> \in Seq(Plain) /\ Len(d) \in Nat /\ Len(t) \in Nat
        BY <1>2, VisiblePlain, MarkTypes, SeqMonotonic, LenProperties
    <2>2. d \o <<x>> \o t = (d \o <<x>>) \o t
        OBVIOUS
    <2>3. \A j \in 1..Len(d) : d[j] \in {"0", "1"}
        BY <1>2, ElementOfSeq
    <2> DEFINE e == d \o <<x>>
    <2>4. /\ e \in Seq(Plain) /\ Len(e) = Len(d) + 1 /\ e[Len(d) + 1] = x
          /\ \A j \in 1..Len(d) : e[j] = d[j]
        BY <2>1
    <2> HIDE DEF e
    <2>5. /\ e \o t \in Seq(Plain) /\ Len(e \o t) = Len(d) + 1 + Len(t)
          /\ \A j \in 1..(Len(d) + 1) : (e \o t)[j] = e[j]
        BY <2>1, <2>4
    <2>6. Len(d) + 1 \in 1..(Len(d) + 1) /\ \A j \in 1..Len(d) : j \in 1..(Len(d) + 1)
        BY <2>1
    <2>7. /\ e \o t \in Seq(Plain) /\ Len(e \o t) = Len(d) + 1 + Len(t)
          /\ (e \o t)[Len(d) + 1] = x /\ \A j \in 1..Len(d) : (e \o t)[j] \in {"0", "1"}
        BY <2>3, <2>4, <2>5, <2>6
    <2> QED BY <2>1, <2>7 DEF e
<1>4. ASSUME NEW h \in Http!Others
      PROVE  h \in Seq(Plain) /\ Len(h) \in 1..MaxLine /\ h[1] # "L" /\ \E k : Unnamed(h, k)
    <2>1. PICK d \in D, x \in Http!Names \cap HttpTokens, t \in V : h = d \o <<x>> \o t
        BY <1>1
    <2>2. /\ h \in Seq(Plain) /\ Len(h) = Len(d) + 1 + Len(t) /\ Len(d) \in Nat /\ Len(t) \in Nat
          /\ h[Len(d) + 1] = x /\ \A j \in 1..Len(d) : h[j] \in {"0", "1"}
        BY <1>3, <2>1
    <2>3. Len(d) = 0 => x = "X"
        <3> SUFFICES ASSUME Len(d) = 0, x # "X" PROVE FALSE
            OBVIOUS
        <3>1. d = <<>> /\ x \in {"L", "T"}
            BY <1>2, <2>1 DEF Http!Names
        <3>2. d \o <<x>> \o t = <<x>> \o t
            BY <3>1
        <3> QED BY <1>1, <2>1, <3>1, <3>2
    <2>4. Unnamed(h, Len(d) + 1)
        <3>1. Len(d) + 1 \in 1..Len(h) /\ (Len(d) + 1) - 1 = Len(d) /\ (Len(d) + 1 = 1 => Len(d) = 0)
            BY <2>2
        <3>2. x \in Http!Names
            BY <2>1
        <3>3. Len(d) + 1 = 1 => h[1] = "X"
            BY <2>2, <2>3, <3>1
        <3> QED BY <2>2, <3>1, <3>2, <3>3 DEF Unnamed, Http!Colon
    <2>5. h[1] # "L"
        <3>1. CASE Len(d) = 0
            BY <2>2, <2>3, <3>1
        <3>2. CASE Len(d) # 0
            <4>1. 1 \in 1..Len(d)
                BY <2>2, <3>2
            <4> QED BY <2>2, <4>1
        <3> QED BY <3>1, <3>2
    <2>6. Len(h) \in 1..MaxLine
        BY <1>1, <2>2, HttpConstants
    <2> QED BY <2>2, <2>4, <2>5, <2>6
<1>5. ASSUME NEW h \in Seq(Http!Visible), NEW k, Len(h) <= MaxLine, Unnamed(h, k) PROVE h \in Http!Others
    <2> DEFINE d == SubSeq(h, 1, k - 1)
               t == SubSeq(h, k + 1, Len(h))
    <2>1. /\ k \in 1..Len(h) /\ Len(h) \in Nat /\ h[k] \in Http!Names /\ (k = 1 => h[1] = "X")
          /\ \A j \in 1..(k - 1) : h[j] \in {"0", "1"}
        BY <1>5, LenProperties DEF Unnamed, Http!Colon
    <2>2. /\ d \in Seq(Http!Visible) /\ Len(d) = k - 1 /\ t \in Seq(Http!Visible) /\ Len(t) = Len(h) - k
          /\ \A i \in 1..(k - 1) : d[i] = h[i]
          /\ h[k] \in Http!Visible /\ h = d \o <<h[k]>> \o t
        BY <2>1, SplitAt, ZenonT(40)
    <2> HIDE DEF d, t
    <2>3. d \in Seq({"0", "1"})
        <3>1. d = [i \in 1..(k - 1) |-> d[i]] /\ k - 1 \in Nat
            BY <2>1, <2>2, LenProperties
        <3>2. d \in [1..(k - 1) -> {"0", "1"}]
            BY <2>1, <2>2, <3>1
        <3> QED BY <3>1, <3>2
    <2>4. h[k] \in HttpTokens
        BY <2>2 DEF Http!Visible
    <2>5. d \in D /\ t \in V
        <3>1. k - 1 <= MaxLine /\ Len(h) - k <= MaxLine
            BY <1>5, <2>1, HttpConstants
        <3> QED BY <1>2, <2>2, <2>3, <3>1
    <2>6. h = d \o <<h[k]>> \o t
        BY <2>2
    <2>7. ASSUME NEW x \in {"L", "T"}, NEW v \in V, h = <<x>> \o v PROVE FALSE
        <3>1. v \in Seq(Http!Visible)
            BY <1>2
        <3>2. h[1] = x
            BY <2>7, <3>1
        <3>3. CASE k = 1
            BY <2>1, <3>2, <3>3
        <3>4. CASE k # 1
            <4>1. 1 \in 1..(k - 1)
                BY <2>1, <3>4
            <4> QED BY <2>1, <3>2, <4>1
        <3> QED BY <3>3, <3>4
    <2> QED BY <1>1, <1>5, <2>1, <2>4, <2>5, <2>6, <2>7
<1> QED BY <1>4, <1>5

\* What the digits of a length up to the j-th are worth: to the reference, and
\* in http_header from the a-th byte of the line, where it stops counting
\* behind APP_END.
Amount(v, d, k) == v = [j \in 0..k |-> IF j = 0 THEN 0 ELSE v[j - 1] * 10 + Http!Digit(d[j])]
Further(x, c) ==
    LET next == x * 10 + Http!Digit(c)
    IN  IF x > APP_END \div 10 \/ Http!TooLarge(next) THEN APP_END + 1 ELSE next
Capped(v, l, a, k) == v = [j \in (a - 1)..k |-> IF j < a THEN 0 ELSE Further(v[j - 1], l[j])]

LEMMA AmountStep ==
    ASSUME NEW v, NEW d, NEW k \in Nat, Amount(v, d, k), NEW j \in 1..k
    PROVE  v[j] = v[j - 1] * 10 + Http!Digit(d[j])
<1>1. j \in 0..k /\ j # 0
    OBVIOUS
<1> QED BY <1>1 DEF Amount

LEMMA AmountExists == ASSUME NEW d, NEW k \in Nat PROVE \E v : Amount(v, d, k)
<1> DEFINE S == {l \in Nat : \E v : Amount(v, d, l)}
<1>1. 0 \in S
    <2> DEFINE v == [j \in 0..0 |-> 0]
    <2>1. Amount(v, d, 0)
        BY DEF Amount
    <2> QED BY <2>1
<1>2. ASSUME NEW l \in Nat, l \in S PROVE l + 1 \in S
    <2>1. PICK v : Amount(v, d, l)
        BY <1>2
    <2> DEFINE last == v[l] * 10 + Http!Digit(d[l + 1])
               g == [j \in 0..(l + 1) |-> IF j = l + 1 THEN last ELSE v[j]]
    <2>2. ASSUME NEW j \in 0..(l + 1)
          PROVE  g[j] = IF j = 0 THEN 0 ELSE g[j - 1] * 10 + Http!Digit(d[j])
        <3>1. CASE j = l + 1
            <4>1. j # 0 /\ j - 1 = l /\ g[j - 1] = v[l] /\ g[j] = last
                BY <3>1
            <4> HIDE DEF g
            <4> QED BY <3>1, <4>1
        <3>2. CASE j \in 0..l
            <4>1. g[j] = v[j]
                BY <3>2
            <4>2. j = 0 => v[j] = 0
                BY <2>1, <3>2 DEF Amount
            <4>3. j # 0 => j \in 1..l /\ g[j - 1] = v[j - 1]
                BY <3>2
            <4>4. j # 0 => v[j] = v[j - 1] * 10 + Http!Digit(d[j])
                BY <2>1, <4>3, AmountStep
            <4> HIDE DEF g
            <4> QED BY <4>1, <4>2, <4>3, <4>4
        <3> QED BY <3>1, <3>2
    <2>3. Amount(g, d, l + 1)
        <3>1. g = [j \in 0..(l + 1) |-> g[j]]
            OBVIOUS
        <3> HIDE DEF g
        <3> QED BY <2>2, <3>1 DEF Amount
    <2> QED BY <2>3
<1> HIDE DEF S
<1>3. k \in S
    BY <1>1, <1>2, EveryNatural
<1> QED BY <1>3 DEF S

LEMMA AmountOf ==
    ASSUME NEW d, Len(d) \in Nat
    PROVE  \E v : Amount(v, d, Len(d)) /\ Http!Value(d) = v[Len(d)]
<1> DEFINE R == CHOOSE x : Amount(x, d, Len(d))
<1>1. Http!Value(d) = R[Len(d)]
    BY DEF Http!Value, Amount
<1>2. Amount(R, d, Len(d))
    BY AmountExists
<1> HIDE DEF R
<1> QED BY <1>1, <1>2

LEMMA CappedStep ==
    ASSUME NEW v, NEW l, NEW a \in Nat \ {0}, NEW k \in Nat, Capped(v, l, a, k), NEW j \in a..k
    PROVE  v[j] = Further(v[j - 1], l[j])
<1>1. j \in (a - 1)..k /\ ~(j < a)
    OBVIOUS
<1> QED BY <1>1 DEF Capped

LEMMA CappedExists == ASSUME NEW l, NEW a \in Nat \ {0}, NEW k \in Nat, a - 1 <= k PROVE \E v : Capped(v, l, a, k)
<1> DEFINE S == {n \in Nat : \E v : Capped(v, l, a, (a - 1) + n)}
<1>0. a - 1 \in Nat
    OBVIOUS
<1>1. 0 \in S
    <2> DEFINE v == [j \in (a - 1)..(a - 1) |-> 0]
    <2>1. Capped(v, l, a, a - 1)
        <3>1. \A j \in (a - 1)..(a - 1) : j < a
            BY <1>0
        <3> QED BY <3>1 DEF Capped
    <2>2. (a - 1) + 0 = a - 1
        BY <1>0
    <2> QED BY <2>1, <2>2
<1>2. ASSUME NEW n \in Nat, n \in S PROVE n + 1 \in S
    <2> DEFINE m == (a - 1) + n
    <2>0. m \in Nat /\ m >= a - 1 /\ (a - 1) + (n + 1) = m + 1
        BY <1>0
    <2>1. PICK v : Capped(v, l, a, m)
        BY <1>2
    <2> HIDE DEF m
    <2> DEFINE last == Further(v[m], l[m + 1])
               g == [j \in (a - 1)..(m + 1) |-> IF j = m + 1 THEN last ELSE v[j]]
    <2>2. ASSUME NEW j \in (a - 1)..(m + 1)
          PROVE  g[j] = IF j < a THEN 0 ELSE Further(g[j - 1], l[j])
        <3>1. CASE j = m + 1
            <4>1. ~(j < a) /\ j - 1 = m /\ g[j - 1] = v[m] /\ g[j] = last
                BY <1>0, <2>0, <3>1
            <4> HIDE DEF g
            <4> QED BY <3>1, <4>1
        <3>2. CASE j \in (a - 1)..m
            <4>1. g[j] = v[j]
                BY <2>0, <3>2
            <4>2. j < a => v[j] = 0
                BY <2>1, <3>2 DEF Capped
            <4>3. ~(j < a) => j \in a..m /\ g[j - 1] = v[j - 1]
                BY <1>0, <2>0, <3>2
            <4>4. ~(j < a) => v[j] = Further(v[j - 1], l[j])
                BY <2>0, <2>1, <4>3, CappedStep
            <4> HIDE DEF g
            <4> QED BY <4>1, <4>2, <4>3, <4>4
        <3>3. j = m + 1 \/ j \in (a - 1)..m
            BY <1>0, <2>0
        <3> QED BY <3>1, <3>2, <3>3
    <2>3. Capped(g, l, a, m + 1)
        <3>1. g = [j \in (a - 1)..(m + 1) |-> g[j]]
            OBVIOUS
        <3> HIDE DEF g
        <3> QED BY <2>2, <3>1 DEF Capped
    <2> QED BY <2>0, <2>3
<1> HIDE DEF S
<1>3. k - (a - 1) \in Nat /\ (a - 1) + (k - (a - 1)) = k
    OBVIOUS
<1>4. k - (a - 1) \in S
    BY <1>1, <1>2, <1>3, EveryNatural
<1> QED BY <1>3, <1>4 DEF S

LEMMA DecimalOf ==
    ASSUME NEW l, NEW a \in Nat \ {0}, NEW k \in Nat, a - 1 <= k
    PROVE  \E v : Capped(v, l, a, k) /\ Http!Decimal(l, a, k) = v[k]
<1> DEFINE R == CHOOSE x : Capped(x, l, a, k)
<1>1. Http!Decimal(l, a, k) = R[k]
    BY DEF Http!Decimal, Capped, Further
<1>2. Capped(R, l, a, k)
    BY CappedExists
<1> HIDE DEF R
<1> QED BY <1>1, <1>2

LEMMA FurtherOf ==
    ASSUME NEW x \in Nat, NEW y \in Nat, NEW c, x = IF y <= APP_END THEN y ELSE APP_END + 1
    PROVE  /\ y * 10 + Http!Digit(c) \in Nat
           /\ Further(x, c) = IF y * 10 + Http!Digit(c) <= APP_END THEN y * 10 + Http!Digit(c) ELSE APP_END + 1
<1>1. Http!Digit(c) \in {0, 1}
    BY DEF Http!Digit
<1>2. APP_END \in Nat \ {0}
    BY HttpConstants
<1> DEFINE b == Http!Digit(c)
<1> HIDE DEF b
<1>3. b \in {0, 1} /\ b = Http!Digit(c)
    BY <1>1 DEF b
<1>4. Further(x, c) = IF x > APP_END \div 10 \/ x * 10 + b > APP_END THEN APP_END + 1 ELSE x * 10 + b
    BY <1>3 DEF Further, Http!TooLarge
<1>5. CASE y <= APP_END
    <2>1. x = y
        BY <1>5
    <2>2. x > APP_END \div 10 => x * 10 + b > APP_END
        BY <1>2, <1>3
    <2>3. y * 10 + b \in Nat /\ (y * 10 + b > APP_END <=> ~(y * 10 + b <= APP_END))
        BY <1>2, <1>3
    <2>4. CASE y * 10 + b <= APP_END
        BY <1>3, <1>4, <2>1, <2>2, <2>3, <2>4
    <2>5. CASE ~(y * 10 + b <= APP_END)
        BY <1>3, <1>4, <2>1, <2>3, <2>5
    <2> QED BY <2>4, <2>5
<1>6. CASE ~(y <= APP_END)
    <2>1. x = APP_END + 1
        BY <1>6
    <2>2. x > APP_END \div 10
        BY <1>2, <2>1
    <2>3. y * 10 + b \in Nat /\ ~(y * 10 + b <= APP_END)
        BY <1>2, <1>3, <1>6
    <2> QED BY <1>3, <1>4, <2>2, <2>3
<1> QED BY <1>5, <1>6

\* http_header reads the number that is written.
LEMMA DecimalIs ==
    ASSUME NEW S, NEW l \in Seq(S), NEW a \in 1..Len(l), NEW k \in a..Len(l)
    PROVE  /\ Http!Value(SubSeq(l, a, k)) \in Nat
           /\ Http!Decimal(l, a, k) = IF Http!Value(SubSeq(l, a, k)) <= APP_END THEN Http!Value(SubSeq(l, a, k)) ELSE APP_END + 1
<1> DEFINE d == SubSeq(l, a, k)
           n == k - a + 1
<1>1. a \in Nat \ {0} /\ k \in Nat /\ a <= k /\ a <= k + 1 /\ k <= Len(l) /\ a - 1 <= k /\ n \in Nat /\ Len(l) \in Nat
    BY LenProperties
<1>2. d \in Seq(S) /\ Len(d) = n /\ \A j \in 1..n : d[j] = l[a + j - 1]
    BY <1>1, SubSeqOf
<1> HIDE DEF d
<1>3. PICK v : Amount(v, d, n) /\ Http!Value(d) = v[n]
    BY <1>1, <1>2, AmountOf
<1>4. PICK w : Capped(w, l, a, k) /\ Http!Decimal(l, a, k) = w[k]
    BY <1>1, DecimalOf
<1> DEFINE T == {j \in Nat : j <= n => v[j] \in Nat /\ w[(a - 1) + j] = IF v[j] <= APP_END THEN v[j] ELSE APP_END + 1}
<1>5. 0 \in T
    <2>1. v[0] = 0
        BY <1>1, <1>3 DEF Amount
    <2>2. w[a - 1] = 0
        <3>1. a - 1 \in (a - 1)..k /\ a - 1 < a
            BY <1>1
        <3> QED BY <1>4, <3>1 DEF Capped
    <2>3. (a - 1) + 0 = a - 1 /\ 0 <= APP_END
        BY <1>1, HttpConstants
    <2> QED BY <2>1, <2>2, <2>3
<1>6. ASSUME NEW j \in Nat, j \in T PROVE j + 1 \in T
    <2> SUFFICES ASSUME j + 1 <= n
                 PROVE  v[j + 1] \in Nat /\ w[(a - 1) + (j + 1)] = IF v[j + 1] <= APP_END THEN v[j + 1] ELSE APP_END + 1
        OBVIOUS
    <2>1. /\ j + 1 \in 1..n /\ (j + 1) - 1 = j /\ j <= n
          /\ (a - 1) + (j + 1) \in a..k /\ ((a - 1) + (j + 1)) - 1 = (a - 1) + j /\ a + (j + 1) - 1 = (a - 1) + (j + 1)
        BY <1>1
    <2>2. v[j] \in Nat /\ w[(a - 1) + j] = IF v[j] <= APP_END THEN v[j] ELSE APP_END + 1
        BY <1>6, <2>1
    <2> HIDE DEF n
    <2>3. v[j + 1] = v[j] * 10 + Http!Digit(d[j + 1])
        BY <1>1, <1>3, <2>1, AmountStep
    <2>4. w[(a - 1) + (j + 1)] = Further(w[(a - 1) + j], d[j + 1])
        <3>1. w[(a - 1) + (j + 1)] = Further(w[((a - 1) + (j + 1)) - 1], l[(a - 1) + (j + 1)])
            BY <1>1, <1>4, <2>1, CappedStep
        <3> QED BY <1>2, <2>1, <3>1
    <2>5. w[(a - 1) + j] \in Nat
        BY <2>2, HttpConstants
    <2> QED BY <2>2, <2>3, <2>4, <2>5, FurtherOf
<1> HIDE DEF T
<1>7. n \in T
    BY <1>1, <1>5, <1>6, EveryNatural
<1>8. (a - 1) + n = k
    BY <1>1
<1> HIDE DEF n
<1>9. v[n] \in Nat /\ w[(a - 1) + n] = IF v[n] <= APP_END THEN v[n] ELSE APP_END + 1
    BY <1>1, <1>7 DEF T
<1> QED BY <1>3, <1>4, <1>8, <1>9 DEF d

\* Two pieces, byte by byte.
LEMMA Pieces ==
    ASSUME NEW S, NEW x \in Seq(S), NEW y \in Seq(S)
    PROVE  /\ x \o y \in Seq(S) /\ Len(x) \in Nat /\ Len(y) \in Nat /\ Len(x \o y) = Len(x) + Len(y)
           /\ \A i \in 1..Len(x) : (x \o y)[i] = x[i]
           /\ \A i \in (Len(x) + 1)..(Len(x) + Len(y)) : (x \o y)[i] = y[i - Len(x)]
<1>1. Len(x) \in Nat /\ Len(y) \in Nat
    BY LenProperties
<1>2. /\ x \o y \in Seq(S) /\ Len(x \o y) = Len(x) + Len(y)
      /\ \A i \in 1..(Len(x) + Len(y)) : (x \o y)[i] = IF i <= Len(x) THEN x[i] ELSE y[i - Len(x)]
    BY ConcatProperties
<1>3. \A i \in 1..Len(x) : i \in 1..(Len(x) + Len(y)) /\ i <= Len(x)
    BY <1>1
<1>4. \A i \in (Len(x) + 1)..(Len(x) + Len(y)) : i \in 1..(Len(x) + Len(y)) /\ ~(i <= Len(x))
    BY <1>1
<1>5. \A i \in 1..Len(x) : (x \o y)[i] = x[i]
    BY <1>2, <1>3
<1>6. \A i \in (Len(x) + 1)..(Len(x) + Len(y)) : (x \o y)[i] = y[i - Len(x)]
    BY <1>2, <1>4
<1> QED BY <1>1, <1>2, <1>5, <1>6

LEMMA SeqNarrow ==
    ASSUME NEW S, NEW T, NEW s \in Seq(S), NEW n \in Nat, Len(s) = n, \A i \in 1..n : s[i] \in T
    PROVE  s \in Seq(T)
<1>1. s \in [1..n -> T]
    BY LenProperties
<1> QED BY <1>1

\* A line that names a length: spaces, digits and spaces.
Length(a, d, b) == <<"L">> \o a \o d \o b

LEMMA LengthParts ==
    ASSUME NEW a \in Seq({Blank}), NEW d \in Seq({"0", "1"}), NEW b \in Seq({Blank})
    PROVE  /\ Len(a) \in Nat /\ Len(d) \in Nat /\ Len(b) \in Nat
           /\ Length(a, d, b) \in Seq(Plain) /\ Len(Length(a, d, b)) = 1 + Len(a) + Len(d) + Len(b)
           /\ Length(a, d, b)[1] = "L"
           /\ \A j \in 2..(Len(a) + 1) : Length(a, d, b)[j] = Blank
           /\ \A j \in 1..Len(d) : Length(a, d, b)[Len(a) + 1 + j] = d[j]
           /\ \A j \in (Len(a) + Len(d) + 2)..(1 + Len(a) + Len(d) + Len(b)) : Length(a, d, b)[j] = Blank
<1> DEFINE x == <<"L">>
           y == x \o a
           z == y \o d
           h == z \o b
<1>1. a \in Seq(Plain) /\ d \in Seq(Plain) /\ b \in Seq(Plain) /\ x \in Seq(Plain) /\ Len(x) = 1 /\ x[1] = "L"
    BY MarkTypes, SeqMonotonic, OneType
<1>2. Len(a) \in Nat /\ Len(d) \in Nat /\ Len(b) \in Nat
    BY LenProperties
<1>3. (\A j \in 1..Len(a) : a[j] = Blank) /\ (\A j \in 1..Len(b) : b[j] = Blank)
    <2>1. (\A j \in 1..Len(a) : a[j] \in {Blank}) /\ (\A j \in 1..Len(b) : b[j] \in {Blank})
        BY ElementOfSeq
    <2> QED BY <2>1
<1>4. Length(a, d, b) = h
    BY DEF Length
<1> HIDE DEF x
<1>5. /\ y \in Seq(Plain) /\ Len(y) = Len(x) + Len(a)
      /\ \A i \in 1..Len(x) : y[i] = x[i]
      /\ \A i \in (Len(x) + 1)..(Len(x) + Len(a)) : y[i] = a[i - Len(x)]
    BY <1>1, Pieces
<1> HIDE DEF y
<1>6. /\ z \in Seq(Plain) /\ Len(z) = Len(y) + Len(d)
      /\ \A i \in 1..Len(y) : z[i] = y[i]
      /\ \A i \in (Len(y) + 1)..(Len(y) + Len(d)) : z[i] = d[i - Len(y)]
    <2>1. y \in Seq(Plain)
        BY <1>5
    <2> QED BY <1>1, <2>1, Pieces
<1> HIDE DEF z
<1>7. /\ h \in Seq(Plain) /\ Len(h) = Len(z) + Len(b)
      /\ \A i \in 1..Len(z) : h[i] = z[i]
      /\ \A i \in (Len(z) + 1)..(Len(z) + Len(b)) : h[i] = b[i - Len(z)]
    <2>1. z \in Seq(Plain)
        BY <1>6
    <2> QED BY <1>1, <2>1, Pieces
<1> HIDE DEF h
<1>8. Len(y) = 1 + Len(a) /\ Len(z) = 1 + Len(a) + Len(d) /\ Len(h) = 1 + Len(a) + Len(d) + Len(b)
    BY <1>1, <1>2, <1>5, <1>6, <1>7
<1>9. h[1] = "L"
    <2>1. 1 \in 1..Len(x) /\ 1 \in 1..Len(y) /\ 1 \in 1..Len(z)
        BY <1>1, <1>2, <1>8
    <2> QED BY <1>1, <1>5, <1>6, <1>7, <2>1
<1>10. ASSUME NEW j \in 2..(Len(a) + 1) PROVE h[j] = Blank
    <2>1. j \in (Len(x) + 1)..(Len(x) + Len(a)) /\ j \in 1..Len(y) /\ j \in 1..Len(z) /\ j - Len(x) \in 1..Len(a)
        BY <1>1, <1>2, <1>8
    <2> QED BY <1>3, <1>5, <1>6, <1>7, <2>1
<1>11. ASSUME NEW j \in 1..Len(d) PROVE h[Len(a) + 1 + j] = d[j]
    <2> DEFINE i == Len(a) + 1 + j
    <2>1. i \in (Len(y) + 1)..(Len(y) + Len(d)) /\ i \in 1..Len(z) /\ i - Len(y) = j
        BY <1>1, <1>2, <1>8
    <2> HIDE DEF i
    <2>2. h[i] = d[j]
        BY <1>6, <1>7, <2>1
    <2> QED BY <2>2 DEF i
<1>12. ASSUME NEW j \in (Len(a) + Len(d) + 2)..(1 + Len(a) + Len(d) + Len(b)) PROVE h[j] = Blank
    <2>1. j \in (Len(z) + 1)..(Len(z) + Len(b)) /\ j - Len(z) \in 1..Len(b)
        BY <1>1, <1>2, <1>8
    <2> QED BY <1>3, <1>7, <2>1
<1> QED BY <1>2, <1>4, <1>7, <1>8, <1>9, <1>10, <1>11, <1>12

LEMMA NumberIs ==
    ASSUME NEW l, NEW a, NEW k
    PROVE  /\ Http!Number(l, a, k) <=> (\A j \in a..k : l[j] \in {"0", "1"}) /\ (\A j \in (k + 1)..Len(l) : l[j] = Blank)
           /\ Http!LengthOK(l) <=> \E from \in 2..Len(l) : \E to \in from..Len(l) :
                /\ \A j \in 2..(from - 1) : l[j] = Blank
                /\ Http!Number(l, from, to)
                /\ Http!Decimal(l, from, to) = expected
BY Zenon DEF Http!Number, Http!LengthOK, Blank

LEMMA LengthMembers ==
    \A h : h \in Http!Lengths(expected) <=>
        /\ Len(h) <= MaxLine
        /\ \E a \in Http!Seqs({Blank}, MaxLine), d \in Http!Seqs({"0", "1"}, MaxLine), b \in Http!Seqs({Blank}, MaxLine) :
              d # <<>> /\ Http!Value(d) = expected /\ h = Length(a, d, b)
<1> DEFINE A == Http!Seqs({Blank}, MaxLine)
           D == Http!Seqs({"0", "1"}, MaxLine)
           N == {d \in D : d # <<>> /\ Http!Value(d) = expected}
           P == {Length(a, d, b) : a \in A, d \in N, b \in A}
<1>1. Http!Lengths(expected) = Http!Short(P)
    BY DEF Http!Lengths, Length, Blank
<1>2. \A d : d \in N <=> d \in D /\ d # <<>> /\ Http!Value(d) = expected
    BY Zenon
<1> HIDE DEF A, N, D
<1>3. \A h : h \in P <=> \E a \in A, d \in N, b \in A : h = Length(a, d, b)
    OBVIOUS
<1> HIDE DEF P
<1>4. \A h : h \in Http!Lengths(expected) <=> Len(h) <= MaxLine /\ h \in P
    BY <1>1, Zenon DEF Http!Short
<1>5. ASSUME NEW h PROVE h \in P <=> \E a \in A, d \in D, b \in A : d # <<>> /\ Http!Value(d) = expected /\ h = Length(a, d, b)
    <2>1. h \in P <=> \E a \in A, d \in N, b \in A : h = Length(a, d, b)
        BY <1>3
    <2>2. ASSUME NEW a \in A, NEW d \in N, NEW b \in A, h = Length(a, d, b)
          PROVE  \E a1 \in A, d1 \in D, b1 \in A : d1 # <<>> /\ Http!Value(d1) = expected /\ h = Length(a1, d1, b1)
        BY <1>2, <2>2
    <2>3. ASSUME NEW a \in A, NEW d \in D, NEW b \in A, d # <<>>, Http!Value(d) = expected, h = Length(a, d, b)
          PROVE  \E a1 \in A, d1 \in N, b1 \in A : h = Length(a1, d1, b1)
        BY <1>2, <2>3
    <2> QED BY <2>1, <2>2, <2>3
<1> QED BY <1>4, <1>5, Zenon DEF A, D

\* A length: what http_header takes for one.
LEMMA LengthsAre ==
    ASSUME expected \in 1..APP_END
    PROVE  /\ Http!Lengths(expected) \subseteq Seq(Plain)
           /\ \A h \in Http!Lengths(expected) : Len(h) \in 2..MaxLine /\ h[1] = "L" /\ Http!LengthOK(h)
           /\ \A h \in Seq(Plain) : Len(h) \in 1..MaxLine /\ h[1] = "L" /\ Http!LengthOK(h) => h \in Http!Lengths(expected)
<1> DEFINE A == Http!Seqs({Blank}, MaxLine)
           D == Http!Seqs({"0", "1"}, MaxLine)
<1>1. /\ \A t : t \in A <=> t \in Seq({Blank}) /\ Len(t) <= MaxLine
      /\ \A d : d \in D <=> d \in Seq({"0", "1"}) /\ Len(d) <= MaxLine
    BY SeqsAre, HttpConstants
<1>2. \A h : h \in Http!Lengths(expected) <=>
        /\ Len(h) <= MaxLine
        /\ \E a \in A, d \in D, b \in A : d # <<>> /\ Http!Value(d) = expected /\ h = Length(a, d, b)
    BY LengthMembers
<1> HIDE DEF A, D
<1>3. ASSUME NEW h \in Http!Lengths(expected)
      PROVE  h \in Seq(Plain) /\ Len(h) \in 2..MaxLine /\ h[1] = "L" /\ Http!LengthOK(h)
    <2>1. PICK a \in A, d \in D, b \in A : d # <<>> /\ Http!Value(d) = expected /\ h = Length(a, d, b)
        BY <1>2
    <2>2. a \in Seq({Blank}) /\ d \in Seq({"0", "1"}) /\ b \in Seq({Blank}) /\ Len(h) <= MaxLine
        BY <1>1, <1>2
    <2>3. /\ Len(a) \in Nat /\ Len(d) \in Nat /\ Len(b) \in Nat
          /\ h \in Seq(Plain) /\ Len(h) = 1 + Len(a) + Len(d) + Len(b)
          /\ h[1] = "L"
          /\ \A j \in 2..(Len(a) + 1) : h[j] = Blank
          /\ \A j \in 1..Len(d) : h[Len(a) + 1 + j] = d[j]
          /\ \A j \in (Len(a) + Len(d) + 2)..(1 + Len(a) + Len(d) + Len(b)) : h[j] = Blank
        BY <2>1, <2>2, LengthParts
    <2>4. Len(d) # 0
        BY <2>1, <2>2
    <2> DEFINE from == Len(a) + 2
               to == Len(a) + 1 + Len(d)
    <2>5. from \in 2..Len(h) /\ to \in from..Len(h) /\ from - 1 = Len(a) + 1 /\ to + 1 = Len(a) + Len(d) + 2
        BY <2>3, <2>4
    <2>6. SubSeq(h, from, to) = d
        <3> DEFINE y == SubSeq(h, from, to)
        <3>1. from \in Nat \ {0} /\ to \in Nat /\ from <= to + 1 /\ to <= Len(h) /\ to - from + 1 = Len(d)
            BY <2>3, <2>4
        <3>2. y \in Seq(Plain) /\ Len(y) = to - from + 1 /\ \A i \in 1..(to - from + 1) : y[i] = h[from + i - 1]
            BY <2>3, <3>1, SubSeqOf
        <3>3. \A i \in 1..Len(d) : from + i - 1 = Len(a) + 1 + i
            BY <2>3
        <3> HIDE DEF y, from, to
        <3>4. Len(y) = Len(d) /\ \A i \in 1..Len(d) : y[i] = d[i]
            BY <2>3, <3>1, <3>2, <3>3
        <3>5. d \in Seq(Plain)
            BY <2>2, MarkTypes, SeqMonotonic
        <3>6. y = d
            BY <3>2, <3>4, <3>5, SeqEqual
        <3> QED BY <3>6 DEF y
    <2>7. \A j \in from..to : h[j] \in {"0", "1"}
        <3> TAKE j \in from..to
        <3>1. j - (Len(a) + 1) \in 1..Len(d) /\ Len(a) + 1 + (j - (Len(a) + 1)) = j
            BY <2>3
        <3>2. h[j] = d[j - (Len(a) + 1)]
            BY <2>3, <3>1
        <3>3. d[j - (Len(a) + 1)] \in {"0", "1"}
            BY <2>2, <3>1, ElementOfSeq
        <3> QED BY <3>2, <3>3
    <2>8. \A j \in (to + 1)..Len(h) : h[j] = Blank
        BY <2>3, <2>5
    <2>9. \A j \in 2..(from - 1) : h[j] = Blank
        BY <2>3, <2>5
    <2> HIDE DEF from, to
    <2>10. Http!Number(h, from, to)
        BY <2>7, <2>8, NumberIs
    <2>11. Http!Decimal(h, from, to) = expected
        <3>1. from \in 1..Len(h) /\ Len(h) \in Nat
            BY <2>3, <2>5
        <3>2. Http!Decimal(h, from, to) = IF Http!Value(d) <= APP_END THEN Http!Value(d) ELSE APP_END + 1
            BY <2>3, <2>5, <2>6, <3>1, DecimalIs
        <3>3. Http!Value(d) <= APP_END
            BY <2>1, HttpConstants
        <3> QED BY <2>1, <3>2, <3>3
    <2>12. Http!LengthOK(h)
        BY <2>5, <2>9, <2>10, <2>11, NumberIs
    <2>13. Len(h) \in 2..MaxLine
        BY <2>2, <2>3, <2>4, HttpConstants
    <2> QED BY <2>3, <2>12, <2>13
<1>4. ASSUME NEW h \in Seq(Plain), Len(h) \in 1..MaxLine, h[1] = "L", Http!LengthOK(h) PROVE h \in Http!Lengths(expected)
    <2>1. PICK from \in 2..Len(h) : \E to \in from..Len(h) :
                /\ \A j \in 2..(from - 1) : h[j] = Blank
                /\ Http!Number(h, from, to)
                /\ Http!Decimal(h, from, to) = expected
        BY <1>4, NumberIs
    <2>2. PICK to \in from..Len(h) :
                /\ \A j \in 2..(from - 1) : h[j] = Blank
                /\ Http!Number(h, from, to)
                /\ Http!Decimal(h, from, to) = expected
        BY <2>1
    <2>3. (\A j \in from..to : h[j] \in {"0", "1"}) /\ (\A j \in (to + 1)..Len(h) : h[j] = Blank)
        BY <2>2, NumberIs
    <2>0. Len(h) \in Nat /\ MaxLine \in Nat /\ Len(h) <= MaxLine
        BY <1>4, HttpConstants, LenProperties
    <2> DEFINE a == SubSeq(h, 2, from - 1)
               d == SubSeq(h, from, to)
               b == SubSeq(h, to + 1, Len(h))
    <2>4. a \in Seq(Plain) /\ Len(a) = from - 2 /\ \A i \in 1..(from - 2) : a[i] = h[i + 1]
        <3>1. 2 \in Nat \ {0} /\ from - 1 \in Nat /\ 2 <= (from - 1) + 1 /\ from - 1 <= Len(h) /\ (from - 1) - 2 + 1 = from - 2
            BY <2>0
        <3>2. a \in Seq(Plain) /\ Len(a) = (from - 1) - 2 + 1 /\ \A i \in 1..((from - 1) - 2 + 1) : a[i] = h[2 + i - 1]
            BY <3>1, SubSeqOf
        <3>3. \A i \in 1..(from - 2) : 2 + i - 1 = i + 1
            BY <2>0
        <3> HIDE DEF a
        <3> QED BY <3>1, <3>2, <3>3
    <2>5. d \in Seq(Plain) /\ Len(d) = to - from + 1 /\ \A i \in 1..(to - from + 1) : d[i] = h[from + i - 1]
        <3>1. from \in Nat \ {0} /\ to \in Nat /\ from <= to + 1 /\ to <= Len(h)
            BY <2>0
        <3> QED BY <3>1, SubSeqOf
    <2>6. b \in Seq(Plain) /\ Len(b) = Len(h) - to /\ \A i \in 1..(Len(h) - to) : b[i] = h[to + i]
        <3>1. to + 1 \in Nat \ {0} /\ Len(h) \in Nat /\ to + 1 <= Len(h) + 1 /\ Len(h) <= Len(h) /\ Len(h) - (to + 1) + 1 = Len(h) - to
            BY <2>0
        <3>2. b \in Seq(Plain) /\ Len(b) = Len(h) - (to + 1) + 1 /\ \A i \in 1..(Len(h) - (to + 1) + 1) : b[i] = h[(to + 1) + i - 1]
            BY <3>1, SubSeqOf
        <3>3. \A i \in 1..(Len(h) - to) : (to + 1) + i - 1 = to + i
            BY <2>0
        <3> HIDE DEF b
        <3> QED BY <3>1, <3>2, <3>3
    <2>7. /\ \A i \in 1..(from - 2) : i + 1 \in 2..(from - 1)
          /\ \A i \in 1..(to - from + 1) : from + i - 1 \in from..to
          /\ \A i \in 1..(Len(h) - to) : to + i \in (to + 1)..Len(h)
          /\ from - 2 \in Nat /\ to - from + 1 \in Nat \ {0} /\ Len(h) - to \in Nat
        BY <2>0
    <2> HIDE DEF a, d, b
    <2>8. a \in A /\ d \in D /\ b \in A
        <3>1. \A i \in 1..(from - 2) : a[i] = Blank
            BY <2>2, <2>4, <2>7
        <3>2. \A i \in 1..(to - from + 1) : d[i] \in {"0", "1"}
            BY <2>3, <2>5, <2>7
        <3>3. \A i \in 1..(Len(h) - to) : b[i] = Blank
            BY <2>3, <2>6, <2>7
        <3>4. a \in Seq({Blank})
            BY <2>4, <2>7, <3>1, SeqNarrow
        <3>7. b \in Seq({Blank})
            BY <2>6, <2>7, <3>3, SeqNarrow
        <3>8. d \in Seq({"0", "1"})
            <4> DEFINE B == {"0", "1"}
            <4>1. \A i \in 1..(to - from + 1) : d[i] \in B
                BY <3>2
            <4> HIDE DEF B
            <4>2. d \in Seq(B)
                BY <2>5, <2>7, <4>1, SeqNarrow
            <4> QED BY <4>2 DEF B
        <3>5. a \in Seq({Blank}) /\ d \in Seq({"0", "1"}) /\ b \in Seq({Blank})
            BY <3>4, <3>7, <3>8
        <3>6. Len(a) <= MaxLine /\ Len(d) <= MaxLine /\ Len(b) <= MaxLine
            BY <2>0, <2>4, <2>5, <2>6
        <3> QED BY <1>1, <3>5, <3>6
    <2>9. d # <<>>
        BY <2>5, <2>7
    <2>10. Http!Value(d) = expected
        <3>1. from \in 1..Len(h)
            BY <2>0
        <3>2. /\ Http!Value(SubSeq(h, from, to)) \in Nat
              /\ Http!Decimal(h, from, to) = IF Http!Value(SubSeq(h, from, to)) <= APP_END THEN Http!Value(SubSeq(h, from, to)) ELSE APP_END + 1
            BY <3>1, DecimalIs
        <3>3. /\ Http!Value(d) \in Nat
              /\ expected = IF Http!Value(d) <= APP_END THEN Http!Value(d) ELSE APP_END + 1
            BY <2>2, <3>2 DEF d
        <3>4. expected <= APP_END /\ APP_END \in Nat
            BY HttpConstants
        <3> QED BY <3>3, <3>4
    <2>11. h = Length(a, d, b)
        <3>1. a \in Seq({Blank}) /\ d \in Seq({"0", "1"}) /\ b \in Seq({Blank})
            BY <1>1, <2>8
        <3>2. /\ Length(a, d, b) \in Seq(Plain) /\ Len(Length(a, d, b)) = 1 + Len(a) + Len(d) + Len(b)
              /\ Length(a, d, b)[1] = "L"
              /\ \A j \in 2..(Len(a) + 1) : Length(a, d, b)[j] = Blank
              /\ \A j \in 1..Len(d) : Length(a, d, b)[Len(a) + 1 + j] = d[j]
              /\ \A j \in (Len(a) + Len(d) + 2)..(1 + Len(a) + Len(d) + Len(b)) : Length(a, d, b)[j] = Blank
            BY <3>1, LengthParts
        <3>3. Len(Length(a, d, b)) = Len(h)
            BY <2>0, <2>4, <2>5, <2>6, <3>2
        <3>4. ASSUME NEW j \in 1..Len(h) PROVE Length(a, d, b)[j] = h[j]
            <4>1. CASE j = 1
                BY <1>4, <3>2, <4>1
            <4>2. CASE j \in 2..(from - 1)
                <5>1. j \in 2..(Len(a) + 1)
                    BY <2>0, <2>4, <4>2
                <5> QED BY <2>2, <3>2, <4>2, <5>1
            <4>3. CASE j \in from..to
                <5>1. /\ j - from + 1 \in 1..Len(d) /\ j - from + 1 \in 1..(to - from + 1)
                      /\ Len(a) + 1 + (j - from + 1) = j /\ from + (j - from + 1) - 1 = j
                    BY <2>0, <2>4, <2>5, <4>3
                <5>2. Length(a, d, b)[Len(a) + 1 + (j - from + 1)] = d[j - from + 1]
                    BY <3>2, <5>1
                <5>3. d[j - from + 1] = h[from + (j - from + 1) - 1]
                    BY <2>5, <5>1
                <5> QED BY <5>1, <5>2, <5>3
            <4>4. CASE j \in (to + 1)..Len(h)
                <5>1. j \in (Len(a) + Len(d) + 2)..(1 + Len(a) + Len(d) + Len(b))
                    BY <2>0, <2>4, <2>5, <2>6, <4>4
                <5> QED BY <2>3, <3>2, <4>4, <5>1
            <4>5. j = 1 \/ j \in 2..(from - 1) \/ j \in from..to \/ j \in (to + 1)..Len(h)
                BY <2>0
            <4> QED BY <4>1, <4>2, <4>3, <4>4, <4>5
        <3> QED BY <3>2, <3>3, <3>4, SeqEqual
    <2> QED BY <1>2, <2>0, <2>8, <2>9, <2>10, <2>11
<1> QED BY <1>3, <1>4

\* The texts that end as B says, with other headers in front: the smallest
\* set that has B's and, with a text, another header and the text behind it.
Closed(B, S) == B \subseteq S /\ \A h \in Http!Others, y \in S : Led(h, y) \in S
Texts(B) == {x \in Seq(Sign) : \A S \in SUBSET Seq(Sign) : Closed(B, S) => x \in S}

\* What may stand behind the length, behind the status line, and in all.
Ends == Texts({Http!Crlf})
Counted(n) == {Led(l, y) : l \in Http!Lengths(n), y \in Ends}
Headers(n) == Texts(Counted(n))
Whole(n) == {Led(s, y) : s \in Http!Status, y \in Headers(n)}

\* What may follow where http_open stands.
Rest(n, status, counted) == IF status THEN Whole(n) ELSE IF counted THEN Ends ELSE Headers(n)

LEMMA TextsLeast ==
    ASSUME NEW B, NEW S \in SUBSET Seq(Sign), Closed(B, S)
    PROVE  Texts(B) \subseteq S
BY DEF Texts

LEMMA TextsAre ==
    ASSUME NEW B \in SUBSET Seq(Sign)
    PROVE  /\ Texts(B) \subseteq Seq(Sign) /\ B \subseteq Texts(B)
           /\ \A h \in Http!Others, y \in Texts(B) : Led(h, y) \in Texts(B)
           /\ \A x \in Texts(B) : x \in B \/ \E h \in Http!Others, y \in Texts(B) : x = Led(h, y)
<1>1. Texts(B) \subseteq Seq(Sign)
    BY DEF Texts
<1>2. B \subseteq Texts(B)
    BY DEF Texts, Closed
<1>3. ASSUME NEW h \in Http!Others, NEW y \in Texts(B) PROVE Led(h, y) \in Texts(B)
    <2>1. Led(h, y) \in Seq(Sign)
        BY <1>1, OthersAre, PlainIsSign, LedType
    <2>2. ASSUME NEW S \in SUBSET Seq(Sign), Closed(B, S) PROVE Led(h, y) \in S
        <3>1. y \in S
            BY <2>2 DEF Texts
        <3> QED BY <2>2, <3>1 DEF Closed
    <2> QED BY <2>1, <2>2 DEF Texts
<1>4. ASSUME NEW x \in Texts(B) PROVE x \in B \/ \E h \in Http!Others, y \in Texts(B) : x = Led(h, y)
    <2> DEFINE S == B \cup {z \in Texts(B) : \E h \in Http!Others, y \in Texts(B) : z = Led(h, y)}
    <2>1. S \in SUBSET Seq(Sign) /\ S \subseteq Texts(B) /\ B \subseteq S
        BY <1>1, <1>2
    <2>2. ASSUME NEW h \in Http!Others, NEW y \in S PROVE Led(h, y) \in S
        <3>1. y \in Texts(B)
            BY <2>1
        <3>2. Led(h, y) \in Texts(B)
            BY <1>3, <3>1
        <3> QED BY <3>1, <3>2
    <2>3. \A z \in S : z \in B \/ \E h \in Http!Others, y \in Texts(B) : z = Led(h, y)
        OBVIOUS
    <2> HIDE DEF S
    <2>4. x \in S
        BY <2>1, <2>2, TextsLeast DEF Closed
    <2> QED BY <2>3, <2>4
<1> QED BY <1>1, <1>2, <1>3, <1>4

LEMMA NothingType == <<>> \in Seq(Plain) /\ <<>> \in Seq(Sign) /\ Http!Crlf = Led(<<>>, <<>>)
<1>1. <<>> \in Seq(Plain) /\ <<>> \in Seq(Sign)
    OBVIOUS
<1>2. <<>> \o Http!Crlf = Http!Crlf /\ Http!Crlf \o <<>> = Http!Crlf
    BY CrlfType, ConcatEmptySeq
<1> QED BY <1>1, <1>2 DEF Led

LEMMA EndsAre ==
    /\ Ends \subseteq Seq(Sign)
    /\ \A h \in Seq(Plain), y \in Seq(Sign) :
          Led(h, y) \in Ends <=> (h = <<>> /\ y = <<>>) \/ (h \in Http!Others /\ y \in Ends)
    /\ \A x \in Ends : \E h \in Seq(Plain) : Len(h) <= MaxLine /\ \E y \in Seq(Sign) : x = Led(h, y)
<1> DEFINE B == {Http!Crlf}
<1>0. B \in SUBSET Seq(Sign) /\ Ends = Texts(B)
    BY CrlfType DEF Ends
<1>9. \A x \in B : x = Led(<<>>, <<>>)
    BY NothingType
<1>8. Led(<<>>, <<>>) \in B
    BY NothingType
<1> HIDE DEF B
<1>1. /\ Ends \subseteq Seq(Sign) /\ B \subseteq Ends
      /\ \A h \in Http!Others, y \in Ends : Led(h, y) \in Ends
      /\ \A x \in Ends : x \in B \/ \E h \in Http!Others, y \in Ends : x = Led(h, y)
    BY <1>0, TextsAre
<1>2. ASSUME NEW h \in Seq(Plain), NEW y \in Seq(Sign), Led(h, y) \in Ends
      PROVE  (h = <<>> /\ y = <<>>) \/ (h \in Http!Others /\ y \in Ends)
    <2>1. CASE Led(h, y) \in B
        <3>1. Led(h, y) = Led(<<>>, <<>>)
            BY <1>9, <2>1
        <3> QED BY <3>1, LedOnce, NothingType
    <2>2. CASE \E x \in Http!Others, z \in Ends : Led(h, y) = Led(x, z)
        <3>1. PICK x \in Http!Others, z \in Ends : Led(h, y) = Led(x, z)
            BY <2>2
        <3>2. x \in Seq(Plain) /\ z \in Seq(Sign)
            BY <1>1, OthersAre
        <3>3. h = x /\ y = z
            BY <3>1, <3>2, LedOnce
        <3> QED BY <3>3
    <2> QED BY <1>1, <1>2, <2>1, <2>2
<1>3. ASSUME NEW x \in Ends PROVE \E h \in Seq(Plain) : Len(h) <= MaxLine /\ \E y \in Seq(Sign) : x = Led(h, y)
    <2>1. CASE x \in B
        <3>1. Len(<<>>) <= MaxLine
            BY HttpConstants
        <3> QED BY <1>9, <2>1, <3>1, NothingType
    <2>2. CASE \E h \in Http!Others, z \in Ends : x = Led(h, z)
        <3>1. PICK h \in Http!Others, z \in Ends : x = Led(h, z)
            BY <2>2
        <3>2. h \in Seq(Plain) /\ Len(h) <= MaxLine /\ z \in Seq(Sign)
            BY <1>1, OthersAre
        <3> QED BY <3>1, <3>2
    <2> QED BY <1>1, <2>1, <2>2
<1>4. Led(<<>>, <<>>) \in Ends
    BY <1>1, <1>8
<1> QED BY <1>1, <1>2, <1>3, <1>4

LEMMA HeadersAre ==
    ASSUME expected \in Sizes
    PROVE  /\ Headers(expected) \subseteq Seq(Sign) /\ Counted(expected) \subseteq Seq(Sign)
           /\ \A h \in Seq(Plain), y \in Seq(Sign) : Led(h, y) \in Headers(expected) <=>
                 (h \in Http!Lengths(expected) /\ y \in Ends) \/ (h \in Http!Others /\ y \in Headers(expected))
           /\ \A x \in Headers(expected) : \E h \in Seq(Plain) : Len(h) <= MaxLine /\ \E y \in Seq(Sign) : x = Led(h, y)
<1> DEFINE B == Counted(expected)
           H == Headers(expected)
           L == Http!Lengths(expected)
<1>a. L \subseteq Seq(Plain) /\ \A h \in L : Len(h) <= MaxLine
    <2>1. expected \in 1..APP_END
        BY HttpConstants
    <2> QED BY <2>1, LengthsAre
<1>b. \A x : x \in B <=> \E l \in L, y \in Ends : x = Led(l, y)
    BY DEF Counted
<1>c. H = Texts(B)
    BY DEF Headers
<1> HIDE DEF B, H, L
<1>0. B \in SUBSET Seq(Sign)
    <2>1. ASSUME NEW x \in B PROVE x \in Seq(Sign)
        <3>1. PICK l \in L, y \in Ends : x = Led(l, y)
            BY <1>b
        <3> QED BY <1>a, <3>1, EndsAre, PlainIsSign, LedType
    <2> QED BY <2>1
<1>1. /\ H \subseteq Seq(Sign) /\ B \subseteq H
      /\ \A h \in Http!Others, y \in H : Led(h, y) \in H
      /\ \A x \in H : x \in B \/ \E h \in Http!Others, y \in H : x = Led(h, y)
    BY <1>0, <1>c, TextsAre
<1>2. ASSUME NEW h \in Seq(Plain), NEW y \in Seq(Sign), Led(h, y) \in H
      PROVE  (h \in L /\ y \in Ends) \/ (h \in Http!Others /\ y \in H)
    <2>1. CASE Led(h, y) \in B
        <3>1. PICK x \in L, z \in Ends : Led(h, y) = Led(x, z)
            BY <1>b, <2>1
        <3>2. x \in Seq(Plain) /\ z \in Seq(Sign)
            BY <1>a, EndsAre
        <3>3. h = x /\ y = z
            BY <3>1, <3>2, LedOnce
        <3> QED BY <3>3
    <2>2. CASE \E x \in Http!Others, z \in H : Led(h, y) = Led(x, z)
        <3>1. PICK x \in Http!Others, z \in H : Led(h, y) = Led(x, z)
            BY <2>2
        <3>2. x \in Seq(Plain) /\ z \in Seq(Sign)
            BY <1>1, OthersAre
        <3>3. h = x /\ y = z
            BY <3>1, <3>2, LedOnce
        <3> QED BY <3>3
    <2> QED BY <1>1, <1>2, <2>1, <2>2
<1>3. ASSUME NEW h \in L, NEW y \in Ends PROVE Led(h, y) \in H
    BY <1>1, <1>b
<1>4. ASSUME NEW x \in H PROVE \E h \in Seq(Plain) : Len(h) <= MaxLine /\ \E y \in Seq(Sign) : x = Led(h, y)
    <2>1. CASE x \in B
        <3>1. PICK l \in L, z \in Ends : x = Led(l, z)
            BY <1>b, <2>1
        <3> QED BY <1>a, <3>1, EndsAre
    <2>2. CASE \E h \in Http!Others, z \in H : x = Led(h, z)
        <3>1. PICK h \in Http!Others, z \in H : x = Led(h, z)
            BY <2>2
        <3>2. h \in Seq(Plain) /\ Len(h) <= MaxLine /\ z \in Seq(Sign)
            BY <1>1, OthersAre
        <3> QED BY <3>1, <3>2
    <2> QED BY <1>1, <2>1, <2>2
<1>5. \A h \in Seq(Plain), y \in Seq(Sign) : Led(h, y) \in H <=> (h \in L /\ y \in Ends) \/ (h \in Http!Others /\ y \in H)
    BY <1>1, <1>2, <1>3
<1> QED BY <1>0, <1>1, <1>4, <1>5 DEF B, H, L

LEMMA WholeAre ==
    ASSUME expected \in Sizes
    PROVE  /\ Whole(expected) \subseteq Seq(Sign)
           /\ \A h \in Seq(Plain), y \in Seq(Sign) : Led(h, y) \in Whole(expected) <=> h \in Http!Status /\ y \in Headers(expected)
           /\ \A x \in Whole(expected) : \E h \in Seq(Plain) : Len(h) <= MaxLine /\ \E y \in Seq(Sign) : x = Led(h, y)
<1> DEFINE W == Whole(expected)
           H == Headers(expected)
<1>1. \A x : x \in W <=> \E s \in Http!Status, y \in H : x = Led(s, y)
    BY DEF Whole
<1>2. H \subseteq Seq(Sign)
    BY HeadersAre
<1>3. Http!Status \subseteq Seq(Plain) /\ \A h \in Http!Status : Len(h) <= MaxLine
    BY StatusIs, HttpConstants
<1> HIDE DEF W, H
<1>4. ASSUME NEW x \in W PROVE x \in Seq(Sign) /\ \E h \in Seq(Plain) : Len(h) <= MaxLine /\ \E y \in Seq(Sign) : x = Led(h, y)
    <2>1. PICK s \in Http!Status, y \in H : x = Led(s, y)
        BY <1>1
    <2> QED BY <1>2, <1>3, <2>1, PlainIsSign, LedType
<1>5. ASSUME NEW h \in Seq(Plain), NEW y \in Seq(Sign), Led(h, y) \in W PROVE h \in Http!Status /\ y \in H
    <2>1. PICK s \in Http!Status, z \in H : Led(h, y) = Led(s, z)
        BY <1>1, <1>5
    <2>2. s \in Seq(Plain) /\ z \in Seq(Sign)
        BY <1>2, <1>3
    <2>3. h = s /\ y = z
        BY <2>1, <2>2, LedOnce
    <2> QED BY <2>3
<1>6. \A h \in Seq(Plain), y \in Seq(Sign) : Led(h, y) \in W <=> h \in Http!Status /\ y \in H
    BY <1>1, <1>5
<1> QED BY <1>4, <1>6 DEF W, H

\* What follows begins with a line.
LEMMA RestBeginsLine ==
    ASSUME expected \in Sizes, NEW f \in BOOLEAN, NEW s \in BOOLEAN, NEW x \in Rest(expected, f, s)
    PROVE  \E h \in Seq(Plain) : Len(h) <= MaxLine /\ \E y \in Seq(Sign) : x = Led(h, y)
<1>1. x \in Whole(expected) \/ x \in Ends \/ x \in Headers(expected)
    BY DEF Rest
<1> QED BY <1>1, WholeAre, HeadersAre, EndsAre

\* A header, to http_header and to the reference.
LEMMA HeaderIs ==
    ASSUME expected \in Sizes, NEW l \in Seq(Http!Visible), Len(l) \in 1..MaxLine
    PROVE  /\ Http!GoodHeader(l) <=> l \in Http!Others \/ (~seen /\ l \in Http!Lengths(expected))
           /\ l \in Http!Others => l[1] # "L"
           /\ l \in Http!Lengths(expected) => l[1] = "L"
<1>0. expected \in 1..APP_END /\ l \in Seq(Plain) /\ Len(l) \in Nat /\ Len(l) <= MaxLine
    BY HttpConstants, VisiblePlain, SeqMonotonic, LenProperties
<1>1. l \in Http!Others => l[1] # "L" /\ \E k : Unnamed(l, k)
    BY OthersAre
<1>2. l \in Http!Lengths(expected) => l[1] = "L" /\ Http!LengthOK(l)
    BY <1>0, LengthsAre
<1>3. ASSUME NEW k, Unnamed(l, k) PROVE Http!GoodHeader(l)
    <2>1. k \in 1..Len(l) /\ Http!Colon(l, k) /\ (k = 1 => l[1] = "X")
        BY <1>3 DEF Unnamed
    <2>2. Http!Name(l, k) = "X"
        BY <2>1 DEF Http!Name
    <2> QED BY <2>1, <2>2 DEF Http!GoodHeader
<1>4. ASSUME ~seen, l \in Http!Lengths(expected) PROVE Http!GoodHeader(l)
    <2>1. Http!Colon(l, 1)
        BY <1>2, <1>4 DEF Http!Colon, Http!Names
    <2>2. Http!Name(l, 1) = "L" /\ Http!LengthOnce(l)
        BY <1>2, <1>4 DEF Http!Name, Http!LengthOnce
    <2>3. 1 \in 1..Len(l)
        BY <1>0
    <2> QED BY <2>1, <2>2, <2>3 DEF Http!GoodHeader
<1>5. ASSUME Http!GoodHeader(l) PROVE l \in Http!Others \/ (~seen /\ l \in Http!Lengths(expected))
    <2>1. PICK k \in 1..Len(l) : Http!Colon(l, k) /\ Http!Name(l, k) # "T" /\ (Http!Name(l, k) = "L" => Http!LengthOnce(l))
        BY <1>5 DEF Http!GoodHeader
    <2>2. CASE Http!Name(l, k) = "L"
        <3>1. l[1] = "L"
            BY <2>2 DEF Http!Name
        <3>2. ~seen /\ Http!LengthOK(l)
            BY <2>1, <2>2 DEF Http!LengthOnce
        <3> QED BY <1>0, <3>1, <3>2, LengthsAre
    <2>3. CASE Http!Name(l, k) # "L"
        <3>1. k = 1 => l[1] = "X"
            BY <2>1, <2>3 DEF Http!Name, Http!Colon, Http!Names
        <3>2. Unnamed(l, k)
            BY <2>1, <3>1 DEF Unnamed
        <3> QED BY <1>0, <3>2, OthersAre
    <2> QED BY <2>2, <2>3
<1> QED BY <1>1, <1>2, <1>3, <1>4, <1>5

\* The reference's other headers, in groups, and their text.
Lines == {l \in Http!Others : Len(l) <= MaxTotal - 11}
Most == (MaxTotal - 9) \div 3
Groups == Http!Seqs(Lines, Most)
Text(v, G) == v = [g \in G |-> IF g = <<>> THEN <<>> ELSE Led(g[1], v[Tail(g)])]

LEMMA TextStep ==
    ASSUME NEW v, NEW G, Text(v, G), NEW g \in G
    PROVE  (g = <<>> => v[g] = <<>>) /\ (g # <<>> => v[g] = Led(g[1], v[Tail(g)]))
BY DEF Text

LEMMA GroupParts ==
    ASSUME NEW L, NEW n \in Nat, NEW g \in Http!Seqs(L, n), g # <<>>
    PROVE  /\ n # 0 /\ g[1] \in L /\ Tail(g) \in Http!Seqs(L, n - 1) /\ Tail(g) \in Http!Seqs(L, n)
           /\ Len(g) \in Nat \ {0} /\ Len(Tail(g)) = Len(g) - 1
<1>1. g \in Seq(L) /\ Len(g) <= n /\ Len(g) \in Nat
    BY SeqsAre, LenProperties
<1>2. Len(g) # 0
    BY <1>1
<1>3. Tail(g) \in Seq(L) /\ Len(Tail(g)) = Len(g) - 1
    BY <1>1, HeadTailProperties
<1>4. 1 \in 1..Len(g)
    BY <1>1, <1>2
<1>5. g[1] \in L
    BY <1>1, <1>4, ElementOfSeq
<1>6. n # 0 /\ n - 1 \in Nat /\ Len(Tail(g)) <= n - 1 /\ Len(Tail(g)) <= n
    BY <1>1, <1>2, <1>3
<1> QED BY <1>1, <1>2, <1>3, <1>5, <1>6, SeqsAre

LEMMA TextExists == ASSUME NEW L, NEW n \in Nat PROVE \E v : Text(v, Http!Seqs(L, n))
<1> DEFINE S == {k \in Nat : \E v : Text(v, Http!Seqs(L, k))}
<1>1. 0 \in S
    <2> DEFINE G == Http!Seqs(L, 0)
               v == [g \in G |-> <<>>]
    <2>1. \A g \in G : g = <<>>
        BY GroupParts
    <2> HIDE DEF G
    <2>2. Text(v, G)
        BY <2>1 DEF Text
    <2> QED BY <2>2 DEF G
<1>2. ASSUME NEW k \in Nat, k \in S PROVE k + 1 \in S
    <2> DEFINE G == Http!Seqs(L, k)
               H == Http!Seqs(L, k + 1)
    <2>1. PICK v : Text(v, G)
        BY <1>2
    <2> DEFINE w == [g \in H |-> IF g = <<>> THEN <<>> ELSE Led(g[1], v[Tail(g)])]
    <2>2. G \subseteq H
        <3>1. \A g \in G : g \in Seq(L) /\ Len(g) <= k
            BY SeqsAre
        <3>2. \A g \in G : Len(g) <= k + 1
            BY <3>1, LenProperties
        <3> QED BY <3>1, <3>2, SeqsAre
    <2>3. \A g \in H : g # <<>> => Tail(g) \in G
        <3>1. k + 1 \in Nat /\ (k + 1) - 1 = k
            OBVIOUS
        <3> QED BY <3>1, GroupParts
    <2> HIDE DEF G, H
    <2>4. \A g \in G : w[g] = v[g]
        BY <2>1, <2>2, TextStep
    <2>5. \A g \in H : w[g] = IF g = <<>> THEN <<>> ELSE Led(g[1], w[Tail(g)])
        <3> TAKE g \in H
        <3>1. w[g] = IF g = <<>> THEN <<>> ELSE Led(g[1], v[Tail(g)])
            OBVIOUS
        <3>2. g # <<>> => w[Tail(g)] = v[Tail(g)]
            BY <2>3, <2>4
        <3> HIDE DEF w
        <3> QED BY <3>1, <3>2
    <2>6. w = [g \in H |-> w[g]]
        OBVIOUS
    <2> HIDE DEF w
    <2>7. Text(w, H)
        BY <2>5, <2>6 DEF Text
    <2> QED BY <2>7 DEF H
<1> HIDE DEF S
<1>3. n \in S
    BY <1>1, <1>2, EveryNatural
<1> QED BY <1>3 DEF S

LEMMA ConcatNothing == ASSUME NEW y \in Seq(Sign) PROVE <<>> \o y = y
BY ConcatEmptySeq

\* Other headers in front of a text of a kind make a text of that kind, and
\* each takes three bytes or more.
LEMMA TextInFront ==
    ASSUME NEW n \in Nat, NEW v, Text(v, Http!Seqs(Lines, n)), NEW B \in SUBSET Seq(Sign)
    PROVE  \A g \in Http!Seqs(Lines, n) :
              /\ v[g] \in Seq(Sign) /\ Len(v[g]) >= 3 * Len(g)
              /\ \A y \in Texts(B) : v[g] \o y \in Texts(B)
<1> DEFINE G == Http!Seqs(Lines, n)
           Good(g) == /\ v[g] \in Seq(Sign) /\ Len(v[g]) >= 3 * Len(g)
                      /\ \A y \in Texts(B) : v[g] \o y \in Texts(B)
           S == {k \in Nat : \A g \in G : Len(g) = k => Good(g)}
<1>0. /\ \A g \in G : g # <<>> => /\ g[1] \in Lines /\ Tail(g) \in G
                                  /\ Len(g) \in Nat \ {0} /\ Len(Tail(g)) = Len(g) - 1
      /\ \A g \in G : Len(g) \in Nat /\ g \in Seq(Lines)
    BY GroupParts, SeqsAre, LenProperties
<1>9. Lines \subseteq Seq(Sign) /\ (\A h \in Lines : h \in Http!Others /\ Len(h) \in Nat /\ Len(h) >= 1)
    <2>1. \A h \in Lines : h \in Http!Others
        BY DEF Lines
    <2>2. \A h \in Http!Others : h \in Seq(Plain) /\ Len(h) \in 1..MaxLine
        BY OthersAre
    <2> QED BY <2>1, <2>2, PlainIsSign, HttpConstants
<1>8. Text(v, G)
    OBVIOUS
<1>7. Texts(B) \subseteq Seq(Sign) /\ \A h \in Http!Others, y \in Texts(B) : Led(h, y) \in Texts(B)
    BY TextsAre
<1> HIDE DEF G
<1>1. 0 \in S
    <2> SUFFICES ASSUME NEW g \in G, Len(g) = 0 PROVE Good(g)
        OBVIOUS
    <2>1. g = <<>>
        BY <1>0
    <2>2. v[g] = <<>>
        BY <1>8, <2>1, TextStep
    <2>3. <<>> \in Seq(Sign) /\ Len(<<>>) = 0
        BY NothingType
    <2>4. \A y \in Texts(B) : <<>> \o y = y
        BY <1>7, ConcatNothing
    <2>5. Len(v[g]) >= 3 * Len(g)
        BY <2>2, <2>3
    <2> QED BY <2>2, <2>3, <2>4, <2>5
<1>2. ASSUME NEW k \in Nat, k \in S PROVE k + 1 \in S
    <2> SUFFICES ASSUME NEW g \in G, Len(g) = k + 1 PROVE Good(g)
        OBVIOUS
    <2>1. g # <<>>
        OBVIOUS
    <2>2. g[1] \in Lines /\ Tail(g) \in G /\ Len(Tail(g)) = k
        BY <1>0, <2>1
    <2>3. Good(Tail(g))
        BY <1>2, <2>2
    <2> DEFINE h == g[1]
               x == v[Tail(g)]
    <2>4. v[g] = Led(h, x)
        BY <1>8, <2>1, TextStep
    <2>5. h \in Seq(Sign) /\ h \in Http!Others /\ Len(h) \in Nat /\ Len(h) >= 1
        BY <1>9, <2>2
    <2>6. x \in Seq(Sign) /\ Len(x) >= 3 * k /\ \A y \in Texts(B) : x \o y \in Texts(B)
        BY <2>2, <2>3
    <2> HIDE DEF h, x
    <2>7. v[g] \in Seq(Sign) /\ Len(v[g]) = Len(h) + 2 + Len(x)
        BY <2>4, <2>5, <2>6, LedType
    <2>8. Len(v[g]) >= 3 * Len(g)
        <3>1. Len(x) \in Nat
            BY <2>6, LenProperties
        <3>2. \A m, p, q \in Nat : m >= 1 /\ p >= 3 * q => m + 2 + p >= 3 * (q + 1)
            OBVIOUS
        <3>3. Len(h) + 2 + Len(x) >= 3 * (k + 1)
            BY <2>5, <2>6, <3>1, <3>2
        <3> QED BY <2>7, <3>3
    <2>9. ASSUME NEW y \in Texts(B) PROVE v[g] \o y \in Texts(B)
        <3>1. y \in Seq(Sign)
            BY <1>7
        <3>0. h \in Seq(Sign) /\ x \in Seq(Sign)
            BY <2>5, <2>6
        <3>4. Led(h, x) \o y = Led(h, x \o y)
            BY <3>0, <3>1, LedAssociates
        <3>2. v[g] \o y = Led(h, x \o y)
            BY <2>4, <3>4
        <3>3. x \o y \in Texts(B)
            BY <2>6
        <3> QED BY <1>7, <2>5, <3>2, <3>3
    <2> QED BY <2>7, <2>8, <2>9
<1>3. \A k \in Nat : k \in S
    <2> HIDE DEF S
    <2> QED BY <1>1, <1>2, EveryNatural
<1>4. ASSUME NEW g \in G PROVE Good(g)
    BY <1>0, <1>3
<1> QED BY <1>4 DEF G

LEMMA TextsLong ==
    ASSUME NEW B \in SUBSET Seq(Sign), NEW m \in Nat, \A y \in B : Len(y) >= m
    PROVE  \A x \in Texts(B) : Len(x) >= m
<1> DEFINE S == {x \in Seq(Sign) : Len(x) >= m}
<1>1. S \in SUBSET Seq(Sign) /\ B \subseteq S
    OBVIOUS
<1>2. ASSUME NEW h \in Http!Others, NEW y \in S PROVE Led(h, y) \in S
    <2>1. h \in Seq(Sign) /\ y \in Seq(Sign) /\ Len(y) >= m
        BY OthersAre, PlainIsSign
    <2>2. Led(h, y) \in Seq(Sign) /\ Len(Led(h, y)) = Len(h) + 2 + Len(y) /\ Len(h) \in Nat /\ Len(y) \in Nat
        BY <2>1, LedType, LenProperties
    <2>3. Len(Led(h, y)) >= m
        BY <2>1, <2>2
    <2> QED BY <2>2, <2>3
<1>3. \A x \in S : Len(x) >= m
    OBVIOUS
<1> HIDE DEF S
<1> QED BY <1>1, <1>2, <1>3, TextsLeast DEF Closed

\* What is short enough is a group in front of one of B's.
LEMMA TextGroup ==
    ASSUME Most \in Nat, NEW v, Text(v, Groups),
           NEW B \in SUBSET Seq(Sign), NEW m \in Nat, \A y \in B : Len(y) >= m
    PROVE  \A x \in Texts(B) : Len(x) <= MaxTotal - 9 + m => \E g \in Groups : \E y \in B : x = v[g] \o y
<1> DEFINE n == Most
           G == Groups
           S == {x \in Seq(Sign) : Len(x) <= MaxTotal - 9 + m => \E g \in G : \E y \in B : x = v[g] \o y}
<1>0. Text(v, G) /\ \A g \in G : g \in Seq(Lines) /\ Len(g) <= n /\ v[g] \in Seq(Sign) /\ Len(v[g]) >= 3 * Len(g)
    BY SeqsAre, TextInFront DEF Groups
<1>9. \A g \in Seq(Lines) : Len(g) <= n => g \in G
    BY SeqsAre DEF Groups
<1>8. MaxTotal \in Nat /\ n \in Nat /\ n = (MaxTotal - 9) \div 3
    BY HttpConstants DEF Most
<1> HIDE DEF G, n
<1>1. B \subseteq S
    <2> SUFFICES ASSUME NEW y \in B PROVE y \in S
        OBVIOUS
    <2>1. <<>> \in G
        <3>1. <<>> \in Seq(Lines) /\ Len(<<>>) <= n
            BY <1>8
        <3> QED BY <1>9, <3>1
    <2>2. v[<<>>] = <<>>
        BY <1>0, <2>1, TextStep
    <2>3. y = v[<<>>] \o y
        BY <2>2, ConcatNothing
    <2> QED BY <2>1, <2>3
<1>2. ASSUME NEW h \in Http!Others, NEW z \in S PROVE Led(h, z) \in S
    <2>1. h \in Seq(Sign) /\ z \in Seq(Sign) /\ Len(h) \in 1..MaxLine
        BY OthersAre, PlainIsSign
    <2>2. Led(h, z) \in Seq(Sign) /\ Len(Led(h, z)) = Len(h) + 2 + Len(z) /\ Len(h) \in Nat /\ Len(h) >= 1 /\ Len(z) \in Nat
        BY <2>1, LedType, LenProperties
    <2>3. ASSUME Len(Led(h, z)) <= MaxTotal - 9 + m PROVE \E g \in G : \E y \in B : Led(h, z) = v[g] \o y
        <3>1. Len(z) <= MaxTotal - 9 + m
            BY <1>8, <2>2, <2>3
        <3>2. PICK g \in G : \E y \in B : z = v[g] \o y
            BY <3>1
        <3>3. PICK y \in B : z = v[g] \o y
            BY <3>2
        <3> DEFINE x == v[g]
        <3>4. g \in Seq(Lines) /\ Len(g) \in Nat /\ x \in Seq(Sign) /\ Len(x) >= 3 * Len(g) /\ Len(x) \in Nat
            BY <1>0, LenProperties
        <3>5. y \in Seq(Sign) /\ Len(y) \in Nat /\ Len(y) >= m
            BY LenProperties
        <3>0. x = v[g] /\ z = x \o y
            BY <3>3
        <3> HIDE DEF x
        <3>6. Len(z) = Len(x) + Len(y)
            BY <3>0, <3>4, <3>5, ConcatProperties
        <3>a. \A hh, xx, yy, M \in Nat : \A gg, mm \in Nat :
                 hh + 2 + (xx + yy) <= M - 9 + mm /\ hh >= 1 /\ xx >= 3 * gg /\ yy >= mm =>
                    hh <= M - 11 /\ 3 * (gg + 1) <= M - 9
            OBVIOUS
        <3>b. Len(h) + 2 + (Len(x) + Len(y)) <= MaxTotal - 9 + m
            BY <2>2, <2>3, <3>6
        <3>7. Len(h) <= MaxTotal - 11 /\ 3 * (Len(g) + 1) <= MaxTotal - 9
            BY <1>8, <2>2, <3>4, <3>5, <3>a, <3>b
        <3>8. Len(g) + 1 <= n
            <4>1. \A M, p \in Nat : 3 * (p + 1) <= M - 9 => p + 1 <= (M - 9) \div 3
                OBVIOUS
            <4> QED BY <1>8, <3>4, <3>7, <4>1
        <3> DEFINE f == <<h>> \o g
        <3>9. h \in Lines
            BY <3>7 DEF Lines
        <3>10. f \in Seq(Lines) /\ Len(f) = Len(g) + 1 /\ f[1] = h /\ f # <<>> /\ Tail(f) = g
            BY <3>4, <3>9
        <3> HIDE DEF f
        <3>11. f \in G
            BY <1>9, <3>8, <3>10
        <3>12. v[f] = Led(h, x)
            BY <1>0, <3>0, <3>10, <3>11, TextStep
        <3>13. v[f] \o y = Led(h, z)
            <4>1. h \in Seq(Sign) /\ x \in Seq(Sign) /\ y \in Seq(Sign)
                BY <2>1, <3>4, <3>5
            <4>2. Led(h, x) \o y = Led(h, x \o y)
                BY <4>1, LedAssociates
            <4> QED BY <3>0, <3>12, <4>2
        <3> QED BY <3>11, <3>13
    <2> QED BY <2>2, <2>3
<1>3. S \in SUBSET Seq(Sign)
    OBVIOUS
<1>4. \A x \in S : Len(x) <= MaxTotal - 9 + m => \E g \in G : \E y \in B : x = v[g] \o y
    OBVIOUS
<1> HIDE DEF S
<1>5. Texts(B) \subseteq S
    BY <1>1, <1>2, <1>3, TextsLeast DEF Closed
<1> QED BY <1>4, <1>5 DEF G, n

\* A response, piece by piece.
Spelled(s, t, l, u) == s \o Http!Crlf \o t \o l \o Http!Crlf \o u \o Http!Crlf

LEMMA SpelledIs ==
    ASSUME NEW s \in Seq(Sign), NEW t \in Seq(Sign), NEW l \in Seq(Sign), NEW u \in Seq(Sign)
    PROVE  Spelled(s, t, l, u) = Led(s, t \o Led(l, u \o Http!Crlf))
<1> DEFINE C == Http!Crlf
           a == s \o C
           b == a \o t
           c == b \o l
           d == c \o C
           e == l \o C
           f == u \o C
           g == t \o e
<1>0. C \in Seq(Sign)
    BY CrlfType
<1> HIDE DEF C
<1>1. a \in Seq(Sign) /\ e \in Seq(Sign) /\ f \in Seq(Sign)
    BY <1>0, ConcatProperties
<1> HIDE DEF a, e, f
<1>2. b \in Seq(Sign) /\ g \in Seq(Sign)
    BY <1>1, ConcatProperties
<1> HIDE DEF b, g
<1>3. c \in Seq(Sign)
    BY <1>2, ConcatProperties
<1> HIDE DEF c
<1>4. d \in Seq(Sign)
    BY <1>0, <1>3, ConcatProperties
<1> HIDE DEF d
<1>5. (d \o u) \o C = d \o f
    BY <1>0, <1>4, ConcatAssociative, SMTT(30) DEF f
<1>6. d = b \o e
    <2>1. b \in Seq(Sign) /\ l \in Seq(Sign) /\ C \in Seq(Sign)
        BY <1>0, <1>2
    <2>2. (b \o l) \o C = b \o (l \o C)
        BY <2>1, ConcatAssociative, SMTT(30)
    <2> QED BY <2>2 DEF c, d, e
<1>7. b \o e = a \o g
    BY <1>1, ConcatAssociative, SMTT(30) DEF b, g
<1>8. (a \o g) \o f = a \o (g \o f)
    <2>1. a \in Seq(Sign) /\ g \in Seq(Sign) /\ f \in Seq(Sign)
        BY <1>1, <1>2
    <2> QED BY <2>1, ConcatAssociative, SMTT(30)
<1>9. g \o f = t \o (e \o f)
    BY <1>1, ConcatAssociative, SMTT(30) DEF g
<1>10. (d \o u) \o C = a \o (t \o (e \o f))
    BY <1>5, <1>6, <1>7, <1>8, <1>9
<1> QED BY <1>10 DEF Spelled, Led, C, a, b, c, d, e, f

LEMMA GroupsText == \E v : Text(v, Groups)
<1> DEFINE n == Most
<1>1. CASE n \in Nat
    BY <1>1, TextExists DEF Groups
<1>2. CASE n \notin Nat
    <2>1. n \in Int /\ 0..n = {}
        BY <1>2, HttpConstants DEF Most
    <2> HIDE DEF n
    <2>2. Http!Seqs(Lines, n) = {}
        BY <2>1 DEF Http!Seqs
    <2>3. Groups = {}
        BY <2>2 DEF Groups, n
    <2> DEFINE v == [g \in {} |-> <<>>]
    <2>4. v = [g \in {} |-> IF g = <<>> THEN <<>> ELSE Led(g[1], v[Tail(g)])]
        OBVIOUS
    <2> HIDE DEF v
    <2> QED BY <2>3, <2>4 DEF Text
<1> QED BY <1>1, <1>2

LEMMA ResponseMembers ==
    \E v : /\ Text(v, Groups)
           /\ \A r : r \in Http!Responses(expected) <=>
                /\ Len(r) <= MaxTotal
                /\ \E s \in Http!Status, l \in Http!Lengths(expected), a \in Groups, b \in Groups : r = Spelled(s, v[a], l, v[b])
<1> DEFINE R == CHOOSE x : Text(x, Groups)
           L == Http!Lengths(expected)
           P == {Spelled(s, R[a], l, R[b]) : s \in Http!Status, l \in L, a \in Groups, b \in Groups}
<1>1. Text(R, Groups)
    BY GroupsText
<1>2. Http!Responses(expected) = {r \in P : Len(r) <= MaxTotal}
    BY DEF Http!Responses, Text, Groups, Most, Http!Seqs, Lines, Led, Spelled
<1> HIDE DEF R, L
<1>3. \A r : r \in P <=> \E s \in Http!Status, l \in L, a \in Groups, b \in Groups : r = Spelled(s, R[a], l, R[b])
    OBVIOUS
<1> HIDE DEF P
<1>4. \A r : r \in Http!Responses(expected) <=> r \in P /\ Len(r) <= MaxTotal
    BY <1>2
<1>5. \A r : r \in Http!Responses(expected) <=>
                /\ Len(r) <= MaxTotal
                /\ \E s \in Http!Status, l \in L, a \in Groups, b \in Groups : r = Spelled(s, R[a], l, R[b])
    BY <1>3, <1>4, Zenon
<1> QED BY <1>1, <1>5 DEF L

LEMMA RestsLong ==
    ASSUME expected \in Sizes
    PROVE  /\ \A y \in Ends : Len(y) >= 2
           /\ \A y \in Counted(expected) : Len(y) >= 6
           /\ \A y \in Headers(expected) : Len(y) >= 6
           /\ \A y \in Whole(expected) : Len(y) >= 9
<1>1. \A y \in Ends : Len(y) >= 2
    BY CrlfType, TextsLong DEF Ends
<1>2. ASSUME NEW y \in Counted(expected) PROVE Len(y) >= 6
    <2>1. PICK l \in Http!Lengths(expected), z \in Ends : y = Led(l, z)
        BY DEF Counted
    <2>2. expected \in 1..APP_END
        BY HttpConstants
    <2>3. l \in Seq(Sign) /\ Len(l) \in 2..MaxLine /\ z \in Seq(Sign) /\ Len(z) >= 2
        BY <1>1, <2>2, LengthsAre, EndsAre, PlainIsSign
    <2>4. Len(y) = Len(l) + 2 + Len(z) /\ Len(l) \in Nat /\ Len(z) \in Nat
        BY <2>1, <2>3, LedType, LenProperties
    <2> QED BY <2>3, <2>4
<1>3. \A y \in Headers(expected) : Len(y) >= 6
    BY <1>2, HeadersAre, TextsLong DEF Headers
<1>4. ASSUME NEW y \in Whole(expected) PROVE Len(y) >= 9
    <2>1. PICK s \in Http!Status, z \in Headers(expected) : y = Led(s, z)
        BY DEF Whole
    <2>2. s \in Seq(Sign) /\ Len(s) \in 1..MaxLine /\ z \in Seq(Sign) /\ Len(z) >= 6
        BY <1>3, StatusIs, HeadersAre, PlainIsSign
    <2>3. Len(y) = Len(s) + 2 + Len(z) /\ Len(s) \in Nat /\ Len(z) \in Nat
        BY <2>1, <2>2, LedType, LenProperties
    <2> QED BY <2>2, <2>3
<1> QED BY <1>1, <1>2, <1>3, <1>4

\* The reference writes the texts that fit.
LEMMA ResponsesAre ==
    ASSUME expected \in Sizes
    PROVE  \A r : r \in Http!Responses(expected) <=> r \in Whole(expected) /\ Len(r) <= MaxTotal
<1>0. PICK v : /\ Text(v, Groups)
               /\ \A r : r \in Http!Responses(expected) <=>
                    /\ Len(r) <= MaxTotal
                    /\ \E s \in Http!Status, l \in Http!Lengths(expected), a \in Groups, b \in Groups : r = Spelled(s, v[a], l, v[b])
    BY ResponseMembers
<1> DEFINE n == Most
           L == Http!Lengths(expected)
           W == Whole(expected)
           H == Headers(expected)
           C == Counted(expected)
<1>1. (n \notin Nat => Groups = {} /\ MaxTotal < 9) /\ Groups = Http!Seqs(Lines, n) /\ MaxTotal \in Nat
    <2>1. MaxTotal \in Nat
        BY HttpConstants
    <2>2. ASSUME n \notin Nat PROVE Groups = {} /\ MaxTotal < 9
        <3>1. n \in Int /\ 0..n = {} /\ MaxTotal < 9
            BY <2>1, <2>2 DEF Most
        <3> HIDE DEF n
        <3>2. Http!Seqs(Lines, n) = {}
            BY <3>1 DEF Http!Seqs
        <3> QED BY <3>1, <3>2 DEF Groups, n
    <2> QED BY <2>1, <2>2 DEF Groups
<1> HIDE DEF n
<1>2. /\ Ends \subseteq Seq(Sign) /\ C \subseteq Seq(Sign) /\ H \subseteq Seq(Sign) /\ W \subseteq Seq(Sign)
      /\ Http!Status \subseteq Seq(Sign) /\ L \subseteq Seq(Sign)
    <2>1. expected \in 1..APP_END
        BY HttpConstants
    <2>2. L \subseteq Seq(Plain) /\ Http!Status \subseteq Seq(Plain)
        BY <2>1, LengthsAre, StatusIs
    <2> QED BY <2>2, EndsAre, HeadersAre, WholeAre, PlainIsSign
<1>3. /\ \A x : x \in C <=> \E l \in L, y \in Ends : x = Led(l, y)
      /\ \A x : x \in W <=> \E s \in Http!Status, y \in H : x = Led(s, y)
      /\ H = Texts(C) /\ Ends = Texts({Http!Crlf}) /\ Http!Crlf \in Seq(Sign)
    BY CrlfType DEF Counted, Whole, Headers, Ends
<1>4. ASSUME NEW r \in Http!Responses(expected) PROVE r \in W /\ Len(r) <= MaxTotal
    <2>1. PICK s \in Http!Status, l \in L, a \in Groups, b \in Groups : r = Spelled(s, v[a], l, v[b])
        BY <1>0
    <2>2. n \in Nat
        BY <1>1
    <2>3. /\ v[a] \in Seq(Sign) /\ \A y \in Texts(C) : v[a] \o y \in Texts(C)
        BY <1>0, <1>1, <1>2, <2>2, TextInFront
    <2>4. /\ v[b] \in Seq(Sign) /\ \A y \in Texts({Http!Crlf}) : v[b] \o y \in Texts({Http!Crlf})
        <3>1. {Http!Crlf} \in SUBSET Seq(Sign)
            BY <1>3
        <3> QED BY <1>0, <1>1, <2>2, <3>1, TextInFront
    <2>5. v[b] \o Http!Crlf \in Ends
        <3>1. {Http!Crlf} \in SUBSET Seq(Sign)
            BY <1>3
        <3>2. Http!Crlf \in Texts({Http!Crlf})
            BY <3>1, TextsAre
        <3> QED BY <1>3, <2>4, <3>2
    <2>6. Led(l, v[b] \o Http!Crlf) \in C
        BY <1>3, <2>5
    <2>7. Led(l, v[b] \o Http!Crlf) \in Texts(C)
        BY <1>2, <2>6, TextsAre
    <2>8. v[a] \o Led(l, v[b] \o Http!Crlf) \in H
        BY <1>3, <2>3, <2>7
    <2>9. r = Led(s, v[a] \o Led(l, v[b] \o Http!Crlf))
        <3>1. s \in Seq(Sign) /\ l \in Seq(Sign)
            BY <1>2
        <3> QED BY <2>1, <2>3, <2>4, <3>1, SpelledIs
    <2> QED BY <1>0, <1>3, <2>8, <2>9
<1>5. ASSUME NEW r \in W, Len(r) <= MaxTotal PROVE r \in Http!Responses(expected)
    <2>1. n \in Nat /\ Len(r) >= 9
        <3>1. Len(r) >= 9 /\ Len(r) \in Nat
            BY <1>2, RestsLong, LenProperties
        <3>2. ~(MaxTotal < 9)
            BY <1>1, <1>5, <3>1
        <3> QED BY <1>1, <3>1, <3>2
    <2>2. PICK s \in Http!Status, x \in H : r = Led(s, x)
        BY <1>3
    <2>3. s \in Seq(Sign) /\ Len(s) \in Nat /\ Len(s) >= 1 /\ x \in Seq(Sign) /\ Len(x) \in Nat
        <3>1. Len(s) \in 1..MaxLine
            BY StatusIs
        <3> QED BY <1>2, <3>1, HttpConstants, LenProperties
    <2>4. Len(r) = Len(s) + 2 + Len(x)
        BY <2>2, <2>3, LedType
    <2>5. Len(x) <= MaxTotal - 9 + 6
        BY <1>1, <1>5, <2>3, <2>4
    <2>6. PICK a \in Groups : \E y \in C : x = v[a] \o y
        <3>1. \A y \in C : Len(y) >= 6
            BY RestsLong
        <3>2. x \in Texts(C)
            BY <1>3
        <3>3. C \in SUBSET Seq(Sign) /\ Most \in Nat /\ Text(v, Groups)
            BY <1>0, <1>2, <2>1 DEF n
        <3> HIDE DEF C
        <3>4. \A z \in Texts(C) : Len(z) <= MaxTotal - 9 + 6 => \E g \in Groups : \E y \in C : z = v[g] \o y
            BY <3>1, <3>3, TextGroup
        <3> QED BY <2>5, <3>2, <3>4
    <2>7. PICK y \in C : x = v[a] \o y
        BY <2>6
    <2>8. PICK l \in L, z \in Ends : y = Led(l, z)
        BY <1>3
    <2>9. v[a] \in Seq(Sign)
        BY <1>0, <1>1, <1>2, <2>1, TextInFront
    <2>10. Len(z) <= MaxTotal - 9 + 2
        <3>1. y \in Seq(Sign) /\ z \in Seq(Sign) /\ l \in Seq(Sign)
            BY <1>2
        <3>2. Len(y) \in Nat /\ Len(z) \in Nat /\ Len(l) \in Nat /\ Len(v[a]) \in Nat
            BY <2>9, <3>1, LenProperties
        <3>3. Len(x) = Len(v[a]) + Len(y)
            BY <2>7, <2>9, <3>1, ConcatProperties
        <3>4. Len(y) = Len(l) + 2 + Len(z)
            BY <2>8, <3>1, LedType
        <3>5. Len(l) >= 2
            <4>1. expected \in 1..APP_END
                BY HttpConstants
            <4>2. Len(l) \in 2..MaxLine
                BY <4>1, LengthsAre
            <4> QED BY <4>2, HttpConstants
        <3>6. Len(r) <= MaxTotal /\ MaxTotal \in Nat /\ Len(s) \in Nat /\ Len(s) >= 1
            BY <1>1, <1>5, <2>3
        <3> DEFINE p == Len(v[a])
        <3> HIDE DEF p
        <3>7. Len(r) = Len(s) + 2 + (p + (Len(l) + 2 + Len(z))) /\ p \in Nat
            BY <2>4, <3>2, <3>3, <3>4 DEF p
        <3> QED BY <3>2, <3>5, <3>6, <3>7
    <2>11. PICK b \in Groups : z = v[b] \o Http!Crlf
        <3>2. Most \in Nat /\ Text(v, Groups)
            BY <1>0, <2>1 DEF n
        <3> DEFINE K == {Http!Crlf}
        <3>3. z \in Texts(K)
            BY <1>3
        <3>1. Http!Crlf \in Seq(Sign) /\ Len(Http!Crlf) >= 2
            BY CrlfType
        <3>4. K \in SUBSET Seq(Sign) /\ \A w \in K : Len(w) >= 2
            BY <3>1
        <3>5. \A w \in K : w = Http!Crlf
            OBVIOUS
        <3> HIDE DEF K
        <3>6. \A w \in Texts(K) : Len(w) <= MaxTotal - 9 + 2 => \E g \in Groups : \E q \in K : w = v[g] \o q
            BY <3>2, <3>4, TextGroup
        <3> QED BY <2>10, <3>3, <3>5, <3>6
    <2>12. v[b] \in Seq(Sign)
        BY <1>0, <1>1, <1>2, <2>1, TextInFront
    <2>13. r = Spelled(s, v[a], l, v[b])
        <3>1. l \in Seq(Sign)
            BY <1>2
        <3>2. Spelled(s, v[a], l, v[b]) = Led(s, v[a] \o Led(l, v[b] \o Http!Crlf))
            BY <2>3, <2>9, <2>12, <3>1, SpelledIs
        <3> QED BY <2>2, <2>7, <2>8, <2>11, <3>2
    <2> QED BY <1>0, <1>5, <2>13
<1> QED BY <1>4, <1>5

\* Behind d stands what may stand there: the texts that d begins are d and a
\* text of that kind.
At(n, d, f, s) == d \in Seq(Sign) /\ \A y \in Seq(Sign) : d \o y \in Whole(n) <=> y \in Rest(n, f, s)

\* Nothing that fits begins with t.
Hopeless(n, t) == \A z \in Seq(Sign) : t \o z \in Whole(n) => Len(t) > MaxTotal

\* The lines that are done, the line that is read, and its CR.
Written(d, x, cr) == IF cr THEN (d \o x) \o <<"CR">> ELSE d \o x

LEMMA NotFurther ==
    ASSUME NEW h \in Seq(Plain), NEW y \in Seq(Sign), NEW p \in Seq(Plain), NEW z \in Seq(Sign), Led(h, y) = p \o z
    PROVE  Len(p) <= Len(h)
<1>1. h \in Seq(Sign) /\ p \in Seq(Sign) /\ Len(h) \in Nat /\ Len(p) \in Nat
    BY PlainIsSign, LenProperties
<1> SUFFICES ASSUME Len(h) < Len(p) PROVE FALSE
    BY <1>1
<1>2. Len(h) + 1 \in 1..Len(p)
    BY <1>1
<1>3. (p \o z)[Len(h) + 1] = p[Len(h) + 1]
    BY <1>1, <1>2, Pieces
<1>4. Led(h, y)[Len(h) + 1] = "CR"
    BY <1>1, LedType
<1>5. p[Len(h) + 1] \in Plain
    BY <1>2, ElementOfSeq
<1> QED BY <1>3, <1>4, <1>5, SignTypes

LEMMA Rebracket ==
    ASSUME NEW d \in Seq(Sign), NEW x \in Seq(Sign), NEW u \in Seq(Sign)
    PROVE  d \o x \in Seq(Sign) /\ x \o u \in Seq(Sign) /\ (d \o x) \o u = d \o (x \o u)
BY ConcatProperties, ConcatAssociative

\* A byte more behind what is read.
LEMMA OneByte ==
    ASSUME NEW d \in Seq(Sign), NEW x \in Seq(Sign), NEW c \in Sign
    PROVE  x \o <<c>> \in Seq(Sign) /\ (d \o x) \o <<c>> = d \o (x \o <<c>>)
<1> DEFINE u == <<c>>
<1>1. u \in Seq(Sign)
    BY OneType
<1> HIDE DEF u
<1>2. x \o u \in Seq(Sign) /\ (d \o x) \o u = d \o (x \o u)
    BY <1>1, Rebracket
<1> QED BY <1>2 DEF u

\* A byte that ends the line and is no CR.
LEMMA BadByte ==
    ASSUME expected \in Sizes, NEW f \in BOOLEAN, NEW s \in BOOLEAN, NEW d, At(expected, d, f, s),
           NEW x \in Seq(Plain), NEW c \in Sign, c \notin Plain, c # "CR"
    PROVE  Hopeless(expected, (d \o x) \o <<c>>)
<1> SUFFICES ASSUME NEW z \in Seq(Sign), ((d \o x) \o <<c>>) \o z \in Whole(expected) PROVE FALSE
    BY DEF Hopeless
<1>1. d \in Seq(Sign) /\ x \in Seq(Sign)
    BY PlainIsSign DEF At
<1> DEFINE p == x \o <<c>>
<1>2. p \in Seq(Sign) /\ (d \o x) \o <<c>> = d \o p
    BY <1>1, OneByte
<1> HIDE DEF p
<1>3. p \o z \in Seq(Sign) /\ (d \o p) \o z = d \o (p \o z)
    BY <1>1, <1>2, Rebracket
<1>4. p \o z \in Rest(expected, f, s)
    BY <1>2, <1>3 DEF At
<1>5. PICK h \in Seq(Plain) : Len(h) <= MaxLine /\ \E y \in Seq(Sign) : p \o z = Led(h, y)
    BY <1>4, RestBeginsLine
<1>6. PICK y \in Seq(Sign) : p \o z = Led(h, y)
    BY <1>5
<1>7. Led(h, y) = p \o z
    BY <1>6
<1> QED BY <1>7, CarriageReturn DEF p

\* One byte too many in the line.
LEMMA LongLine ==
    ASSUME expected \in Sizes, NEW f \in BOOLEAN, NEW s \in BOOLEAN, NEW d, At(expected, d, f, s),
           NEW x \in Seq(Plain), Len(x) >= MaxLine, NEW c \in Plain
    PROVE  Hopeless(expected, (d \o x) \o <<c>>)
<1> SUFFICES ASSUME NEW z \in Seq(Sign), ((d \o x) \o <<c>>) \o z \in Whole(expected) PROVE FALSE
    BY DEF Hopeless
<1>1. d \in Seq(Sign) /\ x \in Seq(Sign) /\ c \in Sign
    BY SignTypes, PlainIsSign DEF At
<1> DEFINE p == x \o <<c>>
<1>2. p \in Seq(Sign) /\ (d \o x) \o <<c>> = d \o p
    BY <1>1, OneByte
<1> HIDE DEF p
<1>3. p \o z \in Seq(Sign) /\ (d \o p) \o z = d \o (p \o z)
    BY <1>1, <1>2, Rebracket
<1>4. p \o z \in Rest(expected, f, s)
    BY <1>2, <1>3 DEF At
<1>5. PICK h \in Seq(Plain) : Len(h) <= MaxLine /\ \E y \in Seq(Sign) : p \o z = Led(h, y)
    BY <1>4, RestBeginsLine
<1>6. PICK y \in Seq(Sign) : p \o z = Led(h, y)
    BY <1>5
<1>7. Led(h, y) = p \o z
    BY <1>6
<1>8. <<c>> \in Seq(Plain) /\ Len(<<c>>) = 1
    BY OneType
<1>9. p \in Seq(Plain) /\ Len(p) = Len(x) + 1
    BY <1>8, ConcatProperties DEF p
<1>10. Len(p) <= Len(h)
    BY <1>7, <1>9, NotFurther
<1>11. Len(x) \in Nat /\ Len(h) \in Nat /\ MaxLine \in Nat
    BY HttpConstants, LenProperties
<1> QED BY <1>5, <1>9, <1>10, <1>11

\* No LF behind the CR.
LEMMA NoFeed ==
    ASSUME expected \in Sizes, NEW f \in BOOLEAN, NEW s \in BOOLEAN, NEW d, At(expected, d, f, s),
           NEW x \in Seq(Plain), NEW c \in Sign, c # "LF"
    PROVE  Hopeless(expected, ((d \o x) \o <<"CR">>) \o <<c>>)
<1> SUFFICES ASSUME NEW z \in Seq(Sign), (((d \o x) \o <<"CR">>) \o <<c>>) \o z \in Whole(expected) PROVE FALSE
    BY DEF Hopeless
<1> DEFINE e == x \o <<"CR">>
           g == e \o <<c>>
<1>1. d \in Seq(Sign) /\ x \in Seq(Sign) /\ "CR" \in Sign
    BY PlainIsSign, SignTypes DEF At
<1>2. e \in Seq(Sign) /\ (d \o x) \o <<"CR">> = d \o e
    BY <1>1, OneByte
<1> HIDE DEF e
<1>3. g \in Seq(Sign) /\ (d \o e) \o <<c>> = d \o g
    BY <1>1, <1>2, OneByte
<1> HIDE DEF g
<1>4. g \o z \in Seq(Sign) /\ (d \o g) \o z = d \o (g \o z)
    BY <1>1, <1>3, Rebracket
<1>5. g \o z \in Rest(expected, f, s)
    BY <1>2, <1>3, <1>4 DEF At
<1>6. PICK h \in Seq(Plain) : Len(h) <= MaxLine /\ \E y \in Seq(Sign) : g \o z = Led(h, y)
    BY <1>5, RestBeginsLine
<1>7. PICK y \in Seq(Sign) : g \o z = Led(h, y)
    BY <1>6
<1>8. Led(h, y) = ((x \o <<"CR">>) \o <<c>>) \o z
    BY <1>7 DEF g, e
<1> QED BY <1>8, LineFeed

\* The line is whole.
LEMMA WholeLine ==
    ASSUME NEW d \in Seq(Sign), NEW x \in Seq(Sign), NEW z \in Seq(Sign)
    PROVE  /\ ((d \o x) \o <<"CR">>) \o <<"LF">> \in Seq(Sign)
           /\ (((d \o x) \o <<"CR">>) \o <<"LF">>) \o z = d \o Led(x, z)
<1> DEFINE e == x \o <<"CR">>
           g == e \o <<"LF">>
<1>1. "LF" \in Sign /\ "CR" \in Sign /\ <<"LF">> \in Seq(Sign) /\ <<"CR">> \in Seq(Sign) /\ Http!Crlf = <<"CR">> \o <<"LF">>
    BY SignTypes DEF Http!Crlf
<1>2. e \in Seq(Sign) /\ (d \o x) \o <<"CR">> = d \o e
    BY <1>1, OneByte
<1>3. (x \o <<"CR">>) \o <<"LF">> = x \o Http!Crlf
    BY <1>1, ConcatAssociative
<1> HIDE DEF e
<1>4. g \in Seq(Sign) /\ (d \o e) \o <<"LF">> = d \o g
    BY <1>1, <1>2, OneByte
<1>5. g = x \o Http!Crlf
    BY <1>3 DEF e
<1> HIDE DEF g
<1>6. d \o g \in Seq(Sign) /\ (d \o g) \o z = d \o (g \o z)
    BY <1>4, Rebracket
<1> QED BY <1>2, <1>4, <1>5, <1>6 DEF Led

LEMMA TooMuch == ASSUME NEW n, NEW t, Len(t) > MaxTotal PROVE Hopeless(n, t)
BY DEF Hopeless

\* A line that is taken: the next kind of text stands behind it.
LEMMA LineTaken ==
    ASSUME expected \in Sizes, NEW f, NEW s, NEW q,
           NEW d, At(expected, d, f, s), NEW x \in Seq(Plain),
           \A z \in Seq(Sign) : Led(x, z) \in Rest(expected, f, s) <=> z \in Rest(expected, FALSE, q)
    PROVE  At(expected, ((d \o x) \o <<"CR">>) \o <<"LF">>, FALSE, q)
<1> DEFINE t == ((d \o x) \o <<"CR">>) \o <<"LF">>
<1>1. d \in Seq(Sign) /\ x \in Seq(Sign) /\ \A z \in Seq(Sign) : Led(x, z) \in Seq(Sign)
    BY PlainIsSign, LedType DEF At
<1>2. t \in Seq(Sign) /\ \A z \in Seq(Sign) : t \o z = d \o Led(x, z)
    BY <1>1, WholeLine, ZenonT(40)
<1> HIDE DEF t
<1>3. ASSUME NEW z \in Seq(Sign) PROVE t \o z \in Whole(expected) <=> z \in Rest(expected, FALSE, q)
    <2>1. t \o z = d \o Led(x, z) /\ Led(x, z) \in Seq(Sign)
        BY <1>1, <1>2
    <2>2. d \o Led(x, z) \in Whole(expected) <=> Led(x, z) \in Rest(expected, f, s)
        BY <2>1 DEF At
    <2> QED BY <2>1, <2>2
<1>4. At(expected, t, FALSE, q)
    BY <1>2, <1>3 DEF At
<1> QED BY <1>4 DEF t

\* A line that is refused.
LEMMA LineRefused ==
    ASSUME expected \in Sizes, NEW f \in BOOLEAN, NEW s \in BOOLEAN, NEW d, At(expected, d, f, s), NEW x \in Seq(Plain),
           \A z \in Seq(Sign) : Led(x, z) \notin Rest(expected, f, s)
    PROVE  Hopeless(expected, ((d \o x) \o <<"CR">>) \o <<"LF">>)
<1> DEFINE t == ((d \o x) \o <<"CR">>) \o <<"LF">>
<1>1. d \in Seq(Sign) /\ x \in Seq(Sign) /\ \A z \in Seq(Sign) : Led(x, z) \in Seq(Sign)
    BY PlainIsSign, LedType DEF At
<1>2. t \in Seq(Sign) /\ \A z \in Seq(Sign) : t \o z = d \o Led(x, z)
    BY <1>1, WholeLine, ZenonT(40)
<1> HIDE DEF t
<1>3. ASSUME NEW z \in Seq(Sign) PROVE t \o z \notin Whole(expected)
    BY <1>1, <1>2 DEF At
<1>4. Hopeless(expected, t)
    BY <1>3 DEF Hopeless
<1> QED BY <1>4 DEF t

\* The empty line behind a length: the header is whole.
LEMMA LineLast ==
    ASSUME expected \in Sizes, NEW d, At(expected, d, FALSE, TRUE)
    PROVE  ((d \o <<>>) \o <<"CR">>) \o <<"LF">> \in Whole(expected)
<1>1. d \in Seq(Sign) /\ <<>> \in Seq(Sign) /\ <<>> \in Seq(Plain)
    BY NothingType DEF At
<1>2. Led(<<>>, <<>>) \in Ends /\ Led(<<>>, <<>>) \in Seq(Sign)
    BY <1>1, EndsAre
<1>3. d \o Led(<<>>, <<>>) \in Whole(expected)
    BY <1>2 DEF At, Rest
<1> DEFINE t == ((d \o <<>>) \o <<"CR">>) \o <<"LF">>
<1>4. t \in Seq(Sign) /\ t \o <<>> = d \o Led(<<>>, <<>>)
    BY <1>1, WholeLine
<1> HIDE DEF t
<1>5. t \o <<>> = t
    BY <1>4, ConcatEmptySeq
<1>6. t \in Whole(expected)
    BY <1>3, <1>4, <1>5
<1> QED BY <1>6 DEF t

\* The connection: the lines that are done leave room for what the limits and
\* the reference still allow; where it failed, they leave none.
HttpPlace ==
    /\ Http!TypeOK /\ line \in Seq(Http!Visible) /\ taken \in Seq(Sign) /\ (at_status => ~seen)
    /\ pc \in {"char", "lf"} =>
          /\ total = Len(taken) /\ total <= MaxTotal
          /\ \E d : At(expected, d, at_status, seen) /\ taken = Written(d, line, pc = "lf")
    /\ pc = "body" => total <= MaxTotal /\ Len(taken) >= total /\ (Len(taken) = total => taken \in Whole(expected))
    /\ pc = "failed" /\ ~silent => Hopeless(expected, taken)

HttpInv == input = "http" => HttpPlace

LEMMA HttpStart == ASSUME Http!Init PROVE HttpPlace
<1>1. /\ pc = "idle" /\ expected \in Sizes /\ packet = <<>> /\ rx_pos = 0 /\ rx_len = 0
      /\ total = 0 /\ line = <<>> /\ at_status = TRUE /\ seen = FALSE /\ taken = <<>>
    BY DEF Http!Init
<1>2. line \in Seq(Http!Visible) /\ taken \in Seq(Sign) /\ Len(line) = 0 /\ Len(packet) = 0
    BY <1>1
<1>3. 0 \in 0..Chunk /\ 0 \in 0..0 /\ 0 \in 0..(MaxTotal + 1) /\ 0 <= MaxLine
    BY HttpConstants
<1>4. at_status \in BOOLEAN /\ seen \in BOOLEAN /\ (at_status => ~seen)
    BY <1>1, Zenon
<1>5. Http!TypeOK
    BY <1>1, <1>2, <1>3, <1>4 DEF Http!TypeOK
<1> QED BY <1>1, <1>2, <1>4, <1>5 DEF HttpPlace

LEMMA HttpOpened == ASSUME HttpPlace, Http!Open PROVE HttpPlace'
<1>1. /\ packet' = [k \in 1..Chunk |-> "NUL"] /\ rx_pos' = 0 /\ rx_len' = 0 /\ total' = 0 /\ line' = <<>>
      /\ at_status' = TRUE /\ seen' = FALSE /\ taken' = <<>> /\ pc' = "char" /\ expected' = expected
    BY DEF Http!Open, Http!ResetPlace
<1>2. line' \in Seq(Http!Visible) /\ taken' \in Seq(Sign) /\ Len(line') = 0 /\ Len(taken') = 0 /\ <<>> \in Seq(Sign)
    BY <1>1
<1>3. 0 \in 0..Chunk /\ 0 \in 0..0 /\ 0 \in 0..(MaxTotal + 1) /\ 0 <= MaxLine /\ 0 <= MaxTotal
    BY HttpConstants
<1>4. at_status' \in BOOLEAN /\ seen' \in BOOLEAN /\ (at_status' => ~seen')
    BY <1>1, Zenon
<1>5. expected \in Sizes /\ Len(packet') >= 0
    <2>1. Len(packet') = Chunk
        BY <1>1, HttpConstants
    <2> QED BY <2>1, HttpConstants DEF HttpPlace, Http!TypeOK
<1>6. Http!TypeOK'
    BY <1>1, <1>2, <1>3, <1>4, <1>5 DEF Http!TypeOK
<1>7. At(expected, <<>>, TRUE, FALSE)
    BY <1>2, ConcatNothing DEF At, Rest
<1>8. <<>> = Written(<<>>, <<>>, FALSE)
    BY <1>2, ConcatNothing DEF Written
<1>9. \E d : At(expected', d, at_status', seen') /\ taken' = Written(d, line', FALSE)
    BY <1>1, <1>7, <1>8
<1>10. (pc' = "lf") = FALSE
    BY <1>1
<1> QED BY <1>1, <1>2, <1>3, <1>4, <1>6, <1>9, <1>10 DEF HttpPlace

LEMMA HttpFetched ==
    ASSUME HttpPlace, NEW k \in 1..Chunk, NEW bytes \in [1..k -> HttpTokens], Http!Fetch(bytes)
    PROVE  HttpPlace'
<1>1. /\ packet' = bytes /\ rx_pos' = 0 /\ rx_len' = Len(bytes)
      /\ UNCHANGED <<pc, expected, total, line, at_status, seen, silent, taken>>
    BY DEF Http!Fetch, Http!header
<1>2. Len(bytes) = k /\ k \in 0..Chunk /\ 0 \in 0..k /\ k <= k
    BY HttpConstants
<1>3. Http!TypeOK'
    BY <1>1, <1>2 DEF HttpPlace, Http!TypeOK
<1> QED BY <1>1, <1>3 DEF HttpPlace

LEMMA HttpSilent == ASSUME HttpPlace, Http!Silence PROVE HttpPlace'
<1>1. /\ pc' = "failed" /\ silent' = TRUE
      /\ UNCHANGED <<expected, packet, rx_pos, rx_len, total, line, at_status, seen, taken>>
    BY DEF Http!Silence, Http!header, Http!buffer
<1>2. Http!TypeOK'
    BY <1>1 DEF HttpPlace, Http!TypeOK
<1> QED BY <1>1, <1>2 DEF HttpPlace

LEMMA HttpTaken ==
    ASSUME HttpPlace, NEW c \in HttpTokens \cup {"NUL"}, Http!Take(c)
    PROVE  /\ c \in Sign /\ taken' = taken \o <<c>> /\ taken' \in Seq(Sign) /\ Len(taken') = Len(taken) + 1
           /\ Len(taken) \in Nat /\ UNCHANGED <<expected, packet, rx_len, silent>>
           /\ rx_len \in 0..Chunk /\ rx_pos' \in 0..rx_len /\ rx_len <= Len(packet)
<1>1. /\ rx_pos # rx_len /\ rx_pos' = rx_pos + 1 /\ taken' = Append(taken, c)
      /\ UNCHANGED <<expected, packet, rx_len, silent>>
    BY DEF Http!Take
<1>2. rx_len \in 0..Chunk /\ rx_pos \in 0..rx_len /\ rx_len <= Len(packet) /\ taken \in Seq(Sign)
    BY DEF HttpPlace, Http!TypeOK
<1>3. rx_pos' \in 0..rx_len
    BY <1>1, <1>2, HttpConstants
<1>4. c \in Sign
    BY HttpConstants, SignTypes
<1>5. taken' = taken \o <<c>> /\ taken' \in Seq(Sign) /\ Len(taken') = Len(taken) + 1 /\ Len(taken) \in Nat
    BY <1>1, <1>2, <1>4, AppendIsConcat, AppendProperties, LenProperties
<1> QED BY <1>1, <1>2, <1>3, <1>4, <1>5

LEMMA HttpFail ==
    ASSUME HttpPlace, NEW c \in HttpTokens \cup {"NUL"}, Http!Take(c), total' = total + 1, total <= MaxTotal,
           Http!Fail, Hopeless(expected, taken')
    PROVE  HttpPlace'
<1>1. pc' = "failed" /\ UNCHANGED <<line, at_status, seen>>
    BY DEF Http!Fail
<1>2. /\ taken' \in Seq(Sign) /\ UNCHANGED <<expected, packet, rx_len>>
      /\ rx_len \in 0..Chunk /\ rx_pos' \in 0..rx_len /\ rx_len <= Len(packet)
    BY HttpTaken
<1>3. total' \in 0..(MaxTotal + 1)
    BY HttpConstants DEF HttpPlace, Http!TypeOK
<1>4. Http!TypeOK'
    BY <1>1, <1>2, <1>3 DEF HttpPlace, Http!TypeOK
<1> QED BY <1>1, <1>2, <1>4 DEF HttpPlace

LEMMA HttpBody == ASSUME HttpPlace, NEW c \in HttpTokens \cup {"NUL"}, Http!Body(c) PROVE HttpPlace'
<1>1. pc = "body" /\ pc' = pc /\ UNCHANGED <<total, line, at_status, seen>> /\ Http!Take(c)
    BY DEF Http!Body, Http!header
<1>2. /\ taken' \in Seq(Sign) /\ UNCHANGED <<expected, packet, rx_len>> /\ Len(taken') = Len(taken) + 1 /\ Len(taken) \in Nat
      /\ rx_len \in 0..Chunk /\ rx_pos' \in 0..rx_len /\ rx_len <= Len(packet)
    BY <1>1, HttpTaken
<1>3. Http!TypeOK'
    BY <1>1, <1>2 DEF HttpPlace, Http!TypeOK
<1>4. total <= MaxTotal /\ Len(taken) >= total /\ total \in 0..(MaxTotal + 1)
    BY <1>1 DEF HttpPlace, Http!TypeOK
<1>5. Len(taken') >= total /\ Len(taken') # total
    BY <1>2, <1>4, HttpConstants
<1> QED BY <1>1, <1>2, <1>3, <1>4, <1>5 DEF HttpPlace

LEMMA HttpChar == ASSUME HttpPlace, NEW c \in HttpTokens \cup {"NUL"}, Http!Char(c) PROVE HttpPlace'
<1> DEFINE bad == total' > MaxTotal \/ c \in {"LF", "NUL"} \/ (c # "CR" /\ Len(line) >= MaxLine)
<1>1. /\ pc = "char" /\ Http!Take(c) /\ total' = total + 1
      /\ IF bad THEN Http!Fail
                ELSE /\ pc' = IF c = "CR" THEN "lf" ELSE "char"
                     /\ line' = IF c = "CR" THEN line ELSE Append(line, c)
                     /\ UNCHANGED <<at_status, seen>>
    BY Zenon DEF Http!Char, Http!Over
<1>2. /\ total = Len(taken) /\ total <= MaxTotal /\ line \in Seq(Http!Visible) /\ Len(line) <= MaxLine
      /\ at_status \in BOOLEAN /\ seen \in BOOLEAN /\ expected \in Sizes
    BY <1>1 DEF HttpPlace, Http!TypeOK
<1>3. PICK d : At(expected, d, at_status, seen) /\ taken = Written(d, line, FALSE)
    <2>1. (pc = "lf") = FALSE
        BY <1>1
    <2> QED BY <1>1, <2>1 DEF HttpPlace
<1>4. /\ c \in Sign /\ taken' = taken \o <<c>> /\ taken' \in Seq(Sign) /\ Len(taken') = Len(taken) + 1
      /\ Len(taken) \in Nat /\ UNCHANGED <<expected, packet, rx_len, silent>>
      /\ rx_len \in 0..Chunk /\ rx_pos' \in 0..rx_len /\ rx_len <= Len(packet)
    BY <1>1, HttpTaken
<1>5. taken = d \o line /\ taken' = (d \o line) \o <<c>> /\ d \in Seq(Sign)
    BY <1>3, <1>4 DEF Written, At
<1>6. line \in Seq(Plain) /\ line \in Seq(Sign) /\ Len(line) \in Nat
    BY <1>2, VisiblePlain, SeqMonotonic, PlainIsSign, LenProperties
<1> HIDE DEF bad
<1>7. CASE bad
    <2>1. Hopeless(expected, taken')
        <3>1. CASE total' > MaxTotal
            <4>1. Len(taken') > MaxTotal
                BY <1>1, <1>2, <1>4, <3>1
            <4> QED BY <4>1, TooMuch
        <3>2. CASE c \in {"LF", "NUL"}
            <4>1. c \notin Plain /\ c # "CR"
                BY <3>2, SignTypes
            <4> QED BY <1>2, <1>3, <1>4, <1>5, <1>6, <4>1, BadByte
        <3>3. CASE c \notin {"LF", "NUL"} /\ c # "CR" /\ Len(line) >= MaxLine
            <4>1. c \in Plain
                BY <1>4, <3>3 DEF Plain
            <4> QED BY <1>2, <1>3, <1>5, <1>6, <3>3, <4>1, LongLine
        <3> QED BY <1>7, <3>1, <3>2, <3>3, Zenon DEF bad
    <2> QED BY <1>1, <1>2, <1>7, <2>1, HttpFail
<1>8. CASE ~bad
    <2>1. /\ pc' = IF c = "CR" THEN "lf" ELSE "char"
          /\ line' = IF c = "CR" THEN line ELSE Append(line, c)
          /\ UNCHANGED <<at_status, seen>>
        BY <1>1, <1>8, Zenon
    <2>2. ~(total' > MaxTotal) /\ c \notin {"LF", "NUL"} /\ (c # "CR" => ~(Len(line) >= MaxLine))
        BY <1>8, Zenon DEF bad
    <2>3. total' = Len(taken') /\ total' <= MaxTotal /\ total' \in 0..(MaxTotal + 1)
        BY <1>1, <1>2, <1>4, <2>2, HttpConstants
    <2>4. line' \in Seq(Http!Visible) /\ Len(line') <= MaxLine /\ taken' = Written(d, line', c = "CR")
        <3>1. CASE c = "CR"
            BY <1>2, <1>5, <2>1, <3>1 DEF Written
        <3>2. CASE c # "CR"
            <4>1. c \in Http!Visible
                BY <2>2, <3>2 DEF Http!Visible
            <4>2. line' = Append(line, c)
                BY <2>1, <3>2
            <4>3. line' \in Seq(Http!Visible) /\ Len(line') = Len(line) + 1 /\ line' = line \o <<c>>
                BY <1>2, <4>1, <4>2, AppendIsConcat, AppendProperties
            <4>4. Len(line') <= MaxLine
                BY <1>6, <2>2, <3>2, <4>3, HttpConstants
            <4>5. taken' = d \o line'
                BY <1>4, <1>5, <1>6, <4>3, OneByte
            <4> QED BY <3>2, <4>3, <4>4, <4>5 DEF Written
        <3> QED BY <3>1, <3>2
    <2>5. (pc' = "lf") = (c = "CR") /\ pc' \in {"char", "lf"}
        BY <2>1
    <2>6. Http!TypeOK'
        BY <1>2, <1>4, <2>1, <2>3, <2>4, <2>5 DEF Http!TypeOK
    <2>7. At(expected', d, at_status', seen') /\ taken' = Written(d, line', pc' = "lf")
        BY <1>3, <1>4, <2>1, <2>4, <2>5
    <2>8. at_status' => ~seen'
        BY <2>1 DEF HttpPlace
    <2>9. pc' # "body" /\ pc' # "failed"
        BY <2>5
    <2> QED BY <1>4, <2>3, <2>4, <2>6, <2>7, <2>8, <2>9 DEF HttpPlace
<1> QED BY <1>7, <1>8

\* What http_open does with a line and what it may do with it.
LEMMA StatusNext ==
    ASSUME expected \in Sizes, NEW l \in Seq(Http!Visible), Len(l) <= MaxLine, NEW s \in BOOLEAN
    PROVE  /\ Http!StatusOK(l) => \A z \in Seq(Sign) : Led(l, z) \in Rest(expected, TRUE, s) <=> z \in Rest(expected, FALSE, FALSE)
           /\ ~Http!StatusOK(l) => \A z \in Seq(Sign) : Led(l, z) \notin Rest(expected, TRUE, s)
<1>1. l \in Seq(Plain) /\ (l \in Http!Status <=> Http!StatusOK(l))
    BY VisiblePlain, SeqMonotonic, StatusIs
<1>2. \A z \in Seq(Sign) : Led(l, z) \in Whole(expected) <=> l \in Http!Status /\ z \in Headers(expected)
    BY <1>1, WholeAre
<1> QED BY <1>1, <1>2 DEF Rest

LEMMA EmptyNext ==
    ASSUME expected \in Sizes
    PROVE  \A z \in Seq(Sign) : Led(<<>>, z) \notin Rest(expected, FALSE, FALSE)
<1>1. <<>> \notin Http!Others
    <2>1. \A h \in Http!Others : Len(h) \in 1..MaxLine
        BY OthersAre
    <2> QED BY <2>1
<1>2. <<>> \notin Http!Lengths(expected)
    <2>1. expected \in 1..APP_END
        BY HttpConstants
    <2>2. \A h \in Http!Lengths(expected) : Len(h) \in 2..MaxLine
        BY <2>1, LengthsAre
    <2> QED BY <2>2
<1>3. \A z \in Seq(Sign) : Led(<<>>, z) \in Headers(expected) <=>
        (<<>> \in Http!Lengths(expected) /\ z \in Ends) \/ (<<>> \in Http!Others /\ z \in Headers(expected))
    BY NothingType, HeadersAre
<1> QED BY <1>1, <1>2, <1>3 DEF Rest

LEMMA HeaderNext ==
    ASSUME expected \in Sizes, seen \in BOOLEAN, NEW l \in Seq(Http!Visible), Len(l) \in 1..MaxLine
    PROVE  /\ Http!GoodHeader(l) => \A z \in Seq(Sign) :
                 Led(l, z) \in Rest(expected, FALSE, seen) <=> z \in Rest(expected, FALSE, seen \/ l[1] = "L")
           /\ ~Http!GoodHeader(l) => \A z \in Seq(Sign) : Led(l, z) \notin Rest(expected, FALSE, seen)
<1> DEFINE O == l \in Http!Others
           N == l \in Http!Lengths(expected)
           G == Http!GoodHeader(l)
           H == Headers(expected)
           L == l[1] = "L"
<1>1. (G <=> O \/ (~seen /\ N)) /\ (O => ~L) /\ (N => L)
    BY HeaderIs
<1>2. l \in Seq(Plain) /\ l # <<>>
    BY VisiblePlain, SeqMonotonic
<1>3. \A z \in Seq(Sign) : Led(l, z) \in H <=> (N /\ z \in Ends) \/ (O /\ z \in H)
    BY <1>2, HeadersAre
<1>4. \A z \in Seq(Sign) : Led(l, z) \in Ends <=> O /\ z \in Ends
    BY <1>2, EndsAre
<1>5. \A b : Rest(expected, FALSE, b) = IF b THEN Ends ELSE H
    BY DEF Rest
<1> HIDE DEF O, N, G, H, L
<1>6. CASE seen
    <2>1. Rest(expected, FALSE, seen) = Ends /\ Rest(expected, FALSE, seen \/ L) = Ends
        BY <1>5, <1>6, Zenon
    <2> QED BY <1>1, <1>4, <1>6, <2>1, Zenon DEF G, L
<1>7. CASE ~seen /\ L
    <2>1. Rest(expected, FALSE, seen) = H /\ Rest(expected, FALSE, seen \/ L) = Ends
        BY <1>5, <1>7, Zenon
    <2> QED BY <1>1, <1>3, <1>7, <2>1, Zenon DEF G, L
<1>8. CASE ~seen /\ ~L
    <2>1. Rest(expected, FALSE, seen) = H /\ Rest(expected, FALSE, seen \/ L) = H
        BY <1>5, <1>8, Zenon
    <2> QED BY <1>1, <1>3, <1>8, <2>1, Zenon DEF G, L
<1> QED BY <1>6, <1>7, <1>8

LEMMA HttpLf == ASSUME HttpPlace, NEW c \in HttpTokens \cup {"NUL"}, Http!Lf(c) PROVE HttpPlace'
<1> DEFINE bad == c # "LF" \/ total' > MaxTotal
           named == line[1] = "L"
<1>1. pc = "lf" /\ Http!Take(c) /\ total' = total + 1
    BY DEF Http!Lf
<1>0. /\ bad => Http!Fail
      /\ ~bad /\ at_status => IF Http!StatusOK(line) THEN Http!NextLine(FALSE) ELSE Http!Fail
      /\ ~bad /\ ~at_status /\ line = <<>> => IF seen THEN Http!Accept ELSE Http!Fail
      /\ ~bad /\ ~at_status /\ line # <<>> => IF Http!GoodHeader(line) THEN Http!NextLine(named) ELSE Http!Fail
    BY Zenon DEF Http!Lf, Http!Over
<1>2. /\ total = Len(taken) /\ total <= MaxTotal /\ line \in Seq(Http!Visible) /\ Len(line) <= MaxLine
      /\ at_status \in BOOLEAN /\ seen \in BOOLEAN /\ expected \in Sizes /\ (at_status => ~seen)
    BY <1>1 DEF HttpPlace, Http!TypeOK
<1>3. PICK d : At(expected, d, at_status, seen) /\ taken = Written(d, line, TRUE)
    <2>1. (pc = "lf") = TRUE
        BY <1>1
    <2> QED BY <1>1, <2>1 DEF HttpPlace
<1>4. /\ c \in Sign /\ taken' = taken \o <<c>> /\ taken' \in Seq(Sign) /\ Len(taken') = Len(taken) + 1
      /\ Len(taken) \in Nat /\ UNCHANGED <<expected, packet, rx_len, silent>>
      /\ rx_len \in 0..Chunk /\ rx_pos' \in 0..rx_len /\ rx_len <= Len(packet)
    BY <1>1, HttpTaken
<1>5. taken' = ((d \o line) \o <<"CR">>) \o <<c>> /\ d \in Seq(Sign)
    BY <1>3, <1>4 DEF Written, At
<1>6. line \in Seq(Plain) /\ line \in Seq(Sign) /\ Len(line) \in Nat /\ (line # <<>> => Len(line) \in 1..MaxLine)
    <2>1. line # <<>> => Len(line) # 0
        BY <1>2
    <2> QED BY <1>2, <2>1, VisiblePlain, SeqMonotonic, PlainIsSign, LenProperties, HttpConstants
<1> DEFINE t == ((d \o line) \o <<"CR">>) \o <<"LF">>
           s == seen \/ named
<1> HIDE DEF bad, named, t, s
<1>7. ASSUME Http!Fail, Hopeless(expected, taken') PROVE HttpPlace'
    BY <1>1, <1>2, <1>7, HttpFail
<1>8. CASE bad
    <2>1. CASE c # "LF"
        <3>1. Hopeless(expected, taken')
            BY <1>2, <1>3, <1>4, <1>5, <1>6, <2>1, NoFeed
        <3> QED BY <1>0, <1>7, <1>8, <3>1
    <2>2. CASE total' > MaxTotal
        <3>1. Len(taken') > MaxTotal
            BY <1>1, <1>2, <1>4, <2>2
        <3> QED BY <1>0, <1>7, <1>8, <3>1, TooMuch
    <2> QED BY <1>8, <2>1, <2>2, Zenon DEF bad
<1>9. ASSUME ~bad PROVE taken' = t /\ total' = Len(taken') /\ total' <= MaxTotal /\ total' \in 0..(MaxTotal + 1)
    <2>1. c = "LF" /\ ~(total' > MaxTotal)
        BY <1>9, Zenon DEF bad
    <2>2. taken' = t
        BY <1>5, <2>1 DEF t
    <2> QED BY <1>1, <1>2, <1>4, <2>1, <2>2, HttpConstants
<1>10. ASSUME ~bad, Http!Fail, \A z \in Seq(Sign) : Led(line, z) \notin Rest(expected, at_status, seen) PROVE HttpPlace'
    <2>1. Hopeless(expected, t)
        BY <1>2, <1>3, <1>6, <1>10, LineRefused DEF t
    <2> QED BY <1>7, <1>9, <1>10, <2>1
<1>11. ASSUME NEW b \in BOOLEAN, NEW q \in BOOLEAN, q = (seen \/ b), ~bad, Http!NextLine(b),
              \A z \in Seq(Sign) : Led(line, z) \in Rest(expected, at_status, seen) <=> z \in Rest(expected, FALSE, q)
       PROVE  HttpPlace'
    <2>1. pc' = "char" /\ line' = <<>> /\ at_status' = FALSE /\ seen' = q
        BY <1>11, Zenon DEF Http!NextLine
    <2>2. At(expected, t, FALSE, q)
        <3>1. /\ expected \in Sizes /\ at_status \in BOOLEAN /\ seen \in BOOLEAN /\ FALSE \in BOOLEAN /\ q \in BOOLEAN
              /\ At(expected, d, at_status, seen) /\ line \in Seq(Plain)
              /\ \A z \in Seq(Sign) : Led(line, z) \in Rest(expected, at_status, seen) <=> z \in Rest(expected, FALSE, q)
            BY <1>2, <1>3, <1>6, <1>11, Zenon
        <3>2. At(expected, ((d \o line) \o <<"CR">>) \o <<"LF">>, FALSE, q)
            BY <3>1, LineTaken
        <3> QED BY <3>2 DEF t
    <2>3. line' \in Seq(Http!Visible) /\ Len(line') <= MaxLine
        BY <2>1, HttpConstants
    <2>4. t \in Seq(Sign)
        BY <2>2 DEF At
    <2>5. t = Written(t, <<>>, FALSE)
        BY <2>4, ConcatEmptySeq DEF Written
    <2>6. (pc' = "lf") = FALSE
        BY <2>1
    <2>7. \E e : At(expected', e, at_status', seen') /\ taken' = Written(e, line', FALSE)
        BY <1>4, <1>9, <1>11, <2>1, <2>2, <2>5
    <2>8. at_status' \in BOOLEAN /\ seen' \in BOOLEAN /\ (at_status' => ~seen')
        BY <2>1, Zenon
    <2>9. Http!TypeOK'
        BY <1>2, <1>4, <1>9, <1>11, <2>1, <2>3, <2>8 DEF Http!TypeOK
    <2> QED BY <1>4, <1>9, <1>11, <2>1, <2>3, <2>6, <2>7, <2>8, <2>9 DEF HttpPlace
<1>12. ASSUME ~bad, at_status PROVE HttpPlace'
    <2>0. at_status = TRUE /\ seen = FALSE
        BY <1>2, <1>12, Zenon
    <2>1. CASE Http!StatusOK(line)
        <3>1. Http!NextLine(FALSE) /\ (seen \/ FALSE) = FALSE
            BY <1>0, <1>12, <2>0, <2>1, Zenon
        <3>2. \A z \in Seq(Sign) : Led(line, z) \in Rest(expected, TRUE, seen) <=> z \in Rest(expected, FALSE, FALSE)
            BY <1>2, <2>1, StatusNext
        <3>3. \A z \in Seq(Sign) : Led(line, z) \in Rest(expected, at_status, seen) <=> z \in Rest(expected, FALSE, FALSE)
            BY <2>0, <3>2
        <3> QED BY <1>11, <1>12, <3>1, <3>3
    <2>2. CASE ~Http!StatusOK(line)
        <3>1. Http!Fail
            BY <1>0, <1>12, <2>2, Zenon
        <3>2. \A z \in Seq(Sign) : Led(line, z) \notin Rest(expected, TRUE, seen)
            BY <1>2, <2>2, StatusNext
        <3> QED BY <1>10, <1>12, <2>0, <3>1, <3>2
    <2> QED BY <2>1, <2>2
<1>13. ASSUME ~bad, ~at_status, line = <<>> PROVE HttpPlace'
    <2>0. at_status = FALSE
        BY <1>2, <1>13, Zenon
    <2>1. CASE seen
        <3>1. Http!Accept
            BY <1>0, <1>13, <2>1, Zenon
        <3>2. pc' = "body" /\ UNCHANGED <<line, at_status, seen>>
            BY <3>1 DEF Http!Accept
        <3>3. At(expected, d, FALSE, TRUE)
            <4>1. seen = TRUE
                BY <1>2, <2>1, Zenon
            <4> QED BY <1>3, <2>0, <4>1
        <3>4. t \in Whole(expected)
            BY <1>2, <1>13, <3>3, LineLast DEF t
        <3>5. Http!TypeOK'
            BY <1>2, <1>4, <1>9, <1>13, <3>2 DEF Http!TypeOK
        <3>6. taken' \in Whole(expected') /\ Len(taken') >= total'
            <4>1. expected' = expected /\ taken' = t /\ total' = Len(taken') /\ Len(taken') \in Nat
                BY <1>4, <1>9, <1>13
            <4>2. Len(taken') >= total'
                BY <4>1
            <4> QED BY <3>4, <4>1, <4>2
        <3> QED BY <1>2, <1>4, <1>9, <1>13, <3>2, <3>5, <3>6 DEF HttpPlace
    <2>2. CASE ~seen
        <3>1. Http!Fail /\ seen = FALSE
            BY <1>0, <1>2, <1>13, <2>2, Zenon
        <3> QED BY <1>2, <1>10, <1>13, <2>0, <3>1, EmptyNext
    <2> QED BY <2>1, <2>2
<1>14. ASSUME ~bad, ~at_status, line # <<>> PROVE HttpPlace'
    <2>0. at_status = FALSE
        BY <1>2, <1>14, Zenon
    <2>1. /\ Http!GoodHeader(line) => \A z \in Seq(Sign) :
                 Led(line, z) \in Rest(expected, FALSE, seen) <=> z \in Rest(expected, FALSE, seen \/ line[1] = "L")
          /\ ~Http!GoodHeader(line) => \A z \in Seq(Sign) : Led(line, z) \notin Rest(expected, FALSE, seen)
        BY <1>2, <1>6, <1>14, HeaderNext
    <2>2. CASE Http!GoodHeader(line)
        <3>1. Http!NextLine(named)
            BY <1>0, <1>14, <2>2, Zenon
        <3>2. \A z \in Seq(Sign) : Led(line, z) \in Rest(expected, at_status, seen) <=> z \in Rest(expected, FALSE, s)
            BY <2>0, <2>1, <2>2, Zenon DEF s, named
        <3>3. named \in BOOLEAN /\ s \in BOOLEAN /\ s = (seen \/ named)
            BY Zenon DEF named, s
        <3> QED BY <1>11, <1>14, <3>1, <3>2, <3>3
    <2>3. CASE ~Http!GoodHeader(line)
        <3>1. Http!Fail
            BY <1>0, <1>14, <2>3, Zenon
        <3> QED BY <1>10, <1>14, <2>0, <2>1, <2>3, <3>1
    <2> QED BY <2>2, <2>3
<1> QED BY <1>8, <1>12, <1>13, <1>14

LEMMA HttpNext == ASSUME HttpPlace, Http!Next PROVE HttpPlace'
<1>1. CASE Http!Server
    BY <1>1, HttpFetched DEF Http!Server
<1>2. CASE Http!Client
    BY <1>2, HttpChar, HttpLf, HttpBody DEF Http!Client
<1> QED BY <1>1, <1>2, HttpOpened, HttpSilent DEF Http!Next

\* A sequence behind one of its beginnings.
LEMMA SplitBehind ==
    ASSUME NEW r \in Seq(Sign), NEW k \in 0..Len(r), NEW t \in Seq(Sign), t = SubSeq(r, 1, k)
    PROVE  \E z \in Seq(Sign) : r = t \o z /\ Len(t) <= Len(r)
<1>1. Len(r) \in Nat /\ k \in Nat /\ k <= Len(r)
    BY LenProperties
<1> DEFINE z == SubSeq(r, k + 1, Len(r))
<1>2. Len(t) = k /\ \A i \in 1..k : t[i] = r[i]
    <2>1. 1 \in Nat \ {0} /\ 1 <= k + 1 /\ k - 1 + 1 = k /\ \A i \in 1..k : 1 + i - 1 = i
        BY <1>1
    <2>2. Len(t) = k - 1 + 1 /\ \A i \in 1..(k - 1 + 1) : t[i] = r[1 + i - 1]
        BY <1>1, <2>1, SubSeqOf
    <2> QED BY <2>1, <2>2
<1>3. z \in Seq(Sign) /\ Len(z) = Len(r) - k /\ \A i \in 1..(Len(r) - k) : z[i] = r[k + i]
    <2>1. k + 1 \in Nat \ {0} /\ k + 1 <= Len(r) + 1 /\ Len(r) <= Len(r) /\ Len(r) - (k + 1) + 1 = Len(r) - k
        BY <1>1
    <2>2. /\ z \in Seq(Sign) /\ Len(z) = Len(r) - (k + 1) + 1
          /\ \A i \in 1..(Len(r) - (k + 1) + 1) : z[i] = r[(k + 1) + i - 1]
        BY <1>1, <2>1, SubSeqOf, ZenonT(40)
    <2>3. \A i \in 1..(Len(r) - k) : (k + 1) + i - 1 = k + i
        BY <1>1
    <2> HIDE DEF z
    <2> QED BY <2>1, <2>2, <2>3
<1> HIDE DEF z
<1>4. /\ t \o z \in Seq(Sign) /\ Len(t \o z) = Len(t) + Len(z)
      /\ \A i \in 1..Len(t) : (t \o z)[i] = t[i]
      /\ \A i \in (Len(t) + 1)..(Len(t) + Len(z)) : (t \o z)[i] = z[i - Len(t)]
    BY <1>3, Pieces
<1>5. Len(t \o z) = Len(r)
    BY <1>1, <1>2, <1>3, <1>4
<1>6. \A i \in 1..Len(r) : (t \o z)[i] = r[i]
    <2> TAKE i \in 1..Len(r)
    <2>1. CASE i \in 1..k
        BY <1>2, <1>4, <2>1
    <2>2. CASE i \notin 1..k
        <3>1. i \in (Len(t) + 1)..(Len(t) + Len(z)) /\ i - Len(t) \in 1..(Len(r) - k) /\ k + (i - Len(t)) = i
            BY <1>1, <1>2, <1>3, <2>2
        <3>2. (t \o z)[i] = z[i - Len(t)] /\ z[i - Len(t)] = r[k + (i - Len(t))]
            BY <1>3, <1>4, <3>1
        <3> QED BY <3>1, <3>2
    <2> QED BY <2>1, <2>2
<1>7. t \o z = r
    BY <1>4, <1>5, <1>6, SeqEqual
<1>8. Len(t) <= Len(r)
    BY <1>1, <1>2
<1> QED BY <1>3, <1>7, <1>8

\* What is accepted the reference can write, and nothing that is refused
\* begins what it writes.
LEMMA HttpDecided == HttpPlace => (input = "http" => AcceptsExactly)
<1> SUFFICES ASSUME HttpPlace, input = "http" PROVE AcceptsExactly
    OBVIOUS
<1>1. expected \in Sizes /\ taken \in Seq(Sign) /\ Http!TypeOK
    BY DEF HttpPlace, Http!TypeOK
<1>2. \A r : r \in Http!Responses(expected) <=> r \in Whole(expected) /\ Len(r) <= MaxTotal
    BY <1>1, ResponsesAre
<1>3. Right[expected] = Http!Responses(expected)
    BY <1>1 DEF Right
<1>4. Beginnings[expected] = Http!Prefixes(Http!Responses(expected))
    BY <1>1, <1>3 DEF Beginnings
<1>5. ASSUME pc = "body", Len(taken) = total PROVE taken \in Right[expected]
    BY <1>2, <1>3, <1>5 DEF HttpPlace
<1>6. ASSUME pc = "failed", ~silent, taken \in Beginnings[expected] PROVE FALSE
    <2> DEFINE R == Http!Responses(expected)
    <2> HIDE DEF R
    <2>1. taken \in UNION {{SubSeq(r, 1, k) : k \in 0..Len(r)} : r \in R}
        BY <1>4, <1>6 DEF Http!Prefixes, R
    <2>2. PICK r \in R : \E k \in 0..Len(r) : taken = SubSeq(r, 1, k)
        BY <2>1
    <2>3. PICK k \in 0..Len(r) : taken = SubSeq(r, 1, k)
        BY <2>2
    <2>4. r \in Whole(expected) /\ Len(r) <= MaxTotal
        BY <1>2 DEF R
    <2>5. r \in Seq(Sign)
        BY <1>1, <2>4, WholeAre
    <2>6. \E z \in Seq(Sign) : r = taken \o z /\ Len(taken) <= Len(r)
        BY <1>1, <2>3, <2>5, SplitBehind
    <2>7. PICK z \in Seq(Sign) : r = taken \o z /\ Len(taken) <= Len(r)
        BY <2>6
    <2>8. Len(taken) > MaxTotal
        <3>1. Hopeless(expected, taken)
            BY <1>6 DEF HttpPlace
        <3> QED BY <2>4, <2>7, <3>1 DEF Hopeless
    <2>9. Len(taken) \in Nat /\ Len(r) \in Nat /\ MaxTotal \in Nat
        BY <1>1, <2>5, HttpConstants, LenProperties
    <2> QED BY <2>4, <2>7, <2>8, <2>9
<1> QED BY <1>1, <1>5, <1>6 DEF AcceptsExactly

\* For every stream of bytes, in pieces of any length, on any number of
\* connections and under every limit of lines and bytes: the header that
\* http_open accepts is one that the reference can write for the requested
\* size, and the bytes it refuses begin none that does (http_open,
\* http_header, http_byte).
THEOREM HeadersAccepted == InputSpec => []AcceptsExactly
<1>1. InputInit => HttpInv
    BY HttpStart DEF InputInit, HttpInv
<1>2. HttpInv /\ [InputNext]_inputVars => HttpInv'
    <2> SUFFICES ASSUME HttpInv, [InputNext]_inputVars, input' = "http" PROVE HttpPlace'
        BY DEF HttpInv
    <2>1. CASE UNCHANGED inputVars
        <3>1. input' = input /\ UNCHANGED pc /\ UNCHANGED httpVars
            BY <2>1 DEF inputVars
        <3>2. HttpPlace
            BY <3>1 DEF HttpInv
        <3> QED BY <3>1, <3>2 DEF HttpPlace, Http!TypeOK, httpVars
    <2>2. CASE InputNext
        <3>1. input' = input
            BY <2>2 DEF InputNext
        <3>2. HttpPlace /\ Http!Next
            BY <2>2, <3>1 DEF InputNext, HttpInv
        <3> QED BY <3>2, HttpNext
    <2> QED BY <2>1, <2>2
<1>3. HttpInv => AcceptsExactly
    BY HttpDecided DEF HttpInv, AcceptsExactly
<1> QED BY <1>1, <1>2, <1>3, PTL DEF InputSpec
=============================================================================
