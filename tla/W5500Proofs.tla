----------------------------- MODULE W5500Proofs -----------------------------
(***************************************************************************)
(* The stream that net_recv() hands over is the stream that was sent, for  *)
(* every ring size, every pointer width that is a multiple of it, every    *)
(* buffer, every stream and every place where OPEN puts the pointers; and  *)
(* the datagrams that udp_recv() hands over are those that were sent.      *)
(***************************************************************************)
EXTENDS W5500, TLAPS

-----------------------------------------------------------------------------
(* Arithmetic of pointers *)

LEMMA Euclid ==
    ASSUME NEW a \in Int, NEW m \in Nat, m > 0
    PROVE  a % m \in 0..(m - 1) /\ \E q \in Int : a = q * m + (a % m)
<1>1. a = (a \div m) * m + (a % m) /\ a \div m \in Int
    OBVIOUS
<1>2. a % m \in 0..(m - 1)
    OBVIOUS
<1> QED BY <1>1, <1>2

LEMMA Residue ==
    ASSUME NEW m \in Nat, m > 0, NEW q \in Int, NEW r \in 0..(m - 1)
    PROVE  (q * m + r) % m = r
OBVIOUS

LEMMA SameResidue ==
    ASSUME NEW m \in Nat, m > 0, NEW a \in Int, NEW c \in Int, NEW q \in Int, a = q * m + c
    PROVE  a % m = c % m
<1> DEFINE r == c % m
<1>1. PICK p \in Int : c = p * m + r
    BY Euclid
<1>2. r \in 0..(m - 1)
    BY Euclid
<1> HIDE DEF r
<1>3. a = (q + p) * m + r
    BY <1>1, <1>2
<1>4. ((q + p) * m + r) % m = r
    BY <1>2, Residue
<1> QED BY <1>3, <1>4 DEF r

\* A pointer that is a position modulo the width moves as the position does.
LEMMA AddMod ==
    ASSUME NEW a \in Int, NEW b \in Int, NEW m \in Nat, m > 0
    PROVE  ((a % m) + b) % m = (a + b) % m
<1> DEFINE r == a % m
<1>1. PICK q \in Int : a = q * m + r
    BY Euclid
<1>2. r \in Int
    BY Euclid
<1> HIDE DEF r
<1>3. a + b = q * m + (r + b) /\ a + b \in Int /\ r + b \in Int
    BY <1>1, <1>2
<1>4. (a + b) % m = (r + b) % m
    BY <1>2, <1>3, SameResidue
<1> QED BY <1>4 DEF r

\* A pointer leads to the same offset of the ring as the position it stands for.
LEMMA ModMod ==
    ASSUME NEW a \in Int, NEW m \in Nat, m > 0, NEW k \in Nat, k > 0
    PROVE  (a % (k * m)) % m = a % m
<1> DEFINE r == a % (k * m)
<1>1. k * m \in Nat /\ k * m > 0
    OBVIOUS
<1>2. (\E q \in Int : a = q * (k * m) + r) /\ r \in Int
    BY <1>1, Euclid
<1> HIDE DEF r
<1>3. PICK q \in Int : a = q * (k * m) + r
    BY <1>2
<1>4. a = (q * k) * m + r /\ q * k \in Int
    <2>1. q * (k * m) = (q * k) * m /\ q * k \in Int
        BY <1>3, SMTT(30)
    <2> QED BY <1>3, <2>1
<1>5. a % m = r % m
    BY <1>2, <1>4, SameResidue
<1> QED BY <1>5 DEF r

\* Positions less than a ring apart have different offsets.
LEMMA Apart ==
    ASSUME NEW m \in Nat, m > 0, NEW a \in Int, NEW b \in Int, a < b, b - a < m
    PROVE  a % m # b % m
<1> SUFFICES ASSUME a % m = b % m PROVE FALSE
    OBVIOUS
<1>1. PICK q \in Int : a = q * m + (a % m)
    BY Euclid
<1>2. PICK p \in Int : b = p * m + (a % m)
    BY Euclid
<1>3. (p - q) * m = b - a
    BY <1>1, <1>2
<1>4. p - q > 0 => (p - q) * m >= m
    OBVIOUS
<1>5. p - q <= 0 => (p - q) * m <= 0
    OBVIOUS
<1> QED BY <1>3, <1>4, <1>5

\* The distance of two pointers is that of their positions, if it is less than
\* the width.
LEMMA Distance ==
    ASSUME NEW m \in Nat, m > 0, NEW a \in Int, NEW d \in 0..(m - 1)
    PROVE  (((a + d) % m) + m - (a % m)) % m = d
<1>1. PICK q \in Int : a = q * m + (a % m)
    BY Euclid
<1>2. PICK p \in Int : a + d = p * m + ((a + d) % m)
    BY Euclid
<1>3. ((a + d) % m) + m - (a % m) = (q - p + 1) * m + d
    BY <1>1, <1>2
<1> QED BY <1>3, Residue

\* A reading whose high byte is not newer than its low byte is not too high.
LEMMA TornLow ==
    ASSUME NEW h \in Nat, NEW v \in Nat, NEW b \in Nat, b > 0, h <= v \div b
    PROVE  (h * b) + (v % b) \in 0..v
<1>1. v = (v \div b) * b + (v % b) /\ v \div b \in Nat /\ v % b \in Nat
    OBVIOUS
<1>2. h * b <= (v \div b) * b
    BY <1>1
<1> QED BY <1>1, <1>2

LEMMA DivMonotone ==
    ASSUME NEW v \in Nat, NEW w \in Nat, NEW b \in Nat, b > 0, v <= w
    PROVE  v \div b <= w \div b /\ v \div b \in Nat
<1>1. v = (v \div b) * b + (v % b) /\ w = (w \div b) * b + (w % b)
    OBVIOUS
<1>2. v % b \in 0..(b - 1) /\ w % b \in 0..(b - 1) /\ v \div b \in Nat /\ w \div b \in Nat
    OBVIOUS
<1>3. ASSUME v \div b > w \div b PROVE FALSE
    <2>1. (v \div b) * b >= (w \div b + 1) * b
        BY <1>2, <1>3
    <2> QED BY <1>1, <1>2, <2>1
<1> QED BY <1>2, <1>3
-----------------------------------------------------------------------------
(* The invariant *)

Offsets == 0..(Size - 1)
D == Len(delivered)
L == Len(buf)

\* The pointer, and the offset in the ring, of position k of the stream.
Pointer(k) == (base + k) % Wrap
Offset(k) == (base + k) % Size

\* Registers and pointers stand for positions of the stream.
Positions ==
    /\ D + L <= arrived
    /\ rsr = arrived - D
    /\ wr = Pointer(arrived)
    /\ taken = Pointer(D)
    /\ rd = Pointer(IF pc = "recv" THEN D + n ELSE D)

\* What has not been released is in the ring; what was copied is right.
Content ==
    /\ \A k \in Nat : D <= k /\ k < arrived => ring[Offset(k)] = Stream[k + 1]
    /\ \A i \in 1..D : delivered[i] = Stream[i]
    /\ \A i \in 1..L : buf[i] = Stream[D + i]

\* A size that was read is never more than what is there.
Found ==
    /\ pc = "low" => hi <= rsr \div Base
    /\ pc \in {"size", "copy", "recv"} => n <= rsr
    /\ pc = "recv" => L = n
    /\ pc \notin {"copy", "recv"} => buf = <<>>

Bytes == delivered \in Seq(Int) /\ buf \in Seq(Int)

IInv == TypeOK /\ Bytes /\ Positions /\ Content /\ Found

LEMMA Constants ==
    /\ Size \in Nat /\ Size > 0 /\ Wrap \in Nat /\ Wrap > Size
    /\ Base \in Nat /\ Base > 0 /\ Cap \in Nat /\ Cap > 0 /\ Turns \in Nat /\ Turns > 0
    /\ Stream \in Seq(Int) /\ Len(Stream) \in Nat
<1>1. PICK k \in 2..Wrap : Wrap = k * Size
    BY RingAssumption DEF RingConstants
<1>2. Size \in Nat /\ Size > 0 /\ Wrap \in Nat
    BY RingAssumption DEF RingConstants
<1>3. k * Size >= 2 * Size
    BY <1>1, <1>2
<1> QED BY <1>1, <1>2, <1>3, RingAssumption, StreamAssumption DEF RingConstants

\* The pointer of a position leads to the position's offset.
LEMMA PointerOffset ==
    ASSUME NEW b \in Int
    PROVE  (b % Wrap) % Size = b % Size
<1>1. PICK k \in 2..Wrap : Wrap = k * Size
    BY RingAssumption DEF RingConstants
<1>2. k \in Nat /\ k > 0 /\ Size \in Nat /\ Size > 0
    BY <1>1, Constants
<1> QED BY <1>1, <1>2, ModMod

LEMMA PointerType ==
    ASSUME base \in Int, NEW k \in Int
    PROVE  Pointer(k) \in 0..(Wrap - 1) /\ Offset(k) \in Offsets
BY Constants, Euclid DEF Pointer, Offset, Offsets

LEMMA OffsetsApart ==
    ASSUME base \in Int, NEW a \in Int, NEW b \in Int, a < b, b - a < Size
    PROVE  Offset(a) # Offset(b)
<1>1. base + a \in Int /\ base + b \in Int /\ base + a < base + b /\ (base + b) - (base + a) < Size
    BY Constants
<1>2. Size \in Nat /\ Size > 0
    BY Constants
<1> QED BY <1>1, <1>2, Apart DEF Offset

LEMMA PointerPlus ==
    ASSUME base \in Int, NEW k \in Int, NEW d \in Int
    PROVE  Plus(Pointer(k), d) = Pointer(k + d) /\ Plus(Pointer(k), d) % Size = Offset(k + d)
<1> DEFINE a == base + k
<1>1. a \in Int /\ a + d \in Int /\ a + d = base + (k + d)
    OBVIOUS
<1>2. Wrap \in Nat /\ Wrap > 0
    BY Constants
<1> HIDE DEF a
<1>3. ((a % Wrap) + d) % Wrap = (a + d) % Wrap
    BY <1>1, <1>2, AddMod
<1>4. ((a + d) % Wrap) % Size = (a + d) % Size
    BY <1>1, PointerOffset
<1>5. Pointer(k) = a % Wrap /\ Pointer(k + d) = (a + d) % Wrap /\ Offset(k + d) = (a + d) % Size
    BY <1>1 DEF Pointer, Offset, a
<1> QED BY <1>3, <1>4, <1>5 DEF Plus

LEMMA Types ==
    ASSUME IInv
    PROVE  /\ base \in Nat /\ base < Wrap
           /\ arrived \in Nat /\ arrived <= Len(Stream) /\ D \in Nat /\ L \in Nat
           /\ rsr \in Nat /\ rsr <= Size /\ n \in Nat /\ n <= Size
           /\ hi \in Nat /\ rsr \div Base \in Nat /\ rsr % Base \in Nat
           /\ D + L <= arrived /\ rsr = arrived - D
           /\ delivered \in Seq(Int) /\ buf \in Seq(Int)
<1>1. TypeOK /\ Bytes
    BY DEF IInv
<1>2. /\ base \in 0..(Wrap - 1) /\ arrived \in 0..Len(Stream) /\ rsr \in 0..Size /\ n \in 0..Size
      /\ hi \in 0..(Size \div Base)
    BY <1>1 DEF TypeOK, RingTypeOK
<1>3. /\ base \in Nat /\ base < Wrap /\ rsr \in Nat /\ rsr <= Size /\ n \in Nat /\ n <= Size
      /\ arrived \in Nat /\ arrived <= Len(Stream)
    BY <1>2, Constants
<1>4. D \in Nat /\ L \in Nat /\ delivered \in Seq(Int) /\ buf \in Seq(Int)
    BY <1>1 DEF Bytes, D, L
<1>5. hi \in Nat
    BY <1>2
<1>6. rsr \div Base \in Nat /\ rsr % Base \in Nat
    BY <1>3, Constants
<1>7. D + L <= arrived /\ rsr = arrived - D
    BY DEF IInv, Positions
<1> QED BY <1>3, <1>4, <1>5, <1>6, <1>7

\* The copied bytes continue the delivered ones.
LEMMA Joined ==
    ASSUME IInv
    PROVE  \A i \in 1..(D + L) : (delivered \o buf)[i] = Stream[i]
<1>1. delivered \in Seq(Int) /\ buf \in Seq(Int) /\ D \in Nat /\ L \in Nat
    BY Types
<1>2. ASSUME NEW i \in 1..D PROVE (delivered \o buf)[i] = Stream[i]
    <2>1. (delivered \o buf)[i] = delivered[i]
        BY <1>1 DEF D
    <2> QED BY <2>1 DEF IInv, Content
<1>3. ASSUME NEW i \in 1..(D + L), i > D PROVE (delivered \o buf)[i] = Stream[i]
    <2>1. i - D \in 1..L /\ D + (i - D) = i
        BY <1>1, <1>3
    <2>2. (delivered \o buf)[i] = buf[i - D]
        BY <1>1, <1>3 DEF D, L
    <2>3. buf[i - D] = Stream[D + (i - D)]
        BY <2>1 DEF IInv, Content
    <2> QED BY <2>1, <2>2, <2>3
<1>4. \A i \in 1..(D + L) : i \in 1..D \/ i > D
    BY <1>1
<1> QED BY <1>2, <1>3, <1>4

LEMMA InitIInv == Init => IInv
<1> SUFFICES ASSUME Init PROVE IInv
    OBVIOUS
<1>1. D = 0 /\ L = 0 /\ arrived = 0 /\ base \in 0..(Wrap - 1)
    BY DEF Init, InitRing, D, L
<1>2. Pointer(0) = base
    BY <1>1, Constants, Residue DEF Pointer
<1>3. 0 \in 0..(Size \div Base)
    BY Constants
<1>4. TypeOK
    BY <1>1, <1>3, Constants DEF Init, InitRing, TypeOK, RingTypeOK, ESTABLISHED, CLOSE_WAIT, CLOSED
<1>5. Bytes
    BY DEF Init, InitRing, Bytes
<1>6. Positions
    BY <1>1, <1>2 DEF Init, InitRing, Positions
<1>7. Content /\ Found
    BY <1>1 DEF Init, InitRing, Content, Found
<1> QED BY <1>4, <1>5, <1>6, <1>7 DEF IInv

\* The chip stores a segment behind what is there, and nothing of that is lost.
LEMMA ArriveIInv ==
    ASSUME IInv, NEW k \in 0..Size, NEW fin \in BOOLEAN, Arrive(k, fin)
    PROVE  IInv'
<1> DEFINE s == SubSeq(Stream, arrived + 1, arrived + k)
<1>0. /\ base \in Nat /\ arrived \in Nat /\ D \in Nat /\ L \in Nat /\ rsr \in Nat /\ hi \in Nat
      /\ D + L <= arrived /\ rsr = arrived - D /\ k \in Nat
      /\ Size \in Nat /\ Size > 0 /\ Wrap \in Nat /\ Wrap > 0 /\ Base \in Nat /\ Base > 0
    BY Types, Constants
<1>1. arrived + k <= Len(Stream) /\ Store(s) /\ arrived' = arrived + k /\ UNCHANGED <<base, delivered>>
    <2>1. Len(Stream) \in Nat
        BY Constants
    <2> QED BY <1>0, <2>1 DEF Arrive
<1>2. s \in Seq(Int) /\ Len(s) = k /\ \A i \in 1..k : s[i] = Stream[arrived + i]
    <2>1. Stream \in Seq(Int) /\ arrived + 1 \in Nat /\ arrived + k \in Nat /\ arrived + 1 >= 1
        BY <1>0, Constants
    <2>2. arrived + k <= Len(Stream)
        BY <1>1
    <2>3. \A i \in (arrived + 1)..(arrived + k) : i \in 1..Len(Stream) /\ Stream[i] \in Int
        BY <2>1, <2>2
    <2>4. s \in Seq(Int)
        BY <2>1, <2>3
    <2>5. Len(s) = k
        BY <2>1, <2>2, <1>0
    <2>6. ASSUME NEW i \in 1..k PROVE s[i] = Stream[arrived + i]
        BY <2>1, <2>2, <1>0
    <2> QED BY <2>4, <2>5, <2>6
<1> HIDE DEF s
<1>3. /\ rsr + k <= Size /\ rsr' = rsr + k /\ wr' = Plus(wr, k)
      /\ ring' = [o \in Offsets |->
                    IF \E i \in 1..k : (wr + i - 1) % Size = o
                      THEN s[CHOOSE i \in 1..k : (wr + i - 1) % Size = o]
                      ELSE ring[o]]
      /\ UNCHANGED <<taken, rd, pc, reading, n, buf>>
    BY <1>1, <1>2 DEF Store, Offsets
<1>4. ASSUME NEW i \in Int PROVE (wr + i - 1) % Size = Offset(arrived + i - 1)
    <2>1. wr = Pointer(arrived) /\ base \in Int /\ arrived \in Int /\ i - 1 \in Int
        BY Types DEF IInv, Positions
    <2>2. Plus(Pointer(arrived), i - 1) % Size = Offset(arrived + (i - 1))
        BY <2>1, PointerPlus
    <2>3. Plus(wr, i - 1) % Size = (wr + (i - 1)) % Size
        <3>1. wr + (i - 1) \in Int
            BY <2>1, PointerType, Constants
        <3> QED BY <3>1, PointerOffset DEF Plus
    <2>4. wr \in Int
        BY <2>1, PointerType, Constants
    <2>5. wr + i - 1 = wr + (i - 1) /\ arrived + i - 1 = arrived + (i - 1)
        BY <2>1, <2>4
    <2> QED BY <2>1, <2>2, <2>3, <2>5
<1>5. Positions'
    <2>1. Plus(Pointer(arrived), k) = Pointer(arrived + k)
        BY Types, PointerPlus
    <2>2. D' = D /\ L' = L
        BY <1>1, <1>3 DEF D, L
    <2>3. Pointer(arrived)' = Pointer(arrived + k) /\ Pointer(D)' = Pointer(D)
        <3>1. base' = base /\ arrived' = arrived + k
            BY <1>1
        <3> QED BY <3>1, <2>2 DEF Pointer
    <2>4. Pointer(IF pc = "recv" THEN D + n ELSE D)' = Pointer(IF pc = "recv" THEN D + n ELSE D)
        BY <1>1, <1>3, <2>2 DEF Pointer
    <2>5. wr' = Pointer(arrived)' /\ taken' = Pointer(D)'
        BY <1>3, <2>1, <2>3 DEF IInv, Positions
    <2>6. rd' = Pointer(IF pc = "recv" THEN D + n ELSE D)'
        BY <1>3, <2>4 DEF IInv, Positions
    <2>7. D' + L' <= arrived' /\ rsr' = arrived' - D'
        BY <1>0, <1>1, <1>3, <2>2
    <2> QED BY <2>5, <2>6, <2>7 DEF Positions
<1>6. Content'
    <2>1. D' = D /\ L' = L /\ \A p \in Int : Offset(p)' = Offset(p)
        BY <1>1, <1>3 DEF D, L, Offset
    <2>2. ASSUME NEW p \in Nat, D <= p, p < arrived + k PROVE ring'[Offset(p)] = Stream[p + 1]
        <3>1. Offset(p) \in Offsets
            BY Types, PointerType
        <3>2. CASE p < arrived
            <4>1. ASSUME NEW i \in 1..k PROVE Offset(arrived + i - 1) # Offset(p)
                <5>1. p < arrived + i - 1 /\ (arrived + i - 1) - p < Size /\ arrived + i - 1 \in Int
                    BY <1>0, <1>3, <2>2, <3>2
                <5> QED BY <1>0, <5>1, OffsetsApart
            <4>2. ring'[Offset(p)] = ring[Offset(p)]
                BY <1>3, <1>4, <3>1, <4>1
            <4> QED BY <2>2, <3>2, <4>2 DEF IInv, Content
        <3>3. CASE ~(p < arrived)
            <4> DEFINE j == p - arrived + 1
            <4>1. j \in 1..k /\ arrived + j - 1 = p /\ j \in Int
                BY <1>0, <2>2, <3>3
            <4>2. (wr + j - 1) % Size = Offset(p)
                BY <1>4, <4>1
            <4>3. ASSUME NEW i \in 1..k, (wr + i - 1) % Size = Offset(p) PROVE i = j
                <5>1. Offset(arrived + i - 1) = Offset(arrived + j - 1)
                    BY <1>4, <4>1, <4>3
                <5>2. /\ arrived + i - 1 \in Int /\ arrived + j - 1 \in Int
                      /\ i < j => arrived + i - 1 < arrived + j - 1 /\ (arrived + j - 1) - (arrived + i - 1) < Size
                      /\ j < i => arrived + j - 1 < arrived + i - 1 /\ (arrived + i - 1) - (arrived + j - 1) < Size
                      /\ i < j \/ j < i \/ i = j
                    BY <1>0, <1>3, <4>1
                <5> QED BY <1>0, <5>1, <5>2, OffsetsApart
            <4> HIDE DEF j
            <4>4. (CHOOSE i \in 1..k : (wr + i - 1) % Size = Offset(p)) = j
                BY <4>1, <4>2, <4>3
            <4>5. ring'[Offset(p)] = s[j]
                BY <1>3, <3>1, <4>1, <4>2, <4>4
            <4>6. s[j] = Stream[arrived + j]
                BY <1>2, <4>1
            <4>7. arrived + j = p + 1
                BY <1>0, <4>1
            <4> QED BY <4>5, <4>6, <4>7
        <3> QED BY <3>2, <3>3
    <2>3. \A p \in Nat : D' <= p /\ p < arrived' => ring'[Offset(p)'] = Stream[p + 1]
        BY <1>1, <2>1, <2>2
    <2>4. (\A i \in 1..D : delivered[i] = Stream[i])' /\ (\A i \in 1..L : buf[i] = Stream[D + i])'
        BY <1>1, <1>3, <2>1 DEF IInv, Content
    <2> QED BY <2>3, <2>4 DEF Content
<1>7. Found'
    <2>1. rsr \div Base <= rsr' \div Base /\ rsr \div Base \in Nat /\ rsr' \div Base \in Nat
        <3>1. rsr + k \in Nat /\ rsr <= rsr + k
            BY <1>0
        <3>2. rsr \div Base <= (rsr + k) \div Base /\ rsr \div Base \in Nat /\ (rsr + k) \div Base \in Nat
            BY <1>0, <3>1, DivMonotone
        <3> QED BY <1>3, <3>2
    <2>2. L' = L /\ hi' = hi /\ n' = n /\ pc' = pc /\ buf' = buf /\ rsr <= rsr' /\ n \in Nat /\ rsr' \in Nat
        BY <1>0, <1>3, Types DEF L, reading
    <2>3. pc = "low" => hi <= rsr' \div Base
        BY <1>0, <2>1 DEF IInv, Found
    <2>4. pc \in {"size", "copy", "recv"} => n <= rsr'
        BY <1>0, <2>2 DEF IInv, Found
    <2> QED BY <2>2, <2>3, <2>4 DEF IInv, Found
<1>8. TypeOK'
    <2>1. wr' \in 0..(Wrap - 1) /\ rsr' \in 0..Size
        <3>1. wr + k \in Int
            BY <1>0, Constants, PointerType DEF IInv, Positions
        <3>2. wr' \in 0..(Wrap - 1)
            BY <1>0, <1>3, <3>1, Euclid DEF Plus
        <3>3. rsr' \in 0..Size
            BY <1>0, <1>3
        <3> QED BY <3>2, <3>3
    <2>2. status' \in {ESTABLISHED, CLOSE_WAIT, CLOSED} /\ arrived' \in 0..Len(Stream)
        <3>1. status' \in {ESTABLISHED, CLOSE_WAIT, CLOSED}
            BY DEF Arrive, IInv, TypeOK
        <3>2. arrived' \in 0..Len(Stream)
            BY <1>0, <1>1, Constants
        <3> QED BY <3>1, <3>2
    <2>3. DOMAIN ring' = Offsets
        BY <1>3
    <2>4. RingTypeOK'
        BY <1>3, <2>1, <2>3 DEF IInv, TypeOK, RingTypeOK, reading, Offsets
    <2> QED BY <1>1, <1>3, <2>2, <2>4 DEF IInv, TypeOK
<1>9. Bytes'
    BY <1>1, <1>3 DEF IInv, Bytes
<1> QED BY <1>5, <1>6, <1>7, <1>8, <1>9 DEF IInv

\* A step of the driver that moves no byte and no pointer.
LEMMA Stays ==
    ASSUME IInv, UNCHANGED <<chip, rd, arrived, base, delivered, buf>>, pc # "recv", pc' # "recv"
    PROVE  Positions' /\ Content' /\ Bytes'
<1>1. D' = D /\ L' = L /\ rsr' = rsr /\ wr' = wr /\ taken' = taken /\ ring' = ring
    BY DEF D, L, chip
<1>2. \A k : Pointer(k)' = Pointer(k) /\ Offset(k)' = Offset(k)
    BY DEF Pointer, Offset
<1>3. Pointer(arrived)' = Pointer(arrived) /\ Pointer(D)' = Pointer(D)
    BY <1>1 DEF Pointer
<1>4. Positions'
    BY <1>1, <1>3 DEF IInv, Positions
<1>5. Content'
    BY <1>1, <1>2 DEF IInv, Content
<1>6. Bytes'
    BY DEF IInv, Bytes
<1> QED BY <1>4, <1>5, <1>6

LEMMA ReadHighIInv ==
    ASSUME IInv, ReadHigh, UNCHANGED <<arrived, status, base, delivered>>
    PROVE  IInv'
<1>1. pc = "high" /\ pc' = "low" /\ hi' = rsr \div Base /\ UNCHANGED <<ring, wr, rsr, taken, rd, prev, moved, n, buf>>
    BY DEF ReadHigh, chip
<1>2. Positions' /\ Content' /\ Bytes'
    BY <1>1, Stays DEF chip
<1>3. rsr \in Nat /\ Size \in Nat /\ Base \in Nat /\ Base > 0 /\ rsr <= Size
    BY Types, Constants
<1>4. rsr \div Base <= Size \div Base /\ rsr \div Base \in Nat /\ Size \div Base \in Int
    BY <1>3, DivMonotone
<1>5. TypeOK'
    BY <1>1, <1>4 DEF IInv, TypeOK, RingTypeOK, Offsets
<1>6. hi' <= rsr' \div Base /\ buf' = <<>>
    BY <1>1, <1>4 DEF IInv, Found
<1>7. Found'
    BY <1>1, <1>6 DEF Found
<1> QED BY <1>2, <1>5, <1>7 DEF IInv

\* The high byte was read while no more was stored than is stored now, so a
\* torn reading is at most what is there.
LEMMA ReadLowIInv ==
    ASSUME IInv, ReadLow, UNCHANGED <<arrived, status, base, delivered>>
    PROVE  IInv'
<1>1. pc = "low" /\ pc' \in {"size", "high"} /\ UNCHANGED <<ring, wr, rsr, taken, rd, hi, buf>>
    BY DEF ReadLow, chip
<1>2. Positions' /\ Content' /\ Bytes'
    BY <1>1, Stays DEF chip
<1>3. /\ rsr \in Nat /\ Size \in Nat /\ Base \in Nat /\ Base > 0 /\ rsr <= Size /\ hi \in Nat
      /\ Turns \in Nat /\ n \in Nat /\ n <= Size
    BY Types, Constants
<1>4. hi <= rsr \div Base /\ buf = <<>>
    BY <1>1 DEF IInv, Found
<1>5. Reading \in 0..rsr
    BY <1>3, <1>4, TornLow DEF Reading
<1>6. moved' \in 0..(Turns - 1) /\ prev' \in {NoReading} \cup 0..(2 * Size + Base)
    <2>1. moved \in 0..(Turns - 1) /\ prev \in {NoReading} \cup 0..(2 * Size + Base)
        BY DEF IInv, TypeOK, RingTypeOK
    <2>2. Reading \in 0..(2 * Size + Base)
        BY <1>3, <1>5
    <2>3. CASE Settled
        BY <2>1, <2>3 DEF ReadLow
    <2>4. CASE ~Settled
        <3>1. prev' = Reading /\ moved' < Turns /\ moved' = IF prev = NoReading THEN 0 ELSE moved + 1
            BY <2>4 DEF ReadLow
        <3> QED BY <1>3, <2>1, <2>2, <3>1
    <2> QED BY <2>3, <2>4
<1>7. n' \in 0..Size /\ (pc' = "size" => n' <= rsr)
    <2>1. CASE Settled
        BY <1>3, <1>5, <2>1 DEF ReadLow
    <2>2. CASE ~Settled
        BY <1>3, <2>2 DEF ReadLow
    <2> QED BY <2>1, <2>2
<1>8. Len(buf') <= n'
    <2>1. Len(buf) = 0
        BY <1>4
    <2> QED BY <1>1, <1>3, <1>7, <2>1
<1>9. TypeOK'
    <2>1. RingTypeOK'
        BY <1>1, <1>6, <1>7, <1>8 DEF IInv, TypeOK, RingTypeOK, Offsets
    <2> QED BY <1>1, <2>1 DEF IInv, TypeOK
<1>10. Found'
    BY <1>1, <1>4, <1>7 DEF Found
<1> QED BY <1>2, <1>9, <1>10 DEF IInv

LEMMA ExpireIInv ==
    ASSUME IInv, Expire, UNCHANGED <<arrived, status, base, delivered>>
    PROVE  IInv'
<1>1. pc = "low" /\ pc' = "size" /\ n' = 0 /\ UNCHANGED <<ring, wr, rsr, taken, rd, hi, prev, moved, buf>>
    BY DEF Expire, chip, reading
<1>2. Positions' /\ Content' /\ Bytes'
    BY <1>1, Stays DEF chip
<1>3. rsr \in Nat /\ Size \in Nat /\ buf = <<>> /\ Len(buf) = 0
    BY <1>1, Types, Constants DEF IInv, Found
<1>4. n' \in 0..Size /\ Len(buf') <= n' /\ n' <= rsr'
    BY <1>1, <1>3
<1>5. TypeOK'
    BY <1>1, <1>4 DEF IInv, TypeOK, RingTypeOK, Offsets
<1>6. Found'
    BY <1>1, <1>3, <1>4 DEF Found
<1> QED BY <1>2, <1>5, <1>6 DEF IInv

LEMMA HaveSizeIInv ==
    ASSUME IInv, HaveSize
    PROVE  IInv'
<1>1. /\ pc = "size" /\ pc' \in {"closed?", "copy"} /\ n' = IF n > Cap THEN Cap ELSE n
      /\ UNCHANGED <<ring, wr, rsr, taken, rd, hi, prev, moved, buf, arrived, status, base, delivered>>
    BY DEF HaveSize, chip, reading
<1>2. Positions' /\ Content' /\ Bytes'
    BY <1>1, Stays DEF chip
<1>3. rsr \in Nat /\ Size \in Nat /\ n \in Nat /\ n <= Size /\ Cap \in Nat /\ rsr <= Size
    BY Types, Constants
<1>4. n <= rsr /\ buf = <<>> /\ Len(buf) = 0
    BY <1>1 DEF IInv, Found
<1>5. n' \in 0..Size /\ Len(buf') <= n' /\ n' <= rsr'
    BY <1>1, <1>3, <1>4
<1>6. TypeOK'
    <2>1. RingTypeOK'
        BY <1>1, <1>5 DEF IInv, TypeOK, RingTypeOK, Offsets
    <2> QED BY <1>1, <2>1 DEF IInv, TypeOK
<1>7. Found'
    BY <1>1, <1>4, <1>5 DEF Found
<1> QED BY <1>2, <1>6, <1>7 DEF IInv

\* Reading the status moves nothing; a new call begins with an empty buffer.
LEMMA StatusIInv ==
    ASSUME IInv, IsClosed \/ IsCloseWait
    PROVE  IInv'
<1>1. /\ pc \in {"closed?", "close wait?"} /\ pc' \in {"ended", "close wait?", "high"}
      /\ UNCHANGED <<ring, wr, rsr, taken, rd, hi, n, arrived, status, base, delivered>>
    BY DEF IsClosed, IsCloseWait, Restart, chip, reading
<1>2. buf = <<>>
    BY <1>1 DEF IInv, Found
<1>3. buf' = buf /\ prev' \in {prev, NoReading} /\ moved' \in {moved, 0}
    BY <1>2 DEF IsClosed, IsCloseWait, Restart, reading
<1>4. Positions' /\ Content' /\ Bytes'
    BY <1>1, <1>3, Stays DEF chip
<1>5. TypeOK'
    <2>1. moved' \in 0..(Turns - 1)
        <3>1. moved \in 0..(Turns - 1)
            BY DEF IInv, TypeOK, RingTypeOK
        <3> QED BY <1>3, <3>1, Constants
    <2>2. prev' \in {NoReading} \cup 0..(2 * Size + Base)
        BY <1>3 DEF IInv, TypeOK, RingTypeOK
    <2>3. RingTypeOK'
        BY <1>1, <1>3, <2>1, <2>2 DEF IInv, TypeOK, RingTypeOK, Offsets
    <2> QED BY <1>1, <2>3 DEF IInv, TypeOK
<1>6. Found'
    BY <1>1, <1>2, <1>3 DEF Found
<1> QED BY <1>4, <1>5, <1>6 DEF IInv

\* The byte that is copied is the next one of the stream, also when the pointer
\* or the ring wraps between two bytes.
LEMMA CopyIInv ==
    ASSUME IInv, Copy
    PROVE  IInv'
<1>0. /\ base \in Nat /\ arrived \in Nat /\ D \in Nat /\ L \in Nat /\ rsr \in Nat /\ n \in Nat
      /\ rsr = arrived - D /\ arrived <= Len(Stream) /\ buf \in Seq(Int)
    BY Types
<1>1. /\ pc = "copy" /\ L < n
      /\ UNCHANGED <<ring, wr, rsr, taken, rd, pc, hi, prev, moved, n, arrived, status, base, delivered>>
    BY DEF Copy, CopyFrom, chip, reading, L
<1>2. n <= rsr /\ rd = Pointer(D)
    BY <1>1 DEF IInv, Found, Positions
<1>3. D + L < arrived /\ D <= D + L /\ D + L \in Nat
    BY <1>0, <1>1, <1>2
<1>4. At(Plus(rd, 0 + Len(buf))) = Stream[D + L + 1]
    <2>1. Plus(Pointer(D), L) % Size = Offset(D + L)
        BY <1>0, PointerPlus
    <2>2. 0 + Len(buf) = L
        BY <1>0 DEF L
    <2>3. ring[Offset(D + L)] = Stream[D + L + 1]
        BY <1>3 DEF IInv, Content
    <2> QED BY <1>2, <2>1, <2>2, <2>3 DEF At
<1>5. Stream[D + L + 1] \in Int
    <2>1. D + L + 1 \in 1..Len(Stream) /\ Stream \in Seq(Int)
        BY <1>0, <1>3, Constants
    <2> QED BY <2>1
<1>6. buf' = Append(buf, Stream[D + L + 1])
    BY <1>4 DEF Copy, CopyFrom
<1>7. buf' \in Seq(Int) /\ Len(buf') = L + 1 /\ \A i \in 1..L : buf'[i] = buf[i]
    BY <1>0, <1>5, <1>6 DEF L
<1>8. buf'[L + 1] = Stream[D + L + 1]
    BY <1>0, <1>5, <1>6 DEF L
<1>9. D' = D /\ L' = L + 1
    BY <1>1, <1>7 DEF D, L
<1>10. Positions'
    <2>1. Pointer(arrived)' = Pointer(arrived) /\ Pointer(D)' = Pointer(D)
        BY <1>1, <1>9 DEF Pointer
    <2>2. D' + L' <= arrived' /\ rsr' = arrived' - D'
        BY <1>0, <1>1, <1>3, <1>9
    <2> QED BY <1>1, <1>2, <2>1, <2>2 DEF IInv, Positions
<1>11. Content'
    <2>1. \A k : Offset(k)' = Offset(k)
        BY <1>1 DEF Offset
    <2>2. \A i \in 1..(L + 1) : buf'[i] = Stream[D + i]
        <3>1. ASSUME NEW i \in 1..(L + 1), i # L + 1 PROVE buf'[i] = Stream[D + i]
            <4>1. i \in 1..L
                BY <1>0, <3>1
            <4> QED BY <1>7, <4>1 DEF IInv, Content
        <3>2. D + (L + 1) = D + L + 1
            BY <1>0
        <3> QED BY <1>8, <3>1, <3>2
    <2> QED BY <1>1, <1>9, <2>1, <2>2 DEF IInv, Content
<1>12. TypeOK'
    <2>1. Len(buf') <= n'
        BY <1>0, <1>1, <1>7
    <2>2. RingTypeOK'
        BY <1>1, <2>1 DEF IInv, TypeOK, RingTypeOK, Offsets
    <2> QED BY <1>1, <2>2 DEF IInv, TypeOK
<1>13. Found'
    BY <1>1, <1>2 DEF Found
<1>14. Bytes'
    BY <1>1, <1>7 DEF IInv, Bytes
<1> QED BY <1>10, <1>11, <1>12, <1>13, <1>14 DEF IInv

\* The pointer is moved behind what was copied, and no further.
LEMMA ConsumeIInv ==
    ASSUME IInv, Consume
    PROVE  IInv'
<1>1. /\ pc = "copy" /\ pc' = "recv" /\ L = n /\ rd' = Plus(rd, n)
      /\ UNCHANGED <<ring, wr, rsr, taken, hi, prev, moved, n, buf, arrived, status, base, delivered>>
    BY DEF Consume, WriteRd, chip, reading, L
<1>2. base \in Int /\ D \in Int /\ n \in Int
    BY Types
<1>3. rd = Pointer(D) /\ n <= rsr
    BY <1>1 DEF IInv, Positions, Found
<1>4. rd' = Pointer(D + n)
    BY <1>1, <1>2, <1>3, PointerPlus
<1>5. D' = D /\ L' = L
    BY <1>1 DEF D, L
<1>6. Pointer(arrived)' = Pointer(arrived) /\ Pointer(D)' = Pointer(D) /\ Pointer(D + n)' = Pointer(D + n)
    BY <1>1, <1>5 DEF Pointer
<1>7. Positions'
    BY <1>1, <1>4, <1>5, <1>6 DEF IInv, Positions
<1>8. Content'
    <2>1. \A k : Offset(k)' = Offset(k)
        BY <1>1 DEF Offset
    <2> QED BY <1>1, <1>5, <2>1 DEF IInv, Content
<1>9. TypeOK'
    <2>1. rd' \in 0..(Wrap - 1)
        BY <1>2, <1>4, PointerType
    <2>2. RingTypeOK'
        BY <1>1, <2>1 DEF IInv, TypeOK, RingTypeOK, Offsets
    <2> QED BY <1>1, <2>2 DEF IInv, TypeOK
<1>10. Found' /\ Bytes'
    BY <1>1, <1>3, <1>5 DEF IInv, Found, Bytes
<1> QED BY <1>7, <1>8, <1>9, <1>10 DEF IInv

\* RECV releases exactly the bytes that are handed to the caller.
LEMMA RecvIInv ==
    ASSUME IInv, Recv
    PROVE  IInv'
<1>0. /\ base \in Nat /\ arrived \in Nat /\ D \in Nat /\ L \in Nat /\ rsr \in Nat /\ n \in Nat
      /\ rsr = arrived - D /\ rsr <= Size /\ n <= Size /\ delivered \in Seq(Int) /\ buf \in Seq(Int)
      /\ Wrap \in Nat /\ Wrap > 0 /\ Size < Wrap /\ Size \in Nat
    BY Types, Constants
<1>1. /\ pc = "recv" /\ pc' = "high" /\ buf' = <<>> /\ prev' = NoReading /\ moved' = 0
      /\ rsr' = rsr - ((rd + Wrap - taken) % Wrap) /\ taken' = rd /\ delivered' = delivered \o buf
      /\ UNCHANGED <<ring, wr, rd, hi, n, arrived, status, base>>
    BY DEF Recv, Release, Restart
<1>2. L = n /\ n <= rsr /\ rd = Pointer(D + n) /\ taken = Pointer(D)
    BY <1>1 DEF IInv, Positions, Found
<1>3. (rd + Wrap - taken) % Wrap = n
    <2>1. base + D \in Int /\ n \in 0..(Wrap - 1) /\ base + (D + n) = (base + D) + n
        BY <1>0
    <2>2. ((((base + D) + n) % Wrap) + Wrap - ((base + D) % Wrap)) % Wrap = n
        BY <1>0, <2>1, Distance
    <2> QED BY <1>2, <2>1, <2>2 DEF Pointer
<1>4. delivered' \in Seq(Int) /\ D' = D + n /\ L' = 0
    <2>1. delivered \o buf \in Seq(Int) /\ Len(delivered \o buf) = D + L
        BY <1>0 DEF D, L
    <2>2. D' = Len(delivered') /\ L' = Len(buf') /\ Len(<<>>) = 0
        BY DEF D, L
    <2> QED BY <1>1, <1>2, <2>1, <2>2
<1>5. Positions'
    <2>1. Pointer(arrived)' = Pointer(arrived) /\ Pointer(D)' = Pointer(D + n)
        BY <1>1, <1>4 DEF Pointer
    <2>2. D' + L' <= arrived' /\ rsr' = arrived' - D'
        BY <1>0, <1>1, <1>2, <1>3, <1>4
    <2> QED BY <1>1, <1>2, <2>1, <2>2 DEF IInv, Positions
<1>6. Content'
    <2>1. \A k : Offset(k)' = Offset(k)
        BY <1>1 DEF Offset
    <2>2. \A k \in Nat : D + n <= k /\ k < arrived => ring[Offset(k)] = Stream[k + 1]
        BY <1>0 DEF IInv, Content
    <2>3. \A i \in 1..(D + n) : (delivered \o buf)[i] = Stream[i]
        BY <1>2, Joined
    <2>4. (\A k \in Nat : D <= k /\ k < arrived => ring[Offset(k)] = Stream[k + 1])'
        BY <1>1, <1>4, <2>1, <2>2
    <2>5. (\A i \in 1..D : delivered[i] = Stream[i])'
        BY <1>1, <1>4, <2>3
    <2>6. (\A i \in 1..L : buf[i] = Stream[D + i])'
        BY <1>4
    <2> QED BY <2>4, <2>5, <2>6 DEF Content
<1>7. TypeOK'
    <2>1. rsr' \in 0..Size /\ Len(buf') <= n' /\ moved' \in 0..(Turns - 1)
        BY <1>0, <1>1, <1>2, <1>3, Constants
    <2>2. RingTypeOK'
        BY <1>1, <2>1 DEF IInv, TypeOK, RingTypeOK, Offsets
    <2> QED BY <1>1, <2>2 DEF IInv, TypeOK
<1>8. Found' /\ Bytes'
    BY <1>1, <1>4 DEF Found, Bytes
<1> QED BY <1>5, <1>6, <1>7, <1>8 DEF IInv

LEMMA ReconnectIInv ==
    ASSUME IInv, Reconnect
    PROVE  IInv'
<1>1. /\ base' \in 0..(Wrap - 1) /\ wr' = base' /\ rd' = base' /\ taken' = base' /\ rsr' = 0 /\ n' = 0
      /\ pc' = "high" /\ buf' = <<>> /\ prev' = NoReading /\ moved' = 0 /\ arrived' = 0
      /\ status' = ESTABLISHED /\ delivered' = <<>> /\ UNCHANGED <<ring, hi>>
    BY DEF Reconnect, Restart
<1>2. D' = 0 /\ L' = 0
    BY <1>1 DEF D, L
<1>3. Pointer(0)' = base'
    <2>1. Wrap \in Nat /\ Wrap > 0
        BY Constants
    <2>2. \A b \in 0..(Wrap - 1) : (b + 0) % Wrap = b
        BY <2>1
    <2> QED BY <1>1, <2>2 DEF Pointer
<1>4. Positions'
    <2>1. Pointer(arrived)' = base' /\ Pointer(D)' = base'
        BY <1>1, <1>2, <1>3 DEF Pointer
    <2> QED BY <1>1, <1>2, <2>1 DEF Positions
<1>5. Content' /\ Found' /\ Bytes'
    BY <1>1, <1>2 DEF Content, Found, Bytes
<1>6. TypeOK'
    <2>1. rsr' \in 0..Size /\ n' \in 0..Size /\ Len(buf') <= n' /\ moved' \in 0..(Turns - 1) /\ arrived' \in 0..Len(Stream)
        BY <1>1, Constants
    <2>2. RingTypeOK'
        BY <1>1, <2>1 DEF IInv, TypeOK, RingTypeOK, Offsets
    <2> QED BY <1>1, <2>1, <2>2 DEF TypeOK
<1> QED BY <1>4, <1>5, <1>6 DEF IInv

\* Nothing but the status changes, or nothing at all.
LEMMA SameIInv ==
    ASSUME IInv, UNCHANGED <<ringVars, arrived, base, delivered>>,
           status' \in {ESTABLISHED, CLOSE_WAIT, CLOSED}
    PROVE  IInv'
<1>1. UNCHANGED <<ring, wr, rsr, taken, rd, pc, hi, prev, moved, n, buf, arrived, base, delivered>>
    BY DEF ringVars, chip, reading
<1>2. D' = D /\ L' = L /\ \A k : Offset(k)' = Offset(k)
    BY <1>1 DEF D, L, Offset
<1>3. Pointer(arrived)' = Pointer(arrived) /\ Pointer(D)' = Pointer(D) /\ Pointer(D + n)' = Pointer(D + n)
    BY <1>1, <1>2 DEF Pointer
<1>4. Positions'
    BY <1>1, <1>2, <1>3 DEF IInv, Positions
<1>5. Content' /\ Found' /\ Bytes'
    BY <1>1, <1>2 DEF IInv, Content, Found, Bytes
<1>6. TypeOK'
    BY <1>1 DEF IInv, TypeOK, RingTypeOK, Offsets
<1> QED BY <1>4, <1>5, <1>6 DEF IInv

LEMMA NextIInv == IInv /\ [Next]_vars => IInv'
<1> SUFFICES ASSUME IInv, [Next]_vars PROVE IInv'
    OBVIOUS
<1>1. ASSUME Abort PROVE IInv'
    BY <1>1, SameIInv DEF Abort
<1>2. ASSUME NEW k \in 0..Size, NEW fin \in BOOLEAN, Arrive(k, fin) PROVE IInv'
    BY <1>2, ArriveIInv
<1>3. ASSUME ReadHigh \/ ReadLow \/ Expire, UNCHANGED <<arrived, status, base, delivered>> PROVE IInv'
    BY <1>3, ReadHighIInv, ReadLowIInv, ExpireIInv
<1>4. ASSUME HaveSize \/ IsClosed \/ IsCloseWait PROVE IInv'
    BY <1>4, HaveSizeIInv, StatusIInv
<1>5. ASSUME Copy \/ Consume \/ Recv \/ Reconnect PROVE IInv'
    BY <1>5, CopyIInv, ConsumeIInv, RecvIInv, ReconnectIInv
<1>6. ASSUME UNCHANGED vars PROVE IInv'
    BY <1>6, SameIInv DEF vars, IInv, TypeOK
<1>7. ASSUME Segment \/ Arrive(0, TRUE) PROVE IInv'
    <2>1. 0 \in 0..Size /\ \A k \in 1..Size : k \in 0..Size
        BY Constants
    <2> QED BY <1>2, <1>7, <2>1 DEF Segment
<1> QED BY <1>1, <1>3, <1>4, <1>5, <1>6, <1>7 DEF Next, Network, Driver

-----------------------------------------------------------------------------
(* Theorems *)

\* Pointers, size register, ring and buffer agree with positions of the stream
\* at every step of stable(), transfer(), consume() and of the chip.
THEOREM Invariance == Spec => []IInv
BY InitIInv, NextIInv, PTL DEF Spec

\* No reading, torn or not, makes net_recv() copy more than the ring holds, and
\* no pointer leaves its width.
THEOREM TypeCorrect == Spec => []TypeOK
<1>1. IInv => TypeOK
    BY DEF IInv
<1> QED BY Invariance, <1>1, PTL

\* What net_recv() has handed over and what it has copied is the beginning of
\* the server's stream: no byte lost, repeated, stale or overwritten.
THEOREM DeliversInOrder == Spec => []InOrder
<1>1. ASSUME IInv PROVE InOrder
    <2>1. /\ D \in Nat /\ L \in Nat /\ arrived \in Nat /\ D + L <= arrived
        BY <1>1, Types
    <2>2. \A i \in 1..(D + L) : i <= arrived
        BY <2>1
    <2>3. \A i \in 1..(D + L) : (delivered \o buf)[i] = Stream[i]
        BY <1>1, Joined
    <2> QED BY <2>2, <2>3 DEF InOrder, D, L
<1> QED BY Invariance, <1>1, PTL

-----------------------------------------------------------------------------
(* TcpReceive implements ByteStream *)

Kept == [Promise!Come \/ Promise!Deliver \/ Promise!End \/ Promise!Reopen]_(Promise!streamVars)

LEMMA SameSequence ==
    ASSUME NEW s \in Seq(Int), NEW t \in Seq(Int), Len(s) = Len(t), \A i \in 1..Len(s) : s[i] = t[i]
    PROVE  s = t
OBVIOUS

LEMMA ComeKept ==
    ASSUME status = ESTABLISHED, UNCHANGED <<pc, delivered>>,
           arrived' \in arrived..Len(Stream)
    PROVE  Kept
<1>1. (status' # ESTABLISHED) \in BOOLEAN
    OBVIOUS
<1> QED BY <1>1 DEF Kept, Promise!Come, Promise!streamVars

\* Released bytes become the caller's: the abstract stream delivers them at once.
LEMMA RecvKept ==
    ASSUME IInv, Recv
    PROVE  Kept
<1>1. /\ D \in Nat /\ L \in Nat /\ arrived \in Nat /\ D + L <= arrived /\ arrived <= Len(Stream)
      /\ delivered \in Seq(Int) /\ buf \in Seq(Int) /\ Stream \in Seq(Int) /\ Len(Stream) \in Nat
    BY Types, Constants
<1>2. pc = "recv" /\ pc' = "high" /\ delivered' = delivered \o buf /\ UNCHANGED <<arrived, status>>
    BY DEF Recv, Restart
<1>3. CASE L = 0
    <2>1. delivered' = delivered
        <3>1. buf = <<>>
            BY <1>1, <1>3 DEF L
        <3> QED BY <1>1, <1>2, <3>1
    <2> QED BY <1>2, <2>1 DEF Kept, Promise!streamVars
<1>4. CASE L > 0
    <2> DEFINE t == SubSeq(Stream, 1, D + L)
    <2>1. D + L \in Nat /\ D + L <= Len(Stream) /\ D + L \in (Len(delivered) + 1)..arrived
        BY <1>1, <1>4 DEF D
    <2>2. t \in Seq(Int) /\ Len(t) = D + L
        <3>1. \A i \in 1..(D + L) : i \in 1..Len(Stream) /\ Stream[i] \in Int
            BY <1>1, <2>1
        <3> QED BY <1>1, <2>1, <3>1
    <2>3. \A i \in 1..(D + L) : t[i] = Stream[i]
        BY <1>1, <2>1
    <2>4. delivered \o buf \in Seq(Int) /\ Len(delivered \o buf) = D + L
        BY <1>1 DEF D, L
    <2> HIDE DEF t
    <2>5. delivered \o buf = t
        BY <2>2, <2>3, <2>4, Joined, SameSequence
    <2> QED BY <1>2, <2>1, <2>5 DEF t, Kept, Promise!Deliver
<1> QED BY <1>1, <1>3, <1>4

LEMMA EndKept ==
    ASSUME IsClosed \/ IsCloseWait
    PROVE  Kept
<1>1. pc # "ended" /\ UNCHANGED <<arrived, status, delivered>>
    BY DEF IsClosed, IsCloseWait
<1>2. CASE pc' = "ended"
    <2>1. status # ESTABLISHED
        <3>1. CASE IsClosed
            BY <1>2, <3>1 DEF IsClosed, Ends, CLOSED, ESTABLISHED
        <3>2. CASE IsCloseWait
            <4>1. Restart => pc' # "ended"
                BY DEF Restart
            <4>2. Ends(CLOSE_WAIT)
                BY <1>2, <3>2, <4>1 DEF IsCloseWait
            <4> QED BY <4>2 DEF Ends, CLOSE_WAIT, ESTABLISHED
        <3> QED BY <3>1, <3>2
    <2> QED BY <1>1, <1>2, <2>1 DEF Kept, Promise!End
<1>3. CASE pc' # "ended"
    BY <1>1, <1>3 DEF Kept, Promise!streamVars
<1> QED BY <1>2, <1>3

LEMMA StepKept ==
    ASSUME IInv, [Next]_vars
    PROVE  Kept
<1>1. ASSUME Abort PROVE Kept
    <2>1. UNCHANGED <<pc, arrived, delivered>> /\ status' = CLOSED
        BY <1>1 DEF Abort, ringVars
    <2>2. arrived \in arrived..Len(Stream)
        BY Types, Constants
    <2>3. CASE status = ESTABLISHED
        BY <2>1, <2>2, <2>3, ComeKept
    <2>4. CASE status # ESTABLISHED
        BY <2>1, <2>4 DEF Kept, Promise!streamVars, CLOSED, ESTABLISHED
    <2> QED BY <2>3, <2>4
<1>2. ASSUME NEW k \in 0..Size, NEW fin \in BOOLEAN, Arrive(k, fin) PROVE Kept
    <2>1. status = ESTABLISHED /\ UNCHANGED <<pc, delivered>> /\ arrived' = arrived + k /\ arrived + k <= Len(Stream)
        <3>1. arrived + k = Len(Stream) => arrived + k <= Len(Stream)
            BY Types, Constants
        <3> QED BY <1>2, <3>1 DEF Arrive, Store
    <2>2. arrived' \in arrived..Len(Stream)
        <3>1. arrived \in Nat /\ k \in Nat /\ Len(Stream) \in Nat
            BY Types, Constants
        <3> QED BY <2>1, <3>1
    <2> QED BY <2>1, <2>2, ComeKept
<1>3. ASSUME pc # "ended", pc' # "ended", UNCHANGED <<arrived, status, delivered>> PROVE Kept
    BY <1>3 DEF Kept, Promise!streamVars
<1>4. ASSUME ReadHigh \/ ReadLow \/ Expire, UNCHANGED <<arrived, status, base, delivered>> PROVE Kept
    BY <1>3, <1>4 DEF ReadHigh, ReadLow, Expire
<1>5. ASSUME HaveSize \/ Copy \/ Consume PROVE Kept
    BY <1>3, <1>5 DEF HaveSize, Copy, CopyFrom, Consume, WriteRd
<1>6. ASSUME Reconnect PROVE Kept
    BY <1>6 DEF Reconnect, Restart, Kept, Promise!Reopen
<1>7. ASSUME UNCHANGED vars PROVE Kept
    BY <1>7 DEF vars, ringVars, Kept, Promise!streamVars
<1>8. ASSUME Segment \/ Arrive(0, TRUE) PROVE Kept
    <2>1. 0 \in 0..Size /\ \A k \in 1..Size : k \in 0..Size
        BY Constants
    <2> QED BY <1>2, <1>8, <2>1 DEF Segment
<1> QED BY <1>1, <1>4, <1>5, <1>6, <1>7, <1>8, RecvKept, EndKept DEF Next, Network, Driver

\* net_recv() under its caller implements the abstract stream: every chunk it
\* hands over extends the beginning of what the server sent, by bytes that have
\* arrived, and it reports an end only of a connection that is over.
THEOREM ImplementsByteStream == Spec => StreamKept
<1>1. Init => Promise!Fresh
    BY DEF Init, InitRing, Promise!Fresh, ESTABLISHED
<1>2. IInv /\ [Next]_vars => [Promise!Come \/ Promise!Deliver \/ Promise!End \/ Promise!Reopen]_(Promise!streamVars)
    BY StepKept DEF Kept
<1> QED BY Invariance, <1>1, <1>2, PTL DEF Spec, StreamKept, Promise!Spec

-----------------------------------------------------------------------------
(* Reception over UDP: the invariant *)

\* A datagram as the chip stores it.
Frame(j) == <<j - 1, Len(sent[j])>> \o sent[j]

Pending == (taken_up + 1)..Len(sent)

\* h[j] is the position of datagram j's header, and h of the number after the
\* last one's is where the next one will be.
Layout(h) ==
    /\ h \in [1..(Len(sent) + 1) -> Nat]
    /\ \A j \in 1..Len(sent) : h[j + 1] = h[j] + Udp!HEADER + Len(sent[j])
    /\ \A i, j \in 1..(Len(sent) + 1) : i <= j => h[i] <= h[j]
    /\ rsr = h[Len(sent) + 1] - h[taken_up + 1]
    /\ wr = h[Len(sent) + 1] % UdpWrap
    /\ taken = h[taken_up + 1] % UdpWrap
    /\ rd = h[IF pc = "recv" THEN taken_up + 2 ELSE taken_up + 1] % UdpWrap
    /\ \A j \in Pending : \A i \in 1..Len(Frame(j)) : ring[(h[j] + i - 1) % UdpSize] = Frame(j)[i]

\* A size that counts whole datagrams: none, or at least the next one.
Whole(v) == v = 0 \/ (taken_up < Len(sent) /\ v >= Udp!HEADER + Len(sent[taken_up + 1]))

\* A torn reading lies below what the high byte alone says when it is read
\* again, so that it is not read twice.
Steady ==
    /\ pc = "high" /\ prev # NoReading => Whole(prev) \/ prev < (rsr \div UdpBase) * UdpBase
    /\ pc = "low" => hi <= rsr \div UdpBase
    /\ pc = "low" /\ prev # NoReading => Whole(prev) \/ prev < hi * UdpBase
    /\ pc = "size" => Whole(n)

\* What is copied or passed is the next datagram.
Passing ==
    /\ pc \in {"copy", "recv", "closed"} => taken_up < Len(sent)
    /\ pc = "copy" =>
          /\ n = Len(sent[taken_up + 1]) /\ n <= Cap
          /\ \A i \in 1..Len(buf) : buf[i] = sent[taken_up + 1][i]
    /\ pc = "recv" => buf = IF Len(sent[taken_up + 1]) <= Cap THEN sent[taken_up + 1] ELSE <<>>
    /\ pc \notin {"copy", "recv"} => buf = <<>>
    /\ Udp!FramingKept

UdpTyped == Udp!TypeOK /\ sent \in Seq(Seq(Int)) /\ buf \in Seq(Int)

UdpInv == UdpTyped /\ (\E h : Layout(h)) /\ Steady /\ Passing

LEMMA UdpConstants ==
    /\ UdpSize \in Nat /\ UdpSize > 0 /\ UdpWrap \in Nat /\ UdpWrap > UdpSize
    /\ \E k \in Nat : k > 0 /\ UdpWrap = k * UdpSize
    /\ UdpBase \in Nat /\ UdpBase > 0 /\ Cap \in Nat /\ Cap > 0 /\ Turns \in Nat /\ Turns > 0
    /\ Payloads \subseteq Seq(Int) /\ MaxLen \in Nat /\ MaxLen <= UdpSize /\ MaxSent \in Nat
<1>0. Udp!RingConstants /\ Udp!DatagramAssumption
    BY UdpAssumption
<1>1. PICK k \in 2..UdpWrap : UdpWrap = k * UdpSize
    BY <1>0 DEF Udp!RingConstants
<1>2. UdpSize \in Nat /\ UdpSize > 0 /\ UdpWrap \in Nat
    BY <1>0 DEF Udp!RingConstants
<1>3. k * UdpSize >= 2 * UdpSize
    BY <1>1, <1>2
<1> QED BY <1>0, <1>1, <1>2, <1>3 DEF Udp!RingConstants, Udp!DatagramAssumption

LEMMA UdpPointer ==
    ASSUME NEW b \in Int
    PROVE  /\ b % UdpWrap \in 0..(UdpWrap - 1) /\ b % UdpSize \in 0..(UdpSize - 1)
           /\ (b % UdpWrap) % UdpSize = b % UdpSize
           /\ \A d \in Int : ((b % UdpWrap) + d) % UdpWrap = (b + d) % UdpWrap
           /\ \A d \in Int : Udp!Plus(b % UdpWrap, d) % UdpSize = (b + d) % UdpSize
<1>1. PICK k \in Nat : k > 0 /\ UdpWrap = k * UdpSize
    BY UdpConstants
<1>2. UdpSize \in Nat /\ UdpSize > 0 /\ UdpWrap \in Nat /\ UdpWrap > 0
    BY UdpConstants
<1>3. \A a \in Int : (a % UdpWrap) % UdpSize = a % UdpSize
    BY <1>1, <1>2, ModMod
<1>4. \A d \in Int : ((b % UdpWrap) + d) % UdpWrap = (b + d) % UdpWrap
    BY <1>2, AddMod
<1>5. ASSUME NEW d \in Int PROVE Udp!Plus(b % UdpWrap, d) % UdpSize = (b + d) % UdpSize
    <2>1. b + d \in Int
        OBVIOUS
    <2> QED BY <1>3, <1>4, <2>1 DEF Udp!Plus
<1> QED BY <1>2, <1>3, <1>4, <1>5, Euclid

LEMMA UdpTypes ==
    ASSUME UdpTyped
    PROVE  /\ rsr \in Nat /\ rsr <= UdpSize /\ n \in Nat /\ n <= UdpSize /\ hi \in Nat
           /\ rsr \div UdpBase \in Nat /\ rsr % UdpBase \in Nat
           /\ taken_up \in Nat /\ Len(sent) \in Nat /\ taken_up <= Len(sent)
           /\ \A j \in 1..Len(sent) : sent[j] \in Seq(Int) /\ Len(sent[j]) \in Nat
           /\ buf \in Seq(Int) /\ Len(buf) \in Nat /\ Len(buf) <= n
<1>1. /\ rsr \in 0..UdpSize /\ n \in 0..UdpSize /\ hi \in 0..(UdpSize \div UdpBase) /\ Len(buf) <= n
      /\ taken_up \in 0..Len(sent) /\ sent \in Seq(Seq(Int)) /\ buf \in Seq(Int)
    BY DEF UdpTyped, Udp!TypeOK, Udp!RingTypeOK
<1>2. rsr \in Nat /\ rsr <= UdpSize /\ n \in Nat /\ n <= UdpSize /\ hi \in Nat
    BY <1>1, UdpConstants
<1>3. rsr \div UdpBase \in Nat /\ rsr % UdpBase \in Nat
    BY <1>2, UdpConstants
<1>4. \A j \in 1..Len(sent) : sent[j] \in Seq(Int) /\ Len(sent[j]) \in Nat
    BY <1>1
<1> QED BY <1>1, <1>2, <1>3, <1>4

\* The chip counts whole datagrams.
LEMMA CountsWhole ==
    ASSUME UdpTyped, NEW h, Layout(h)
    PROVE  Whole(rsr)
<1>1. taken_up \in Nat /\ Len(sent) \in Nat /\ taken_up <= Len(sent) /\ rsr \in Nat
    BY UdpTypes
<1>2. CASE taken_up = Len(sent)
    <2>1. h \in [1..(Len(sent) + 1) -> Nat] /\ rsr = h[Len(sent) + 1] - h[taken_up + 1]
        BY DEF Layout
    <2>2. Len(sent) + 1 \in 1..(Len(sent) + 1)
        BY <1>1
    <2>3. h[Len(sent) + 1] \in Nat
        BY <2>1, <2>2
    <2> QED BY <1>2, <2>1, <2>3 DEF Whole
<1>3. CASE taken_up < Len(sent)
    <2>1. /\ taken_up + 1 \in 1..Len(sent) /\ taken_up + 2 \in 1..(Len(sent) + 1)
          /\ taken_up + 1 \in 1..(Len(sent) + 1) /\ Len(sent) + 1 \in 1..(Len(sent) + 1)
          /\ (taken_up + 1) + 1 = taken_up + 2 /\ taken_up + 2 <= Len(sent) + 1
        BY <1>1, <1>3
    <2>2. h[taken_up + 2] = h[taken_up + 1] + Udp!HEADER + Len(sent[taken_up + 1])
        BY <2>1 DEF Layout
    <2>3. h[taken_up + 2] <= h[Len(sent) + 1]
        BY <2>1 DEF Layout
    <2>4. h[taken_up + 1] \in Nat /\ h[Len(sent) + 1] \in Nat /\ Len(sent[taken_up + 1]) \in Nat
        BY <2>1, UdpTypes DEF Layout
    <2>5. rsr >= Udp!HEADER + Len(sent[taken_up + 1])
        BY <2>2, <2>3, <2>4 DEF Layout, Udp!HEADER
    <2> QED BY <1>3, <2>5 DEF Whole
<1> QED BY <1>1, <1>2, <1>3

\* The bytes of the next datagram, header included, are where rd points.
LEMMA NextAt ==
    ASSUME UdpTyped, NEW h, Layout(h), pc # "recv", taken_up < Len(sent)
    PROVE  /\ Udp!Length = Len(sent[taken_up + 1])
           /\ \A i \in 1..Len(sent[taken_up + 1]) :
                 Udp!At(Udp!Plus(rd, Udp!HEADER + (i - 1))) = sent[taken_up + 1][i]
<1> DEFINE p == h[taken_up + 1]
           d == sent[taken_up + 1]
           j == taken_up + 1
<1>1. j \in Pending /\ j \in 1..Len(sent) /\ j \in 1..(Len(sent) + 1)
    BY UdpTypes DEF Pending
<1>2. p \in Nat /\ d \in Seq(Int) /\ Len(d) \in Nat /\ rd = p % UdpWrap
    BY <1>1, UdpTypes DEF Layout
<1>3. Frame(j) = <<j - 1, Len(d)>> \o d
    BY DEF Frame
<1>4. \A i \in 1..Len(Frame(j)) : ring[(p + i - 1) % UdpSize] = Frame(j)[i]
    BY <1>1 DEF Layout
<1> HIDE DEF p, d, j
<1>5. /\ Len(Frame(j)) = 2 + Len(d) /\ Frame(j)[2] = Len(d)
      /\ \A i \in 1..Len(d) : Frame(j)[2 + i] = d[i]
    BY <1>2, <1>3
<1>6. ASSUME NEW i \in 1..Len(Frame(j)) PROVE Udp!At(Udp!Plus(rd, i - 1)) = Frame(j)[i]
    <2>1. i - 1 \in Int /\ p + (i - 1) = p + i - 1
        BY <1>2, <1>5
    <2>2. Udp!Plus(p % UdpWrap, i - 1) % UdpSize = (p + (i - 1)) % UdpSize
        BY <1>2, <2>1, UdpPointer
    <2> QED BY <1>2, <1>4, <2>1, <2>2 DEF Udp!At
<1>7. Udp!Length = Len(d)
    <2>1. 2 \in 1..Len(Frame(j)) /\ 2 - 1 = 1
        BY <1>2, <1>5
    <2>2. Udp!At(Udp!Plus(rd, 2 - 1)) = Frame(j)[2]
        BY <1>6, <2>1
    <2> QED BY <1>5, <2>1, <2>2 DEF Udp!Length
<1>8. ASSUME NEW i \in 1..Len(d) PROVE Udp!At(Udp!Plus(rd, Udp!HEADER + (i - 1))) = d[i]
    <2>1. 2 + i \in 1..Len(Frame(j)) /\ (2 + i) - 1 = 2 + (i - 1)
        BY <1>2, <1>5
    <2>2. Udp!At(Udp!Plus(rd, (2 + i) - 1)) = Frame(j)[2 + i]
        BY <1>6, <2>1
    <2> QED BY <1>5, <2>1, <2>2 DEF Udp!HEADER
<1> QED BY <1>7, <1>8 DEF d

\* Storing s at position p leaves what was stored and not released.
LEMMA UdpStored ==
    ASSUME UdpTyped, NEW s \in Seq(Int), NEW p \in Nat, wr = p % UdpWrap, Udp!Store(s)
    PROVE  /\ \A i \in 1..Len(s) : ring'[(p + i - 1) % UdpSize] = s[i]
           /\ \A q \in Int : q < p /\ p - q <= rsr => ring'[q % UdpSize] = ring[q % UdpSize]
<1> DEFINE m == Len(s)
<1>1. /\ m \in Nat /\ rsr \in Nat /\ rsr + m <= UdpSize
      /\ ring' = [o \in 0..(UdpSize - 1) |->
                    IF \E i \in 1..m : (wr + i - 1) % UdpSize = o
                      THEN s[CHOOSE i \in 1..m : (wr + i - 1) % UdpSize = o]
                      ELSE ring[o]]
    BY UdpTypes DEF Udp!Store
<1> HIDE DEF m
<1>2. UdpSize \in Nat /\ UdpSize > 0
    BY UdpConstants
<1>3. ASSUME NEW i \in 1..m PROVE (wr + i - 1) % UdpSize = (p + i - 1) % UdpSize
    <2> DEFINE w == p % UdpWrap
    <2>1. w \in Int /\ i - 1 \in Int /\ p \in Int
        BY <1>1, UdpPointer
    <2>2. Udp!Plus(w, i - 1) % UdpSize = (p + (i - 1)) % UdpSize
        BY <2>1, UdpPointer
    <2>3. Udp!Plus(w, i - 1) % UdpSize = (w + (i - 1)) % UdpSize
        <3>1. PICK k \in Nat : k > 0 /\ UdpWrap = k * UdpSize
            BY UdpConstants
        <3>2. w + (i - 1) \in Int
            BY <2>1
        <3> HIDE DEF w
        <3> QED BY <1>2, <3>1, <3>2, ModMod DEF Udp!Plus
    <2> HIDE DEF w
    <2>4. w + i - 1 = w + (i - 1) /\ p + i - 1 = p + (i - 1)
        BY <2>1
    <2>5. wr = w
        BY DEF w
    <2> QED BY <2>2, <2>3, <2>4, <2>5
<1>4. ASSUME NEW a \in Int, NEW b \in Int, a < b, b - a < UdpSize PROVE a % UdpSize # b % UdpSize
    BY <1>2, <1>4, Apart
<1>5. ASSUME NEW j \in 1..m PROVE ring'[(p + j - 1) % UdpSize] = s[j]
    <2> DEFINE o == (p + j - 1) % UdpSize
    <2>1. o \in 0..(UdpSize - 1)
        <3>1. p + j - 1 \in Int
            BY <1>1
        <3> QED BY <3>1, UdpPointer
    <2>2. (wr + j - 1) % UdpSize = o
        BY <1>3
    <2>3. ASSUME NEW i \in 1..m, (wr + i - 1) % UdpSize = o PROVE i = j
        <3>1. (p + i - 1) % UdpSize = (p + j - 1) % UdpSize
            BY <1>3, <2>3
        <3>2. /\ p + i - 1 \in Int /\ p + j - 1 \in Int
              /\ i < j => p + i - 1 < p + j - 1 /\ (p + j - 1) - (p + i - 1) < UdpSize
              /\ j < i => p + j - 1 < p + i - 1 /\ (p + i - 1) - (p + j - 1) < UdpSize
              /\ i < j \/ j < i \/ i = j
            <4>1. m <= UdpSize
                BY <1>1, <1>2
            <4> QED BY <1>1, <1>2, <4>1
        <3> QED BY <1>4, <3>1, <3>2
    <2> HIDE DEF o
    <2>4. (CHOOSE i \in 1..m : (wr + i - 1) % UdpSize = o) = j
        BY <2>2, <2>3
    <2>5. ring'[o] = s[j]
        BY <1>1, <2>1, <2>2, <2>4
    <2> QED BY <2>5 DEF o
<1>6. ASSUME NEW q \in Int, q < p, p - q <= rsr PROVE ring'[q % UdpSize] = ring[q % UdpSize]
    <2>1. q % UdpSize \in 0..(UdpSize - 1)
        BY UdpPointer
    <2>2. ASSUME NEW i \in 1..m PROVE (wr + i - 1) % UdpSize # q % UdpSize
        <3>1. q < p + i - 1 /\ (p + i - 1) - q < UdpSize /\ p + i - 1 \in Int
            BY <1>1, <1>2, <1>6
        <3>2. q % UdpSize # (p + i - 1) % UdpSize
            BY <1>4, <3>1
        <3> QED BY <1>3, <3>2
    <2> QED BY <1>1, <2>1, <2>2
<1> QED BY <1>5, <1>6 DEF m

\* The positions after one more datagram.
Further(h, d) ==
    [j \in 1..(Len(sent) + 2) |->
        IF j = Len(sent) + 2 THEN h[Len(sent) + 1] + Udp!HEADER + Len(d) ELSE h[j]]

LEMMA ArriveLayout ==
    ASSUME UdpTyped, Passing, NEW h, Layout(h), NEW d \in Payloads, Udp!Arrive(d)
    PROVE  \E g : Layout(g)'
<1> DEFINE S == Len(sent)
           u == taken_up
           p == h[S + 1]
           m == Len(d)
           s == <<S, m>> \o d
<1>0. PICK g : g = Further(h, d)
    OBVIOUS
<1>1. /\ sent' = Append(sent, d) /\ Udp!Store(s) /\ UNCHANGED <<taken_up, taken, rd, pc>> /\ pc # "closed"
    BY DEF Udp!Arrive, Udp!Store
<1>2. d \in Seq(Int) /\ m \in Nat
    BY UdpConstants
<1>3. S \in Nat /\ u \in Nat /\ u <= S /\ rsr \in Nat /\ sent \in Seq(Seq(Int))
    BY UdpTypes DEF UdpTyped
<1>4. /\ Len(sent') = S + 1 /\ sent'[S + 1] = d /\ \A j \in 1..S : sent'[j] = sent[j]
    BY <1>1, <1>2, <1>3
<1>5. /\ h \in [1..(S + 1) -> Nat] /\ \A j \in 1..S : h[j + 1] = h[j] + Udp!HEADER + Len(sent[j])
      /\ \A i, j \in 1..(S + 1) : i <= j => h[i] <= h[j]
      /\ rsr = h[S + 1] - h[u + 1] /\ wr = h[S + 1] % UdpWrap /\ taken = h[u + 1] % UdpWrap
      /\ rd = h[IF pc = "recv" THEN u + 2 ELSE u + 1] % UdpWrap
      /\ \A j \in Pending : \A i \in 1..Len(Frame(j)) : ring[(h[j] + i - 1) % UdpSize] = Frame(j)[i]
    BY DEF Layout
<1>6. p \in Nat
    BY <1>3, <1>5
<1>7. s \in Seq(Int) /\ Len(s) = 2 + m
    BY <1>2, <1>3
<1>8. rsr' = rsr + Len(s) /\ wr' = Udp!Plus(wr, Len(s))
    BY <1>1 DEF Udp!Store
<1>9. /\ g \in [1..(S + 2) -> Nat] /\ g[S + 2] = p + 2 + m
      /\ \A j \in 1..(S + 1) : g[j] = h[j] /\ h[j] \in Nat
    <2>1. g = [j \in 1..(S + 2) |-> IF j = S + 2 THEN p + 2 + m ELSE h[j]]
        BY <1>0 DEF Further, Udp!HEADER
    <2> HIDE DEF S, p, m
    <2>2. p + 2 + m \in Nat /\ S + 2 \in 1..(S + 2)
        BY <1>2, <1>3, <1>6
    <2>3. \A j \in 1..(S + 1) : j \in 1..(S + 2) /\ j # S + 2
        BY <1>3
    <2>4. \A j \in 1..(S + 2) : j # S + 2 => j \in 1..(S + 1)
        BY <1>3
    <2> QED BY <1>5, <2>1, <2>2, <2>3, <2>4
<1> HIDE DEF S, p
<1>10. \A j \in 1..(S + 1) : g[j + 1] = g[j] + Udp!HEADER + Len(sent'[j])
    <2>1. ASSUME NEW j \in 1..S PROVE g[j + 1] = g[j] + Udp!HEADER + Len(sent'[j])
        <3>1. j + 1 \in 1..(S + 1) /\ j \in 1..(S + 1)
            BY <1>3
        <3> QED BY <1>4, <1>5, <1>9, <3>1
    <2>2. g[(S + 1) + 1] = g[S + 1] + Udp!HEADER + Len(sent'[S + 1])
        BY <1>3, <1>4, <1>9 DEF p, Udp!HEADER
    <2> QED BY <1>3, <2>1, <2>2
<1>11. \A i, j \in 1..(S + 2) : i <= j => g[i] <= g[j]
    <2> SUFFICES ASSUME NEW i \in 1..(S + 2), NEW j \in 1..(S + 2), i <= j PROVE g[i] <= g[j]
        OBVIOUS
    <2>1. CASE j \in 1..(S + 1)
        <3>1. i \in 1..(S + 1)
            BY <1>3, <2>1
        <3>2. h[i] <= h[j]
            BY <1>5, <2>1, <3>1
        <3> QED BY <1>9, <2>1, <3>1, <3>2
    <2>2. CASE j = S + 2 /\ i \in 1..(S + 1)
        <3>1. S + 1 \in 1..(S + 1) /\ i <= S + 1
            BY <1>3, <2>2
        <3>2. h[i] <= h[S + 1] /\ h[i] \in Nat /\ g[i] = h[i]
            BY <1>5, <1>9, <2>2, <3>1
        <3>3. h[i] <= p
            BY <3>2 DEF p
        <3> QED BY <1>2, <1>6, <1>9, <2>2, <3>2, <3>3
    <2>3. CASE j = S + 2 /\ i = S + 2
        BY <1>2, <1>6, <1>9, <2>3
    <2> QED BY <1>3, <2>1, <2>2, <2>3
<1>12. u + 1 \in 1..(S + 1) /\ g[u + 1] = h[u + 1] /\ h[u + 1] \in Nat /\ S + 1 \in 1..(S + 1)
    BY <1>3, <1>9
<1>13. rsr' = g[S + 2] - g[u + 1]
    <2>1. rsr = p - h[u + 1] /\ rsr' = rsr + (2 + m)
        BY <1>5, <1>7, <1>8 DEF p
    <2>2. g[S + 2] = p + 2 + m /\ g[u + 1] = h[u + 1] /\ h[u + 1] \in Nat
        BY <1>9, <1>12
    <2> QED BY <1>2, <1>6, <2>1, <2>2
<1>14. wr' = g[S + 2] % UdpWrap
    <2>1. p + (2 + m) = p + 2 + m /\ 2 + m \in Int
        BY <1>2, <1>6
    <2>3. wr = p % UdpWrap
        BY <1>5 DEF p
    <2>2. ((p % UdpWrap) + (2 + m)) % UdpWrap = (p + (2 + m)) % UdpWrap
        BY <1>6, <2>1, UdpPointer
    <2> QED BY <1>7, <1>8, <1>9, <2>1, <2>2, <2>3 DEF Udp!Plus
<1>15. rd' = g[IF pc' = "recv" THEN u + 2 ELSE u + 1] % UdpWrap
    <2>1. pc = "recv" => u + 2 \in 1..(S + 1)
        BY <1>3 DEF Passing, S
    <2> QED BY <1>1, <1>5, <1>9, <1>12, <2>1
<1>16. ASSUME NEW j \in (u + 1)..(S + 1), NEW i \in 1..Len(Frame(j)')
       PROVE  ring'[(g[j] + i - 1) % UdpSize] = (Frame(j)')[i]
    <2>1. CASE j = S + 1
        <3>1. Frame(j)' = s
            BY <1>3, <1>4, <2>1 DEF Frame
        <3>2. g[j] = p
            BY <1>9, <1>12, <2>1 DEF p
        <3>3. \A x \in 1..Len(s) : ring'[(p + x - 1) % UdpSize] = s[x]
            BY <1>1, <1>5, <1>6, <1>7, UdpStored DEF p, S
        <3> QED BY <3>1, <3>2, <3>3, <1>16
    <2>2. CASE j \in (u + 1)..S
        <3> DEFINE q == h[j] + i - 1
        <3>1. j \in Pending /\ j \in 1..S /\ j \in 1..(S + 1) /\ j + 1 \in 1..(S + 1)
            BY <1>3, <2>2 DEF Pending, S
        <3>2. Frame(j)' = Frame(j)
            BY <1>4, <3>1 DEF Frame
        <3>3. Len(Frame(j)) = 2 + Len(sent[j]) /\ Len(sent[j]) \in Nat
            <4>1. sent[j] \in Seq(Int) /\ Len(sent[j]) \in Nat
                BY <3>1, UdpTypes DEF S
            <4> QED BY <4>1 DEF Frame
        <3>4. h[j + 1] = h[j] + 2 + Len(sent[j]) /\ h[j + 1] <= p /\ h[u + 1] <= h[j]
            BY <1>3, <1>5, <1>12, <2>2, <3>1 DEF p, Udp!HEADER
        <3>5. h[j] \in Nat /\ i \in 1..(2 + Len(sent[j]))
            BY <1>9, <1>16, <3>1, <3>2, <3>3
        <3>6. q \in Int /\ q < p /\ p - q <= rsr
            <4>1. q < h[j + 1] /\ h[j] <= q /\ q \in Int
                BY <3>3, <3>4, <3>5
            <4>2. rsr = p - h[u + 1] /\ h[j + 1] \in Nat
                BY <1>5, <1>9, <3>1 DEF p
            <4> HIDE DEF q
            <4> QED BY <1>6, <1>12, <3>4, <3>5, <4>1, <4>2
        <3>7. ring'[q % UdpSize] = ring[q % UdpSize]
            BY <1>1, <1>5, <1>6, <1>7, <3>6, UdpStored DEF p, S
        <3>8. ring[q % UdpSize] = Frame(j)[i]
            BY <1>5, <1>16, <3>1, <3>2
        <3>9. g[j] = h[j]
            BY <1>9, <3>1
        <3> QED BY <3>2, <3>7, <3>8, <3>9
    <2> QED BY <1>3, <2>1, <2>2
<1>17. Layout(g)'
    <2>1. Len(sent') + 1 = S + 2 /\ taken_up' = u /\ Pending' = (u + 1)..(S + 1)
        BY <1>1, <1>3, <1>4 DEF Pending, S
    <2>2. taken' = g[taken_up' + 1] % UdpWrap
        BY <1>1, <1>5, <1>12
    <2>3. \A j \in 1..Len(sent') : g[j + 1] = g[j] + Udp!HEADER + Len(sent'[j])
        BY <1>4, <1>10
    <2>4. Udp!HEADER' = Udp!HEADER
        BY DEF Udp!HEADER
    <2>5. \A j \in Pending' : \A i \in 1..Len(Frame(j)') : ring'[(g[j] + i - 1) % UdpSize] = (Frame(j)')[i]
        BY <1>16, <2>1
    <2>6. rd' = g[IF pc' = "recv" THEN taken_up' + 2 ELSE taken_up' + 1] % UdpWrap
        BY <1>15, <2>1
    <2> QED BY <1>4, <1>9, <1>11, <1>13, <1>14, <2>1, <2>2, <2>3, <2>5, <2>6 DEF Layout, Udp!HEADER
<1> QED BY <1>17

LEMMA ArriveUdpInv ==
    ASSUME UdpInv, NEW d \in Payloads, Udp!Arrive(d)
    PROVE  UdpInv'
<1>1. PICK h : Layout(h)
    BY DEF UdpInv
<1>2. UdpTyped /\ Steady /\ Passing /\ Udp!TypeOK
    BY DEF UdpInv, UdpTyped
<1> DEFINE s == <<Len(sent), Len(d)>> \o d
<1>3. /\ sent' = Append(sent, d) /\ Udp!Store(s) /\ pc # "closed"
      /\ UNCHANGED <<taken, rd, pc, hi, prev, moved, n, buf, taken_up, result>>
    BY DEF Udp!Arrive, Udp!Store, Udp!reading
<1>4. d \in Seq(Int) /\ Len(d) \in Nat /\ Len(sent) \in Nat /\ taken_up \in Nat /\ taken_up <= Len(sent) /\ rsr \in Nat
    BY <1>2, UdpConstants, UdpTypes
<1>5. s \in Seq(Int) /\ Len(s) = 2 + Len(d)
    BY <1>4
<1>6. /\ rsr' = rsr + Len(s) /\ rsr + Len(s) <= UdpSize /\ wr' = Udp!Plus(wr, Len(s))
      /\ DOMAIN ring' = 0..(UdpSize - 1)
    BY <1>3 DEF Udp!Store
<1> HIDE DEF s
<1>7. /\ sent' \in Seq(Seq(Int)) /\ Len(sent') = Len(sent) + 1
      /\ \A j \in 1..Len(sent) : sent'[j] = sent[j]
    BY <1>2, <1>3, <1>4 DEF UdpTyped
<1>8. rsr' \in Nat /\ rsr' \in 0..UdpSize /\ rsr <= rsr'
    BY <1>4, <1>5, <1>6, UdpConstants
<1>9. UdpTyped'
    <2>1. wr' \in 0..(UdpWrap - 1)
        <3>1. wr \in 0..(UdpWrap - 1) /\ UdpWrap \in Nat
            BY <1>2, UdpConstants DEF Udp!TypeOK, Udp!RingTypeOK
        <3>2. wr + Len(s) \in Int
            BY <1>4, <1>5, <3>1
        <3> QED BY <1>6, <3>2, UdpPointer DEF Udp!Plus
    <2>2. taken_up' \in 0..Len(sent')
        BY <1>3, <1>4, <1>7
    <2>3. Udp!RingTypeOK'
        BY <1>2, <1>3, <1>6, <1>8, <2>1 DEF Udp!TypeOK, Udp!RingTypeOK, Udp!NoReading
    <2>4. Udp!TypeOK'
        BY <1>2, <1>3, <2>2, <2>3 DEF Udp!TypeOK
    <2> QED BY <1>2, <1>3, <1>7, <2>4 DEF UdpTyped
<1>10. taken_up < Len(sent) => taken_up' < Len(sent') /\ sent'[taken_up' + 1] = sent[taken_up + 1]
    BY <1>3, <1>4, <1>7
<1>11. (Whole(prev) => Whole(prev)') /\ (Whole(n) => Whole(n)')
    BY <1>3, <1>10 DEF Whole, Udp!HEADER
<1>12. Steady'
    <2>1. rsr \div UdpBase <= rsr' \div UdpBase /\ rsr \div UdpBase \in Nat /\ rsr' \div UdpBase \in Nat
        <3>1. UdpBase \in Nat /\ UdpBase > 0
            BY UdpConstants
        <3>2. \A w \in Nat : rsr <= w => rsr \div UdpBase <= w \div UdpBase /\ rsr \div UdpBase \in Nat /\ w \div UdpBase \in Nat
            BY <1>4, <3>1, DivMonotone
        <3> QED BY <1>8, <3>2
    <2>2. (rsr \div UdpBase) * UdpBase <= (rsr' \div UdpBase) * UdpBase
        <3>1. \A a, b, c \in Nat : a <= b => a * c <= b * c
            OBVIOUS
        <3> QED BY <2>1, <3>1, UdpConstants
    <2>9. (rsr \div UdpBase) * UdpBase \in Int /\ (rsr' \div UdpBase) * UdpBase \in Int
        BY <2>1, UdpConstants
    <2>3. prev # NoReading => prev \in Int
        BY <1>2, UdpConstants DEF Udp!TypeOK, Udp!RingTypeOK, Udp!NoReading, NoReading
    <2>4. hi \in Nat
        BY <1>2, UdpTypes
    <2>5. pc = "high" /\ prev # NoReading => Whole(prev)' \/ prev < (rsr' \div UdpBase) * UdpBase
        BY <1>2, <1>11, <2>2, <2>3, <2>9 DEF Steady
    <2>6. pc = "low" => hi <= rsr' \div UdpBase
        BY <1>2, <2>1, <2>4 DEF Steady
    <2>7. pc = "low" /\ prev # NoReading => Whole(prev)' \/ prev < hi * UdpBase
        BY <1>2, <1>11 DEF Steady
    <2>8. pc = "size" => Whole(n)'
        BY <1>2, <1>11 DEF Steady
    <2> QED BY <1>3, <2>5, <2>6, <2>7, <2>8 DEF Steady, Whole
<1>13. Passing'
    BY <1>2, <1>3, <1>10 DEF Passing, Udp!FramingKept
<1>14. (\E g : Layout(g))'
    BY <1>1, <1>2, ArriveLayout
<1> QED BY <1>9, <1>12, <1>13, <1>14 DEF UdpInv

\* A step of the driver that moves no pointer.
LEMMA LayoutStays ==
    ASSUME NEW h, Layout(h), UNCHANGED <<ring, wr, rsr, taken, rd, sent, taken_up>>,
           (pc = "recv") <=> (pc' = "recv")
    PROVE  Layout(h)'
<1>1. Pending' = Pending /\ \A j : Frame(j)' = Frame(j)
    BY DEF Pending, Frame
<1>2. rd' = h[IF pc' = "recv" THEN taken_up' + 2 ELSE taken_up' + 1] % UdpWrap
    BY DEF Layout
<1> QED BY <1>1, <1>2 DEF Layout, Udp!HEADER

LEMMA UdpReadHigh ==
    ASSUME UdpInv, Udp!ReadHigh, UNCHANGED <<sent, taken_up, result>>
    PROVE  UdpInv'
<1>1. PICK h : Layout(h)
    BY DEF UdpInv
<1>2. UdpTyped /\ Steady /\ Passing /\ Udp!TypeOK
    BY DEF UdpInv, UdpTyped
<1>3. /\ pc = "high" /\ pc' = "low" /\ hi' = rsr \div UdpBase
      /\ UNCHANGED <<ring, wr, rsr, taken, rd, prev, moved, n, buf>>
    BY DEF Udp!ReadHigh, Udp!chip
<1>4. hi' \in 0..(UdpSize \div UdpBase) /\ hi' <= rsr' \div UdpBase
    <2>1. rsr \in Nat /\ rsr <= UdpSize
        BY <1>2, UdpTypes
    <2>2. rsr \div UdpBase <= UdpSize \div UdpBase /\ rsr \div UdpBase \in Nat /\ UdpSize \div UdpBase \in Int
        BY <2>1, UdpConstants, DivMonotone
    <2> QED BY <1>3, <2>2
<1>5. UdpTyped'
    <2>1. Udp!TypeOK'
        BY <1>2, <1>3, <1>4 DEF Udp!TypeOK, Udp!RingTypeOK, Udp!NoReading
    <2> QED BY <1>2, <1>3, <2>1 DEF UdpTyped
<1>6. Steady'
    BY <1>2, <1>3, <1>4 DEF Steady, Whole
<1>7. Passing'
    BY <1>2, <1>3 DEF Passing, Udp!FramingKept
<1> QED BY <1>1, <1>3, <1>5, <1>6, <1>7, LayoutStays DEF UdpInv

\* Two equal readings are a number of whole datagrams, also when both are torn.
LEMMA UdpReadLow ==
    ASSUME UdpInv, Udp!ReadLow, UNCHANGED <<sent, taken_up, result>>
    PROVE  UdpInv'
<1>0. PICK v : v = Udp!Reading
    OBVIOUS
<1>1. PICK h : Layout(h)
    BY DEF UdpInv
<1>2. UdpTyped /\ Steady /\ Passing /\ Udp!TypeOK
    BY DEF UdpInv, UdpTyped
<1>3. /\ pc = "low" /\ pc' \in {"size", "high"} /\ UNCHANGED <<ring, wr, rsr, taken, rd, hi, buf>>
    BY DEF Udp!ReadLow, Udp!chip
<1>4. /\ rsr \in Nat /\ hi \in Nat /\ rsr \div UdpBase \in Nat /\ rsr % UdpBase \in Nat
      /\ rsr <= UdpSize /\ UdpSize \in Nat /\ UdpBase \in Nat /\ UdpBase > 0
      /\ Turns \in Nat /\ n \in 0..UdpSize /\ hi <= rsr \div UdpBase
      /\ moved \in 0..(Turns - 1) /\ prev \in {-1} \cup 0..(2 * UdpSize + UdpBase)
    BY <1>2, <1>3, UdpTypes, UdpConstants DEF Steady, Udp!TypeOK, Udp!RingTypeOK, Udp!NoReading
<1>5. v = (hi * UdpBase) + (rsr % UdpBase) /\ v \in 0..rsr
    BY <1>0, <1>4, TornLow DEF Udp!Reading
<1>6. buf = <<>> /\ Len(buf) = 0
    BY <1>2, <1>3 DEF Passing
<1>7. Whole(v) \/ v < (rsr \div UdpBase) * UdpBase
    <2>1. CASE hi = rsr \div UdpBase
        <3>1. v = rsr
            BY <1>4, <1>5, <2>1
        <3> QED BY <1>1, <1>2, <3>1, CountsWhole
    <2>2. CASE hi # rsr \div UdpBase
        <3> DEFINE q == rsr \div UdpBase
        <3>1. q \in Nat /\ hi + 1 <= q
            BY <1>4, <2>2
        <3>2. rsr % UdpBase < UdpBase
            BY <1>4
        <3> HIDE DEF q
        <3>3. (hi + 1) * UdpBase <= q * UdpBase
            BY <1>4, <3>1
        <3> QED BY <1>4, <1>5, <3>2, <3>3 DEF q
    <2> QED BY <2>1, <2>2
<1>8. CASE Udp!Settled
    <2>1. prev = v /\ n' = v /\ pc' = "size" /\ UNCHANGED <<prev, moved>>
        BY <1>0, <1>8 DEF Udp!ReadLow, Udp!Settled
    <2>2. prev # NoReading /\ ~(prev < hi * UdpBase)
        <3>1. hi * UdpBase \in Nat
            BY <1>4
        <3> QED BY <1>4, <1>5, <2>1, <3>1 DEF NoReading
    <2>3. Whole(n')
        BY <1>2, <1>3, <2>1, <2>2 DEF Steady
    <2>4. n' \in 0..UdpSize /\ Len(buf') <= n'
        BY <1>3, <1>4, <1>5, <1>6, <2>1
    <2>5. UdpTyped'
        <3>1. Udp!TypeOK'
            BY <1>2, <1>3, <2>1, <2>4 DEF Udp!TypeOK, Udp!RingTypeOK, Udp!NoReading
        <3> QED BY <1>2, <1>3, <3>1 DEF UdpTyped
    <2>6. Steady' /\ Passing'
        BY <1>2, <1>3, <1>6, <2>1, <2>3 DEF Steady, Whole, Passing, Udp!FramingKept
    <2> QED BY <1>1, <1>3, <2>5, <2>6, LayoutStays DEF UdpInv
<1>9. CASE ~Udp!Settled
    <2>1. /\ prev' = v /\ pc' = "high" /\ n' = n /\ moved' < Turns
          /\ moved' = IF prev = -1 THEN 0 ELSE moved + 1
        BY <1>0, <1>9 DEF Udp!ReadLow, Udp!NoReading
    <2>2. moved' \in 0..(Turns - 1) /\ prev' \in {-1} \cup 0..(2 * UdpSize + UdpBase)
        BY <1>4, <1>5, <2>1
    <2>3. UdpTyped'
        <3>1. Udp!TypeOK'
            BY <1>2, <1>3, <2>1, <2>2 DEF Udp!TypeOK, Udp!RingTypeOK, Udp!NoReading
        <3> QED BY <1>2, <1>3, <3>1 DEF UdpTyped
    <2>4. Steady' /\ Passing'
        <3>1. (Whole(v))' = Whole(v)
            BY DEF Whole
        <3> QED BY <1>2, <1>3, <1>6, <1>7, <2>1 DEF Steady, Whole, Passing, Udp!FramingKept
    <2> QED BY <1>1, <1>3, <2>3, <2>4, LayoutStays DEF UdpInv
<1> QED BY <1>8, <1>9

LEMMA UdpExpire ==
    ASSUME UdpInv, Udp!Expire, UNCHANGED <<sent, taken_up, result>>
    PROVE  UdpInv'
<1>1. PICK h : Layout(h)
    BY DEF UdpInv
<1>2. UdpTyped /\ Steady /\ Passing /\ Udp!TypeOK
    BY DEF UdpInv, UdpTyped
<1>3. /\ pc = "low" /\ pc' = "size" /\ n' = 0 /\ UNCHANGED <<ring, wr, rsr, taken, rd, hi, prev, moved, buf>>
    BY DEF Udp!Expire, Udp!chip, Udp!reading
<1>4. buf = <<>> /\ Len(buf') <= n' /\ n' \in 0..UdpSize
    BY <1>2, <1>3, UdpConstants DEF Passing
<1>5. UdpTyped'
    <2>1. Udp!TypeOK'
        BY <1>2, <1>3, <1>4 DEF Udp!TypeOK, Udp!RingTypeOK, Udp!NoReading
    <2> QED BY <1>2, <1>3, <2>1 DEF UdpTyped
<1>6. Steady' /\ Passing'
    BY <1>2, <1>3, <1>4 DEF Steady, Whole, Passing, Udp!FramingKept
<1> QED BY <1>1, <1>3, <1>5, <1>6, LayoutStays DEF UdpInv

LEMMA UdpTooFew ==
    ASSUME UdpInv, Udp!TooFew
    PROVE  UdpInv'
<1>1. PICK h : Layout(h)
    BY DEF UdpInv
<1>2. UdpTyped /\ Steady /\ Passing /\ Udp!TypeOK
    BY DEF UdpInv, UdpTyped
<1>3. /\ pc = "size" /\ pc' = "high" /\ prev' = -1 /\ moved' = 0 /\ buf' = <<>> /\ result' = <<>>
      /\ UNCHANGED <<ring, wr, rsr, taken, rd, hi, n, sent, taken_up>>
    BY DEF Udp!TooFew, Udp!Restart, Udp!chip, Udp!NoReading
<1>4. buf = <<>>
    BY <1>2, <1>3 DEF Passing
<1>5. UdpTyped'
    <2>1. 0 \in 0..(Turns - 1) /\ Len(result') <= 1
        BY <1>3, UdpConstants
    <2>2. Udp!TypeOK'
        BY <1>2, <1>3, <1>4, <2>1 DEF Udp!TypeOK, Udp!RingTypeOK, Udp!NoReading
    <2> QED BY <1>2, <1>3, <1>4, <2>2 DEF UdpTyped
<1>6. Steady' /\ Passing'
    BY <1>2, <1>3 DEF Steady, Passing, Udp!FramingKept, NoReading
<1> QED BY <1>1, <1>3, <1>5, <1>6, LayoutStays DEF UdpInv

\* The size that was found counts the next datagram, so its header is read in
\* its place: only its own length can make it implausible.
LEMMA Header ==
    ASSUME UdpInv, pc = "size", n >= Udp!HEADER
    PROVE  /\ taken_up < Len(sent) /\ n >= Udp!HEADER + Len(sent[taken_up + 1])
           /\ Udp!Length = Len(sent[taken_up + 1]) /\ Len(sent[taken_up + 1]) \in Nat
<1>1. PICK h : Layout(h)
    BY DEF UdpInv
<1>2. UdpTyped /\ Steady
    BY DEF UdpInv
<1>3. taken_up < Len(sent) /\ n >= Udp!HEADER + Len(sent[taken_up + 1])
    BY <1>2 DEF Steady, Whole, Udp!HEADER
<1>4. Udp!Length = Len(sent[taken_up + 1])
    BY <1>1, <1>2, <1>3, NextAt
<1>5. taken_up + 1 \in 1..Len(sent)
    BY <1>2, <1>3, UdpTypes
<1> QED BY <1>2, <1>3, <1>4, <1>5, UdpTypes

LEMMA UdpMalformed ==
    ASSUME UdpInv, Udp!Malformed
    PROVE  UdpInv'
<1>1. PICK h : Layout(h)
    BY DEF UdpInv
<1>2. UdpTyped /\ Steady /\ Passing /\ Udp!TypeOK
    BY DEF UdpInv, UdpTyped
<1>3. /\ pc = "size" /\ pc' = "closed" /\ result' = <<>> /\ n >= Udp!HEADER /\ ~Udp!Plausible(Udp!Length)
      /\ UNCHANGED <<ring, wr, rsr, taken, rd, hi, prev, moved, n, buf, sent, taken_up>>
    BY DEF Udp!Malformed, Udp!chip, Udp!reading
<1>4. /\ taken_up < Len(sent) /\ n >= Udp!HEADER + Len(sent[taken_up + 1])
      /\ Udp!Length = Len(sent[taken_up + 1]) /\ Len(sent[taken_up + 1]) \in Nat
    BY <1>3, Header
<1>5. Len(sent[taken_up + 1]) > MaxLen
    BY <1>2, <1>3, <1>4, UdpConstants, UdpTypes DEF Udp!Plausible, Udp!HEADER
<1>6. UdpTyped'
    <2>1. Len(result') <= 1
        BY <1>3
    <2>2. Udp!TypeOK'
        BY <1>2, <1>3, <2>1 DEF Udp!TypeOK, Udp!RingTypeOK, Udp!NoReading
    <2> QED BY <1>2, <1>3, <2>2 DEF UdpTyped
<1>7. Steady' /\ Passing'
    BY <1>2, <1>3, <1>4, <1>5 DEF Steady, Passing, Udp!FramingKept
<1> QED BY <1>1, <1>3, <1>6, <1>7, LayoutStays DEF UdpInv

LEMMA UdpBegin ==
    ASSUME UdpInv, Udp!Begin
    PROVE  UdpInv'
<1>1. PICK h : Layout(h)
    BY DEF UdpInv
<1>2. UdpTyped /\ Steady /\ Passing /\ Udp!TypeOK
    BY DEF UdpInv, UdpTyped
<1>3. /\ pc = "size" /\ pc' = "copy" /\ n >= Udp!HEADER /\ Udp!Plausible(Udp!Length) /\ Udp!Fits(Udp!Length)
      /\ n' = Udp!Length
      /\ UNCHANGED <<ring, wr, rsr, taken, rd, hi, prev, moved, buf, sent, taken_up, result>>
    BY DEF Udp!Begin, Udp!chip, Udp!reading
<1>4. taken_up < Len(sent) /\ n' = Len(sent[taken_up + 1]) /\ Len(sent[taken_up + 1]) \in Nat
    BY <1>3, Header
<1>5. buf = <<>> /\ Len(buf) = 0
    BY <1>2, <1>3 DEF Passing
<1>6. n' <= Cap /\ n' \in 0..UdpSize /\ Len(buf') <= n'
    <2>1. n' <= Cap /\ n' <= MaxLen
        BY <1>3 DEF Udp!Fits, Udp!Plausible
    <2> QED BY <1>3, <1>4, <1>5, <2>1, UdpConstants
<1>7. UdpTyped'
    <2>1. Udp!TypeOK'
        BY <1>2, <1>3, <1>6 DEF Udp!TypeOK, Udp!RingTypeOK, Udp!NoReading
    <2> QED BY <1>2, <1>3, <2>1 DEF UdpTyped
<1>8. Steady'
    BY <1>3 DEF Steady
<1>9. Passing'
    <2>1. \A i \in 1..Len(buf') : buf'[i] = sent'[taken_up' + 1][i]
        BY <1>3, <1>5
    <2> QED BY <1>3, <1>4, <1>6, <2>1 DEF Passing, Udp!FramingKept
<1> QED BY <1>1, <1>3, <1>7, <1>8, <1>9, LayoutStays DEF UdpInv

LEMMA UdpCopy ==
    ASSUME UdpInv, Udp!Copy
    PROVE  UdpInv'
<1>1. PICK h : Layout(h)
    BY DEF UdpInv
<1>2. UdpTyped /\ Steady /\ Passing /\ Udp!TypeOK
    BY DEF UdpInv, UdpTyped
<1> DEFINE d == sent[taken_up + 1]
           l == Len(buf)
<1>3. /\ pc = "copy" /\ pc' = pc /\ l < n /\ buf' = Append(buf, Udp!At(Udp!Plus(rd, Udp!HEADER + l)))
      /\ UNCHANGED <<ring, wr, rsr, taken, rd, hi, prev, moved, n, sent, taken_up, result>>
    BY DEF Udp!Copy, Udp!CopyFrom, Udp!chip, Udp!reading
<1>4. /\ taken_up < Len(sent) /\ n = Len(d) /\ n <= Cap
      /\ \A i \in 1..l : buf[i] = d[i]
    BY <1>2, <1>3 DEF Passing
<1>5. d \in Seq(Int) /\ Len(d) \in Nat /\ l \in Nat /\ buf \in Seq(Int)
    <2>1. taken_up + 1 \in 1..Len(sent)
        BY <1>2, <1>4, UdpTypes
    <2> QED BY <1>2, <2>1, UdpTypes
<1>6. Udp!At(Udp!Plus(rd, Udp!HEADER + l)) = d[l + 1]
    <2>1. l + 1 \in 1..Len(d) /\ (l + 1) - 1 = l
        BY <1>3, <1>4, <1>5
    <2>2. Udp!At(Udp!Plus(rd, Udp!HEADER + ((l + 1) - 1))) = d[l + 1]
        BY <1>1, <1>2, <1>3, <1>4, <2>1, NextAt
    <2> QED BY <2>1, <2>2
<1>7. UNCHANGED d
    BY <1>3
<1> HIDE DEF d
<1>8. d[l + 1] \in Int /\ buf' = Append(buf, d[l + 1])
    <2>1. l + 1 \in 1..Len(d)
        BY <1>3, <1>4, <1>5
    <2> QED BY <1>3, <1>5, <1>6, <2>1
<1>9. buf' \in Seq(Int) /\ Len(buf') = l + 1 /\ \A i \in 1..(l + 1) : buf'[i] = d[i]
    BY <1>4, <1>5, <1>8
<1>10. Len(buf') <= n'
    BY <1>3, <1>4, <1>5, <1>9
<1>11. UdpTyped'
    <2>1. Udp!TypeOK'
        BY <1>2, <1>3, <1>10 DEF Udp!TypeOK, Udp!RingTypeOK, Udp!NoReading
    <2> QED BY <1>2, <1>3, <1>9, <2>1 DEF UdpTyped
<1>12. Steady' /\ Passing'
    <2>1. \A i \in 1..Len(buf') : buf'[i] = sent'[taken_up' + 1][i]
        BY <1>7, <1>9 DEF d
    <2> QED BY <1>3, <1>4, <2>1 DEF Steady, Passing, Udp!FramingKept, d
<1> QED BY <1>1, <1>3, <1>11, <1>12, LayoutStays DEF UdpInv

\* Passing a datagram moves rd to the next header.
LEMMA RdPasses ==
    ASSUME UdpTyped, NEW h, Layout(h), pc # "recv", pc' = "recv", taken_up < Len(sent),
           rd' = Udp!Plus(rd, Len(sent[taken_up + 1]) + Udp!HEADER),
           UNCHANGED <<ring, wr, rsr, taken, sent, taken_up>>
    PROVE  Layout(h)' /\ rd' \in 0..(UdpWrap - 1)
<1> DEFINE m == Len(sent[taken_up + 1])
<1>1. taken_up + 1 \in 1..Len(sent) /\ taken_up + 1 \in 1..(Len(sent) + 1) /\ taken_up + 2 \in 1..(Len(sent) + 1)
      /\ (taken_up + 1) + 1 = taken_up + 2
    <2>1. taken_up \in Nat /\ Len(sent) \in Nat /\ taken_up <= Len(sent)
        BY UdpTypes
    <2> QED BY <2>1
<1>2. m \in Nat /\ h[taken_up + 1] \in Nat /\ h[taken_up + 2] = h[taken_up + 1] + Udp!HEADER + m
    BY <1>1, UdpTypes DEF Layout
<1>3. rd = h[taken_up + 1] % UdpWrap
    BY DEF Layout
<1> HIDE DEF m
<1>4. rd' = h[taken_up + 2] % UdpWrap
    <2>1. m + Udp!HEADER \in Int /\ h[taken_up + 1] + (m + Udp!HEADER) = h[taken_up + 2]
        BY <1>2 DEF Udp!HEADER
    <2>2. ((h[taken_up + 1] % UdpWrap) + (m + Udp!HEADER)) % UdpWrap = (h[taken_up + 1] + (m + Udp!HEADER)) % UdpWrap
        <3>1. PICK a : a = h[taken_up + 1]
            OBVIOUS
        <3>2. PICK b : b = m + Udp!HEADER
            OBVIOUS
        <3>3. a \in Int /\ b \in Int
            BY <1>2, <2>1, <3>1, <3>2
        <3>4. ((a % UdpWrap) + b) % UdpWrap = (a + b) % UdpWrap
            BY <3>3, UdpPointer
        <3> QED BY <3>1, <3>2, <3>4
    <2> QED BY <1>3, <2>1, <2>2 DEF Udp!Plus, m
<1>5. h[taken_up + 2] \in Int
    BY <1>2 DEF Udp!HEADER
<1>6. Pending' = Pending /\ \A j : Frame(j)' = Frame(j)
    BY DEF Pending, Frame
<1> QED BY <1>4, <1>5, <1>6, UdpPointer DEF Layout, Udp!HEADER

LEMMA UdpPasses ==
    ASSUME UdpInv, Udp!Oversized \/ Udp!Consume
    PROVE  UdpInv'
<1>1. PICK h : Layout(h)
    BY DEF UdpInv
<1>2. UdpTyped /\ Steady /\ Passing /\ Udp!TypeOK
    BY DEF UdpInv, UdpTyped
<1> DEFINE d == sent[taken_up + 1]
<1>3. /\ pc \in {"size", "copy"} /\ pc' = "recv"
      /\ UNCHANGED <<ring, wr, rsr, taken, hi, prev, moved, buf, sent, taken_up, result>>
    BY DEF Udp!Oversized, Udp!Consume, Udp!WriteRd, Udp!chip, Udp!reading
<1>4. /\ taken_up < Len(sent) /\ rd' = Udp!Plus(rd, Len(d) + Udp!HEADER)
      /\ n' \in 0..UdpSize /\ Len(buf) <= n'
      /\ buf = IF Len(d) <= Cap THEN d ELSE <<>>
    <2>1. CASE Udp!Oversized
        <3>1. pc = "size" /\ n >= Udp!HEADER /\ ~Udp!Fits(Udp!Length) /\ n' = 0
              /\ rd' = Udp!Plus(rd, Udp!Length + Udp!HEADER)
            BY <2>1 DEF Udp!Oversized
        <3>2. taken_up < Len(sent) /\ Udp!Length = Len(d)
            BY <3>1, Header
        <3>3. buf = <<>> /\ Len(buf) = 0
            BY <1>2, <3>1 DEF Passing
        <3> QED BY <3>1, <3>2, <3>3, UdpConstants DEF Udp!Fits
    <2>2. CASE Udp!Consume
        <3>1. pc = "copy" /\ Len(buf) = n /\ n' = n /\ rd' = Udp!Plus(rd, n + Udp!HEADER)
            BY <2>2 DEF Udp!Consume, Udp!WriteRd
        <3>2. taken_up < Len(sent) /\ n = Len(d) /\ n <= Cap /\ \A i \in 1..Len(buf) : buf[i] = d[i]
            BY <1>2, <3>1 DEF Passing
        <3>3. n \in 0..UdpSize /\ buf \in Seq(Int) /\ Len(buf) \in Nat
            BY <1>2, UdpTypes, UdpConstants
        <3>4. d \in Seq(Int)
            <4>1. taken_up + 1 \in 1..Len(sent)
                BY <1>2, <3>2, UdpTypes
            <4> QED BY <1>2, <4>1, UdpTypes
        <3>5. buf = d
            BY <3>1, <3>2, <3>3, <3>4, SameSequence
        <3> QED BY <3>1, <3>2, <3>3, <3>5
    <2> QED BY <2>1, <2>2
<1>5. Layout(h)' /\ rd' \in 0..(UdpWrap - 1)
    BY <1>1, <1>2, <1>3, <1>4, RdPasses
<1>6. UdpTyped'
    <2>1. Udp!TypeOK'
        BY <1>2, <1>3, <1>4, <1>5 DEF Udp!TypeOK, Udp!RingTypeOK, Udp!NoReading
    <2> QED BY <1>2, <1>3, <2>1 DEF UdpTyped
<1>7. Steady' /\ Passing'
    BY <1>3, <1>4 DEF Steady, Passing, Udp!FramingKept
<1> QED BY <1>5, <1>6, <1>7 DEF UdpInv

\* RECV releases one datagram with its header.
LEMMA UdpRecv ==
    ASSUME UdpInv, Udp!Recv
    PROVE  UdpInv'
<1>1. PICK h : Layout(h)
    BY DEF UdpInv
<1>2. UdpTyped /\ Steady /\ Passing /\ Udp!TypeOK
    BY DEF UdpInv, UdpTyped
<1>3. /\ pc = "recv" /\ pc' = "high" /\ prev' = -1 /\ moved' = 0 /\ buf' = <<>>
      /\ rsr' = rsr - ((rd + UdpWrap - taken) % UdpWrap) /\ taken' = rd /\ taken_up' = taken_up + 1
      /\ result' = IF buf = <<>> THEN <<>> ELSE <<buf>>
      /\ UNCHANGED <<ring, wr, rd, hi, n, sent>>
    BY DEF Udp!Recv, Udp!Release, Udp!Restart, Udp!NoReading
<1> DEFINE S == Len(sent)
           u == taken_up
           a == h[u + 1]
           b == h[u + 2]
<1>4. u < S /\ u \in Nat /\ S \in Nat
    BY <1>2, <1>3, UdpTypes DEF Passing
<1>5. u + 1 \in 1..(S + 1) /\ u + 2 \in 1..(S + 1) /\ S + 1 \in 1..(S + 1) /\ u + 1 <= u + 2 /\ u + 2 <= S + 1
    BY <1>4
<1>6. a \in Nat /\ b \in Nat /\ a <= b /\ b <= h[S + 1] /\ h[S + 1] \in Nat /\ rsr = h[S + 1] - a
    BY <1>1, <1>5 DEF Layout
<1>7. rd = b % UdpWrap /\ taken = a % UdpWrap
    BY <1>1, <1>3 DEF Layout
<1>8. rsr <= UdpSize /\ rsr \in Nat /\ UdpSize \in Nat /\ UdpWrap \in Nat /\ UdpWrap > UdpSize
    BY <1>2, UdpTypes, UdpConstants
<1> HIDE DEF a, b
<1>9. rsr' = h[S + 1] - b /\ rsr' \in 0..UdpSize
    <2> DEFINE m == b - a
    <2>1. m \in 0..(UdpWrap - 1) /\ a + m = b /\ m <= rsr
        BY <1>6, <1>8
    <2>2. (((a + m) % UdpWrap) + UdpWrap - (a % UdpWrap)) % UdpWrap = m
        <3>1. m \in 0..(UdpWrap - 1) /\ a \in Int /\ UdpWrap \in Nat /\ UdpWrap > 0
            BY <1>6, <1>8, <2>1
        <3> HIDE DEF m
        <3>2. (((a + m) % UdpWrap) + UdpWrap - (a % UdpWrap)) % UdpWrap = m
            BY <3>1, Distance
        <3> QED BY <3>2
    <2>3. rsr' = rsr - m
        BY <1>3, <1>7, <2>1, <2>2
    <2> QED BY <1>6, <1>8, <2>1, <2>3
<1>10. Layout(h)'
    <2>1. \A j \in Pending' : j \in Pending
        BY <1>3, <1>4 DEF Pending
    <2>2. \A j : Frame(j)' = Frame(j)
        BY <1>3 DEF Frame
    <2>3. taken_up' + 1 = u + 2
        BY <1>3, <1>4
    <2>4. taken' = h[taken_up' + 1] % UdpWrap /\ rd' = h[taken_up' + 1] % UdpWrap /\ rsr' = h[Len(sent') + 1] - h[taken_up' + 1]
        BY <1>3, <1>7, <1>9, <2>3 DEF b
    <2>5. \A j \in Pending' : \A i \in 1..Len(Frame(j)') : ring'[(h[j] + i - 1) % UdpSize] = (Frame(j)')[i]
        BY <1>1, <1>3, <2>1, <2>2 DEF Layout
    <2> QED BY <1>1, <1>3, <2>4, <2>5 DEF Layout, Udp!HEADER
<1>11. UdpTyped'
    <2>1. 0 \in 0..(Turns - 1) /\ Len(result') <= 1 /\ Len(buf') = 0 /\ n \in Nat
        BY <1>2, <1>3, UdpConstants, UdpTypes
    <2>2. taken' \in 0..(UdpWrap - 1) /\ taken_up' \in 0..Len(sent') /\ Len(buf') <= n'
        BY <1>2, <1>3, <1>4, <2>1 DEF Udp!TypeOK, Udp!RingTypeOK
    <2>3. Udp!TypeOK'
        BY <1>2, <1>3, <1>9, <2>1, <2>2 DEF Udp!TypeOK, Udp!RingTypeOK, Udp!NoReading
    <2>4. buf' \in Seq(Int)
        BY <1>3
    <2> QED BY <1>2, <1>3, <2>3, <2>4 DEF UdpTyped
<1>12. Steady' /\ Passing'
    BY <1>3 DEF Steady, Passing, Udp!FramingKept, NoReading
<1> QED BY <1>10, <1>11, <1>12 DEF UdpInv

\* An opened socket: no datagram, all pointers at one place.
LEMMA UdpFresh ==
    ASSUME sent = <<>>, taken_up = 0, rsr = 0, pc = "high", NEW p \in 0..(UdpWrap - 1), wr = p, taken = p, rd = p
    PROVE  Layout([j \in {1} |-> p])
<1> DEFINE h == [j \in {1} |-> p]
<1>1. Len(sent) = 0 /\ 1..(Len(sent) + 1) = {1} /\ 1..Len(sent) = {} /\ Pending = {}
    BY DEF Pending
<1>2. h \in [{1} -> Nat] /\ h[1] = p
    BY UdpConstants
<1>3. p % UdpWrap = p
    BY UdpConstants
<1> HIDE DEF h
<1>4. h[Len(sent) + 1] = p /\ h[taken_up + 1] = p
    BY <1>1, <1>2
<1>5. /\ rsr = h[Len(sent) + 1] - h[taken_up + 1] /\ wr = h[Len(sent) + 1] % UdpWrap
      /\ taken = h[taken_up + 1] % UdpWrap
      /\ rd = h[IF pc = "recv" THEN taken_up + 2 ELSE taken_up + 1] % UdpWrap
    <2>1. p \in Int
        BY UdpConstants
    <2> QED BY <1>3, <1>4, <2>1
<1>6. \A i, j \in {1} : i <= j => h[i] <= h[j]
    BY <1>2, UdpConstants
<1>7. Layout(h)
    BY <1>1, <1>2, <1>5, <1>6 DEF Layout
<1> QED BY <1>7 DEF h

LEMMA UdpReopen ==
    ASSUME UdpInv, Udp!Reopen
    PROVE  UdpInv'
<1>1. PICK p \in 0..(UdpWrap - 1) : wr' = p /\ rd' = p /\ taken' = p
    BY DEF Udp!Reopen
<1>2. UdpTyped /\ Udp!TypeOK
    BY DEF UdpInv, UdpTyped
<1>3. /\ pc' = "high" /\ prev' = -1 /\ moved' = 0 /\ buf' = <<>> /\ rsr' = 0 /\ n' = 0
      /\ sent' = <<>> /\ taken_up' = 0 /\ result' = <<>> /\ UNCHANGED <<ring, hi>>
    BY DEF Udp!Reopen, Udp!Restart, Udp!NoReading
<1>4. (\E h : Layout(h))'
    <2>1. PICK h : h = [j \in {1} |-> p]
        OBVIOUS
    <2>2. h \in [{1} -> Nat] /\ h[1] = p /\ p \in Nat /\ p \in Int /\ p % UdpWrap = p
        BY <2>1, UdpConstants
    <2>3. Len(sent') = 0 /\ 1..(Len(sent') + 1) = {1} /\ 1..Len(sent') = {} /\ Pending' = {}
        BY <1>3 DEF Pending
    <2>4. h[Len(sent') + 1] = p /\ h[taken_up' + 1] = p
        BY <1>3, <2>2, <2>3
    <2>5. rd' = h[IF pc' = "recv" THEN taken_up' + 2 ELSE taken_up' + 1] % UdpWrap
        BY <1>1, <1>3, <2>2, <2>4
    <2>6. rsr' = h[Len(sent') + 1] - h[taken_up' + 1]
        BY <1>3, <2>2, <2>4
    <2>7. \A i, j \in {1} : i <= j => h[i] <= h[j]
        BY <2>2
    <2> QED BY <1>1, <2>2, <2>3, <2>4, <2>5, <2>6, <2>7 DEF Layout
<1>5. UdpTyped'
    <2>1. 0 \in 0..(Turns - 1) /\ 0 \in 0..UdpSize /\ Len(<<>>) = 0 /\ 0 \in 0..0
        BY UdpConstants
    <2>2. Udp!TypeOK'
        BY <1>1, <1>2, <1>3, <2>1 DEF Udp!TypeOK, Udp!RingTypeOK, Udp!NoReading
    <2>3. buf' \in Seq(Int) /\ sent' \in Seq(Seq(Int))
        BY <1>3
    <2> QED BY <2>2, <2>3 DEF UdpTyped
<1>6. Steady' /\ Passing'
    BY <1>3 DEF Steady, Passing, Udp!FramingKept, NoReading
<1> QED BY <1>4, <1>5, <1>6 DEF UdpInv

LEMMA UdpInit ==
    ASSUME Udp!Init
    PROVE  UdpInv
<1>1. PICK p \in 0..(UdpWrap - 1) : Udp!InitRing(p)
    BY DEF Udp!Init
<1>2. /\ ring = [o \in 0..(UdpSize - 1) |-> 0] /\ wr = p /\ rd = p /\ taken = p /\ rsr = 0
      /\ pc = "high" /\ hi = 0 /\ prev = -1 /\ moved = 0 /\ n = 0 /\ buf = <<>>
      /\ sent = <<>> /\ taken_up = 0 /\ result = <<>>
    BY <1>1 DEF Udp!Init, Udp!InitRing, Udp!NoReading
<1>3. \E h : Layout(h)
    BY <1>2, UdpFresh
<1>4. UdpTyped
    <2>1. 0 \in 0..(Turns - 1) /\ 0 \in 0..UdpSize /\ Len(<<>>) = 0 /\ 0 \in 0..0 /\ 0 \in 0..(UdpSize \div UdpBase)
        BY UdpConstants
    <2>2. Udp!TypeOK
        BY <1>2, <2>1 DEF Udp!TypeOK, Udp!RingTypeOK, Udp!NoReading
    <2> QED BY <1>2, <2>2 DEF UdpTyped
<1>5. Steady /\ Passing
    BY <1>2 DEF Steady, Passing, Udp!FramingKept, NoReading
<1> QED BY <1>3, <1>4, <1>5 DEF UdpInv

LEMMA UdpStutter ==
    ASSUME UdpInv, UNCHANGED <<vars, datagrams>>
    PROVE  UdpInv'
<1>1. UNCHANGED <<ring, wr, rsr, taken, rd, pc, hi, prev, moved, n, buf, sent, taken_up, result>>
    BY DEF vars, ringVars, chip, reading, datagrams
<1>2. UdpTyped' /\ Steady' /\ Passing'
    BY <1>1 DEF UdpInv, UdpTyped, Udp!TypeOK, Udp!RingTypeOK, Udp!NoReading, Steady, Whole, Passing, Udp!FramingKept
<1> QED BY <1>1, <1>2, LayoutStays DEF UdpInv

LEMMA UdpNext ==
    ASSUME UdpInv, Udp!Next
    PROVE  UdpInv'
<1>1. ASSUME Udp!Driver PROVE UdpInv'
    BY <1>1, UdpReadHigh, UdpReadLow, UdpExpire, UdpTooFew, UdpMalformed, UdpBegin, UdpCopy, UdpPasses, UdpRecv,
       UdpReopen DEF Udp!Driver
<1> QED BY <1>1, ArriveUdpInv DEF Udp!Next

-----------------------------------------------------------------------------
(* Reception over UDP: theorems *)

\* The ring holds whole datagrams from where udp_recv() will read the next
\* header, and two equal readings of the size count whole datagrams.
THEOREM DatagramInvariance == SocketSpec => [](mode = "udp" => UdpInv)
<1> DEFINE I == mode = "udp" => UdpInv
<1>1. SocketInit => I
    BY UdpInit DEF SocketInit
<1>2. I /\ [SocketNext]_socketVars => I'
    <2> SUFFICES ASSUME I, [SocketNext]_socketVars, mode' = "udp" PROVE UdpInv'
        OBVIOUS
    <2>1. mode = "udp" /\ UdpInv
        BY DEF SocketNext, socketVars
    <2>2. CASE SocketNext
        BY <2>1, <2>2, UdpNext DEF SocketNext
    <2>3. CASE UNCHANGED socketVars
        BY <2>1, <2>3, UdpStutter DEF socketVars
    <2> QED BY <2>2, <2>3
<1> QED BY <1>1, <1>2, PTL DEF SocketSpec

\* udp_recv() never loses the place of the next header, whatever arrives while
\* it reads the size, and closes the socket only on a datagram too long.
THEOREM DatagramsFramed == SocketSpec => []UdpFramed
<1>1. (mode = "udp" => UdpInv) => UdpFramed
    BY DEF UdpFramed, UdpInv, UdpTyped, Passing
<1> QED BY <1>1, DatagramInvariance, PTL

\* What udp_recv() hands over is the next datagram, as it was sent.
THEOREM DatagramsWhole == SocketSpec => UdpWhole
<1>1. (mode = "udp" => UdpInv) /\ [SocketNext]_socketVars => [mode = "udp" => Udp!WholeDatagrams]_socketVars
    <2> SUFFICES ASSUME UdpInv, mode = "udp", [SocketNext]_socketVars, pc = "recv", pc' = "high"
                 PROVE  result' = IF Len(sent[taken_up']) \in 1..Cap THEN <<sent[taken_up']>> ELSE <<>>
        BY DEF Udp!WholeDatagrams
    <2> DEFINE d == sent[taken_up + 1]
    <2>1. SocketNext /\ Udp!Next
        BY DEF SocketNext, socketVars, vars, ringVars
    <2>2. Udp!Recv
        BY <2>1 DEF Udp!Next, Udp!Driver, Udp!Arrive, Udp!Store, Udp!ReadHigh, Udp!ReadLow, Udp!Expire, Udp!TooFew,
           Udp!Malformed, Udp!Oversized, Udp!Begin, Udp!Copy, Udp!CopyFrom, Udp!Consume, Udp!Reopen
    <2>3. taken_up' = taken_up + 1 /\ result' = IF buf = <<>> THEN <<>> ELSE <<buf>>
        BY <2>2 DEF Udp!Recv
    <2>4. taken_up < Len(sent) /\ buf = IF Len(d) <= Cap THEN d ELSE <<>>
        BY DEF UdpInv, Passing
    <2>5. d \in Seq(Int) /\ Len(d) \in Nat /\ (d = <<>> <=> Len(d) = 0)
        <3>1. taken_up + 1 \in 1..Len(sent)
            BY <2>4, UdpTypes DEF UdpInv
        <3>2. d \in Seq(Int) /\ Len(d) \in Nat
            BY <3>1, UdpTypes DEF UdpInv
        <3> HIDE DEF d
        <3> QED BY <3>2
    <2> HIDE DEF d
    <2>6. result' = IF Len(d) \in 1..Cap THEN <<d>> ELSE <<>>
        BY <2>3, <2>4, <2>5, UdpConstants
    <2> QED BY <2>3, <2>6 DEF d
<1> QED BY <1>1, DatagramInvariance, PTL DEF SocketSpec, UdpWhole

=============================================================================
