--------------------------- MODULE OtaStreamProofs ---------------------------
(***************************************************************************)
(* The download loop of src/ota.c for every page size, flash size and      *)
(* image: the pages it writes are aligned, inside the application area,    *)
(* padded, hold the stream in order, and belong to the image.              *)
(***************************************************************************)
EXTENDS OtaStream, TLAPS

PageLength == IF Len(image) - at > PAGE_SIZE THEN PAGE_SIZE ELSE Len(image) - at

\* Only the last page of an image is shorter than a page, so an unaligned
\* address is never the start of another one.
Pace ==
    /\ pc = "loop" => at <= Len(image) /\ (at < Len(image) => Aligned(at))
    /\ pc = "bytes" =>
          /\ at < Len(image) /\ Aligned(at)
          /\ n = PageLength /\ i <= n

IInv == TypeOK /\ Pace /\ Padded /\ StreamInPlace

-----------------------------------------------------------------------------
(* Page arithmetic *)

LEMMA Monotone ==
    ASSUME NEW p \in Nat, NEW k \in Nat, NEW m \in Nat, k <= m
    PROVE  k * p <= m * p
OBVIOUS

LEMMA Distributes ==
    ASSUME NEW p \in Nat, NEW k \in Nat
    PROVE  (k + 1) * p = k * p + p
OBVIOUS

\* The page number of an aligned address below the boot section.
LEMMA PageOf ==
    ASSUME NEW a \in Nat, Aligned(a), a < APP_END
    PROVE  \E k \in 0..(AppPages - 1) : a = k * PAGE_SIZE /\ a + PAGE_SIZE <= APP_END
<1>1. PICK k \in 0..a : a = k * PAGE_SIZE
      BY DEF Aligned
<1>2. k < AppPages
  <2> SUFFICES ASSUME AppPages <= k PROVE FALSE
      BY <1>1, StreamAssumption
  <2> QED
      BY <1>1, StreamAssumption, Monotone DEF APP_END
<1>3. (k + 1) * PAGE_SIZE <= AppPages * PAGE_SIZE
      BY <1>1, <1>2, StreamAssumption, Monotone
<1>4. (k + 1) * PAGE_SIZE = a + PAGE_SIZE
      BY <1>1, StreamAssumption, Distributes
<1> QED
      BY <1>1, <1>2, <1>3, <1>4, StreamAssumption DEF APP_END

LEMMA NextAligned ==
    ASSUME NEW a \in Nat, Aligned(a)
    PROVE  Aligned(a + PAGE_SIZE)
<1>1. PICK k \in 0..a : a = k * PAGE_SIZE
      BY DEF Aligned
<1>2. (k + 1) * PAGE_SIZE = a + PAGE_SIZE
      BY <1>1, StreamAssumption, Distributes
<1>3. k + 1 \in 0..(a + PAGE_SIZE)
      BY <1>1, StreamAssumption
<1> QED
      BY <1>2, <1>3 DEF Aligned

LEMMA ZeroAligned == Aligned(0)
BY StreamAssumption DEF Aligned

LEMMA AppEnd == APP_END \in Nat
BY StreamAssumption DEF APP_END

LEMMA ImageSize ==
    ASSUME image \in Requests
    PROVE  image \in Seq(Byte) /\ Len(image) \in Nat \ {0} /\ Len(image) <= APP_END
BY StreamAssumption, AppEnd

-----------------------------------------------------------------------------
(* Invariance *)

LEMMA Initially == Init => IInv
<1> SUFFICES ASSUME Init PROVE IInv
    OBVIOUS
<1>1. page \in [PageBytes -> Byte]
      BY StreamAssumption DEF Init
<1>2. flash \in [Addresses -> Byte]
  <2>1. PICK b \in {255} \cup Data : flash = [a \in Addresses |-> b]
        BY DEF Init
  <2>2. b \in Byte
        BY StreamAssumption DEF Byte
  <2> QED
        BY <2>1, <2>2
<1> QED
      BY <1>1, <1>2, StreamAssumption, AppEnd
      DEF Init, IInv, TypeOK, Pace, Padded, StreamInPlace

LEMMA BeginKeeps ==
    ASSUME IInv, Begin
    PROVE  IInv'
<1>1. page' \in [PageBytes -> Byte]
      BY StreamAssumption DEF Begin
<1>2. TypeOK'
      BY <1>1, AppEnd DEF Begin, IInv, TypeOK
<1>3. Pace'
      BY ZeroAligned, ImageSize DEF Begin, IInv, TypeOK, Pace
<1>4. Padded'
      BY DEF Begin, Padded
<1>5. StreamInPlace'
      BY DEF Begin, StreamInPlace
<1> QED
      BY <1>2, <1>3, <1>4, <1>5 DEF IInv

LEMMA NextPageKeeps ==
    ASSUME IInv, NextPage
    PROVE  IInv'
<1>1. n' \in 0..PAGE_SIZE /\ n' = PageLength' /\ n' > 0
      BY StreamAssumption, ImageSize, AppEnd DEF NextPage, IInv, TypeOK, PageLength
<1>2. page' \in [PageBytes -> Byte]
      BY DEF NextPage, Byte
<1>3. TypeOK'
      BY <1>1, <1>2, StreamAssumption DEF NextPage, IInv, TypeOK
<1>4. Pace'
      BY <1>1 DEF NextPage, IInv, Pace, Aligned
<1>5. Padded'
      BY DEF NextPage, Padded
<1>6. StreamInPlace'
      BY StreamAssumption, AppEnd DEF NextPage, IInv, TypeOK, StreamInPlace
<1> QED
      BY <1>3, <1>4, <1>5, <1>6 DEF IInv

LEMMA ReceiveByteKeeps ==
    ASSUME IInv, NEW c \in Data, ReceiveByte(c)
    PROVE  IInv'
<1>1. c \in Byte /\ i \in PageBytes /\ i + 1 <= n
      BY StreamAssumption DEF ReceiveByte, IInv, TypeOK, PageBytes
<1>2. TypeOK'
      BY <1>1, StreamAssumption DEF ReceiveByte, IInv, TypeOK, PageBytes
<1>3. Pace'
      BY <1>1 DEF ReceiveByte, IInv, TypeOK, Pace, PageLength, Aligned
<1>4. Padded'
      BY <1>1 DEF ReceiveByte, IInv, TypeOK, Padded, PageBytes
<1>5. StreamInPlace'
  <2>0. at + i' = at + i + 1
        BY AppEnd DEF ReceiveByte, IInv, TypeOK
  <2> SUFFICES ASSUME good
               PROVE  /\ Len(crc') = at + i + 1
                      /\ \A a \in 1..at : flash[a - 1] = crc'[a]
                      /\ \A a \in (at + 1)..(at + i + 1) : page'[a - at - 1] = crc'[a]
      BY <2>0 DEF ReceiveByte, StreamInPlace
  <2>1. /\ at \in Nat /\ i \in Nat /\ crc \in Seq(Byte)
        /\ Len(crc) = at + i
        /\ \A a \in 1..at : flash[a - 1] = crc[a]
        /\ \A a \in (at + 1)..(at + i) : page[a - at - 1] = crc[a]
        BY AppEnd DEF ReceiveByte, IInv, TypeOK, StreamInPlace
  <2>2. Len(crc') = at + i + 1 /\ crc'[at + i + 1] = c
        BY <1>1, <2>1 DEF ReceiveByte
  <2>3. \A a \in 1..(at + i) : crc'[a] = crc[a]
        BY <1>1, <2>1 DEF ReceiveByte
  <2>4. page'[i] = c /\ \A j \in PageBytes \ {i} : page'[j] = page[j]
        BY <1>1 DEF ReceiveByte, IInv, TypeOK
  <2>5. \A a \in 1..at : flash[a - 1] = crc'[a]
        BY <2>1, <2>3
  <2>6. ASSUME NEW a \in (at + 1)..(at + i + 1)
        PROVE  page'[a - at - 1] = crc'[a]
    <3>1. CASE a = at + i + 1
          BY <2>1, <2>2, <2>4, <3>1
    <3>2. CASE a # at + i + 1
      <4>1. a \in (at + 1)..(at + i) /\ a \in 1..(at + i)
            BY <2>1, <3>2
      <4>2. a - at - 1 \in PageBytes \ {i}
            BY <1>1, <2>1, <4>1, StreamAssumption DEF PageBytes
      <4> QED
            BY <2>1, <2>3, <2>4, <4>1, <4>2
    <3> QED
          BY <3>1, <3>2
  <2> QED
        BY <2>2, <2>5, <2>6
<1> QED
      BY <1>2, <1>3, <1>4, <1>5 DEF IInv

\* What the guards of flash_write see.
LEMMA Accepted == IInv => WritesAccepted
<1> SUFFICES ASSUME IInv, pc = "bytes"
             PROVE  Aligned(at) /\ range_ok(at, PAGE_SIZE)
    BY DEF WritesAccepted
<1>1. Aligned(at) /\ at \in Nat /\ at < APP_END
      BY ImageSize, AppEnd DEF IInv, TypeOK, Pace
<1>2. at + PAGE_SIZE <= APP_END
      BY <1>1, PageOf
<1> QED
      BY <1>1, <1>2, AppEnd, StreamAssumption DEF range_ok

LEMMA WritePageKeeps ==
    ASSUME IInv, NEW bad \in Addresses \cup {-1}, NEW b \in Data, WritePage(bad, b)
    PROVE  IInv'
<1>1. Aligned(at) /\ range_ok(at, PAGE_SIZE)
      BY Accepted DEF WritePage, WritesAccepted
<1>2. /\ flash' = Programmed(page, bad, b)
      /\ good' = (good /\ flash' = Programmed(page, -1, b))
      /\ at' = at + n /\ pc' = "loop" /\ i = n
      BY <1>1 DEF WritePage
<1>3. /\ at \in Nat /\ n \in Nat /\ at < Len(image) /\ n = PageLength
      /\ Len(image) \in Nat /\ Len(image) <= APP_END /\ APP_END <= FlashSize
      /\ APP_END \in Nat /\ FlashSize \in Nat
      BY AppEnd, ImageSize, StreamAssumption DEF WritePage, IInv, TypeOK, Pace
<1>4. Programmed(page, bad, b) \in [Addresses -> Byte]
  <2> SUFFICES ASSUME NEW a \in Addresses PROVE Programmed(page, bad, b)[a] \in Byte
      BY DEF Programmed
  <2>1. a \in at..(at + PAGE_SIZE - 1) => a - at \in PageBytes
        BY <1>3, StreamAssumption DEF Addresses, PageBytes
  <2> QED
        BY <2>1, StreamAssumption DEF Programmed, IInv, TypeOK
<1>5. TypeOK'
  <2>1. at + n \in 0..APP_END
        BY <1>3, StreamAssumption DEF PageLength
  <2> QED
        BY <1>2, <1>4, <2>1 DEF WritePage, IInv, TypeOK
<1>6. Pace'
  <2>1. at + n <= Len(image)
        BY <1>3, StreamAssumption DEF PageLength
  <2>2. at + n < Len(image) => n = PAGE_SIZE
        BY <1>3, StreamAssumption DEF PageLength
  <2>3. Aligned(at + PAGE_SIZE)
        BY <1>1, <1>3, NextAligned
  <2>4. image' = image
        BY DEF WritePage
  <2> QED
        BY <1>2, <2>1, <2>2, <2>3, <2>4 DEF Pace, Aligned
<1>7. Padded'
      BY <1>2 DEF Padded
<1>8. StreamInPlace'
  <2> SUFFICES ASSUME good'
               PROVE  /\ Len(crc) = at + n
                      /\ \A a \in 1..(at + n) : flash'[a - 1] = crc[a]
      BY <1>2 DEF WritePage, StreamInPlace
  <2>1. good /\ flash' = Programmed(page, -1, b)
        BY <1>2
  <2>2. /\ Len(crc) = at + n
        /\ \A a \in 1..at : flash[a - 1] = crc[a]
        /\ \A a \in (at + 1)..(at + n) : page[a - at - 1] = crc[a]
        BY <1>2, <2>1 DEF WritePage, IInv, StreamInPlace
  <2>3. ASSUME NEW a \in 1..(at + n)
        PROVE  flash'[a - 1] = crc[a]
    <3>1. a - 1 \in Addresses /\ a - 1 # -1
          BY <1>3 DEF PageLength, Addresses
    <3>2. CASE a <= at
      <4>1. a - 1 \notin at..(at + PAGE_SIZE - 1) /\ a \in 1..at
            BY <1>3, <3>2
      <4> QED
            BY <2>1, <2>2, <3>1, <4>1 DEF Programmed
    <3>3. CASE a > at
      <4>1. a - 1 \in at..(at + PAGE_SIZE - 1) /\ a \in (at + 1)..(at + n)
            BY <1>3, <3>3, StreamAssumption DEF PageLength
      <4>2. flash'[a - 1] = page[a - 1 - at]
            BY <2>1, <3>1, <4>1 DEF Programmed
      <4>3. a - 1 - at = a - at - 1
            BY <1>3
      <4> QED
            BY <2>2, <4>1, <4>2, <4>3
    <3> QED
          BY <1>3, <3>2, <3>3
  <2> QED
        BY <2>2, <2>3
<1> QED
      BY <1>5, <1>6, <1>7, <1>8 DEF IInv

LEMMA Step == IInv /\ [Next]_vars => IInv'
<1> SUFFICES ASSUME IInv, [Next]_vars PROVE IInv'
    OBVIOUS
<1>1. CASE ConnectionEnds
      BY <1>1 DEF ConnectionEnds, IInv, TypeOK, Pace, Padded, StreamInPlace
<1>2. CASE Write
      BY <1>2, WritePageKeeps DEF Write
<1>3. CASE Verify
      BY <1>3 DEF Verify, IInv, TypeOK, Pace, Padded, StreamInPlace
<1>4. CASE NewRequest
      BY <1>4 DEF NewRequest, IInv, TypeOK, Pace, Padded, StreamInPlace
<1>5. CASE UNCHANGED vars
      BY <1>5
      DEF vars, IInv, TypeOK, Pace, PageLength, Aligned, Padded, StreamInPlace
<1> QED
      BY <1>1, <1>2, <1>3, <1>4, <1>5, BeginKeeps, NextPageKeeps, ReceiveByteKeeps
      DEF Next

THEOREM Invariance == Spec => []IInv
BY Initially, Step, PTL DEF Spec

\* Every variable keeps its type.
THEOREM TypeCorrect == Spec => []TypeOK
<1>1. IInv => TypeOK
      BY DEF IInv
<1> QED
      BY <1>1, Invariance, PTL

\* ota() never hands flash_write an address that it would refuse.
THEOREM AlwaysAccepted == Spec => []WritesAccepted
BY Accepted, Invariance, PTL

\* The rest of the last page is 0xFF, whatever the buffer held before.
THEOREM AlwaysPadded == Spec => []Padded
<1>1. IInv => Padded
      BY DEF IInv
<1> QED
      BY <1>1, Invariance, PTL

\* The bytes that were hashed are the bytes in flash, in order: on a sound
\* chip both CRC passes of ota() see the same image.
THEOREM InPlace == Spec => []StreamInPlace
<1>1. IInv => StreamInPlace
      BY DEF IInv
<1> QED
      BY <1>1, Invariance, PTL

\* A download changes no page without a byte of the image: not the boot
\* section, not the rest of the application area.
THEOREM StaysInImage == Spec => OnlyImagePages
<1> DEFINE Mine(a) == \E k \in 0..(AppPages - 1) :
                         /\ k * PAGE_SIZE < Len(image)
                         /\ a \in (k * PAGE_SIZE)..(k * PAGE_SIZE + PAGE_SIZE - 1)
           Only == \A a \in Addresses : flash'[a] # flash[a] => Mine(a)
<1>1. IInv /\ [Next]_vars => [Only]_vars
  <2> SUFFICES ASSUME IInv, Next, NEW a \in Addresses, flash'[a] # flash[a]
               PROVE  Mine(a)
      BY DEF vars
  <2>1. PICK bad \in Addresses \cup {-1}, b \in Data : WritePage(bad, b)
        BY DEF Next, Begin, NextPage, ReceiveByte, ConnectionEnds, Verify, NewRequest,
               Write
  <2>2. flash' = Programmed(page, bad, b)
        BY <2>1 DEF WritePage
  <2>3. a \in at..(at + PAGE_SIZE - 1)
        BY <2>2 DEF Programmed
  <2>4. Aligned(at) /\ at \in Nat /\ at < Len(image) /\ at < APP_END
        BY <2>1, ImageSize, AppEnd DEF WritePage, IInv, TypeOK, Pace
  <2>5. PICK k \in 0..(AppPages - 1) : at = k * PAGE_SIZE
        BY <2>4, PageOf
  <2> QED
        BY <2>3, <2>4, <2>5
<1>2. Spec => [][Only]_vars
      BY <1>1, Invariance, PTL DEF Spec
<1> QED
      BY <1>2 DEF OnlyImagePages
=============================================================================
