----------------------------- MODULE OtaStream -----------------------------
(***************************************************************************)
(* The download loop of src/ota.c byte by byte, with flash_write           *)
(* (src/platform.c) and range_ok (src/crc32.c): how a byte stream becomes  *)
(* aligned, padded flash pages, and what the two CRC passes compare.       *)
(*                                                                         *)
(* Byte addresses are those of the code.  A CRC is the sequence of bytes   *)
(* it was computed from, so collisions are outside the model.              *)
(***************************************************************************)
EXTENDS Integers, Sequences

CONSTANTS
    PAGE_SIZE,  \* bytes per flash page
    AppPages,   \* pages below the boot section
    FlashSize,  \* all flash bytes, boot section included
    Data,       \* byte values a server may send
    Requests    \* the images that requests may name: nonempty byte sequences

APP_END == AppPages * PAGE_SIZE
Byte == 0..255

ASSUME StreamAssumption ==
    /\ PAGE_SIZE \in Nat \ {0}
    /\ AppPages \in Nat \ {0}
    /\ FlashSize \in Nat /\ FlashSize >= APP_END
    /\ Data \subseteq Byte
    /\ Requests \subseteq {r \in Seq(Byte) : Len(r) \in 1..APP_END}

VARIABLES
    pc,     \* where ota() is
    image,  \* the requested image: image_size is its length
    at,     \* address of the next page
    n,      \* bytes of the stream that go into the current page
    i,      \* bytes of them received
    page,   \* the page buffer, which http_open has used for its header lines
    crc,    \* the bytes hashed since the attempt began
    flash,  \* flash contents
    good    \* history: every cell took its byte since the attempt began

vars == <<pc, image, at, n, i, page, crc, flash, good>>

PageBytes == 0..(PAGE_SIZE - 1)
Addresses == 0..(FlashSize - 1)

\* (a & 255) == 0
Aligned(a) == \E k \in 0..a : a = k * PAGE_SIZE

range_ok(a, len) == len # 0 /\ a < APP_END /\ len <= APP_END - a

Init ==
    /\ pc = "idle"
    /\ image \in Requests
    /\ at = 0 /\ n = 0 /\ i = 0
    /\ page \in [PageBytes -> Data]
    /\ crc = <<>>
    /\ flash \in {[a \in Addresses |-> b] : b \in {255} \cup Data}
    /\ good = TRUE

\* The connection is open and the headers are read, in the page buffer.
Begin ==
    /\ pc = "idle"
    /\ page' \in [PageBytes -> Data]
    /\ at' = 0
    /\ crc' = <<>>
    /\ good' = TRUE
    /\ pc' = "loop"
    /\ UNCHANGED <<image, n, i, flash>>

\* Mutant: the buffer is not cleared.
NextPageDirty ==
    /\ pc = "loop"
    /\ at < Len(image)
    /\ n' = IF Len(image) - at > PAGE_SIZE THEN PAGE_SIZE ELSE Len(image) - at
    /\ i' = 0
    /\ pc' = "bytes"
    /\ UNCHANGED <<image, at, page, crc, flash, good>>

\* Mutant: a page takes one byte less than it holds.
NextPageShort ==
    /\ pc = "loop"
    /\ at < Len(image)
    /\ page' = [j \in PageBytes |-> 255]
    /\ n' = IF Len(image) - at >= PAGE_SIZE THEN PAGE_SIZE - 1 ELSE Len(image) - at
    /\ i' = 0
    /\ pc' = "bytes"
    /\ UNCHANGED <<image, at, crc, flash, good>>

\* Mutant: while (at <= image_size).
NextPageOnceMore ==
    /\ pc = "loop"
    /\ at <= Len(image)
    /\ page' = [j \in PageBytes |-> 255]
    /\ n' = IF Len(image) - at > PAGE_SIZE THEN PAGE_SIZE ELSE Len(image) - at
    /\ i' = 0
    /\ pc' = "bytes"
    /\ UNCHANGED <<image, at, crc, flash, good>>

\* while (at < image_size): clear the buffer, size the page.
NextPage ==
    /\ pc = "loop"
    /\ at < Len(image)
    /\ page' = [j \in PageBytes |-> 255]
    /\ n' = IF Len(image) - at > PAGE_SIZE THEN PAGE_SIZE ELSE Len(image) - at
    /\ i' = 0
    /\ pc' = "bytes"
    /\ UNCHANGED <<image, at, crc, flash, good>>

\* Mutant: the byte is stored after the index moved.
ReceiveByteLate(c) ==
    /\ pc = "bytes"
    /\ i < n
    /\ page' = [page EXCEPT ![i + 1] = c]
    /\ crc' = Append(crc, c)
    /\ i' = i + 1
    /\ UNCHANGED <<pc, image, at, n, flash, good>>

\* http_byte() returned c.
ReceiveByte(c) ==
    /\ pc = "bytes"
    /\ i < n
    /\ page' = [page EXCEPT ![i] = c]
    /\ crc' = Append(crc, c)
    /\ i' = i + 1
    /\ UNCHANGED <<pc, image, at, n, flash, good>>

\* http_byte() < 0: the attempt ends, flash keeps the pages written so far.
ConnectionEnds ==
    /\ pc = "bytes"
    /\ i < n
    /\ pc' = "idle"
    /\ UNCHANGED <<image, at, n, i, page, crc, flash, good>>

\* What the cells hold after the page was programmed with content p; the one
\* at address bad, if any, holds b instead.
Programmed(p, bad, b) ==
    [a \in Addresses |->
        IF a \in at..(at + PAGE_SIZE - 1)
          THEN IF a = bad THEN b ELSE p[a - at]
          ELSE flash[a]]

\* flash_write(at, page) and at += n.  A refused write ends the attempt.
WritePage(bad, b) ==
    /\ pc = "bytes"
    /\ i = n
    /\ IF Aligned(at) /\ range_ok(at, PAGE_SIZE)
         THEN /\ flash' = Programmed(page, bad, b)
              /\ good' = (good /\ flash' = Programmed(page, -1, b))
              /\ at' = at + n
              /\ pc' = "loop"
         ELSE /\ pc' = "idle"
              /\ UNCHANGED <<flash, at, good>>
    /\ UNCHANGED <<image, n, i, page, crc>>

\* ~crc != image_crc, first over the download, then over flash.
Verify ==
    /\ pc = "loop"
    /\ at >= Len(image)
    /\ pc' = IF crc = image /\ [a \in 1..Len(image) |-> flash[a - 1]] = image
               THEN "ok" ELSE "idle"
    /\ UNCHANGED <<image, at, n, i, page, crc, flash, good>>

\* The application runs and commits another request.
NewRequest ==
    /\ pc = "ok"
    /\ image' \in Requests
    /\ pc' = "idle"
    /\ UNCHANGED <<at, n, i, page, crc, flash, good>>

Write == \E bad \in Addresses \cup {-1}, b \in Data : WritePage(bad, b)

Next ==
    \/ Begin \/ NextPage
    \/ \E c \in Data : ReceiveByte(c)
    \/ ConnectionEnds \/ Write \/ Verify \/ NewRequest

Spec == Init /\ [][Next]_vars

-----------------------------------------------------------------------------
(* Properties *)

TypeOK ==
    /\ pc \in {"idle", "loop", "bytes", "ok"}
    /\ image \in Requests
    /\ at \in 0..APP_END
    /\ n \in 0..PAGE_SIZE
    /\ i \in 0..PAGE_SIZE
    /\ page \in [PageBytes -> Byte]
    /\ crc \in Seq(Byte)
    /\ flash \in [Addresses -> Byte]
    /\ good \in BOOLEAN

\* Whatever size the record asks for, ota() never hands flash_write an address
\* that it refuses: the alignment and range guards of src/platform.c are a
\* second defence, and a short last page cannot lead to an unaligned next one.
WritesAccepted ==
    pc = "bytes" => Aligned(at) /\ range_ok(at, PAGE_SIZE)

\* The padding of the last page is 0xFF, never header text left in the shared
\* buffer or bytes of the page before (docs/OTA.md: "The final partial page
\* is padded with 0xFF").
Padded == pc = "bytes" => \A j \in PageBytes : j >= i => page[j] = 255

\* Where the stream goes: the bytes hashed so far are, in order, the flash
\* below the current page and the received part of the buffer.  So on a
\* sound chip the readback rejects no download that the first CRC accepted.
StreamInPlace ==
    good =>
        /\ pc = "loop" =>
              Len(crc) = at /\ \A a \in 1..at : flash[a - 1] = crc[a]
        /\ pc = "bytes" =>
              /\ Len(crc) = at + i
              /\ \A a \in 1..at : flash[a - 1] = crc[a]
              /\ \A a \in (at + 1)..(at + i) : page[a - at - 1] = crc[a]

\* An attempt changes only pages that hold bytes of the image: the boot
\* section and the "pages beyond the image" (docs/OTA.md) stay as they are.
OnlyImagePages ==
    [][\A a \in Addresses :
        flash'[a] # flash[a] =>
            \E k \in 0..(AppPages - 1) :
                /\ k * PAGE_SIZE < Len(image)
                /\ a \in (k * PAGE_SIZE)..(k * PAGE_SIZE + PAGE_SIZE - 1)]_vars
=============================================================================
