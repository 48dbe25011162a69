--------------------------- MODULE MCBootloader ---------------------------
(* Small boards for TLC. *)
EXTENDS Bootloader

CONSTANTS imgA, imgB, imgC

\* imgA fills the flash, imgB one page.  imgC is larger than the flash:
\* cfg_valid must refuse it.
MCSize ==
    [m \in Images |->
        CASE m = imgA -> Pages [] m = imgB -> 1 [] m = imgC -> Pages + 1]

\* What may be left of a byte: each value that means something, and one that
\* does not.
MCTornBytes == {0, 1, ARMING, PENDING, 255}

MCNoTorn == {}

MCHostBytes ==
    [f \in ByteFields |->
        CASE f = "state" -> {IDLE, ARMING, PENDING, 255}
          [] f = "magic0" -> {0, MAGIC0}
          [] OTHER -> {}]
=============================================================================
