---------------------------- MODULE BootRecord ----------------------------
(***************************************************************************)
(* The 160-byte EEPROM record that the bootloader and the application      *)
(* share, and the two pure decisions taken on it (src/eeprom_cfg.c).       *)
(*                                                                         *)
(* The four bytes that are written one by one and checked one by one       *)
(* (magic, format, state) keep their values.  Bytes 4 to 159, which the    *)
(* record CRC covers (the CRC itself included), are BodyLen cells; a cell  *)
(* says which whole record it was copied from.  The CRC test accepts a     *)
(* body exactly when all its cells come from one record: accidental CRC    *)
(* collisions are outside the model.                                       *)
(***************************************************************************)
EXTENDS Integers

CONSTANTS
    Images,   \* firmware images that a request can name
    Factory,  \* the body of a factory record: identity, no image, no URL
    Junk,     \* content that belongs to no record and to no image
    Size,     \* Size[m]: image_size of a request for m, in flash pages
    Pages,    \* application flash pages, APP_END / PAGE_SIZE (992)
    BodyLen   \* cells that stand for the record bytes 4..159

ASSUME RecordAssumption ==
    /\ Factory \notin Images
    /\ Junk \notin Images \cup {Factory}
    /\ Size \in [Images -> Nat]
    /\ Pages \in Nat \ {0}
    /\ BodyLen \in Nat \ {0}

Byte == 0..255

\* Values of the state byte.  Any other value is an unknown state.
IDLE == 0
ARMING == 90      \* 0x5a
PENDING == 165    \* 0xa5

MAGIC0 == 84      \* magic 0x4f54, little endian
MAGIC1 == 79
CFG_FORMAT == 1

Bodies == Images \cup {Factory}
Cells == Bodies \cup {Junk}

Config ==
    [magic0 : Byte, magic1 : Byte, format : Byte, state : Byte,
     body : [1..BodyLen -> Cells]]

WholeBody(b) == [j \in 1..BodyLen |-> b]

\* An image that a record may ask for: image_size is 1..APP_END.  A record
\* whose size, URL length, MAC or network mode is out of range is an image
\* of size 0: cfg_valid refuses all of these alike.
Installable == {m \in Images : Size[m] \in 1..Pages}

cfg_valid(c) ==
    /\ c.magic0 = MAGIC0 /\ c.magic1 = MAGIC1 /\ c.format = CFG_FORMAT
    /\ \/ c.state = IDLE /\ c.body = WholeBody(Factory)
       \/ \E m \in Installable : c.body = WholeBody(m)

\* main.c's last question before it starts the application.
cfg_bootable(c, valid) ==
    /\ c.state # PENDING
    /\ c.state # ARMING
    /\ valid => c.state = IDLE

\* The record asks for image m, and the bootloader will act on it.
Committed(c, m) ==
    /\ c.magic0 = MAGIC0 /\ c.magic1 = MAGIC1 /\ c.format = CFG_FORMAT
    /\ c.state = PENDING
    /\ m \in Installable
    /\ c.body = WholeBody(m)
=============================================================================
