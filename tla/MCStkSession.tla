---------------------------- MODULE MCStkSession ----------------------------
(* Two application pages of four bytes, a boot section of two bytes, an      *)
(* EEPROM of three bytes.                                                    *)
EXTENDS StkSession

\* A whole page and a part of the next, in blocks of a page and of two bytes;
\* an odd number of EEPROM bytes.
MCJobs ==
    {[mem |-> "flash", start |-> 0, data |-> <<1, 0, 1, 1, 0, 1>>, block |-> b] : b \in {2, 4}}
    \cup {[mem |-> "eeprom", start |-> 0, data |-> <<1, 0, 1>>, block |-> 2]}

\* Addresses inside a page, of the last word and beyond the boot section;
\* writes that fit there, that cross a page or reach into the boot section,
\* of odd and of wrong length; reads; every other command.
MCProbes ==
    {[cmd |-> "LOAD_ADDRESS", address |-> a] : a \in {1, 3, 19}}
    \cup {[cmd |-> "PROGRAM_FLASH", size |-> 2, data |-> <<1, 0>>],
          [cmd |-> "PROGRAM_FLASH", size |-> 4, data |-> <<1, 0, 1, 1>>],
          [cmd |-> "PROGRAM_FLASH", size |-> 1, data |-> <<1>>],
          [cmd |-> "PROGRAM_FLASH", size |-> 4, data |-> <<1>>],
          [cmd |-> "PROGRAM_EEPROM", size |-> 2, data |-> <<1, 1>>],
          [cmd |-> "READ_FLASH", size |-> 4],
          [cmd |-> "READ_EEPROM", size |-> 1],
          [cmd |-> "SIGN_ON"], [cmd |-> "CHIP_ERASE"], [cmd |-> "LEAVE_PROGMODE"]}
=============================================================================
