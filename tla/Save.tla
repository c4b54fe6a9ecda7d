-------------------------------- MODULE Save --------------------------------
(***************************************************************************)
(* The save media of a cartridge (save.rs).  The type is detected when a   *)
(* ROM is loaded into a new machine and decides which state machine the    *)
(* bus reaches.  SRAM is plain memory and left out; so are the flash       *)
(* access counters.                                                        *)
(***************************************************************************)
EXTENDS Flash, Eeprom

saveVars == <<flashVars, eepromVars>>

TypeOK == FlashTypeOK /\ EepromTypeOK

Init == FlashInit /\ EepromInit

FlashAccess == FlashNext /\ UNCHANGED eepromVars

EepromAccess == save_type = "Eeprom" /\ EepromNext /\ UNCHANGED flashVars

Next == FlashAccess \/ EepromAccess

Spec == Init /\ [][Next]_saveVars
=============================================================================
