------------------------------- MODULE MCSave -------------------------------
(***************************************************************************)
(* Flash with one bit per byte and four addresses: the two of the unlock   *)
(* sequence, address 0 and its neighbour in the same sector.  EEPROM with  *)
(* one address bit and blocks of two bits.  A clock with bytes of four     *)
(* bits and one register, of two bytes.  The two share no state: a         *)
(* behaviour drives the save medium or, on a cartridge without one, the    *)
(* clock.                                                                  *)
(***************************************************************************)
EXTENDS Cartridge

MCLocal == {0, 1, H5555, H2AAA}
MCSector == [l \in MCLocal |-> l \div 4096]
MCByte == {16, 48, H55, 128, 144, 160, HAA, 176, 240}
MCBitsOf == [b \in MCByte |-> {b % 2} \ {0}]
MCFlashBit == {1}
MCRegister == [id \in {2} |-> <<<<1, 0, 0, 1>>, <<0, 1, 0, 1>>>>]

MCSpec ==
    /\ CartridgeInit /\ (readable => save_type = "None")
    /\ [][IF save_type = "None" THEN GpioNext /\ UNCHANGED saveVars
             ELSE Next /\ UNCHANGED gpioVars]_<<saveVars, gpioVars>>
=============================================================================
