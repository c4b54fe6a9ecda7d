----------------------------- MODULE Cartridge ------------------------------
(***************************************************************************)
(* A cartridge on the bus (bus.rs): a save medium, decided by the ROM, and *)
(* the general-purpose port in the ROM's address range.                    *)
(***************************************************************************)
EXTENDS Save, Gpio

CartridgeInit == Init /\ \E rtc \in BOOLEAN : GpioInit(rtc)

CartridgeNext ==
    \/ Next /\ UNCHANGED gpioVars
    \/ GpioNext /\ UNCHANGED saveVars

CartridgeSpec == CartridgeInit /\ [][CartridgeNext]_<<saveVars, gpioVars>>
=============================================================================
