------------------------------- MODULE MCDma --------------------------------
(***************************************************************************)
(* Two channels, two addresses, and the control words of an immediate      *)
(* copy, of a repeating HBlank table and of a channel that is off.         *)
(***************************************************************************)
EXTENDS Dma

MCMaxUnits == [c \in Channels |-> 2]
Word(on, t, again, src, dst) ==
    [enable |-> on, timing |-> t, repeat |-> again, irq |-> FALSE,
     src_adj |-> src, dst_adj |-> dst]
MCCopy == Word(TRUE, "Immediate", FALSE, "inc", "inc")
MCTable == Word(TRUE, "HBlank", TRUE, "inc", "reload")
MCBack == [Word(TRUE, "VBlank", FALSE, "dec", "fixed") EXCEPT !.irq = TRUE]
MCOff == [MCTable EXCEPT !.enable = FALSE]
MCEndless == [MCCopy EXCEPT !.repeat = TRUE]
MCControls == {MCCopy, MCTable, MCBack, MCOff, MCEndless}
=============================================================================
