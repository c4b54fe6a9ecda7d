---------------------------- MODULE DmaRegisters ----------------------------
(***************************************************************************)
(* The registers of the DMA channels as a program sees them (dma.rs), and  *)
(* what programs write to them.                                            *)
(***************************************************************************)
EXTENDS Integers

CONSTANTS
    Channels,     \* their numbers
    AddrSpace,    \* addresses are counted modulo this, in units
    MaxUnits,     \* what a count of zero stands for, by channel
    Addresses,    \* what programs write to address registers,
    Counts,       \* to count registers
    Controls      \* and to control registers

Addr == 0 .. AddrSpace - 1
Timing == {"Immediate", "VBlank", "HBlank", "Special"}
Control ==
    [enable : BOOLEAN, timing : Timing, repeat : BOOLEAN, irq : BOOLEAN,
     src_adj : {"inc", "dec", "fixed"}, dst_adj : {"inc", "dec", "fixed", "reload"}]

ResetControl ==
    [enable |-> FALSE, timing |-> "Immediate", repeat |-> FALSE, irq |-> FALSE,
     src_adj |-> "inc", dst_adj |-> "inc"]

ASSUME DmaRegistersAssumption ==
    /\ Channels \subseteq 0 .. 3
    /\ AddrSpace \in Nat \ {0}
    /\ MaxUnits \in [Channels -> Nat \ {0}]
    /\ Addresses \subseteq Addr /\ Counts \subseteq Nat /\ Controls \subseteq Control

Units(ch, count) == IF count = 0 THEN MaxUnits[ch] ELSE count

Step(adj) == CASE adj = "dec" -> -1 [] adj = "fixed" -> 0 [] OTHER -> 1
Advance(addr, adj) == (addr + Step(adj)) % AddrSpace

Immediate(c) == c.control.enable /\ c.control.timing = "Immediate"
=============================================================================
