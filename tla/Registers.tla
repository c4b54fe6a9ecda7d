----------------------------- MODULE Registers -----------------------------
(***************************************************************************)
(* The ARM7TDMI's register names, modes and banks (cpu/mod.rs).            *)
(*                                                                         *)
(* The 37 registers are cells <<bank, register>>: the register that a name *)
(* means in a mode lies in the bank Holder gives it.  r15 is left out: no  *)
(* mode banks it, and its value is only seen here as a return address.     *)
(***************************************************************************)
EXTENDS Naturals

CONSTANTS
    Value,       \* what a register holds
    Unbanked,    \* r0-r7, one for all modes
    FiqBanked,   \* r8-r12, with a second set for FIQ
    Banked       \* r13 and r14, one set per bank

\* r14.
Link == 14

ASSUME RegistersAssumption ==
    /\ Unbanked \subseteq 0 .. 7 /\ FiqBanked \subseteq 8 .. 12
    /\ Banked \subseteq {13, 14} /\ Link \in Banked

Reg == Unbanked \cup FiqBanked \cup Banked
Mode == {"User", "Fiq", "Irq", "Supervisor", "Abort", "Undefined", "System"}
Bank == Mode \ {"System"}

BankOf(m) == IF m = "System" THEN "User" ELSE m

Holder(m, x) ==
    IF x \in Banked THEN BankOf(m)
    ELSE IF x \in FiqBanked /\ m = "Fiq" THEN "Fiq" ELSE "User"

Cells == {<<Holder(m, x), x>> : m \in Mode, x \in Reg}

\* The values an instruction gives to some of the registers it names.
Writes == UNION {[list -> Value] : list \in SUBSET Reg}
None == [x \in {} |-> x]

\* What the writeback of a base register does: nothing, or one register.
Updates == {None} \cup UNION {[{base} -> Value] : base \in Reg}

\* What an instruction is to do: write registers of its own mode, load User
\* mode's registers or store them; an exception writes r14 of its new mode.
Effect(op, own, user) == [op |-> op, own |-> own, user |-> user]
Effects == [op : {"own", "load", "store", "exception"}, own : Writes, user : Writes]
NoEffect == Effect("own", None, None)

\* The register file after mode m has given those values.
Put(f, m, vals) ==
    [cell \in Cells |->
        IF cell[2] \in DOMAIN vals /\ cell[1] = Holder(m, cell[2])
        THEN vals[cell[2]] ELSE f[cell]]
=============================================================================
