------------------------------ MODULE CpuModes ------------------------------
(***************************************************************************)
(* Modes, register banks, status registers and exceptions of the CPU       *)
(* (cpu/mod.rs, cpu/arm.rs, cpu/thumb.rs).                                 *)
(*                                                                         *)
(* The visible registers are kept in one array; switch_mode copies them to *)
(* and from the arrays of the banks.  Of a status register the mode field  *)
(* and the I bit are kept; condition flags, F and the Thumb bit do not     *)
(* bear on modes and banks.  An instruction is any that does what its      *)
(* action says: what it computes is any value.                             *)
(***************************************************************************)
EXTENDS Registers

CONSTANTS
    Reset,       \* r13 of every bank at reset
    Zero,        \* what the other registers hold at reset
    Named,       \* the registers one instruction of a program names
    PsrWrites    \* what a program may write to a status register

\* A mode field that names no mode.
Psr == [mode : Mode \cup {"invalid"}, I : BOOLEAN]

ASSUME CpuModesAssumption ==
    /\ Zero \in Value /\ Reset \in [Bank -> Value]
    /\ Named \subseteq SUBSET Reg
    /\ PsrWrites \subseteq Psr

VARIABLES
    regs,       \* r, mode, banked_r13/r14, banked_fiq_r8_12, saved_usr_r8_12
    masked,     \* CPSR.I
    stale,      \* Cpu.cpsr's low bits still hold System's, from reset
    spsr,
    irq_delay,
    did         \* history: what the last instruction was to do

modesVars == <<regs, masked, stale, spsr, irq_delay, did>>

RegisterArrays ==
    [r : [Reg -> Value], mode : Mode, banked : [Bank -> [Banked -> Value]],
     fiq : [FiqBanked -> Value], usr : [FiqBanked -> Value]]

ModesTypeOK ==
    /\ regs \in RegisterArrays
    /\ masked \in BOOLEAN
    /\ stale \in BOOLEAN
    /\ spsr \in [Bank -> Psr]
    /\ irq_delay \in 0 .. 1
    /\ did \in Effects

ModesInit ==
    /\ regs = [r |-> [x \in Reg |-> IF x = 13 THEN Reset["User"] ELSE Zero],
               mode |-> "System",
               banked |-> [b \in Bank |-> [x \in Banked |->
                              IF x = 13 /\ b # "User" THEN Reset[b] ELSE Zero]],
               fiq |-> [x \in FiqBanked |-> Zero], usr |-> [x \in FiqBanked |-> Zero]]
    /\ masked = FALSE
    /\ stale = TRUE
    /\ spsr = [b \in Bank |-> [mode |-> "invalid", I |-> FALSE]]
    /\ irq_delay = 0
    /\ did = NoEffect

-----------------------------------------------------------------------------
(* Register banks *)

\* Seeded fault: r8-r12 of the other modes are not saved when FIQ is entered.
SwitchMode_UsrLost(c, new) ==
    IF new = c.mode THEN c
    ELSE LET old == BankOf(c.mode)
             other == BankOf(new)
         IN  [c EXCEPT !.mode = new,
                       !.banked = [@ EXCEPT ![old] = [x \in Banked |-> c.r[x]]],
                       !.fiq = IF c.mode = "Fiq" THEN [x \in FiqBanked |-> c.r[x]] ELSE @,
                       !.r = [x \in Reg |->
                                 CASE x \in Banked /\ old # other -> c.banked[other][x]
                                   [] x \in FiqBanked /\ new = "Fiq" -> c.fiq[x]
                                   [] x \in FiqBanked /\ c.mode = "Fiq" -> c.usr[x]
                                   [] OTHER -> c.r[x]]]

SwitchMode(c, new) ==
    LET old == BankOf(c.mode)
        other == BankOf(new)
        leave == c.mode = "Fiq" /\ new # "Fiq"
        enter == c.mode # "Fiq" /\ new = "Fiq"
    IN  [r |-> [x \in Reg |->
                   CASE x \in Banked /\ old # other -> c.banked[other][x]
                     [] x \in FiqBanked /\ enter -> c.fiq[x]
                     [] x \in FiqBanked /\ leave -> c.usr[x]
                     [] OTHER -> c.r[x]],
         mode |-> new,
         banked |-> [b \in Bank |-> IF b = old /\ old # other
                                    THEN [x \in Banked |-> c.r[x]] ELSE c.banked[b]],
         fiq |-> IF leave THEN [x \in FiqBanked |-> c.r[x]] ELSE c.fiq,
         usr |-> IF enter THEN [x \in FiqBanked |-> c.r[x]] ELSE c.usr]

\* Some of the visible registers get a value.
Load(c, vals) ==
    [c EXCEPT !.r = [x \in Reg |-> IF x \in DOMAIN vals THEN vals[x] ELSE c.r[x]]]

\* The values an instruction may load into the registers it names.
Loads == UNION {[list -> Value] : list \in Named}

\* Base register writeback, suppressed when the list has the base register.
Writebacks(list) == {back \in Updates : DOMAIN back \cap list = {}}

\* Mode::from_bits.
FromBits(field) == IF field \in Mode THEN field ELSE "System"

\* cpsr_bits: the mode is ORed into Cpu.cpsr, whose own low bits are all ones
\* while they are stale.
CpsrBits == [mode |-> IF stale THEN "System" ELSE regs.mode, I |-> masked]

-----------------------------------------------------------------------------
(* Instructions and exceptions *)

\* Every instruction ends the delay.
Does(effect) == irq_delay' = 0 /\ did' = effect

\* Data processing, loads and moves, in either instruction set.
Instruction ==
    /\ \E vals \in Loads : regs' = Load(regs, vals) /\ Does(Effect("own", vals, None))
    /\ UNCHANGED <<masked, stale, spsr>>

Exception(new) ==
    /\ \E ret \in Value :
           /\ regs' = Load(SwitchMode(regs, new), [x \in {Link} |-> ret])
           /\ Does(Effect("exception", [x \in {Link} |-> ret], None))
    /\ spsr' = [spsr EXCEPT ![new] = CpsrBits]
    /\ masked' = TRUE
    /\ UNCHANGED stale

TakeIrq == irq_delay = 0 /\ ~masked /\ Exception("Irq")

Swi == Exception("Supervisor")

\* CPSR from SPSR.  User and System have none of their own: the code reads
\* the one of bank 0, which nothing writes.
RestoreCpsr(c) ==
    LET p == spsr[BankOf(c.mode)]
    IN  /\ regs' = SwitchMode(c, FromBits(p.mode))
        /\ masked' = p.I
        /\ stale' = FALSE
        /\ UNCHANGED spsr

\* MOVS PC and the like: the next instruction runs before an interrupt.
\* Seeded fault: a return within the delay extends it.
ReturnAlu_Extends ==
    /\ RestoreCpsr(regs)
    /\ irq_delay' = irq_delay + 1 /\ did' = NoEffect

ReturnAlu ==
    /\ RestoreCpsr(regs)
    /\ irq_delay' = 1 /\ did' = NoEffect

\* LDM with S bit and PC in the list: the list, the base register, the mode.
Both(vals, back) ==
    [x \in DOMAIN vals \cup DOMAIN back |-> IF x \in DOMAIN back THEN back[x] ELSE vals[x]]

ReturnLdm ==
    \E vals \in Loads : \E back \in Writebacks(DOMAIN vals) :
        /\ RestoreCpsr(Load(regs, Both(vals, back)))
        /\ Does(Effect("own", Both(vals, back), None))

\* LDM and STM with S bit, without PC: the registers of User mode.
Privileged(m) == m \notin {"User", "System"}
UserView(c) == IF Privileged(c.mode) THEN SwitchMode(c, "User") ELSE c

BackFromUser(c, m) == IF Privileged(m) THEN SwitchMode(c, m) ELSE c

LdmUser ==
    /\ \E vals \in Loads : \E back \in Writebacks(DOMAIN vals) :
           /\ regs' = Load(BackFromUser(Load(UserView(regs), vals), regs.mode), back)
           /\ Does(Effect("load", back, vals))
    /\ UNCHANGED <<masked, stale, spsr>>

StmUser ==
    /\ \E list \in Named : \E back \in Writebacks({}) :
           /\ regs' = Load(BackFromUser(UserView(regs), regs.mode), back)
           /\ Does(Effect("store", back, [x \in list |-> UserView(regs).r[x]]))
    /\ UNCHANGED <<masked, stale, spsr>>

\* MSR CPSR: with the control field the mode and I change, with the flags
\* field or none the mode bits are only cleaned.
MsrCpsr ==
    /\ \/ \E p \in PsrWrites : /\ regs' = SwitchMode(regs, FromBits(p.mode))
                               /\ masked' = p.I
       \/ UNCHANGED <<regs, masked>>
    /\ stale' = FALSE
    /\ Does(NoEffect)
    /\ UNCHANGED spsr

\* MSR SPSR: only the control field bears on mode and I, and User and System
\* have no SPSR to write.
MsrSpsr ==
    /\ \/ /\ BankOf(regs.mode) # "User"
          /\ \E p \in PsrWrites : spsr' = [spsr EXCEPT ![regs.mode] = p]
       \/ UNCHANGED spsr
    /\ Does(NoEffect)
    /\ UNCHANGED <<regs, masked, stale>>

ModesNext ==
    \/ Instruction \/ TakeIrq \/ Swi \/ ReturnAlu \/ ReturnLdm
    \/ LdmUser \/ StmUser \/ MsrCpsr \/ MsrSpsr

ModesSpec == ModesInit /\ [][ModesNext]_modesVars

-----------------------------------------------------------------------------
(* Properties *)

\* The register file that the arrays represent: what is visible lies in r,
\* the rest in the arrays of its bank.
FileOf(c) ==
    [cell \in Cells |->
        LET b == cell[1]
            x == cell[2]
        IN  IF b = Holder(c.mode, x) THEN c.r[x]
            ELSE IF x \in Banked THEN c.banked[b][x]
            ELSE IF b = "Fiq" THEN c.fiq[x] ELSE c.usr[x]]

RF == INSTANCE RegisterFile WITH file <- FileOf(regs), mode <- regs.mode

\* Copying registers in and out at every mode change (switch_mode), with the
\* detour through User mode of LDM and STM, is a register file in which no
\* value moves.
ImplementsRegisterFile == RF!Spec
=============================================================================
