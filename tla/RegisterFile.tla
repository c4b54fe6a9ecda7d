---------------------------- MODULE RegisterFile ----------------------------
(***************************************************************************)
(* What register banking promises: every instruction reads and writes the  *)
(* cells of the mode it runs in, or of User mode where it says so, and     *)
(* nothing else changes; a mode change moves no value.                     *)
(***************************************************************************)
EXTENDS Registers

VARIABLES
    file,   \* the value of every cell
    mode,
    did     \* what the last instruction was to do

Init ==
    /\ file \in [Cells -> Value]
    /\ mode = "System"
    /\ did = NoEffect

\* An instruction writes registers of its mode and no others; an exception
\* return and a write of CPSR also change the mode.
Instruction ==
    /\ \E vals \in Writes :
           did' = Effect("own", vals, None) /\ file' = Put(file, mode, vals)
    /\ mode' \in Mode

Exception ==
    /\ mode' \in {"Irq", "Supervisor"}
    /\ \E ret \in Value :
           /\ did' = Effect("exception", [x \in {Link} |-> ret], None)
           /\ file' = Put(file, mode', [x \in {Link} |-> ret])

\* LDM with the S bit: the list is loaded into User mode's registers, the
\* base register is the current mode's.
LoadUser ==
    /\ UNCHANGED mode
    /\ \E vals \in Writes, back \in Updates :
           /\ did' = Effect("load", back, vals)
           /\ file' = Put(Put(file, "User", vals), mode, back)

StoreUser ==
    /\ UNCHANGED mode
    /\ \E list \in SUBSET Reg, back \in Updates :
           /\ did' = Effect("store", back, [x \in list |-> file[<<Holder("User", x), x>>]])
           /\ file' = Put(file, mode, back)

Next == Instruction \/ Exception \/ LoadUser \/ StoreUser

Spec == Init /\ [][Next]_<<file, mode, did>>
=============================================================================
