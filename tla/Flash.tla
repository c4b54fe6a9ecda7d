------------------------------- MODULE Flash --------------------------------
(***************************************************************************)
(* The flash command state machine (save.rs).  A stored byte is the set of *)
(* its bits that are 1: erasing sets all of them, programming intersects.  *)
(* Locals are the low 16 bits of an address.                               *)
(***************************************************************************)
EXTENDS Sequences, Naturals

CONSTANTS
    Local,      \* the addresses that a program uses, as numbers
    Sector,     \* the 4 KB sector of a local address
    Byte,       \* the bytes that a program writes, as numbers
    FlashBit,   \* the bits of a byte, 0 .. 7
    BitsOf      \* the bits of a byte that are 1

H5555 == 21845
H2AAA == 10922
HAA == 170
H55 == 85

ASSUME ByteAssumption == Byte \subseteq 0 .. 255

ASSUME FlashAssumption ==
    /\ Local \subseteq 0 .. 65535
    /\ Sector \in [Local -> 0 .. 15]
    /\ BitsOf \in [Byte -> SUBSET FlashBit]

VARIABLES
    save_type,
    data,
    flash_state, flash_bank, flash_id_mode, flash_erase_pending,
    recent,   \* history: what the last three writes were, the latest first
    armed     \* history: the last completed command was the erase prefix

flashVars == <<save_type, data, flash_state, flash_bank, flash_id_mode,
               flash_erase_pending, recent, armed>>
flags == <<flash_id_mode, flash_erase_pending>>

Banks == 0 .. 1
Cell == Banks \X Local
Kinds == {"first", "second", "A0", "other"}

FlashTypeOK ==
    /\ save_type \in {"None", "Sram", "Flash64", "Flash128", "Eeprom"}
    /\ data \in [Cell -> SUBSET FlashBit]
    /\ flash_state \in {"Ready", "Cmd1", "Cmd2", "Erase", "Write", "BankSelect"}
    /\ flash_bank \in Banks
    /\ flash_id_mode \in BOOLEAN /\ flash_erase_pending \in BOOLEAN
    /\ recent \in [1 .. 3 -> Kinds]
    /\ armed \in BOOLEAN

FlashInit ==
    /\ save_type \in {"None", "Sram", "Flash64", "Flash128", "Eeprom"}
    /\ data = [c \in Cell |-> FlashBit]
    /\ flash_state = "Ready" /\ flash_bank = 0
    /\ flash_id_mode = FALSE /\ flash_erase_pending = FALSE
    /\ recent = [i \in 1 .. 3 |-> "other"] /\ armed = FALSE

-----------------------------------------------------------------------------
(* flash_write *)

First(w) == w = [local |-> H5555, val |-> HAA]
Second(w) == w = [local |-> H2AAA, val |-> H55]

AtReady(w) ==
    /\ flash_state = "Ready"
    /\ flash_state' = IF First(w) THEN "Cmd1" ELSE "Ready"
    /\ UNCHANGED <<data, flash_bank, flags>>

\* Seeded fault: a wrong second write does not end the sequence.
AtCmd1_Waits(w) ==
    /\ flash_state = "Cmd1"
    /\ flash_state' = IF Second(w) THEN "Cmd2" ELSE "Cmd1"
    /\ UNCHANGED <<data, flash_bank, flags>>

AtCmd1(w) ==
    /\ flash_state = "Cmd1"
    /\ flash_state' = IF Second(w) THEN "Cmd2" ELSE "Ready"
    /\ UNCHANGED <<data, flash_bank, flags>>

ChipErase(w) == w.val = 16 /\ w.local = H5555
SectorErase(w) == w.val = 48
Size == IF save_type = "Flash128" THEN {0, 1} ELSE {0}

Erased(w) ==
    {c \in Cell : \/ ChipErase(w) /\ c[1] \in Size
                  \/ SectorErase(w) /\ c[1] = flash_bank /\ Sector[c[2]] = Sector[w.local]}

\* Seeded fault: the erase command stays in force.
EraseCommand_Stays(w) ==
    /\ flash_state = "Cmd2" /\ flash_erase_pending
    /\ data' = [c \in Cell |-> IF c \in Erased(w) THEN FlashBit ELSE data[c]]
    /\ flash_state' = "Ready"
    /\ UNCHANGED <<flash_bank, flags>>

\* After an erase prefix the third write is taken for the kind of erase.
EraseCommand(w) ==
    /\ flash_state = "Cmd2" /\ flash_erase_pending
    /\ data' = [c \in Cell |-> IF c \in Erased(w) THEN FlashBit ELSE data[c]]
    /\ flash_erase_pending' = FALSE
    /\ flash_state' = "Ready"
    /\ UNCHANGED <<flash_bank, flash_id_mode>>

\* Seeded fault: the 64 KB chips select banks as well.
AfterCommand_AllBanks(w) ==
    IF w.local # H5555 THEN "Ready"
    ELSE CASE w.val = 128 -> "Erase" [] w.val = 160 -> "Write" [] w.val = 176 -> "BankSelect"
           [] OTHER -> "Ready"

AfterCommand(w) ==
    IF w.local # H5555 THEN "Ready"
    ELSE CASE w.val = 128 -> "Erase"
           [] w.val = 160 -> "Write"
           [] w.val = 176 /\ save_type = "Flash128" -> "BankSelect"
           [] OTHER -> "Ready"

Command(w) ==
    /\ flash_state = "Cmd2" /\ ~flash_erase_pending
    /\ flash_state' = AfterCommand(w)
    /\ flash_erase_pending' = (AfterCommand(w) = "Erase")
    /\ flash_id_mode' = CASE w = [local |-> H5555, val |-> 144] -> TRUE
                          [] w = [local |-> H5555, val |-> 240] -> FALSE
                          [] OTHER -> flash_id_mode
    /\ UNCHANGED <<data, flash_bank>>

AtErase(w) ==
    /\ flash_state = "Erase"
    /\ flash_state' = IF First(w) THEN "Cmd1" ELSE "Ready"
    /\ flash_erase_pending' = (First(w) /\ flash_erase_pending)
    /\ UNCHANGED <<data, flash_bank, flash_id_mode>>

\* Programming clears bits and never sets them.
Program(w) ==
    /\ flash_state = "Write"
    /\ data' = [data EXCEPT ![<<flash_bank, w.local>>] = @ \cap BitsOf[w.val]]
    /\ flash_state' = "Ready"
    /\ UNCHANGED <<flash_bank, flags>>

SelectBank(w) ==
    /\ flash_state = "BankSelect"
    /\ flash_bank' = IF w.local = 0 THEN w.val % 2 ELSE flash_bank
    /\ flash_state' = "Ready"
    /\ UNCHANGED <<data, flags>>

Kind(w) == CASE First(w) -> "first"
             [] Second(w) -> "second"
             [] w = [local |-> H5555, val |-> 160] -> "A0"
             [] OTHER -> "other"

FlashWrite(w) ==
    /\ save_type \in {"Flash64", "Flash128"}
    /\ \/ AtReady(w) \/ AtCmd1(w) \/ EraseCommand(w) \/ Command(w)
       \/ AtErase(w) \/ Program(w) \/ SelectBank(w)
    /\ recent' = <<Kind(w), recent[1], recent[2]>>
    /\ armed' = IF flash_state = "Cmd2" THEN w = [local |-> H5555, val |-> 128] ELSE armed
    /\ UNCHANGED save_type

FlashNext == \E w \in [local : Local, val : Byte] : FlashWrite(w)

-----------------------------------------------------------------------------
(* Properties *)

\* No stray write changes the save: whatever a program writes, and whatever
\* command it has left unfinished, bytes change only by the write that
\* directly follows the unlock sequence, or the unlock sequence and A0.
ChangesNeedUnlock ==
    [][data' # data =>
          \/ recent[2] = "first" /\ recent[1] = "second"
          \/ recent[3] = "first" /\ recent[2] = "second" /\ recent[1] = "A0"]_flashVars

\* Bits are set to one again only if the last completed command was the
\* erase prefix.
ErasesNeedPrefix ==
    [][(\E c \in Cell : ~(data'[c] \subseteq data[c])) => armed]_flashVars

\* A 64 KB chip never leaves its bank: the upper half of Save.data stays as
\* it was.
SmallChipHasOneBank ==
    save_type = "Flash64" => /\ flash_bank = 0
                             /\ \A l \in Local : data[<<1, l>>] = FlashBit
=============================================================================
