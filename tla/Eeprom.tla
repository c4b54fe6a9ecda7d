------------------------------- MODULE Eeprom -------------------------------
(***************************************************************************)
(* The EEPROM state machine (save.rs).  The shift register eeprom_command  *)
(* with its counter eeprom_bits_written is the sequence of the bits        *)
(* shifted in; addresses and blocks are sequences of bits.  blocks is      *)
(* Save.data in units of a block.  Nothing ever sets eeprom_size, so there *)
(* is one address width.                                                   *)
(***************************************************************************)
EXTENDS Sequences, Naturals

CONSTANTS
    AddrBits,   \* 14
    DataBits,   \* 64
    Leading     \* 4 dummy bits

ASSUME EepromAssumption ==
    AddrBits \in Nat \ {0} /\ DataBits \in Nat \ {0} /\ Leading \in Nat

VARIABLES
    blocks,
    eeprom_state, eeprom_command, eeprom_address,
    eeprom_read_buffer, eeprom_read_pos,
    out        \* history: the last bit that was read

eepromVars == <<blocks, eeprom_state, eeprom_command, eeprom_address,
                eeprom_read_buffer, eeprom_read_pos, out>>

Bit == {0, 1}
Address == [1 .. AddrBits -> Bit]
Block == [1 .. DataBits -> Bit]
Fill(n, bit) == [i \in 1 .. n |-> bit]

EepromTypeOK ==
    /\ blocks \in [Address -> Block]
    /\ eeprom_state \in {"Idle", "ReadingCommand", "ReadingData", "WritingData"}
    /\ eeprom_command \in Seq(Bit)
    /\ Len(eeprom_command) < (IF eeprom_state = "WritingData" THEN DataBits ELSE 2 + AddrBits)
    /\ eeprom_state \in {"Idle", "ReadingData"} => eeprom_command = <<>>
    /\ eeprom_address \in Address
    /\ eeprom_read_buffer \in Block
    /\ eeprom_read_pos \in 0 .. Leading + DataBits
    /\ eeprom_state = "ReadingData" => eeprom_read_pos < Leading + DataBits
    /\ out \in Bit

EepromInit ==
    /\ blocks = [a \in Address |-> Fill(DataBits, 1)]
    /\ eeprom_state = "Idle" /\ eeprom_command = <<>>
    /\ eeprom_address = Fill(AddrBits, 0)
    /\ eeprom_read_buffer = Fill(DataBits, 0) /\ eeprom_read_pos = 0
    /\ out = 1

-----------------------------------------------------------------------------
(* eeprom_write_bit *)

Shifted(bit) == Append(eeprom_command, bit)

\* The two opcode bits and the address.
CommandBit(bit) ==
    /\ eeprom_state \in {"Idle", "ReadingCommand"}
    /\ Len(Shifted(bit)) < 2 + AddrBits
    /\ eeprom_command' = Shifted(bit) /\ eeprom_state' = "ReadingCommand"
    /\ UNCHANGED <<blocks, eeprom_address, eeprom_read_buffer, eeprom_read_pos>>

LastCommandBit(bit) ==
    LET c == Shifted(bit)
        a == SubSeq(c, 3, 2 + AddrBits)
    IN  /\ eeprom_state \in {"Idle", "ReadingCommand"}
        /\ Len(c) = 2 + AddrBits
        /\ eeprom_address' = a
        /\ eeprom_command' = <<>>
        /\ \/ /\ c[1] = 1 /\ c[2] = 1
              /\ eeprom_read_buffer' = blocks[a] /\ eeprom_read_pos' = 0
              /\ eeprom_state' = "ReadingData"
           \/ /\ c[1] = 1 /\ c[2] = 0
              /\ eeprom_state' = "WritingData"
              /\ UNCHANGED <<eeprom_read_buffer, eeprom_read_pos>>
           \/ /\ c[1] = 0
              /\ eeprom_state' = "Idle"
              /\ UNCHANGED <<eeprom_read_buffer, eeprom_read_pos>>
        /\ UNCHANGED blocks

DataBit(bit) ==
    LET c == Shifted(bit)
    IN  /\ eeprom_state = "WritingData"
        /\ IF Len(c) = DataBits
           THEN /\ blocks' = [blocks EXCEPT ![eeprom_address] = c]
                /\ eeprom_state' = "Idle" /\ eeprom_command' = <<>>
           ELSE /\ eeprom_command' = c
                /\ UNCHANGED <<blocks, eeprom_state>>
        /\ UNCHANGED <<eeprom_address, eeprom_read_buffer, eeprom_read_pos>>

\* Writes are ignored during a read.
IgnoreBit ==
    /\ eeprom_state = "ReadingData"
    /\ UNCHANGED <<blocks, eeprom_state, eeprom_command, eeprom_address,
                   eeprom_read_buffer, eeprom_read_pos>>

WriteBit(bit) ==
    /\ CommandBit(bit) \/ LastCommandBit(bit) \/ DataBit(bit) \/ IgnoreBit
    /\ UNCHANGED out

-----------------------------------------------------------------------------
(* read8 *)

\* Seeded fault: the burst ends one bit early.
ReadBit_Short ==
    /\ IF eeprom_state = "ReadingData"
       THEN /\ out' = IF eeprom_read_pos < Leading THEN 0
                      ELSE eeprom_read_buffer[eeprom_read_pos - Leading + 1]
            /\ eeprom_read_pos' = eeprom_read_pos + 1
            /\ eeprom_state' = IF eeprom_read_pos' >= Leading + DataBits - 1
                               THEN "Idle" ELSE eeprom_state
       ELSE out' = 1 /\ UNCHANGED <<eeprom_read_pos, eeprom_state>>
    /\ UNCHANGED <<blocks, eeprom_command, eeprom_address, eeprom_read_buffer>>

ReadBit ==
    /\ IF eeprom_state = "ReadingData"
       THEN /\ out' = IF eeprom_read_pos < Leading THEN 0
                      ELSE eeprom_read_buffer[eeprom_read_pos - Leading + 1]
            /\ eeprom_read_pos' = eeprom_read_pos + 1
            /\ eeprom_state' = IF eeprom_read_pos' >= Leading + DataBits
                               THEN "Idle" ELSE eeprom_state
       ELSE out' = 1 /\ UNCHANGED <<eeprom_read_pos, eeprom_state>>
    /\ UNCHANGED <<blocks, eeprom_command, eeprom_address, eeprom_read_buffer>>

EepromNext == ReadBit \/ \E bit \in Bit : WriteBit(bit)

-----------------------------------------------------------------------------
(* Properties *)

Sent ==
    IF eeprom_state = "WritingData" THEN <<1, 0>> \o eeprom_address \o eeprom_command
    ELSE eeprom_command

Burst ==
    IF eeprom_state = "ReadingData"
    THEN SubSeq(Fill(Leading, 0) \o eeprom_read_buffer, eeprom_read_pos + 1, Leading + DataBits)
    ELSE <<>>

ES == INSTANCE SerialStore
      WITH store <- blocks, sent <- Sent, burst <- Burst, Final <- 0

\* Whatever bits a program writes and reads, in any order, the state machine
\* with its shift register, latched address and read position is a store of
\* blocks for requests without final bits (Documented has the framing of
\* gbatek.htm): a block changes only with the last bit of a complete write request
\* and to the bits of that request, and a read request is answered by the
\* whole block.
ImplementsSerialStore == ES!Spec
=============================================================================
