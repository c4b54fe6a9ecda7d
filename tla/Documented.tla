----------------------------- MODULE Documented ------------------------------
(***************************************************************************)
(* Programs that keep to spec/gbatek.htm, beside the cartridge hardware of *)
(* save.rs and gpio.rs.  One sends the EEPROM nothing but the requests of  *)
(* that document, each ended by a zero, and reads between two of them.     *)
(* The other reads a register of the clock by its command: the fixed code  *)
(* 0110, the register's number, the read bit.  In what is not at issue,    *)
(* the clock's level at the select and the edge at which a bit of the      *)
(* answer is read, it does as gpio.rs expects.                             *)
(***************************************************************************)
EXTENDS Eeprom, Gpio, SequencesExt

VARIABLES
    program,                      \* which of the two runs
    store, sent, burst, answer,   \* the EEPROM as documented
    wanted,                       \* the clock's register
    at,                           \* the steps taken to read it
    got                           \* the bits read

Doc == INSTANCE SerialStore WITH out <- answer, Final <- 1

documentedVars == <<store, sent, burst, answer>>
readVars == <<wanted, at, got>>

\* The register with the date and time, cut to one byte.
Date == [id \in {2} |-> <<<<0, 0, 1, 0, 0, 1, 0, 1>>>>]

-----------------------------------------------------------------------------
(* EEPROM *)

Requested(bit) ==
    LET s == Append(sent, bit)
    IN  /\ sent = <<>> => bit = 1
        /\ Doc!Read(s) \/ Doc!Write(s) => bit = 0

StoreNext ==
    \/ sent = <<>> /\ ReadBit /\ Doc!Receive
    \/ \E bit \in Bit : Requested(bit) /\ WriteBit(bit) /\ Doc!Send(bit)

-----------------------------------------------------------------------------
(* Clock *)

\* The number's low bit comes first.
Command ==
    <<0, 1, 1, 0, wanted % 2, (wanted \div 2) % 2, wanted \div 4, 1>>

Wires(bit, high) ==
    {"CS"} \cup (IF bit = 1 THEN {"SIO"} ELSE {}) \cup (IF high THEN {"SCK"} ELSE {})

Select == <<{}, {"CS"}>>
Sends == Select \o FlattenSeq([i \in 1 .. BYTE |->
                                  <<Wires(Command[i], FALSE), Wires(Command[i], TRUE)>>])
Reads == 2 * BYTE * Len(Register[wanted])

DriveAll == at = 0 /\ WriteDirection(Pin) /\ UNCHANGED got

SendStep == at \in 1 .. Len(Sends) /\ WriteData(Sends[at]) /\ UNCHANGED got

ReleaseSio == at = Len(Sends) + 1 /\ WriteDirection(Pin \ {"SIO"}) /\ UNCHANGED got

ReadStep ==
    LET k == at - Len(Sends) - 1
        high == k % 2 = 0
    IN  /\ k \in 1 .. Reads
        /\ WriteData(Wires(0, high))
        /\ got' = IF high THEN Append(got, IF "SIO" \in Read' THEN 1 ELSE 0) ELSE got

ClockNext ==
    /\ DriveAll \/ SendStep \/ ReleaseSio \/ ReadStep
    /\ at' = at + 1 /\ UNCHANGED wanted

-----------------------------------------------------------------------------

DocumentedInit ==
    /\ program \in {"store", "clock"}
    /\ EepromInit /\ Doc!Init
    /\ GpioInit(TRUE) /\ wanted \in DOMAIN Register /\ at = 0 /\ got = <<>>

DocumentedNext ==
    /\ UNCHANGED program
    /\ \/ program = "store" /\ StoreNext /\ UNCHANGED <<gpioVars, readVars>>
       \/ program = "clock" /\ ClockNext /\ UNCHANGED <<eepromVars, documentedVars>>

DocumentedSpec ==
    DocumentedInit
        /\ [][DocumentedNext]_<<program, eepromVars, documentedVars, gpioVars, readVars>>

\* The EEPROM answers a documented request as gbatek.htm says.  It does not:
\* for save.rs a write ends with its last data bit, the zero that follows is
\* the first bit of the next request, and that request is not recognised.
AnswersRequests == out = answer

\* A documented read command reads the register's bits.  It does not: gpio.rs
\* takes the first bit of the command for the read bit, which gbatek.htm sends
\* last, and the command for a write.
ReadsRegister == Len(got) = Reads \div 2 => got = FlattenSeq(Register[wanted])
=============================================================================
