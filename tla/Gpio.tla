-------------------------------- MODULE Gpio --------------------------------
(***************************************************************************)
(* The cartridge's general-purpose port and the real-time clock behind it  *)
(* (gpio.rs).  A store to the data register drives the pins that are       *)
(* outputs; the clock decodes the edges.  cmd with its counter cmd_bits is *)
(* the sequence of the bits shifted in, the first one lowest, until they   *)
(* are processed; data_byte, which nothing reads, is left out.             *)
(***************************************************************************)
EXTENDS Sequences, Naturals

CONSTANTS
    BYTE,       \* 8
    Register    \* data_out for the read commands that have an answer

ASSUME GpioAssumption ==
    /\ BYTE \in Nat /\ BYTE >= 4
    /\ DOMAIN Register \subseteq 0 .. 7
    /\ \A id \in DOMAIN Register :
          /\ Register[id] \in Seq([1 .. BYTE -> {0, 1}])
          /\ Len(Register[id]) <= 7

VARIABLES
    pins, direction,    \* sets of pins (data): those that are 1, those that are outputs
    readable,           \* bit 0 of control
    state, cmd, data_bits, data_out, data_idx, last_sck, last_cs

rtcVars == <<state, cmd, data_bits, data_out, data_idx, last_sck, last_cs>>
gpioVars == <<pins, direction, readable, rtcVars>>

Pin == {"SCK", "SIO", "CS"}

Floating == 2   \* SIO is an input: None

GpioTypeOK ==
    /\ pins \subseteq Pin /\ direction \subseteq Pin /\ readable \in BOOLEAN
    /\ state \in {"Idle", "Command", "ReadData", "WriteData"}
    /\ cmd \in Seq({0, 1}) /\ Len(cmd) < BYTE
    /\ data_bits \in 0 .. BYTE - 1
    /\ data_out = <<>> \/ \E id \in DOMAIN Register : data_out = Register[id]
    /\ data_idx \in 0 .. Len(data_out)
    /\ last_sck \in BOOLEAN /\ last_cs \in BOOLEAN

\* A ROM that holds "RTC_V" makes the port readable.
GpioInit(rtc) ==
    /\ pins = {} /\ direction = {} /\ readable = rtc
    /\ state = "Idle" /\ cmd = <<>> /\ data_bits = 0 /\ data_out = <<>> /\ data_idx = 0
    /\ last_sck = FALSE /\ last_cs = FALSE

\* Seeded fault: a read goes on where the last one stopped.
ProcessCommand_KeepsIndex(c) ==
    LET id == 4 * c[2] + 2 * c[3] + c[4]
    IN  /\ data_bits' = 0
        /\ state' = IF c[1] = 1 THEN "ReadData" ELSE "WriteData"
        /\ data_out' = IF c[1] = 0 THEN data_out
                       ELSE IF id \in DOMAIN Register THEN Register[id] ELSE <<>>
        /\ UNCHANGED data_idx

\* The command byte is reversed: the first bit in is bit 7, read or write,
\* the next three are the register's number.
ProcessCommand(c) ==
    LET id == 4 * c[2] + 2 * c[3] + c[4]
    IN  /\ data_bits' = 0
        /\ IF c[1] = 1
           THEN /\ state' = "ReadData" /\ data_idx' = 0
                /\ data_out' = IF id \in DOMAIN Register THEN Register[id] ELSE <<>>
           ELSE state' = "WriteData" /\ UNCHANGED <<data_out, data_idx>>

ShiftCommand(was, sio) ==
    LET c == Append(was, sio)
    IN  IF Len(c) = BYTE THEN ProcessCommand(c) /\ cmd' = <<>>
        ELSE state' = "Command" /\ cmd' = c /\ UNCHANGED <<data_bits, data_out, data_idx>>

\* Past the last byte data_idx is not counted any further.
ShiftData ==
    LET carry == data_bits + 1 >= BYTE
    IN  /\ data_bits' = IF carry THEN 0 ELSE data_bits + 1
        /\ data_idx' = IF state = "ReadData" /\ carry /\ data_idx < Len(data_out)
                       THEN data_idx + 1 ELSE data_idx
        /\ UNCHANGED <<state, cmd, data_out>>

\* Rtc::clock.
Clock(sck, sio, cs) ==
    LET select == cs /\ ~last_cs
        now == IF select THEN "Command" ELSE state
        was == IF select THEN <<>> ELSE cmd
    IN  /\ last_cs' = cs
        /\ last_sck' = IF cs THEN sck ELSE last_sck
        /\ \/ /\ ~cs
              /\ state' = IF last_cs THEN "Idle" ELSE state
              /\ UNCHANGED <<cmd, data_bits, data_out, data_idx>>
           \/ /\ cs /\ sck /\ ~last_sck /\ now = "Command" /\ sio # Floating
              /\ ShiftCommand(was, sio)
           \/ /\ cs /\ sck /\ ~last_sck
              /\ now = "ReadData" \/ (now = "WriteData" /\ sio # Floating)
              /\ ShiftData
           \/ /\ cs
              /\ \/ ~sck \/ last_sck \/ now = "Idle"
                 \/ now \in {"Command", "WriteData"} /\ sio = Floating
              /\ state' = now /\ cmd' = was
              /\ UNCHANGED <<data_bits, data_out, data_idx>>

\* A chip select that is an input counts as high.
WriteData(new) ==
    /\ pins' = new
    /\ Clock("SCK" \in new \cap direction,
             IF "SIO" \notin direction THEN Floating ELSE IF "SIO" \in new THEN 1 ELSE 0,
             "CS" \in new \/ "CS" \notin direction)
    /\ UNCHANGED <<direction, readable>>

WriteDirection(new) == direction' = new /\ UNCHANGED <<pins, readable, rtcVars>>

WriteControl(on) == readable' = on /\ UNCHANGED <<pins, direction, rtcVars>>

\* What a program reads: its own output pins, and the clock's bit on SIO.
ReadSio ==
    state = "ReadData" /\ data_idx < Len(data_out)
        /\ data_out[data_idx + 1][data_bits + 1] = 1
Read == IF ~readable THEN {}
        ELSE (pins \cap direction) \cup (IF ReadSio THEN {"SIO"} \ direction ELSE {})

GpioNext ==
    \/ \E new \in SUBSET Pin : WriteData(new) \/ WriteDirection(new)
    \/ \E on \in BOOLEAN : WriteControl(on)

-----------------------------------------------------------------------------
(* Properties *)

BitsLeft ==
    LET rest == Len(data_out) - data_idx
    IN  IF state # "ReadData" THEN <<>>
        ELSE [i \in 1 .. rest * BYTE - (IF rest > 0 THEN data_bits ELSE 0) |->
                 LET at == data_bits + i - 1
                 IN  data_out[data_idx + 1 + at \div BYTE][(at % BYTE) + 1]]

\* Pin by pin the port is a serial chip that takes the read bit first and the
\* register's number after it: whatever order a program drives and releases
\* the pins in, breaks a transfer off or reads past its end, a session's
\* command and the bits of its answer are those clocked since the select
\* (gpio.rs, clock and process_command).
Chip == INSTANCE RtcChip
        WITH session <- CASE state = "Idle" -> "idle" [] state = "Command" -> "command"
                          [] state = "ReadData" -> "read" [] OTHER -> "write",
             bits <- IF state = "Command" THEN cmd ELSE <<>>,
             left <- BitsLeft, wire <- ReadSio, level <- last_sck,
             ReadAt <- 1, NumberAt <- <<2, 3, 4>>
ImplementsRtcChip == Chip!Spec
=============================================================================
