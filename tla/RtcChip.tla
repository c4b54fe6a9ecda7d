------------------------------ MODULE RtcChip -------------------------------
(***************************************************************************)
(* A serial clock chip on its three wires: a session lasts while it is     *)
(* selected; its first bits, one per rising clock, are the command; a read *)
(* command is answered by the bits of a register, one per rising clock,    *)
(* and by zeros after them.  Where a command has its bits is a parameter.  *)
(* That a bit of the answer ends with a rising clock, and that a clock     *)
(* that rises with the first select counts, are conventions of gpio.rs.    *)
(* Documented has the positions of gbatek.htm.                             *)
(***************************************************************************)
EXTENDS Sequences, Naturals, SequencesExt

CONSTANTS
    BYTE,       \* 8
    ReadAt,     \* the position of the read bit in a command
    NumberAt,   \* the positions of the register's number, high bit first
    Register    \* the bytes of each register, low bits first; none for the others

VARIABLES
    session,   \* "idle", "command", "read" or "write"
    bits,      \* the command's bits so far
    left,      \* the bits still to be read
    wire,      \* whether the data wire is 1
    level      \* the clock wire when the chip was last selected

Init ==
    /\ session = "idle" /\ bits = <<>> /\ left = <<>>
    /\ wire = FALSE /\ level = FALSE

IsRead(c) == c[ReadAt] = 1

Answer(c) ==
    LET id == 4 * c[NumberAt[1]] + 2 * c[NumberAt[2]] + c[NumberAt[3]]
    IN  IF id \in DOMAIN Register THEN FlattenSeq(Register[id]) ELSE <<>>

Floating == 2

\* One rising clock; bit is Floating when the program does not drive the wire.
Clock(bit) ==
    \/ /\ session = "command" /\ bit # Floating
       /\ LET c == Append(bits, bit)
          IN  IF Len(c) < BYTE
              THEN bits' = c /\ UNCHANGED <<session, left>>
              ELSE /\ bits' = <<>>
                   /\ session' = IF IsRead(c) THEN "read" ELSE "write"
                   /\ left' = IF IsRead(c) THEN Answer(c) ELSE <<>>
    \/ /\ session = "read"
       /\ left' = IF left = <<>> THEN <<>> ELSE Tail(left)
       /\ UNCHANGED <<session, bits>>
    \/ /\ session = "write" \/ (bit = Floating /\ session = "command")
       /\ UNCHANGED <<session, bits, left>>

Selected(sck, bit) ==
    /\ session # "idle"
    /\ level' = sck
    /\ IF sck /\ ~level THEN Clock(bit) ELSE UNCHANGED <<session, bits, left>>

\* Selecting the chip starts a command; a clock that rises with the select
\* already counts.
Select(sck, bit) ==
    /\ session = "idle" /\ session' = "command" /\ left' = <<>> /\ level' = sck
    /\ bits' = IF sck /\ ~level /\ bit # Floating THEN <<bit>> ELSE <<>>

Deselect == session' = "idle" /\ bits' = <<>> /\ left' = <<>> /\ UNCHANGED level

Next ==
    /\ \/ \E sck \in BOOLEAN, bit \in {0, 1, Floating} : Selected(sck, bit) \/ Select(sck, bit)
       \/ Deselect
    /\ wire' = (left' # <<>> /\ Head(left') = 1)

Spec == Init /\ [][Next]_<<session, bits, left, wire, level>>
=============================================================================
