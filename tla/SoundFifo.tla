----------------------------- MODULE SoundFifo -----------------------------
(***************************************************************************)
(* The ring buffers of the two Direct Sound channels (apu.rs, Fifo): a     *)
(* fixed array with a read position, a write position and a length.  A     *)
(* write offers two bytes and drops what does not fit.                     *)
(***************************************************************************)
EXTENDS Naturals, Sequences

CONSTANTS
    FIFO_SIZE,   \* 32 bytes
    REQUEST,     \* the bytes of one DMA request, half a FIFO: 16
    Byte         \* what a FIFO holds; the DAC of an empty FIFO holds Silence

Silence == 0

ASSUME SoundFifoAssumption ==
    /\ FIFO_SIZE \in Nat \ {0} /\ REQUEST \in Nat /\ 2 * REQUEST = FIFO_SIZE
    /\ REQUEST % 2 = 0 \* a request is a number of halfword writes
    /\ Silence \in Byte

Fifo ==
    [data : [0 .. FIFO_SIZE - 1 -> Byte], read_pos : 0 .. FIFO_SIZE - 1,
     write_pos : 0 .. FIFO_SIZE - 1, len : 0 .. FIFO_SIZE]

FifoNew ==
    [data |-> [i \in 0 .. FIFO_SIZE - 1 |-> Silence],
     read_pos |-> 0, write_pos |-> 0, len |-> 0]

FifoReset(f) == [f EXCEPT !.read_pos = 0, !.write_pos = 0, !.len = 0]

\* Seeded fault: the write position runs off the ring.
Push_NoWrap(f, b) ==
    IF f.len < FIFO_SIZE
    THEN [f EXCEPT !.data[f.write_pos] = b, !.write_pos = @ + 1, !.len = @ + 1] ELSE f

Push(f, b) ==
    IF f.len < FIFO_SIZE
    THEN [f EXCEPT !.data[f.write_pos] = b,
                   !.write_pos = (@ + 1) % FIFO_SIZE, !.len = @ + 1]
    ELSE f

FifoWrite(f, a, b) == Push(Push(f, a), b)

\* Fifo::read in two parts: the byte it returns and what it leaves behind.
FifoHead(f) == IF f.len = 0 THEN Silence ELSE f.data[f.read_pos]

FifoTail(f) ==
    IF f.len = 0 THEN f
    ELSE [f EXCEPT !.read_pos = (@ + 1) % FIFO_SIZE, !.len = @ - 1]

\* Seeded fault: a FIFO asks for a request that does not fit.
NeedsData_Early(f) == f.len <= REQUEST + 1

NeedsData(f) == f.len <= REQUEST

\* The bytes a FIFO holds, the oldest first.
Contents(f) == [i \in 1 .. f.len |-> f.data[(f.read_pos + i - 1) % FIFO_SIZE]]
=============================================================================
