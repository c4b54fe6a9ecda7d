------------------------------- MODULE MCSound -------------------------------
(***************************************************************************)
(* FIFOs of four bytes and requests of two, samples every two cycles, a    *)
(* clock of six values, frequencies of four bits.  A behaviour exercises   *)
(* one unit: the FIFOs or one channel.  The units share nothing but the    *)
(* master enable, the sequencer's step and the samples.                    *)
(***************************************************************************)
EXTENDS Sound

VARIABLE unit

MCMem == [a \in 0 .. 3 |-> IF a \in {0, 3} THEN 1 ELSE 0]
MCOne == [c \in Ch |-> IF c = 1 THEN "A" ELSE "B"]   \* a channel for each FIFO
MCBoth == [c \in Ch |-> "A"]                         \* two channels for one FIFO
MCDmaConfigs == {MCOne, MCBoth}
MCTimer(a, b) == [f \in FifoId |-> IF f = "A" THEN a ELSE b]
MCCntWrites ==
    {[reset |-> {}, timer |-> MCTimer(0, 1)],
     [reset |-> {"A"}, timer |-> MCTimer(0, 0)]}
MCFifoWrites == {<<0, 1>>}

MCNr12(length, period, direction, initial) ==
    [length |-> length, env_period |-> period, env_direction |-> direction,
     env_initial |-> initial]
MCNr14(frequency, length, trigger) ==
    [frequency |-> frequency, length_enabled |-> length, trigger |-> trigger]
MCWrites ==
    [nr10 |-> {[period |-> 2, negate |-> FALSE, shift |-> 1],
               [period |-> 1, negate |-> TRUE, shift |-> 1],
               [period |-> 0, negate |-> FALSE, shift |-> 2]},
     nr12 |-> {MCNr12(0, 0, FALSE, 1), MCNr12(1, 0, FALSE, 0)},
     nr14 |-> {MCNr14(5, TRUE, TRUE), MCNr14(15, FALSE, TRUE)},
     nr22 |-> {MCNr12(0, 1, FALSE, 1), MCNr12(1, 0, FALSE, 0), MCNr12(0, 1, TRUE, 0)},
     nr24 |-> {MCNr14(5, TRUE, TRUE), MCNr14(10, FALSE, FALSE), MCNr14(15, FALSE, TRUE)},
     nr30 |-> {[enabled |-> on] : on \in BOOLEAN},
     nr31 |-> {[length |-> 0], [length |-> 2]},
     nr34 |-> {MCNr14(5, TRUE, TRUE), MCNr14(10, FALSE, FALSE), MCNr14(15, FALSE, TRUE)},
     nr42 |-> {MCNr12(0, 1, FALSE, 1), MCNr12(1, 0, FALSE, 0), MCNr12(0, 1, TRUE, 0)},
     nr44 |-> {[divisor_code |-> d, clock_shift |-> s, length_enabled |-> l, trigger |-> t] :
                  d \in {0, 1}, s \in {0}, l \in {TRUE}, t \in BOOLEAN}]

MCInit == Init /\ unit \in {"cpu", "dma", "ch1", "ch2", "ch3", "ch4"}

MCReports(r0, r1) == [i \in {0, 1} |-> IF i = 0 THEN r0 ELSE r1]

\* A program that also stores into FIFO A, which both channels refill.
CpuFifo ==
    \/ \E cycles \in Batches : \E r \in Reports(cycles) :
          Tick(cycles, MCReports(r, NoOverflow), MCBoth)
    \/ \E w \in FifoWrites : WriteFifo("A", w)
    \/ \E v \in CntWrites : WriteCntH(v)

DmaFifos ==
    \/ \E cycles \in Batches : \E r0, r1 \in Reports(cycles) :
          Tick(cycles, MCReports(r0, r1), MCOne)
    \/ \E v \in CntWrites : v.reset = {} /\ WriteCntH(v)

\* A channel's samples need no overflows.
Samples == Tick(CYCLES_PER_SAMPLE, MCReports(NoOverflow, NoOverflow), MCOne)

MCNext ==
    /\ UNCHANGED unit
    /\ \/ \E on \in BOOLEAN : WriteMaster(on)
       \/ unit = "cpu" /\ CpuFifo
       \/ unit = "dma" /\ DmaFifos
       \/ unit \notin {"cpu", "dma"} /\ FrameSequencerStep
       \/ unit \in {"ch2", "ch3", "ch4"} /\ Samples
       \/ unit = "ch1" /\ WriteCh1
       \/ unit = "ch2" /\ WriteCh2
       \/ unit = "ch3" /\ WriteCh3
       \/ unit = "ch4" /\ WriteCh4

MCSpec == MCInit /\ [][MCNext]_<<vars, unit>> /\ Fairness
=============================================================================
