------------------------------- MODULE Sound -------------------------------
(***************************************************************************)
(* The sound unit (apu.rs) and its part of Bus::tick (bus.rs): two FIFOs   *)
(* that timer overflows pop and DMA channels 1 and 2 refill, the sample    *)
(* loop that reads the popped bytes at 32768 Hz, the four channels of Psg, *)
(* the frame sequencer of gba.rs and the register writes.                  *)
(*                                                                         *)
(* A batch of cycles pops and samples in the order of the cycles.  The     *)
(* reports of timers 0 and 1 and the configuration of the DMA channels     *)
(* are inputs of a batch; Timers and Dma model where they come from.       *)
(***************************************************************************)
EXTENDS SoundFifo, Psg, FiniteSets

CONSTANTS
    CLOCK,               \* 2^32, the width of sample_clock
    CYCLES_PER_SAMPLE,   \* 512
    MaxClock,            \* no enabled batch may end at or above this clock
    Mem,                 \* the byte at each address a channel may read
    Batches,             \* lengths of the batches
    Periods,             \* periods of timers 0 and 1
    DmaConfigs,          \* destinations of channels 1 and 2
    CntWrites,           \* values written to SOUNDCNT_H
    FifoWrites,          \* halfwords a program stores into a FIFO
    Writes               \* register writes, by channel

FifoId == {"A", "B"}
Ch == {1, 2}
AddrSpace == Cardinality(DOMAIN Mem)

ASSUME SoundAssumption ==
    /\ CYCLES_PER_SAMPLE \in Nat \ {0} /\ MaxClock \in Nat
    /\ CLOCK \in Nat \ {0} /\ CLOCK % CYCLES_PER_SAMPLE = 0
    /\ AddrSpace \in Nat \ {0} /\ DOMAIN Mem = 0 .. AddrSpace - 1
    /\ \A a \in DOMAIN Mem : Mem[a] \in Byte
    /\ Batches \subseteq Nat \ {0} /\ Periods \subseteq Nat \ {0}
    /\ DmaConfigs \subseteq [Ch -> FifoId \cup {"none"}]
    /\ CntWrites \subseteq [reset : SUBSET FifoId, timer : [FifoId -> {0, 1}]]
    /\ FifoWrites \subseteq Byte \X Byte
    /\ Writes.nr10 \subseteq Nr10 /\ Writes.nr12 \subseteq Nr12
    /\ Writes.nr22 \subseteq Nr12 /\ Writes.nr30 \subseteq Nr30
    /\ Writes.nr14 \subseteq Nr14 /\ Writes.nr24 \subseteq Nr14
    /\ Writes.nr31 \subseteq Nr31 /\ Writes.nr34 \subseteq Nr14
    /\ Writes.nr42 \subseteq Nr12 /\ Writes.nr44 \subseteq Nr44

VARIABLES
    enabled,       \* bit 7 of soundcnt_x
    fifo,          \* fifo_a and fifo_b
    latch,         \* fifo_a_sample and fifo_b_sample
    timer_of,      \* the timer that clocks each FIFO, bits 10 and 14 of soundcnt_h
    src,           \* internal_src of DMA channels 1 and 2
    sample_clock,
    emitted,       \* the samples the last step pushed into the buffer
    stuck,         \* the sample loop of the last batch never ended
    ch1, ch2, ch3, ch4,
    step           \* frame_sequencer_step

directVars == <<fifo, latch, timer_of, src>>
psgVars == <<ch1, ch2, ch3, ch4>>
vars == <<enabled, directVars, sample_clock, emitted, stuck, psgVars, step>>

TypeOK ==
    /\ enabled \in BOOLEAN /\ stuck \in BOOLEAN
    /\ fifo \in [FifoId -> Fifo] /\ latch \in [FifoId -> Byte]
    /\ timer_of \in [FifoId -> {0, 1}] /\ src \in [Ch -> 0 .. AddrSpace - 1]
    /\ sample_clock \in 0 .. CLOCK - 1
    /\ emitted \in Seq([FifoId -> Byte])
    /\ ch1 \in Square /\ ch2 \in Square /\ ch3 \in Wave /\ ch4 \in Noise
    /\ step \in 0 .. 7

PowerOff == ch1' = SquareNew /\ ch2' = SquareNew /\ ch3' = WaveNew /\ ch4' = NoiseNew

Init ==
    /\ enabled = FALSE /\ stuck = FALSE
    /\ fifo = [f \in FifoId |-> FifoNew] /\ latch = [f \in FifoId |-> Silence]
    /\ timer_of = [f \in FifoId |-> 0] /\ src = [c \in Ch |-> 0]
    /\ sample_clock = 0 /\ emitted = <<>>
    /\ ch1 = SquareNew /\ ch2 = SquareNew /\ ch3 = WaveNew /\ ch4 = NoiseNew
    /\ step = 0

-----------------------------------------------------------------------------
(* A batch: the timers' overflows merged by cycle, with samples in between *)

\* The state a batch carries along.
Carry == [fifo |-> fifo, latch |-> latch, src |-> src, clock |-> sample_clock,
          out |-> <<>>, stuck |-> FALSE]

\* Samples are due at the multiples of CYCLES_PER_SAMPLE up to target, the
\* first one computed modulo CLOCK.  At the last multiple below CLOCK the
\* next end wraps to zero and the loop cannot end any more.
TickUntil(s, target) ==
    LET end == ((s.clock \div CYCLES_PER_SAMPLE + 1) * CYCLES_PER_SAMPLE) % CLOCK
        due == IF end <= target THEN (target - end) \div CYCLES_PER_SAMPLE + 1 ELSE 0
    IN  IF enabled /\ due > 0 /\ target >= CLOCK - CYCLES_PER_SAMPLE
        THEN [s EXCEPT !.stuck = TRUE]
        ELSE [s EXCEPT !.clock = target,
                       !.out = IF enabled THEN @ \o [i \in 1 .. due |-> s.latch] ELSE @]

OnTimerOverflow(s, timer) ==
    [s EXCEPT !.latch = [f \in FifoId |->
                            IF timer_of[f] = timer THEN FifoHead(s.fifo[f]) ELSE @[f]],
              !.fifo = [f \in FifoId |->
                            IF timer_of[f] = timer THEN FifoTail(@[f]) ELSE @[f]]]

\* One request: the words at internal_src, in order, and internal_src moved on.
Request(s, c, f) ==
    LET byte(i) == Mem[(s.src[c] + i) % AddrSpace]
        filled[i \in 0 .. REQUEST \div 2] ==
            IF i = 0 THEN s.fifo[f]
            ELSE FifoWrite(filled[i - 1], byte(2 * i - 2), byte(2 * i - 1))
    IN  [s EXCEPT !.fifo[f] = filled[REQUEST \div 2],
                  !.src[c] = (@ + REQUEST) % AddrSpace]

CheckSoundFifoDma(s, timer, dma) ==
    LET serve(r, c) ==
            IF /\ dma[c] \in FifoId
               /\ timer_of[dma[c]] = timer
               /\ NeedsData(r.fifo[dma[c]])
            THEN Request(r, c, dma[c]) ELSE r
    IN  IF \E f \in FifoId : NeedsData(s.fifo[f])
        THEN serve(serve(s, 1), 2) ELSE s

\* The report of a timer: count overflows, period cycles apart.
NoOverflow == [count |-> 0, first |-> 0, period |-> 1]
Reports(cycles) ==
    {NoOverflow} \cup
    {[count |-> (cycles - first) \div period + 1, first |-> first, period |-> period] :
        first \in 1 .. cycles, period \in Periods}

\* The overflows of both timers by cycle, those of timer 0 first.
Merge(ov) ==
    LET at(i, k) == ov[i].first + ov[i].period * k
        from[k \in (0 .. ov[0].count) \X (0 .. ov[1].count)] ==
            LET left(i) == k[i + 1] < ov[i].count
            IN  IF ~left(0) /\ ~left(1) THEN <<>>
                ELSE IF left(0) /\ (left(1) => at(0, k[1]) <= at(1, k[2]))
                THEN <<[cycle |-> at(0, k[1]), timer |-> 0]>> \o from[<<k[1] + 1, k[2]>>]
                ELSE <<[cycle |-> at(1, k[2]), timer |-> 1]>> \o from[<<k[1], k[2] + 1>>]
    IN  from[<<0, 0>>]

\* The batch's end state.
Run(cycles, ov, dma) ==
    LET pops == Merge(ov)
        clock(n) == (sample_clock + n) % CLOCK
        popped[k \in 0 .. Len(pops)] ==
            IF k = 0 THEN Carry
            ELSE LET p == pops[k]
                     at == IF p.cycle < cycles THEN p.cycle ELSE cycles
                     sampled == TickUntil(popped[k - 1], clock(at))
                 IN  CheckSoundFifoDma(OnTimerOverflow(sampled, p.timer), p.timer, dma)
    IN  TickUntil(popped[Len(pops)], clock(cycles))

Tick(cycles, ov, dma) ==
    /\ ~stuck
    /\ enabled => sample_clock + cycles < MaxClock
    /\ LET end == Run(cycles, ov, dma)
           passed == Len(end.out) * CYCLES_PER_SAMPLE
       IN  /\ fifo' = end.fifo /\ latch' = end.latch /\ src' = end.src
           /\ sample_clock' = end.clock /\ emitted' = end.out /\ stuck' = end.stuck
           /\ IF passed = 0 THEN UNCHANGED psgVars
              ELSE /\ ch1' = SquareStep(ch1, passed) /\ ch2' = SquareStep(ch2, passed)
                   /\ ch3' = WaveStep(ch3, passed) /\ ch4' = NoiseStep(ch4, passed)
    /\ UNCHANGED <<enabled, timer_of, step>>

-----------------------------------------------------------------------------
(* The frame sequencer and the register writes *)

FrameSequencerStep ==
    LET lengths == step % 2 = 0
        sweep == step \in {2, 6}
        envelopes == step = 7
        Ticked(c) == IF lengths THEN LengthTick(c) ELSE c
        Faded(c) == IF envelopes THEN EnvelopeTick(c) ELSE c
    IN  /\ ~stuck
        /\ ch1' = Faded(IF sweep THEN SweepTick(Ticked(ch1)) ELSE Ticked(ch1))
        /\ ch2' = Faded(Ticked(ch2)) /\ ch3' = Ticked(ch3) /\ ch4' = Faded(Ticked(ch4))
        /\ step' = (step + 1) % 8
        /\ emitted' = <<>>
        /\ UNCHANGED <<enabled, directVars, sample_clock, stuck>>

\* A write changes no more than the next four.
Quiet == ~stuck /\ emitted' = <<>> /\ UNCHANGED <<sample_clock, stuck, step>>

WriteMaster(on) ==
    /\ Quiet
    /\ enabled' = on
    /\ IF enabled /\ ~on THEN PowerOff ELSE UNCHANGED psgVars
    /\ UNCHANGED directVars

WriteCntH(v) ==
    /\ Quiet
    /\ fifo' = [f \in FifoId |-> IF f \in v.reset THEN FifoReset(fifo[f]) ELSE fifo[f]]
    /\ timer_of' = v.timer
    /\ UNCHANGED <<enabled, latch, src, psgVars>>

WriteFifo(f, w) ==
    /\ Quiet
    /\ fifo' = [fifo EXCEPT ![f] = FifoWrite(@, w[1], w[2])]
    /\ UNCHANGED <<enabled, latch, timer_of, src, psgVars>>

\* The channels' registers take writes while the unit is enabled.
\* Seeded fault: the block on writes while the unit is off is missing.
WritePsg_Always == Quiet /\ UNCHANGED <<enabled, directVars>>

WritePsg == Quiet /\ enabled /\ UNCHANGED <<enabled, directVars>>

WriteCh1 ==
    /\ WritePsg
    /\ \/ \E v \in Writes.nr10 : ch1' = WriteNr10(ch1, v)
       \/ \E v \in Writes.nr12 : ch1' = WriteNr12(ch1, v)
       \/ \E v \in Writes.nr14 : ch1' = WriteNr14(ch1, v)
    /\ UNCHANGED <<ch2, ch3, ch4>>

WriteCh2 ==
    /\ WritePsg
    /\ \/ \E v \in Writes.nr22 : ch2' = WriteNr12(ch2, v)
       \/ \E v \in Writes.nr24 : ch2' = WriteNr14(ch2, v)
    /\ UNCHANGED <<ch1, ch3, ch4>>

WriteCh3 ==
    /\ WritePsg
    /\ \/ \E v \in Writes.nr30 : ch3' = WriteNr30(ch3, v)
       \/ \E v \in Writes.nr31 : ch3' = WriteNr31(ch3, v)
       \/ \E v \in Writes.nr34 : ch3' = WriteNr34(ch3, v)
    /\ UNCHANGED <<ch1, ch2, ch4>>

WriteCh4 ==
    /\ WritePsg
    /\ \/ \E v \in Writes.nr42 : ch4' = SetEnvelope(ch4, v)
       \/ \E v \in Writes.nr44 : ch4' = WriteNr44(ch4, v)
    /\ UNCHANGED <<ch1, ch2, ch3>>

-----------------------------------------------------------------------------

Ticks ==
    \E cycles \in Batches, dma \in DmaConfigs :
        \E r0, r1 \in Reports(cycles) :
            Tick(cycles, [i \in {0, 1} |-> IF i = 0 THEN r0 ELSE r1], dma)

DirectWrites ==
    \/ \E v \in CntWrites : WriteCntH(v)
    \/ \E f \in FifoId, w \in FifoWrites : WriteFifo(f, w)

PsgWrites == WriteCh1 \/ WriteCh2 \/ WriteCh3 \/ WriteCh4

Next ==
    \/ Ticks
    \/ FrameSequencerStep
    \/ \E on \in BOOLEAN : WriteMaster(on)
    \/ DirectWrites
    \/ PsgWrites

Spec == Init /\ [][Next]_vars

\* The loops of gba.rs run the frame sequencer as long as they run at all.
Fairness == WF_vars(FrameSequencerStep)

-----------------------------------------------------------------------------
(* Properties *)

\* A batch is worth its cycles one by one, and the rings are queues: samples
\* and pops fall in the order of the cycles however long the batch is
\* (bus.rs, tick), no byte a DMA request reads is dropped or repeated, and no
\* reset, refill or pop mixes up the bytes of a ring (apu.rs, Fifo).
Q == INSTANCE SoundQueue
        WITH queue <- [f \in FifoId |-> Contents(fifo[f])],
             phase <- sample_clock % CYCLES_PER_SAMPLE
ImplementsSoundQueue == Q!Spec

\* The sample loop of every batch ends: it emits one sample per 512 cycles,
\* as the comment at the head of apu.rs says, and tick_until returns.
SampleLoopEnds == ~stuck

\* An active channel has a step to wait for and a length to run out: its
\* timer is never zero, so no sweep, register write or sample leaves it with
\* a period its loop could not count down (apu.rs, step), and the length
\* counter cannot have passed zero without stopping it (length_tick).
ActiveChannelsRun ==
    \A c \in {ch1, ch2, ch3, ch4} : c.active => c.timer > 0 /\ c.length_counter > 0

\* Whatever happens after a power-off - batches, sequencer steps, stores to
\* the channels' registers - the channels stay as new until power returns.
PoweredOffSilent ==
    ~enabled => /\ ch1 = SquareNew /\ ch2 = SquareNew
                /\ ch3 = WaveNew /\ ch4 = NoiseNew

\* A square channel plays only with its DAC on: neither a trigger nor an
\* envelope write may leave it active with volume 0 falling.
DacOffStopsSquare == \A c \in {ch1, ch2} : c.active => DacOn(c)

\* Once the program writes no more, a channel with its length enabled ends:
\* the sequencer's length steps count it down (apu.rs, length_tick).
Ending(i) == LET c == <<ch1, ch2, ch3, ch4>>[i] IN c.active /\ c.length_enabled

LengthEndsChannel ==
    <>[][~(PsgWrites \/ \E on \in BOOLEAN : WriteMaster(on))]_vars =>
        \A i \in 1 .. 4 : Ending(i) ~> ~Ending(i)
=============================================================================
