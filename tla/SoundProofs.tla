---------------------------- MODULE SoundProofs ----------------------------
(***************************************************************************)
(* Proofs about Sound, for every size of the FIFOs, every clock, every     *)
(* memory and every set of register values: types, through the recursive   *)
(* functions that a batch and a DMA request are; nothing sounds while the  *)
(* unit is off; no square channel plays with its DAC off; an active        *)
(* channel has a period to count down and a length to run out; and the two *)
(* rings, with what a batch does to them, implement SoundQueue, the queues *)
(* of the cycles one by one.                                               *)
(***************************************************************************)
EXTENDS Sound, SequenceTheorems, WellFoundedInduction, TLAPS

\* What the DAC of a square channel depends on is there.
HasDac(c) == {"active", "env_initial", "env_direction"} \subseteq DOMAIN c

DacInv(c) == HasDac(c) /\ (c.active => DacOn(c))

SquaresInv == DacInv(ch1) /\ DacInv(ch2)

SilentInv ==
    /\ enabled \in BOOLEAN
    /\ PoweredOffSilent

-----------------------------------------------------------------------------
(* The functions on the channels *)

LEMMA NewSquareKept ==
    /\ \A n : SquareStep(SquareNew, n) = SquareNew
    /\ LengthTick(SquareNew) = SquareNew
    /\ EnvelopeTick(SquareNew) = SquareNew
    /\ SweepTick(SquareNew) = SquareNew
<1>1. /\ SquareNew.active = FALSE /\ SquareNew.length_enabled = FALSE
      /\ SquareNew.env_period = 0 /\ SquareNew.sweep_enabled = FALSE
  BY DEF SquareNew
<1> QED BY <1>1 DEF SquareStep, LengthTick, EnvelopeTick, SweepTick

LEMMA NewWaveKept ==
    (\A n : WaveStep(WaveNew, n) = WaveNew) /\ LengthTick(WaveNew) = WaveNew
<1>1. WaveNew.active = FALSE /\ WaveNew.length_enabled = FALSE
  BY DEF WaveNew
<1> QED BY <1>1 DEF WaveStep, LengthTick

LEMMA NewNoiseKept ==
    /\ \A n : NoiseStep(NoiseNew, n) = NoiseNew
    /\ LengthTick(NoiseNew) = NoiseNew /\ EnvelopeTick(NoiseNew) = NoiseNew
<1>1. NoiseNew.active = FALSE /\ NoiseNew.length_enabled = FALSE /\ NoiseNew.env_period = 0
  BY DEF NoiseNew
<1> QED BY <1>1 DEF NoiseStep, LengthTick, EnvelopeTick

LEMMA NewSquareDac == DacInv(SquareNew)
BY DEF DacInv, HasDac, SquareNew

\* The steps that count keep the DAC and never turn a channel on.
LEMMA CountingKeepsDac ==
    ASSUME NEW c, DacInv(c)
    PROVE  /\ \A n : DacInv(SquareStep(c, n))
           /\ DacInv(LengthTick(c)) /\ DacInv(EnvelopeTick(c)) /\ DacInv(SweepTick(c))
<1> USE DEF DacInv, HasDac, DacOn
<1>1. \A n : DacInv(SquareStep(c, n))
  BY DEF SquareStep
<1>2. DacInv(LengthTick(c))
  BY DEF LengthTick
<1>3. DacInv(EnvelopeTick(c))
  BY DEF EnvelopeTick
<1>4. DacInv(SweepTick(c))
  <2> DEFINE f == CalcSweep(c)
             moved == [c EXCEPT !.sweep_timer = c.sweep_period,
                                !.sweep_shadow = f, !.frequency = f]
             left == IF c.sweep_timer = 0 THEN 0 ELSE c.sweep_timer - 1
  <2>1. DacInv(moved)
    OBVIOUS
  <2>2. DacInv([moved EXCEPT !.active = @ /\ CalcSweep(moved) < FREQ])
    BY <2>1
  <2>3. DacInv([c EXCEPT !.sweep_timer = left]) /\ DacInv([c EXCEPT !.sweep_timer = c.sweep_period])
        /\ DacInv([c EXCEPT !.sweep_timer = c.sweep_period, !.active = FALSE])
    OBVIOUS
  <2> QED BY <2>2, <2>3 DEF SweepTick
<1> QED BY <1>1, <1>2, <1>3, <1>4

\* So do the register writes.
LEMMA WritesKeepDac ==
    ASSUME NEW c, DacInv(c), NEW v
    PROVE  DacInv(WriteNr10(c, v)) /\ DacInv(WriteNr12(c, v)) /\ DacInv(WriteNr14(c, v))
<1> USE DEF DacInv, HasDac, DacOn
<1>1. DacInv(WriteNr10(c, v))
  BY DEF WriteNr10
<1>2. DacInv(WriteNr12(c, v))
  <2> DEFINE d == SetEnvelope(c, v)
  <2>1. HasDac(d)
    BY DEF SetEnvelope
  <2> HIDE DEF d
  <2>2. DacInv([d EXCEPT !.active = @ /\ DacOn(d)])
    BY <2>1
  <2> QED BY <2>2 DEF WriteNr12, d
<1>3. ASSUME NEW d, HasDac(d) PROVE DacInv(Trigger(d))
  <2> DEFINE e == [d EXCEPT
                !.length_counter = IF @ = 0 THEN LENGTH ELSE @,
                !.timer = SquarePeriod(d.frequency),
                !.env_volume = d.env_initial, !.env_timer = d.env_period,
                !.sweep_shadow = d.frequency,
                !.sweep_timer = IF d.sweep_period > 0 THEN d.sweep_period
                                                      ELSE DEFAULT_SWEEP,
                !.sweep_enabled = d.sweep_period > 0 \/ d.sweep_shift > 0]
  <2>1. HasDac(e)
    BY <1>3
  <2>2. Trigger(d) = [e EXCEPT !.active = /\ e.sweep_shift > 0 => CalcSweep(e) < FREQ
                                          /\ DacOn(e)]
    BY Zenon DEF Trigger
  <2> HIDE DEF e
  <2> QED BY <2>1, <2>2
<1>4. DacInv(WriteNr14(c, v))
  <2>1. CASE v.trigger
    <3>1. HasDac([c EXCEPT !.frequency = v.frequency, !.length_enabled = v.length_enabled])
      OBVIOUS
    <3> QED BY <1>3, <2>1, <3>1, Zenon DEF WriteNr14
  <2>2. CASE ~v.trigger
    BY <2>2 DEF WriteNr14
  <2> QED BY <2>1, <2>2
<1> QED BY <1>1, <1>2, <1>4

-----------------------------------------------------------------------------
(* The theorems *)

LEMMA NextSilentInv == SilentInv /\ [Next]_vars => SilentInv'
<1> SUFFICES ASSUME SilentInv, [Next]_vars PROVE SilentInv'
  OBVIOUS
<1> USE DEF SilentInv, PoweredOffSilent
<1>1. CASE Ticks
  <2>1. PICK cycles, ov, dma : Tick(cycles, ov, dma)
    BY <1>1 DEF Ticks
  <2>2. UNCHANGED enabled
        /\ \/ UNCHANGED psgVars
           \/ \E n : /\ ch1' = SquareStep(ch1, n) /\ ch2' = SquareStep(ch2, n)
                     /\ ch3' = WaveStep(ch3, n) /\ ch4' = NoiseStep(ch4, n)
    BY <2>1, Zenon DEF Tick
  <2> QED BY <2>2, NewSquareKept, NewWaveKept, NewNoiseKept DEF psgVars
<1>2. CASE FrameSequencerStep
  BY <1>2, NewSquareKept, NewWaveKept, NewNoiseKept DEF FrameSequencerStep
<1>3. ASSUME NEW on \in BOOLEAN, WriteMaster(on) PROVE SilentInv'
  BY <1>3 DEF WriteMaster, PowerOff, psgVars
<1>4. CASE DirectWrites
  BY <1>4 DEF DirectWrites, WriteCntH, WriteFifo, psgVars
<1>5. CASE PsgWrites
  BY <1>5 DEF PsgWrites, WriteCh1, WriteCh2, WriteCh3, WriteCh4, WritePsg
<1>6. CASE UNCHANGED vars
  BY <1>6 DEF vars, psgVars
<1> QED BY <1>1, <1>2, <1>3, <1>4, <1>5, <1>6 DEF Next

\* While the unit is off its channels stay as new (apu.rs, write_reg's block
\* on writes and the reset at power-off), whatever the sequencer does.
THEOREM SoundPoweredOffSilent == Spec => []PoweredOffSilent
<1>1. Init => SilentInv
  BY DEF Init, SilentInv, PoweredOffSilent
<1>2. SilentInv => PoweredOffSilent
  BY DEF SilentInv
<1> QED BY <1>1, <1>2, NextSilentInv, PTL DEF Spec

LEMMA NextSquaresInv == SquaresInv /\ [Next]_vars => SquaresInv'
<1> SUFFICES ASSUME DacInv(ch1), DacInv(ch2), [Next]_vars PROVE DacInv(ch1') /\ DacInv(ch2')
  BY DEF SquaresInv
<1>1. CASE Ticks
  <2>1. PICK cycles, ov, dma : Tick(cycles, ov, dma)
    BY <1>1 DEF Ticks
  <2>2. \/ UNCHANGED psgVars
        \/ \E n : ch1' = SquareStep(ch1, n) /\ ch2' = SquareStep(ch2, n)
    BY <2>1, Zenon DEF Tick
  <2> QED BY <2>2, CountingKeepsDac DEF psgVars
<1>2. CASE FrameSequencerStep
  <2> DEFINE Ticked(c) == IF step % 2 = 0 THEN LengthTick(c) ELSE c
             Faded(c) == IF step = 7 THEN EnvelopeTick(c) ELSE c
  <2>1. /\ ch1' = Faded(IF step \in {2, 6} THEN SweepTick(Ticked(ch1)) ELSE Ticked(ch1))
        /\ ch2' = Faded(Ticked(ch2))
    BY <1>2, Zenon DEF FrameSequencerStep
  <2>2. ASSUME NEW c, DacInv(c) PROVE DacInv(Ticked(c)) /\ DacInv(Faded(c)) /\ DacInv(SweepTick(c))
    BY <2>2, CountingKeepsDac
  <2> HIDE DEF Ticked, Faded
  <2> QED BY <2>1, <2>2
<1>3. ASSUME NEW on \in BOOLEAN, WriteMaster(on) PROVE DacInv(ch1') /\ DacInv(ch2')
  BY <1>3, NewSquareDac DEF WriteMaster, PowerOff, psgVars
<1>4. CASE DirectWrites
  BY <1>4 DEF DirectWrites, WriteCntH, WriteFifo, psgVars
<1>5. CASE PsgWrites
  BY <1>5, WritesKeepDac DEF PsgWrites, WriteCh1, WriteCh2, WriteCh3, WriteCh4
<1>6. CASE UNCHANGED vars
  BY <1>6 DEF vars, psgVars
<1> QED BY <1>1, <1>2, <1>3, <1>4, <1>5, <1>6 DEF Next

\* No trigger, envelope write, sweep or sample leaves a square channel active
\* with its DAC off (apu.rs, SquareChannel::trigger and write_nr11_12).
THEOREM SoundDacOffStopsSquare == Spec => []DacOffStopsSquare
<1>1. Init => SquaresInv
  BY NewSquareDac DEF Init, SquaresInv
<1>2. SquaresInv => DacOffStopsSquare
  BY DEF SquaresInv, DacInv, DacOffStopsSquare
<1> QED BY <1>1, <1>2, NextSquaresInv, PTL DEF Spec

-----------------------------------------------------------------------------
(* A channel that runs: its type, and that while it is active there is a    *)
(* period in its timer and a length left.  No function on the channels      *)
(* breaks that.                                                             *)

SquareRuns(c) == c \in Square /\ (c.active => c.timer > 0 /\ c.length_counter > 0)
WaveRuns(c) == c \in Wave /\ (c.active => c.timer > 0 /\ c.length_counter > 0)
NoiseRuns(c) == c \in Noise /\ (c.active => c.timer > 0 /\ c.length_counter > 0)

LEMMA PowersOfTwo == \A n \in 0 .. 15 : 2^n \in Nat /\ 2^n > 0
<1> DEFINE P(n) == 2^n \in Nat /\ 2^n > 0
<1>1. P(0) /\ P(1) /\ P(2) /\ P(3) /\ P(4) /\ P(5) /\ P(6) /\ P(7)
  OBVIOUS
<1>2. P(8) /\ P(9) /\ P(10) /\ P(11) /\ P(12) /\ P(13) /\ P(14) /\ P(15)
  OBVIOUS
<1>3. \A n \in 0 .. 15 : \/ n = 0 \/ n = 1 \/ n = 2 \/ n = 3 \/ n = 4 \/ n = 5 \/ n = 6 \/ n = 7
                        \/ n = 8 \/ n = 9 \/ n = 10 \/ n = 11 \/ n = 12 \/ n = 13 \/ n = 14
                        \/ n = 15
  OBVIOUS
<1> HIDE DEF P
<1>4. \A n \in 0 .. 15 : P(n)
  BY <1>1, <1>2, <1>3
<1> QED BY <1>4 DEF P

LEMMA Frequencies ==
    /\ FREQ \in Nat /\ FREQ > 0
    /\ \A f \in Frequency : /\ f \in Nat /\ SquarePeriod(f) \in Nat \ {0}
                            /\ WavePeriod(f) \in Nat \ {0}
    /\ \A old, new \in Frequency : MergeFrequency(old, new) \in Frequency
<1>1. /\ FREQ_LOW \in Nat /\ FREQ_LOW > 0 /\ SQUARE_CYCLES \in Nat \ {0}
      /\ WAVE_CYCLES \in Nat \ {0}
  BY PsgAssumption
<1>2. FREQ \in Nat /\ FREQ > 0
  BY <1>1 DEF FREQ
<1>3. ASSUME NEW a \in Nat, NEW b \in Nat, a > 0, b > 0 PROVE a * b \in Nat /\ a * b > 0
  BY <1>3
<1>4. ASSUME NEW f \in Frequency
      PROVE  f \in Nat /\ SquarePeriod(f) \in Nat \ {0} /\ WavePeriod(f) \in Nat \ {0}
  <2>1. f \in Nat /\ FREQ - f \in Nat /\ FREQ - f > 0
    BY <1>2 DEF Frequency
  <2>2. (FREQ - f) * SQUARE_CYCLES \in Nat \ {0} /\ (FREQ - f) * WAVE_CYCLES \in Nat \ {0}
    BY <1>1, <1>3, <2>1
  <2> QED BY <2>1, <2>2 DEF SquarePeriod, WavePeriod
<1>5. ASSUME NEW old \in Frequency, NEW new \in Frequency
      PROVE  MergeFrequency(old, new) \in Frequency
  <2> DEFINE high == Or3(old \div FREQ_LOW, new \div FREQ_LOW)
  <2>1. high \in 0 .. 7
    BY DEF Or3
  <2> HIDE DEF high
  <2>2. new % FREQ_LOW \in 0 .. FREQ_LOW - 1
    BY <1>1, <1>2 DEF Frequency
  <2>3. high * FREQ_LOW + FREQ_LOW <= 8 * FREQ_LOW /\ high * FREQ_LOW \in Nat
    <3>1. \/ high = 0 \/ high = 1 \/ high = 2 \/ high = 3
          \/ high = 4 \/ high = 5 \/ high = 6 \/ high = 7
      BY <2>1
    <3> QED BY <1>1, <3>1
  <2> QED BY <1>1, <2>2, <2>3 DEF MergeFrequency, Frequency, FREQ, high
<1> QED BY <1>2, <1>4, <1>5

LEMMA CountedRuns ==
    ASSUME NEW timer \in Nat, NEW period \in Nat \ {0}, NEW cycles \in Nat
    PROVE  Counted(timer, period, cycles) \in Nat \ {0}
<1>1. CASE cycles < timer
  BY <1>1 DEF Counted
<1>2. CASE ~(cycles < timer)
  <2>1. (cycles - timer) % period \in 0 .. period - 1
    BY <1>2
  <2> QED BY <1>2, <2>1 DEF Counted
<1> QED BY <1>1, <1>2

LEMMA NoisePeriods == \A c \in Noise : NoisePeriod(c) \in Nat \ {0}
<1> SUFFICES ASSUME NEW c \in Noise PROVE NoisePeriod(c) \in Nat \ {0}
  OBVIOUS
<1> DEFINE base == IF c.divisor_code = 0 THEN NOISE_CYCLES
                   ELSE 2 * NOISE_CYCLES * c.divisor_code
           scale == 2^c.clock_shift
<1>1. c.divisor_code \in 0 .. 7 /\ c.clock_shift \in 0 .. 15
  BY DEF Noise
<1>2. scale \in Nat /\ scale > 0
  BY <1>1, PowersOfTwo
<1>3. ASSUME NEW a \in Nat, NEW b \in Nat, a > 0, b > 0 PROVE a * b \in Nat /\ a * b > 0
  BY <1>3
<1>4. base \in Nat /\ base > 0
  <2>1. NOISE_CYCLES \in Nat /\ NOISE_CYCLES > 0
    BY PsgAssumption
  <2>2. 2 * NOISE_CYCLES \in Nat /\ 2 * NOISE_CYCLES > 0
    BY <2>1
  <2>3. c.divisor_code # 0 => 2 * NOISE_CYCLES * c.divisor_code \in Nat
                              /\ 2 * NOISE_CYCLES * c.divisor_code > 0
    BY <1>1, <1>3, <2>2
  <2> QED BY <2>1, <2>3
<1> HIDE DEF base, scale
<1>5. base * scale \in Nat /\ base * scale > 0
  BY <1>2, <1>3, <1>4
<1> QED BY <1>5 DEF NoisePeriod, base, scale

LEMMA Sweeps ==
    ASSUME NEW c, c.sweep_shadow \in Nat, c.sweep_shift \in 0 .. 7
    PROVE  CalcSweep(c) \in Nat
<1> DEFINE d == 2^c.sweep_shift
<1>1. d \in Nat /\ d > 0
  <2>1. c.sweep_shift \in 0 .. 15
    OBVIOUS
  <2> QED BY <2>1, PowersOfTwo
<1> HIDE DEF d
<1>2. c.sweep_shadow \div d \in Nat /\ c.sweep_shadow \div d <= c.sweep_shadow
  BY <1>1
<1> QED BY <1>2 DEF CalcSweep, d

LEMMA SquareStepRuns ==
    ASSUME NEW c, SquareRuns(c), NEW n \in Nat PROVE SquareRuns(SquareStep(c, n))
<1>1. CASE c.active
  <2> DEFINE t == Counted(c.timer, SquarePeriod(c.frequency), n)
  <2>1. t \in Nat \ {0}
    BY Frequencies, CountedRuns DEF SquareRuns, Square
  <2>2. SquareStep(c, n) = [c EXCEPT !.timer = t]
    BY <1>1 DEF SquareStep
  <2> HIDE DEF t
  <2> QED BY <2>1, <2>2 DEF SquareRuns, Square
<1>2. CASE ~c.active
  BY <1>2 DEF SquareStep
<1> QED BY <1>1, <1>2

LEMMA WaveStepRuns ==
    ASSUME NEW c, WaveRuns(c), NEW n \in Nat PROVE WaveRuns(WaveStep(c, n))
<1>1. CASE c.active /\ c.enabled
  <2> DEFINE t == Counted(c.timer, WavePeriod(c.frequency), n)
  <2>1. t \in Nat \ {0}
    BY Frequencies, CountedRuns DEF WaveRuns, Wave
  <2>2. WaveStep(c, n) = [c EXCEPT !.timer = t]
    BY <1>1 DEF WaveStep
  <2> HIDE DEF t
  <2> QED BY <2>1, <2>2 DEF WaveRuns, Wave
<1>2. CASE ~(c.active /\ c.enabled)
  BY <1>2 DEF WaveStep
<1> QED BY <1>1, <1>2

LEMMA NoiseStepRuns ==
    ASSUME NEW c, NoiseRuns(c), NEW n \in Nat PROVE NoiseRuns(NoiseStep(c, n))
<1>1. CASE c.active
  <2> DEFINE t == Counted(c.timer, NoisePeriod(c), n)
  <2>1. t \in Nat \ {0}
    BY NoisePeriods, CountedRuns DEF NoiseRuns, Noise
  <2>2. NoiseStep(c, n) = [c EXCEPT !.timer = t]
    BY <1>1 DEF NoiseStep
  <2> HIDE DEF t
  <2> QED BY <2>1, <2>2 DEF NoiseRuns, Noise
<1>2. CASE ~c.active
  BY <1>2 DEF NoiseStep
<1> QED BY <1>1, <1>2

\* A length counter that reaches zero stops the channel.
LEMMA LengthTickRuns ==
    ASSUME NEW c
    PROVE  /\ SquareRuns(c) => SquareRuns(LengthTick(c))
           /\ WaveRuns(c) => WaveRuns(LengthTick(c))
           /\ NoiseRuns(c) => NoiseRuns(LengthTick(c))
<1> DEFINE n == c.length_counter - 1
           on == [c EXCEPT !.length_counter = n]
           off == [c EXCEPT !.length_counter = n, !.active = FALSE]
<1>1. ASSUME c.active \in BOOLEAN, c.length_counter \in Nat
      PROVE  \/ LengthTick(c) = c
             \/ c.length_counter > 1 /\ LengthTick(c) = [on EXCEPT !.active = c.active]
             \/ c.length_counter = 1 /\ LengthTick(c) = off
  <2>1. CASE ~(c.length_enabled /\ c.length_counter > 0)
    BY <2>1 DEF LengthTick
  <2>2. CASE c.length_enabled /\ c.length_counter > 1
    <3>1. (c.active /\ c.length_counter > 1) = c.active
      BY <1>1, <2>2
    <3> QED BY <1>1, <2>2, <3>1 DEF LengthTick
  <2>3. CASE c.length_enabled /\ c.length_counter = 1
    <3>1. (c.active /\ c.length_counter > 1) = FALSE
      BY <1>1, <2>3
    <3> QED BY <1>1, <2>3, <3>1 DEF LengthTick
  <2> QED BY <1>1, <2>1, <2>2, <2>3
<1>2. LENGTH \in Nat /\ WAVE_LENGTH \in Nat
  BY PsgAssumption
<1>3. SquareRuns(c) => SquareRuns(LengthTick(c))
  <2> SUFFICES ASSUME SquareRuns(c) PROVE SquareRuns(LengthTick(c))
    OBVIOUS
  <2>1. c.active \in BOOLEAN /\ c.length_counter \in 0 .. LENGTH
    BY DEF SquareRuns, Square
  <2>2. c.length_counter > 1 => SquareRuns([on EXCEPT !.active = c.active])
    <3> SUFFICES ASSUME c.length_counter > 1 PROVE SquareRuns([on EXCEPT !.active = c.active])
      OBVIOUS
    <3>1. n \in 0 .. LENGTH /\ n > 0
      BY <1>2, <2>1
    <3> HIDE DEF n
    <3> QED BY <3>1 DEF SquareRuns, Square
  <2>3. c.length_counter = 1 => SquareRuns(off)
    <3> SUFFICES ASSUME c.length_counter = 1 PROVE SquareRuns(off)
      OBVIOUS
    <3>1. n \in 0 .. LENGTH
      BY <1>2, <2>1
    <3> HIDE DEF n
    <3> QED BY <3>1 DEF SquareRuns, Square
  <2> HIDE DEF on, off
  <2> QED BY <1>1, <1>2, <2>1, <2>2, <2>3
<1>4. WaveRuns(c) => WaveRuns(LengthTick(c))
  <2> SUFFICES ASSUME WaveRuns(c) PROVE WaveRuns(LengthTick(c))
    OBVIOUS
  <2>1. c.active \in BOOLEAN /\ c.length_counter \in 0 .. WAVE_LENGTH
    BY DEF WaveRuns, Wave
  <2>2. c.length_counter > 1 => WaveRuns([on EXCEPT !.active = c.active])
    <3> SUFFICES ASSUME c.length_counter > 1 PROVE WaveRuns([on EXCEPT !.active = c.active])
      OBVIOUS
    <3>1. n \in 0 .. WAVE_LENGTH /\ n > 0
      BY <1>2, <2>1
    <3> HIDE DEF n
    <3> QED BY <3>1 DEF WaveRuns, Wave
  <2>3. c.length_counter = 1 => WaveRuns(off)
    <3> SUFFICES ASSUME c.length_counter = 1 PROVE WaveRuns(off)
      OBVIOUS
    <3>1. n \in 0 .. WAVE_LENGTH
      BY <1>2, <2>1
    <3> HIDE DEF n
    <3> QED BY <3>1 DEF WaveRuns, Wave
  <2> HIDE DEF on, off
  <2> QED BY <1>1, <1>2, <2>1, <2>2, <2>3
<1>5. NoiseRuns(c) => NoiseRuns(LengthTick(c))
  <2> SUFFICES ASSUME NoiseRuns(c) PROVE NoiseRuns(LengthTick(c))
    OBVIOUS
  <2>1. c.active \in BOOLEAN /\ c.length_counter \in 0 .. LENGTH
    BY DEF NoiseRuns, Noise
  <2>2. c.length_counter > 1 => NoiseRuns([on EXCEPT !.active = c.active])
    <3> SUFFICES ASSUME c.length_counter > 1 PROVE NoiseRuns([on EXCEPT !.active = c.active])
      OBVIOUS
    <3>1. n \in 0 .. LENGTH /\ n > 0
      BY <1>2, <2>1
    <3> HIDE DEF n
    <3> QED BY <3>1 DEF NoiseRuns, Noise
  <2>3. c.length_counter = 1 => NoiseRuns(off)
    <3> SUFFICES ASSUME c.length_counter = 1 PROVE NoiseRuns(off)
      OBVIOUS
    <3>1. n \in 0 .. LENGTH
      BY <1>2, <2>1
    <3> HIDE DEF n
    <3> QED BY <3>1 DEF NoiseRuns, Noise
  <2> HIDE DEF on, off
  <2> QED BY <1>1, <1>2, <2>1, <2>2, <2>3
<1> QED BY <1>3, <1>4, <1>5

LEMMA EnvelopeTickRuns ==
    ASSUME NEW c
    PROVE  /\ SquareRuns(c) => SquareRuns(EnvelopeTick(c))
           /\ NoiseRuns(c) => NoiseRuns(EnvelopeTick(c))
<1> DEFINE left == IF c.env_timer = 0 THEN 0 ELSE c.env_timer - 1
           volume == IF c.env_direction
                     THEN (IF c.env_volume < VOLUME THEN c.env_volume + 1 ELSE c.env_volume)
                     ELSE (IF c.env_volume > 0 THEN c.env_volume - 1 ELSE c.env_volume)
           counted == [c EXCEPT !.env_timer = left]
           faded == [c EXCEPT !.env_timer = c.env_period, !.env_volume = volume]
<1>1. EnvelopeTick(c) \in {c, counted, faded}
  BY DEF EnvelopeTick
<1>2. c.env_timer \in 0 .. 7 => left \in 0 .. 7
  OBVIOUS
<1>3. c.env_volume \in 0 .. VOLUME => volume \in 0 .. VOLUME
  BY PsgAssumption
<1> HIDE DEF left, volume
<1>4. SquareRuns(c) => SquareRuns(counted) /\ SquareRuns(faded)
  BY <1>2, <1>3 DEF SquareRuns, Square
<1>5. NoiseRuns(c) => NoiseRuns(counted) /\ NoiseRuns(faded)
  BY <1>2, <1>3 DEF NoiseRuns, Noise
<1> HIDE DEF counted, faded
<1> QED BY <1>1, <1>4, <1>5

LEMMA SweepTickRuns ==
    ASSUME NEW c, SquareRuns(c) PROVE SquareRuns(SweepTick(c))
<1> DEFINE left == IF c.sweep_timer = 0 THEN 0 ELSE c.sweep_timer - 1
           f == CalcSweep(c)
           moved == [c EXCEPT !.sweep_timer = c.sweep_period,
                              !.sweep_shadow = f, !.frequency = f]
           again == CalcSweep(moved) < FREQ
<1>1. c \in Square /\ c.active \in BOOLEAN /\ (c.active => c.timer > 0 /\ c.length_counter > 0)
  BY DEF SquareRuns, Square
<1>2. f \in Nat /\ FREQ \in Nat
  BY <1>1, Sweeps, Frequencies DEF Square, Frequency
<1>3. left \in Nat /\ c.sweep_period \in Nat /\ again \in BOOLEAN
  BY <1>1 DEF Square
<1>4. SquareRuns([c EXCEPT !.sweep_timer = left])
      /\ SquareRuns([c EXCEPT !.sweep_timer = c.sweep_period])
  <2> HIDE DEF left
  <2> QED BY <1>1, <1>3 DEF SquareRuns, Square
<1>5. SquareRuns([c EXCEPT !.sweep_timer = c.sweep_period, !.active = FALSE])
  BY <1>1, <1>3 DEF SquareRuns, Square
<1>6. f < FREQ => SquareRuns(moved)
  <2> SUFFICES ASSUME f < FREQ PROVE SquareRuns(moved)
    OBVIOUS
  <2>1. f \in Frequency
    BY <1>2 DEF Frequency
  <2> HIDE DEF f
  <2>2. SquareRuns([c EXCEPT !.sweep_timer = c.sweep_period])
    BY <1>1, <1>3 DEF SquareRuns, Square
  <2>3. ASSUME NEW d, SquareRuns(d)
        PROVE  SquareRuns([d EXCEPT !.sweep_shadow = f, !.frequency = f])
    BY <2>1, <2>3 DEF SquareRuns, Square
  <2>4. moved = [[c EXCEPT !.sweep_timer = c.sweep_period]
                    EXCEPT !.sweep_shadow = f, !.frequency = f]
    OBVIOUS
  <2> QED BY <2>2, <2>3, <2>4
<1>7. f < FREQ => SquareRuns([moved EXCEPT !.active = @ /\ again])
  <2> HIDE DEF moved, again, f
  <2> QED BY <1>3, <1>6 DEF SquareRuns, Square
<1>8. \/ SweepTick(c) = c
      \/ SweepTick(c) = [c EXCEPT !.sweep_timer = left]
      \/ SweepTick(c) = [c EXCEPT !.sweep_timer = c.sweep_period, !.active = FALSE]
      \/ SweepTick(c) = [c EXCEPT !.sweep_timer = c.sweep_period]
      \/ ~(f >= FREQ) /\ SweepTick(c) = [moved EXCEPT !.active = @ /\ again]
  BY Zenon DEF SweepTick
<1> HIDE DEF left, f, moved, again
<1> QED BY <1>2, <1>4, <1>5, <1>7, <1>8

\* A register write of an envelope leaves a length to count down.
LEMMA SetEnvelopeRuns ==
    ASSUME NEW c, NEW v \in Nr12
    PROVE  /\ SquareRuns(c) => SquareRuns(SetEnvelope(c, v))
           /\ NoiseRuns(c) => NoiseRuns(SetEnvelope(c, v))
<1> DEFINE n == LENGTH - v.length
           e == [c EXCEPT !.length_counter = n]
           f == [[e EXCEPT !.env_period = v.env_period, !.env_direction = v.env_direction]
                    EXCEPT !.env_initial = v.env_initial]
<1>1. /\ n \in 0 .. LENGTH /\ n > 0 /\ v.env_period \in 0 .. 7
      /\ v.env_direction \in BOOLEAN /\ v.env_initial \in 0 .. VOLUME
  BY PsgAssumption DEF Nr12
<1>2. SetEnvelope(c, v) = f
  BY DEF SetEnvelope
<1> HIDE DEF n
<1>3. (SquareRuns(c) => SquareRuns(e)) /\ (NoiseRuns(c) => NoiseRuns(e))
  BY <1>1 DEF SquareRuns, Square, NoiseRuns, Noise
<1> HIDE DEF e
<1>4. SquareRuns(e) => SquareRuns(f)
  BY <1>1 DEF SquareRuns, Square
<1>5. NoiseRuns(e) => NoiseRuns(f)
  BY <1>1 DEF NoiseRuns, Noise
<1> QED BY <1>2, <1>3, <1>4, <1>5

\* A trigger loads the timer with a period and a length of zero with the longest.
LEMMA TriggerRuns ==
    ASSUME NEW c \in Square PROVE SquareRuns(Trigger(c))
<1> DEFINE length == IF c.length_counter = 0 THEN LENGTH ELSE c.length_counter
           period == SquarePeriod(c.frequency)
           sweep == IF c.sweep_period > 0 THEN c.sweep_period ELSE DEFAULT_SWEEP
           on == c.sweep_period > 0 \/ c.sweep_shift > 0
           e == [c EXCEPT !.length_counter = length, !.timer = period]
           f == [e EXCEPT !.env_volume = c.env_initial, !.env_timer = c.env_period]
           g == [f EXCEPT !.sweep_shadow = c.frequency, !.sweep_timer = sweep,
                          !.sweep_enabled = on]
           active == (g.sweep_shift > 0 => CalcSweep(g) < FREQ) /\ DacOn(g)
<1>1. Trigger(c) = [g EXCEPT !.active = active]
  BY DEF Trigger
<1>2. /\ length \in 0 .. LENGTH /\ length > 0 /\ sweep \in Nat
      /\ period \in Nat /\ period > 0 /\ on \in BOOLEAN
  BY PsgAssumption, Frequencies DEF Square
<1>3. c.env_initial \in 0 .. VOLUME /\ c.env_period \in 0 .. 7 /\ c.frequency \in Frequency
  BY DEF Square
<1> HIDE DEF length, period, sweep, on
<1>4. e \in Square /\ e.timer > 0 /\ e.length_counter > 0
  BY <1>2 DEF Square
<1> HIDE DEF e
<1>5. f \in Square /\ f.timer > 0 /\ f.length_counter > 0
  BY <1>3, <1>4 DEF Square
<1> HIDE DEF f
<1>6. g \in Square /\ g.timer > 0 /\ g.length_counter > 0
  BY <1>2, <1>3, <1>5 DEF Square
<1>7. active \in BOOLEAN
  OBVIOUS
<1> HIDE DEF g, active
<1>8. SquareRuns([g EXCEPT !.active = active])
  BY <1>6, <1>7 DEF SquareRuns, Square
<1> QED BY <1>1, <1>8

LEMMA WriteSquareRuns ==
    ASSUME NEW c, SquareRuns(c)
    PROVE  /\ \A v \in Nr10 : SquareRuns(WriteNr10(c, v))
           /\ \A v \in Nr12 : SquareRuns(WriteNr12(c, v))
           /\ \A v \in Nr14 : SquareRuns(WriteNr14(c, v))
<1>1. ASSUME NEW v \in Nr10 PROVE SquareRuns(WriteNr10(c, v))
  BY DEF WriteNr10, SquareRuns, Square, Nr10
<1>2. ASSUME NEW v \in Nr12 PROVE SquareRuns(WriteNr12(c, v))
  <2> DEFINE d == SetEnvelope(c, v)
             active == d.active /\ DacOn(d)
  <2>1. SquareRuns(d)
    BY SetEnvelopeRuns
  <2>2. WriteNr12(c, v) = [d EXCEPT !.active = active] /\ active \in BOOLEAN
        /\ (active => d.active)
    BY DEF WriteNr12
  <2> HIDE DEF d, active
  <2> QED BY <2>1, <2>2 DEF SquareRuns, Square
<1>3. ASSUME NEW v \in Nr14 PROVE SquareRuns(WriteNr14(c, v))
  <2>1. c \in Square /\ v.frequency \in Frequency /\ v.length_enabled \in BOOLEAN
    BY DEF SquareRuns, Nr14
  <2>2. CASE v.trigger
    <3>1. [c EXCEPT !.frequency = v.frequency, !.length_enabled = v.length_enabled] \in Square
      BY <2>1 DEF Square
    <3> QED BY <2>2, <3>1, TriggerRuns, Zenon DEF WriteNr14
  <2>3. CASE ~v.trigger
    <3> DEFINE f == MergeFrequency(c.frequency, v.frequency)
    <3>1. f \in Frequency
      BY <2>1, Frequencies DEF Square
    <3>2. WriteNr14(c, v) = [c EXCEPT !.frequency = f, !.length_enabled = v.length_enabled]
      BY <2>3 DEF WriteNr14
    <3> HIDE DEF f
    <3> QED BY <2>1, <3>1, <3>2 DEF SquareRuns, Square
  <2> QED BY <2>2, <2>3
<1> QED BY <1>1, <1>2, <1>3

LEMMA WriteWaveRuns ==
    ASSUME NEW c, WaveRuns(c)
    PROVE  /\ \A v \in Nr30 : WaveRuns(WriteNr30(c, v))
           /\ \A v \in Nr31 : WaveRuns(WriteNr31(c, v))
           /\ \A v \in Nr14 : WaveRuns(WriteNr34(c, v))
<1>1. ASSUME NEW v \in Nr30 PROVE WaveRuns(WriteNr30(c, v))
  <2> DEFINE active == c.active /\ v.enabled
  <2>1. /\ WriteNr30(c, v) = [c EXCEPT !.enabled = v.enabled, !.active = active]
        /\ active \in BOOLEAN /\ (active => c.active) /\ v.enabled \in BOOLEAN
    BY DEF WriteNr30, Nr30
  <2> HIDE DEF active
  <2> QED BY <2>1 DEF WaveRuns, Wave
<1>2. ASSUME NEW v \in Nr31 PROVE WaveRuns(WriteNr31(c, v))
  <2> DEFINE n == WAVE_LENGTH - v.length
  <2>1. n \in 0 .. WAVE_LENGTH /\ n > 0
    BY PsgAssumption DEF Nr31
  <2> HIDE DEF n
  <2> QED BY <2>1 DEF WaveRuns, Wave, WriteNr31, n
<1>3. ASSUME NEW v \in Nr14 PROVE WaveRuns(WriteNr34(c, v))
  <2>1. /\ c \in Wave /\ (c.active => c.timer > 0 /\ c.length_counter > 0)
        /\ v.frequency \in Frequency /\ v.length_enabled \in BOOLEAN
    BY DEF WaveRuns, Nr14
  <2>2. CASE v.trigger
    <3> DEFINE length == IF c.length_counter = 0 THEN WAVE_LENGTH ELSE c.length_counter
               period == WavePeriod(v.frequency)
               d == [c EXCEPT !.active = TRUE, !.frequency = v.frequency,
                              !.length_enabled = v.length_enabled]
    <3>1. length \in 0 .. WAVE_LENGTH /\ length > 0 /\ period \in Nat /\ period > 0
      BY <2>1, PsgAssumption, Frequencies DEF Wave
    <3>2. WriteNr34(c, v) = [d EXCEPT !.length_counter = length, !.timer = period]
      BY <2>2 DEF WriteNr34
    <3>3. d \in Wave
      BY <2>1 DEF Wave
    <3> HIDE DEF d, length, period
    <3> QED BY <3>1, <3>2, <3>3 DEF WaveRuns, Wave
  <2>3. CASE ~v.trigger
    <3> DEFINE f == MergeFrequency(c.frequency, v.frequency)
    <3>1. f \in Frequency
      BY <2>1, Frequencies DEF Wave
    <3>2. WriteNr34(c, v) = [c EXCEPT !.frequency = f, !.length_enabled = v.length_enabled]
      BY <2>3 DEF WriteNr34
    <3> HIDE DEF f
    <3> QED BY <2>1, <3>1, <3>2 DEF WaveRuns, Wave
  <2> QED BY <2>2, <2>3
<1> QED BY <1>1, <1>2, <1>3

LEMMA WriteNoiseRuns ==
    ASSUME NEW c, NoiseRuns(c), NEW v \in Nr44 PROVE NoiseRuns(WriteNr44(c, v))
<1> DEFINE d == [c EXCEPT !.divisor_code = v.divisor_code, !.clock_shift = v.clock_shift,
                          !.length_enabled = v.length_enabled]
           length == IF d.length_counter = 0 THEN LENGTH ELSE d.length_counter
           period == NoisePeriod(d)
           active == DacOn(d)
           e == [d EXCEPT !.active = active, !.length_counter = length]
           f == [e EXCEPT !.env_volume = d.env_initial, !.env_timer = d.env_period,
                          !.timer = period]
<1>1. WriteNr44(c, v) = IF v.trigger THEN f ELSE d
  BY DEF WriteNr44
<1>2. NoiseRuns(d)
  BY DEF Nr44, NoiseRuns, Noise
<1> HIDE DEF d
<1>3. /\ length \in 0 .. LENGTH /\ length > 0 /\ period \in Nat /\ period > 0
      /\ active \in BOOLEAN /\ d \in Noise
      /\ d.env_initial \in 0 .. VOLUME /\ d.env_period \in 0 .. 7
  <2>1. d \in Noise /\ d.length_counter \in 0 .. LENGTH
    BY <1>2 DEF NoiseRuns, Noise
  <2>2. period \in Nat /\ period > 0
    BY <2>1, NoisePeriods
  <2>3. active \in BOOLEAN
    BY DEF DacOn
  <2> HIDE DEF period, active
  <2> QED BY <2>1, <2>2, <2>3, PsgAssumption DEF Noise
<1> HIDE DEF length, period, active
<1>4. e \in Noise /\ e.length_counter > 0
  BY <1>3 DEF Noise
<1> HIDE DEF e
<1>5. NoiseRuns(f)
  BY <1>3, <1>4 DEF NoiseRuns, Noise
<1> HIDE DEF f
<1> QED BY <1>1, <1>2, <1>5

-----------------------------------------------------------------------------
(* Recursive functions.  The elements of D have ranks up to N, and the      *)
(* value at one of a rank above zero comes from that at one of a lower rank: *)
(* what holds at rank zero and is passed on holds of every value, and such a *)
(* function exists.  Counting up from zero is the case of a chain.          *)

\* A set of naturals has a least element: what an induction starts from.
LEMMA LeastExists ==
    ASSUME NEW S, S \subseteq Nat, S # {}
    PROVE  \E m \in S : \A k \in S : m <= k
<1> DEFINE R == {p \in Nat \X Nat : p[1] < p[2]}
<1>1. IsWellFoundedOn(R, Nat)
  BY NatLessThanWellFounded DEF OpToRel
<1>2. \A n, k \in Nat : n < k => <<n, k>> \in R
  OBVIOUS
<1> HIDE DEF R
<1>3. PICK m \in S : \A k \in S : <<k, m>> \notin R
  BY <1>1, WFMin, Zenon
<1>4. \A k \in S : m <= k
  <2> SUFFICES ASSUME NEW k \in S, k < m PROVE FALSE
    OBVIOUS
  <2> QED BY <1>2, <1>3
<1> QED BY <1>4

\* next descends from every element whose rank is above zero.
Ranked(D, N, rank, next) ==
    /\ N \in Nat /\ rank \in [D -> 0 .. N] /\ next \in [D -> D]
    /\ \A d \in D : rank[d] > 0 => rank[next[d]] < rank[d]

\* A value of f is in S where the rank is zero and where that of next is.
Inductive(D, S, rank, next, f) ==
    /\ \A d \in D : rank[d] = 0 => f[d] \in S
    /\ \A d \in D : rank[d] > 0 /\ f[next[d]] \in S => f[d] \in S

\* f is the function defined by recursion along next.
Solution(D, rank, next, start, G, f) ==
    \A d \in D : f[d] = IF rank[d] = 0 THEN start[d] ELSE G[<<d, f[next[d]]>>]

LEMMA Recursion ==
    ASSUME NEW D, NEW S, NEW N, NEW rank, NEW next, NEW f,
           Ranked(D, N, rank, next), Inductive(D, S, rank, next, f)
    PROVE  \A d \in D : f[d] \in S
<1> USE DEF Ranked, Inductive
<1> DEFINE bad == {rank[d] : d \in {e \in D : f[e] \notin S}}
<1> SUFFICES ASSUME bad # {} PROVE FALSE
  OBVIOUS
<1>1. bad \subseteq Nat
  OBVIOUS
<1>2. PICK m \in bad : \A k \in bad : m <= k
  BY <1>1, LeastExists
<1>3. PICK d \in D : f[d] \notin S /\ rank[d] = m
  BY <1>2
<1>4. rank[d] > 0 /\ next[d] \in D /\ rank[d] \in Nat /\ rank[next[d]] \in Nat
  BY <1>3
<1>5. f[next[d]] \in S
  <2> SUFFICES ASSUME f[next[d]] \notin S PROVE FALSE
    OBVIOUS
  <2>1. rank[next[d]] \in bad
    BY <1>4
  <2> HIDE DEF bad
  <2> QED BY <1>2, <1>3, <1>4, <2>1
<1> QED BY <1>3, <1>4, <1>5

LEMMA RecursionExists ==
    ASSUME NEW D, NEW S, NEW N, NEW rank, NEW next, Ranked(D, N, rank, next),
           NEW start, NEW G, start \in [D -> S], G \in [D \X S -> S]
    PROVE  \E f \in [D -> S] : Solution(D, rank, next, start, G, f)
<1> USE DEF Ranked, Solution
<1> DEFINE Solves(f, n) == \A d \in D : rank[d] <= n =>
                 f[d] = IF rank[d] = 0 THEN start[d] ELSE G[<<d, f[next[d]]>>]
           Solved(n) == \E f \in [D -> S] : Solves(f, n)
           bad == {n \in Nat : ~Solved(n)}
<1>1. \A d \in D : rank[d] \in Nat /\ rank[d] <= N /\ next[d] \in D
  OBVIOUS
<1>2. Solved(0)
  <2>1. Solves(start, 0)
    BY <1>1
  <2> QED BY <2>1
<1>3. ASSUME NEW m \in Nat, Solved(m) PROVE Solved(m + 1)
  <2>1. PICK f \in [D -> S] : Solves(f, m)
    BY <1>3
  <2> DEFINE g == [d \in D |-> IF rank[d] <= m THEN f[d] ELSE G[<<d, f[next[d]]>>]]
  <2>2. g \in [D -> S]
    BY <1>1
  <2>3. ASSUME NEW d \in D, rank[d] <= m + 1
        PROVE  g[d] = IF rank[d] = 0 THEN start[d] ELSE G[<<d, g[next[d]]>>]
    <3>1. rank[d] > 0 => rank[next[d]] <= m
      BY <1>1, <2>3
    <3>2. rank[d] > 0 => g[next[d]] = f[next[d]]
      BY <1>1, <3>1
    <3>3. CASE rank[d] <= m
      <4>1. g[d] = f[d]
        BY <3>3
      <4>2. f[d] = IF rank[d] = 0 THEN start[d] ELSE G[<<d, f[next[d]]>>]
        BY <2>1, <3>3
      <4> HIDE DEF g
      <4> QED BY <1>1, <3>2, <4>1, <4>2
    <3>4. CASE ~(rank[d] <= m)
      <4>1. rank[d] > 0
        BY <1>1, <3>4
      <4> QED BY <3>2, <3>4, <4>1
    <3> QED BY <3>3, <3>4
  <2> HIDE DEF g
  <2> QED BY <2>2, <2>3
<1>4. bad = {}
  <2> SUFFICES ASSUME bad # {} PROVE FALSE
    OBVIOUS
  <2>1. bad \subseteq Nat
    OBVIOUS
  <2>2. PICK n \in bad : \A k \in bad : n <= k
    BY <2>1, LeastExists
  <2> HIDE DEF Solved
  <2>3. n \in Nat /\ n # 0 /\ ~Solved(n)
    BY <1>2, <2>2
  <2>4. n - 1 \in Nat /\ ~(n <= n - 1) /\ n - 1 + 1 = n
    BY <2>3
  <2>5. Solved(n - 1)
    BY <2>2, <2>4
  <2> QED BY <1>3, <2>3, <2>4, <2>5
<1>5. Solved(N)
  BY <1>4
<1>6. PICK f \in [D -> S] : Solves(f, N)
  BY <1>5
<1> QED BY <1>1, <1>6

\* The same for a function on 0 .. n that counts up.
Chain(n, S, f) == f[0] \in S /\ \A i \in 1 .. n : f[i - 1] \in S => f[i] \in S

LEMMA CountRanked ==
    ASSUME NEW n \in Nat
    PROVE  Ranked(0 .. n, n, [i \in 0 .. n |-> i], [i \in 0 .. n |-> IF i = 0 THEN 0 ELSE i - 1])
<1> DEFINE rank == [i \in 0 .. n |-> i]
           next == [i \in 0 .. n |-> IF i = 0 THEN 0 ELSE i - 1]
<1>1. rank \in [0 .. n -> 0 .. n]
  OBVIOUS
<1>2. next \in [0 .. n -> 0 .. n]
  <2>1. \A i \in 0 .. n : (IF i = 0 THEN 0 ELSE i - 1) \in 0 .. n
    OBVIOUS
  <2> QED BY <2>1
<1>3. \A i \in 0 .. n : rank[i] > 0 => rank[next[i]] < rank[i]
  <2> SUFFICES ASSUME NEW i \in 0 .. n, rank[i] > 0 PROVE rank[next[i]] < rank[i]
    OBVIOUS
  <2>1. rank[i] = i /\ i \in Int /\ i # 0 /\ next[i] = i - 1 /\ i - 1 \in 0 .. n
    OBVIOUS
  <2>2. rank[i - 1] = i - 1
    BY <2>1
  <2> QED BY <2>1, <2>2
<1> QED BY <1>1, <1>2, <1>3 DEF Ranked

LEMMA CountInductive ==
    ASSUME NEW n \in Nat, NEW S, NEW f, Chain(n, S, f)
    PROVE  \A i \in 0 .. n : f[i] \in S
<1> DEFINE rank == [i \in 0 .. n |-> i]
           next == [i \in 0 .. n |-> IF i = 0 THEN 0 ELSE i - 1]
<1>1. Ranked(0 .. n, n, rank, next)
  BY CountRanked
<1>2. Inductive(0 .. n, S, rank, next, f)
  <2>1. ASSUME NEW i \in 0 .. n, rank[i] = 0 PROVE f[i] \in S
    BY <2>1 DEF Chain
  <2>2. ASSUME NEW i \in 0 .. n, rank[i] > 0, f[next[i]] \in S PROVE f[i] \in S
    <3>1. i \in 1 .. n /\ next[i] = i - 1
      BY <2>2
    <3> HIDE DEF next
    <3> QED BY <2>2, <3>1 DEF Chain
  <2> QED BY <2>1, <2>2 DEF Inductive
<1> HIDE DEF rank, next
<1> QED BY <1>1, <1>2, Recursion

Steps(n, S, start, G) == n \in Nat /\ start \in S /\ G \in [(0 .. n) \X S -> S]

CountsUp(n, start, G, f) == f[0] = start /\ \A i \in 1 .. n : f[i] = G[<<i, f[i - 1]>>]

LEMMA CountExists ==
    ASSUME NEW n, NEW S, NEW start, NEW G, Steps(n, S, start, G)
    PROVE  \E f \in [0 .. n -> S] : CountsUp(n, start, G, f)
<1> USE DEF Steps, CountsUp
<1> DEFINE rank == [i \in 0 .. n |-> i]
           next == [i \in 0 .. n |-> IF i = 0 THEN 0 ELSE i - 1]
           init == [i \in 0 .. n |-> start]
<1>1. Ranked(0 .. n, n, rank, next)
  BY CountRanked
<1>2. init \in [0 .. n -> S]
  OBVIOUS
<1>3. /\ rank[0] = 0 /\ init[0] = start /\ 0 \in 0 .. n
      /\ \A i \in 1 .. n : rank[i] # 0 /\ next[i] = i - 1 /\ i \in 0 .. n
  OBVIOUS
<1> HIDE DEF rank, next, init
<1>4. PICK f \in [0 .. n -> S] : Solution(0 .. n, rank, next, init, G, f)
  BY <1>1, <1>2, RecursionExists
<1>5. \A i \in 0 .. n : f[i] = IF rank[i] = 0 THEN init[i] ELSE G[<<i, f[next[i]]>>]
  BY <1>4 DEF Solution
<1>6. f[0] = start
  BY <1>3, <1>5
<1>7. ASSUME NEW i \in 1 .. n PROVE f[i] = G[<<i, f[i - 1]>>]
  <2>1. rank[i] # 0 /\ next[i] = i - 1 /\ i \in 0 .. n
    BY <1>3
  <2>2. f[i] = IF rank[i] = 0 THEN init[i] ELSE G[<<i, f[next[i]]>>]
    BY <1>5, <2>1
  <2> QED BY <2>1, <2>2
<1> QED BY <1>6, <1>7

-----------------------------------------------------------------------------
(* What a batch carries along: the FIFOs, the merged overflows, one DMA     *)
(* request and the batch itself keep their types.                           *)

LEMMA FifoTyped ==
    ASSUME NEW f \in Fifo
    PROVE  /\ FifoReset(f) \in Fifo /\ FifoTail(f) \in Fifo /\ FifoHead(f) \in Byte
           /\ \A b \in Byte : Push(f, b) \in Fifo
<1> USE SoundFifoAssumption
<1>1. /\ f.data \in [0 .. FIFO_SIZE - 1 -> Byte] /\ f.len \in Nat /\ f.len <= FIFO_SIZE
      /\ f.read_pos \in 0 .. FIFO_SIZE - 1 /\ f.write_pos \in 0 .. FIFO_SIZE - 1
  BY DEF Fifo
<1>2. /\ (f.read_pos + 1) % FIFO_SIZE \in 0 .. FIFO_SIZE - 1
      /\ (f.write_pos + 1) % FIFO_SIZE \in 0 .. FIFO_SIZE - 1
  BY <1>1
<1>3. FifoReset(f) \in Fifo
  <2>1. 0 \in 0 .. FIFO_SIZE - 1 /\ 0 \in 0 .. FIFO_SIZE
    OBVIOUS
  <2>2. f \in [data : [0 .. FIFO_SIZE - 1 -> Byte], read_pos : 0 .. FIFO_SIZE - 1,
                write_pos : 0 .. FIFO_SIZE - 1, len : 0 .. FIFO_SIZE]
    BY DEF Fifo
  <2> QED BY <2>1, <2>2 DEF FifoReset, Fifo
<1>4. FifoTail(f) \in Fifo
  <2>1. CASE f.len = 0
    BY <2>1 DEF FifoTail
  <2>2. CASE f.len # 0
    <3>1. f.len - 1 \in 0 .. FIFO_SIZE
      BY <1>1, <2>2
    <3>2. PICK r \in 0 .. FIFO_SIZE - 1 : r = (f.read_pos + 1) % FIFO_SIZE
      BY <1>2
    <3>3. FifoTail(f) = [f EXCEPT !.read_pos = r, !.len = f.len - 1]
      BY <2>2, <3>2 DEF FifoTail, Fifo
    <3> QED BY <3>1, <3>3 DEF Fifo
  <2> QED BY <2>1, <2>2
<1>5. FifoHead(f) \in Byte
  BY <1>1 DEF FifoHead
<1>6. ASSUME NEW b \in Byte PROVE Push(f, b) \in Fifo
  <2>1. CASE f.len < FIFO_SIZE
    <3>1. f.len + 1 \in 0 .. FIFO_SIZE
      BY <1>1, <2>1
    <3>2. PICK w \in 0 .. FIFO_SIZE - 1 : w = (f.write_pos + 1) % FIFO_SIZE
      BY <1>2
    <3>3. PICK d \in [0 .. FIFO_SIZE - 1 -> Byte] : d = [f.data EXCEPT ![f.write_pos] = b]
      BY <1>1
    <3>4. Push(f, b) = [f EXCEPT !.data = d, !.write_pos = w, !.len = f.len + 1]
      BY <2>1, <3>2, <3>3 DEF Push, Fifo
    <3> QED BY <3>1, <3>4 DEF Fifo
  <2>2. CASE ~(f.len < FIFO_SIZE)
    BY <2>2 DEF Push
  <2> QED BY <2>1, <2>2
<1> QED BY <1>3, <1>4, <1>5, <1>6

LEMMA FifoNewTyped == FifoNew \in Fifo
BY SoundFifoAssumption DEF FifoNew, Fifo

LEMMA FifoWriteTyped ==
    ASSUME NEW f \in Fifo, NEW a \in Byte, NEW b \in Byte PROVE FifoWrite(f, a, b) \in Fifo
<1>1. Push(f, a) \in Fifo
  BY FifoTyped
<1> QED BY <1>1, FifoTyped DEF FifoWrite

\* An overflow that Merge has put in its place.
Pop == [cycle : Nat, timer : {0, 1}]

LEMMA ReportFacts ==
    ASSUME NEW cycles \in Nat, NEW r \in Reports(cycles)
    PROVE  r.count \in Nat /\ r.first \in Nat /\ r.period \in Nat
<1>1. CASE r = NoOverflow
  BY <1>1 DEF NoOverflow
<1>2. CASE r # NoOverflow
  <2>1. PICK first \in 1 .. cycles, period \in Periods :
           r = [count |-> (cycles - first) \div period + 1, first |-> first, period |-> period]
    BY <1>2 DEF Reports
  <2>2. cycles - first \in Nat /\ first \in Nat /\ period \in Nat /\ period > 0
    BY SoundAssumption
  <2>3. (cycles - first) \div period \in Nat
    BY <2>2
  <2> QED BY <2>1, <2>2, <2>3
<1> QED BY <1>1, <1>2

\* Merging what is left of the two reports: from <<a, b>> on, a overflows of
\* timer 0 and b of timer 1 have been taken.
At(ov, i, k) == ov[i].first + ov[i].period * k
ZeroIsNext(ov, a, b) ==
    a < ov[0].count /\ (b < ov[1].count => At(ov, 0, a) <= At(ov, 1, b))

Merges(ov, from) ==
    \A a \in 0 .. ov[0].count, b \in 0 .. ov[1].count :
        /\ from[<<a, b>>] \in Seq(Pop)
        /\ from[<<a, b>>] =
              IF a = ov[0].count /\ b = ov[1].count THEN <<>>
              ELSE IF ZeroIsNext(ov, a, b)
              THEN <<[cycle |-> At(ov, 0, a), timer |-> 0]>> \o from[<<a + 1, b>>]
              ELSE <<[cycle |-> At(ov, 1, b), timer |-> 1]>> \o from[<<a, b + 1>>]

\* The merge ends: each step takes one of the overflows that are left.
LEMMA MergedPops ==
    ASSUME NEW cycles \in Nat, NEW ov, ov[0] \in Reports(cycles), ov[1] \in Reports(cycles)
    PROVE  /\ Merge(ov) \in Seq(Pop)
           /\ \E from : Merges(ov, from) /\ Merge(ov) = from[<<0, 0>>]
<1> DEFINE at(i, k) == ov[i].first + ov[i].period * k
           D == (0 .. ov[0].count) \X (0 .. ov[1].count)
           N == ov[0].count + ov[1].count
           rank == [k \in D |-> (ov[0].count - k[1]) + (ov[1].count - k[2])]
           left0(k) == k[0 + 1] < ov[0].count
           left1(k) == k[1 + 1] < ov[1].count
           first(k) == left0(k) /\ (left1(k) => at(0, k[1]) <= at(1, k[2]))
           pop(k) == IF first(k) THEN [cycle |-> at(0, k[1]), timer |-> 0]
                                 ELSE [cycle |-> at(1, k[2]), timer |-> 1]
           next == [k \in D |-> IF rank[k] = 0 THEN k
                                ELSE IF first(k) THEN <<k[1] + 1, k[2]>>
                                ELSE <<k[1], k[2] + 1>>]
           start == [k \in D |-> <<>>]
           G == [x \in D \X Seq(Pop) |-> <<pop(x[1])>> \o x[2]]
           Body(f, k) == IF ~left0(k) /\ ~left1(k) THEN <<>>
                         ELSE IF first(k)
                         THEN <<[cycle |-> at(0, k[1]), timer |-> 0]>> \o f[<<k[1] + 1, k[2]>>]
                         ELSE <<[cycle |-> at(1, k[2]), timer |-> 1]>> \o f[<<k[1], k[2] + 1>>]
           from == CHOOSE f : f = [k \in D |-> Body(f, k)]
<1>1. /\ ov[0].count \in Nat /\ ov[0].first \in Nat /\ ov[0].period \in Nat
      /\ ov[1].count \in Nat /\ ov[1].first \in Nat /\ ov[1].period \in Nat
  BY ReportFacts
<1>2. N \in Nat /\ rank \in [D -> 0 .. N]
  BY <1>1
<1>3. ASSUME NEW k \in D
      PROVE  /\ k[1] \in Nat /\ k[2] \in Nat /\ pop(k) \in Pop
             /\ rank[k] = 0 <=> ~left0(k) /\ ~left1(k)
             /\ rank[k] > 0 => next[k] \in D /\ rank[next[k]] < rank[k]
  <2> DEFINE a == k[1]
             b == k[2]
  <2>1. /\ a \in 0 .. ov[0].count /\ b \in 0 .. ov[1].count /\ a \in Nat /\ b \in Nat
        /\ rank[k] = (ov[0].count - a) + (ov[1].count - b)
    BY <1>1
  <2>2. at(0, a) \in Nat /\ at(1, b) \in Nat
    BY <1>1, <2>1
  <2>3. pop(k) \in Pop
    BY <2>2 DEF Pop
  <2>4. (left0(k) <=> a < ov[0].count) /\ (left1(k) <=> b < ov[1].count)
    OBVIOUS
  <2>5. rank[k] # 0 => next[k] = IF first(k) THEN <<a + 1, b>> ELSE <<a, b + 1>>
    OBVIOUS
  <2>6. first(k) => left0(k)
    OBVIOUS
  <2>7. ~first(k) /\ left0(k) => left1(k)
    BY <2>2
  <2>8. \A m \in 0 .. ov[0].count, n \in 0 .. ov[1].count :
           <<m, n>> \in D /\ rank[<<m, n>>] = (ov[0].count - m) + (ov[1].count - n)
    BY <1>1
  <2> HIDE DEF a, b, rank, next, first, left0, left1, at, pop
  <2>9. rank[k] = 0 <=> ~left0(k) /\ ~left1(k)
    BY <1>1, <2>1, <2>4
  <2>10. ASSUME rank[k] > 0 PROVE next[k] \in D /\ rank[next[k]] < rank[k]
    <3>1. CASE first(k)
      <4>1. next[k] = <<a + 1, b>> /\ a + 1 \in 0 .. ov[0].count
        BY <1>1, <2>1, <2>4, <2>5, <2>6, <2>10, <3>1
      <4>2. <<a + 1, b>> \in D /\ rank[<<a + 1, b>>] = (ov[0].count - (a + 1)) + (ov[1].count - b)
        BY <2>1, <2>8, <4>1
      <4> QED BY <1>1, <2>1, <4>1, <4>2
    <3>2. CASE ~first(k)
      <4>1. next[k] = <<a, b + 1>> /\ b + 1 \in 0 .. ov[1].count
        BY <1>1, <2>1, <2>4, <2>5, <2>7, <2>9, <2>10, <3>2
      <4>2. <<a, b + 1>> \in D /\ rank[<<a, b + 1>>] = (ov[0].count - a) + (ov[1].count - (b + 1))
        BY <2>1, <2>8, <4>1
      <4> QED BY <1>1, <2>1, <4>1, <4>2
    <3> QED BY <3>1, <3>2
  <2> QED BY <2>1, <2>3, <2>9, <2>10 DEF a, b
<1>4. next \in [D -> D] /\ \A k \in D : rank[k] > 0 => rank[next[k]] < rank[k]
  <2>1. \A k \in D : next[k] \in D
    <3> SUFFICES ASSUME NEW k \in D PROVE next[k] \in D
      OBVIOUS
    <3>1. rank[k] = 0 => next[k] = k
      OBVIOUS
    <3>2. rank[k] \in Nat
      BY <1>2
    <3>3. rank[k] > 0 => next[k] \in D
      BY <1>3
    <3> HIDE DEF next, rank, D
    <3> QED BY <3>1, <3>2, <3>3
  <2>2. \A k \in D : rank[k] > 0 => rank[next[k]] < rank[k]
    BY <1>3
  <2>3. next = [k \in D |-> next[k]]
    OBVIOUS
  <2> HIDE DEF next
  <2> QED BY <2>1, <2>2, <2>3
<1>5. start \in [D -> Seq(Pop)]
  OBVIOUS
<1>6. G \in [D \X Seq(Pop) -> Seq(Pop)]
  <2>1. ASSUME NEW x \in D \X Seq(Pop) PROVE <<pop(x[1])>> \o x[2] \in Seq(Pop)
    <3>1. x[1] \in D /\ x[2] \in Seq(Pop)
      OBVIOUS
    <3>2. pop(x[1]) \in Pop
      BY <1>3, <3>1
    <3> HIDE DEF pop
    <3> QED BY <3>1, <3>2
  <2> HIDE DEF pop
  <2> QED BY <2>1
<1>7. \A f, k : k \in D => Body(f, k) = IF rank[k] = 0 THEN <<>> ELSE <<pop(k)>> \o f[next[k]]
  <2> SUFFICES ASSUME NEW f, NEW k \in D
               PROVE  Body(f, k) = IF rank[k] = 0 THEN <<>> ELSE <<pop(k)>> \o f[next[k]]
    OBVIOUS
  <2>1. rank[k] = 0 <=> ~left0(k) /\ ~left1(k)
    BY <1>3
  <2>2. rank[k] # 0 => next[k] = IF first(k) THEN <<k[1] + 1, k[2]>> ELSE <<k[1], k[2] + 1>>
    OBVIOUS
  <2> HIDE DEF rank, next, left0, left1, first, at
  <2> QED BY <2>1, <2>2
<1> HIDE DEF rank, next, start, pop, Body, D
<1>8. PICK f \in [D -> Seq(Pop)] :
         \A k \in D : f[k] = IF rank[k] = 0 THEN start[k] ELSE G[<<k, f[next[k]]>>]
  <2> HIDE DEF G, N
  <2>1. Ranked(D, N, rank, next)
    BY <1>2, <1>4 DEF Ranked
  <2>2. PICK f \in [D -> Seq(Pop)] : Solution(D, rank, next, start, G, f)
    BY <2>1, <1>5, <1>6, RecursionExists
  <2> QED BY <2>2 DEF Solution
<1>9. f = [k \in D |-> Body(f, k)]
  <2>1. ASSUME NEW k \in D PROVE f[k] = Body(f, k)
    <3>1. next[k] \in D /\ f[next[k]] \in Seq(Pop)
      BY <1>4
    <3>2. G[<<k, f[next[k]]>>] = <<pop(k)>> \o f[next[k]] /\ start[k] = <<>>
      BY <3>1 DEF start
    <3>3. Body(f, k) = IF rank[k] = 0 THEN <<>> ELSE <<pop(k)>> \o f[next[k]]
      BY <1>7
    <3> HIDE DEF G
    <3> QED BY <1>8, <3>2, <3>3
  <2> QED BY <2>1
<1>10. from = [k \in D |-> Body(from, k)]
  BY <1>9
<1> HIDE DEF from
<1>14. \A k \in D : from[k] = IF rank[k] = 0 THEN <<>> ELSE <<pop(k)>> \o from[next[k]]
  <2>1. \A k \in D : from[k] = Body(from, k)
    BY <1>10
  <2> QED BY <1>7, <2>1
<1>11. \A k \in D : from[k] \in Seq(Pop)
  <2>1. ASSUME NEW k \in D, rank[k] = 0 PROVE from[k] \in Seq(Pop)
    <3>1. from[k] = <<>>
      BY <1>14, <2>1
    <3> QED BY <3>1
  <2>2. ASSUME NEW k \in D, rank[k] > 0, from[next[k]] \in Seq(Pop) PROVE from[k] \in Seq(Pop)
    <3>0. rank[k] # 0
      BY <2>2
    <3>1. from[k] = <<pop(k)>> \o from[next[k]]
      BY <1>14, <3>0
    <3>2. pop(k) \in Pop
      BY <1>3
    <3> QED BY <2>2, <3>1, <3>2
  <2> HIDE DEF N
  <2>3. \A d \in D : rank[d] = 0 => from[d] \in Seq(Pop)
    BY <2>1
  <2>4. \A d \in D : rank[d] > 0 /\ from[next[d]] \in Seq(Pop) => from[d] \in Seq(Pop)
    BY <2>2
  <2>5. Ranked(D, N, rank, next) /\ Inductive(D, Seq(Pop), rank, next, from)
    BY <1>2, <1>4, <2>3, <2>4 DEF Ranked, Inductive
  <2> QED BY <2>5, Recursion
<1>12. <<0, 0>> \in D
  BY <1>1 DEF D
<1>13. Merge(ov) = from[<<0, 0>>]
  BY Zenon DEF Merge, from, Body, D, first, left0, left1, at
<1>15. Merges(ov, from)
  <2> SUFFICES ASSUME NEW a \in 0 .. ov[0].count, NEW b \in 0 .. ov[1].count
               PROVE  /\ from[<<a, b>>] \in Seq(Pop)
                      /\ from[<<a, b>>] =
                            IF a = ov[0].count /\ b = ov[1].count THEN <<>>
                            ELSE IF ZeroIsNext(ov, a, b)
                            THEN <<[cycle |-> At(ov, 0, a), timer |-> 0]>> \o from[<<a + 1, b>>]
                            ELSE <<[cycle |-> At(ov, 1, b), timer |-> 1]>> \o from[<<a, b + 1>>]
    BY Zenon DEF Merges
  <2> DEFINE k == <<a, b>>
  <2>1. k \in D /\ k[1] = a /\ k[2] = b
    BY DEF D
  <2>2. from[k] = Body(from, k)
    BY <1>10, <2>1
  <2>3. (left0(k) <=> a < ov[0].count) /\ (left1(k) <=> b < ov[1].count)
    BY <2>1
  <2>4. (a < ov[0].count <=> a # ov[0].count) /\ (b < ov[1].count <=> b # ov[1].count)
    BY <1>1
  <2>5. first(k) <=> ZeroIsNext(ov, a, b)
    BY <2>1, <2>3 DEF ZeroIsNext, At
  <2>6. at(0, a) = At(ov, 0, a) /\ at(1, b) = At(ov, 1, b)
    BY DEF At
  <2> HIDE DEF k, left0, left1, first, at
  <2>7. from[k] = IF ~left0(k) /\ ~left1(k) THEN <<>>
                  ELSE IF first(k)
                  THEN <<[cycle |-> at(0, k[1]), timer |-> 0]>> \o from[<<k[1] + 1, k[2]>>]
                  ELSE <<[cycle |-> at(1, k[2]), timer |-> 1]>> \o from[<<k[1], k[2] + 1>>]
    BY <2>2 DEF Body
  <2> QED BY <1>11, <2>1, <2>3, <2>4, <2>5, <2>6, <2>7 DEF k
<1> QED BY <1>11, <1>12, <1>13, <1>15

\* The latches of the two FIFOs, and a sample of them.
Samples == [FifoId -> Byte]

\* The state a batch carries along (Carry).
Carried ==
    [fifo : [FifoId -> Fifo], latch : Samples, src : [Ch -> 0 .. AddrSpace - 1],
     clock : 0 .. CLOCK - 1, out : Seq(Samples), stuck : BOOLEAN]

\* The byte that lies i bytes behind the position of a channel.
ByteAt(s, c, i) == Mem[(s.src[c] + i) % AddrSpace]

\* What a request of channel c fills FIFO f with, a halfword at a time.
Fills(s, c, f, filled) ==
    /\ filled \in [0 .. REQUEST \div 2 -> Fifo] /\ filled[0] = s.fifo[f]
    /\ \A i \in 1 .. REQUEST \div 2 :
          filled[i] = FifoWrite(filled[i - 1], ByteAt(s, c, 2 * i - 2), ByteAt(s, c, 2 * i - 1))

LEMMA BytesAt ==
    ASSUME NEW s \in Carried, NEW c \in Ch, NEW i \in Nat PROVE ByteAt(s, c, i) \in Byte
<1>1. s.src[c] \in 0 .. AddrSpace - 1 /\ AddrSpace \in Nat \ {0}
  BY SoundAssumption DEF Carried
<1>2. (s.src[c] + i) % AddrSpace \in 0 .. AddrSpace - 1
  BY <1>1
<1> QED BY <1>2, SoundAssumption DEF ByteAt

LEMMA RequestFills ==
    ASSUME NEW s \in Carried, NEW c \in Ch, NEW f \in FifoId
    PROVE  \E filled :
              /\ Fills(s, c, f, filled)
              /\ Request(s, c, f) = [s EXCEPT !.fifo[f] = filled[REQUEST \div 2],
                                              !.src[c] = (s.src[c] + REQUEST) % AddrSpace]
<1> DEFINE byte(i) == ByteAt(s, c, i)
           n == REQUEST \div 2
           Body(g, i) == IF i = 0 THEN s.fifo[f]
                         ELSE FifoWrite(g[i - 1], byte(2 * i - 2), byte(2 * i - 1))
           G == [x \in (0 .. n) \X Fifo |->
                    IF x[1] = 0 THEN x[2]
                    ELSE FifoWrite(x[2], byte(2 * x[1] - 2), byte(2 * x[1] - 1))]
           filled == CHOOSE g : g = [i \in 0 .. n |-> Body(g, i)]
<1>1. n \in Nat
  BY SoundFifoAssumption
<1>2. /\ s.fifo \in [FifoId -> Fifo] /\ s.fifo[f] \in Fifo /\ s.latch \in Samples
      /\ s.src \in [Ch -> 0 .. AddrSpace - 1] /\ s.src[c] \in 0 .. AddrSpace - 1
      /\ s.clock \in 0 .. CLOCK - 1 /\ s.out \in Seq(Samples) /\ s.stuck \in BOOLEAN
  BY DEF Carried
<1>3. AddrSpace \in Nat \ {0}
  BY SoundAssumption
<1>4. ASSUME NEW i \in Nat PROVE byte(i) \in Byte
  BY BytesAt
<1> HIDE DEF byte, n
<1>5. ASSUME NEW i \in 1 .. n, NEW g \in Fifo
      PROVE  FifoWrite(g, byte(2 * i - 2), byte(2 * i - 1)) \in Fifo
  <2>1. 2 * i - 2 \in Nat /\ 2 * i - 1 \in Nat
    BY <1>1
  <2> QED BY <1>4, <2>1, FifoWriteTyped
<1>6. G \in [(0 .. n) \X Fifo -> Fifo]
  <2>1. ASSUME NEW x \in (0 .. n) \X Fifo
        PROVE  (IF x[1] = 0 THEN x[2]
                ELSE FifoWrite(x[2], byte(2 * x[1] - 2), byte(2 * x[1] - 1))) \in Fifo
    <3>1. x[2] \in Fifo /\ (x[1] # 0 => x[1] \in 1 .. n)
      BY <1>1
    <3> QED BY <1>5, <3>1
  <2> QED BY <2>1
<1>7. PICK g \in [0 .. n -> Fifo] :
         g[0] = s.fifo[f] /\ \A i \in 1 .. n : g[i] = G[<<i, g[i - 1]>>]
  <2> HIDE DEF G
  <2>1. Steps(n, Fifo, s.fifo[f], G)
    BY <1>1, <1>2, <1>6 DEF Steps
  <2>2. PICK g \in [0 .. n -> Fifo] : CountsUp(n, s.fifo[f], G, g)
    BY <2>1, CountExists
  <2> QED BY <2>2 DEF CountsUp
<1>8. g = [i \in 0 .. n |-> Body(g, i)]
  <2>1. ASSUME NEW i \in 0 .. n PROVE g[i] = Body(g, i)
    <3>1. CASE i = 0
      BY <1>7, <3>1
    <3>2. CASE i # 0
      <4>1. i \in 1 .. n /\ i - 1 \in 0 .. n
        BY <1>1, <3>2
      <4>2. g[i - 1] \in Fifo /\ <<i, g[i - 1]>> \in (0 .. n) \X Fifo
        BY <4>1
      <4>3. G[<<i, g[i - 1]>>] = FifoWrite(g[i - 1], byte(2 * i - 2), byte(2 * i - 1))
        BY <3>2, <4>2
      <4> HIDE DEF G
      <4> QED BY <1>7, <3>2, <4>1, <4>3
    <3> QED BY <3>1, <3>2
  <2> QED BY <2>1
<1>9. filled = [i \in 0 .. n |-> Body(filled, i)]
  <2> HIDE DEF Body
  <2> QED BY <1>8
<1> HIDE DEF filled
<1>10. Chain(n, Fifo, filled)
  <2>1. filled[0] \in Fifo
    BY <1>1, <1>2, <1>9
  <2>2. ASSUME NEW i \in 1 .. n, filled[i - 1] \in Fifo PROVE filled[i] \in Fifo
    <3>1. filled[i] = Body(filled, i) /\ i # 0
      BY <1>1, <1>9
    <3>2. filled[i] = FifoWrite(filled[i - 1], byte(2 * i - 2), byte(2 * i - 1))
      BY <3>1
    <3> QED BY <1>5, <2>2, <3>2
  <2> QED BY <2>1, <2>2 DEF Chain
<1>11. filled \in [0 .. n -> Fifo]
  <2>1. \A i \in 0 .. n : filled[i] \in Fifo
    BY <1>1, <1>10, CountInductive
  <2> HIDE DEF Body
  <2> QED BY <1>9, <2>1
<1>12. ASSUME NEW i \in 1 .. n
       PROVE  filled[i] = FifoWrite(filled[i - 1], byte(2 * i - 2), byte(2 * i - 1))
  <2>1. i \in 0 .. n /\ i # 0
    BY <1>1
  <2>2. filled[i] = Body(filled, i)
    BY <1>9, <2>1
  <2> QED BY <2>1, <2>2
<1>13. filled[0] = s.fifo[f]
  BY <1>1, <1>9
<1>14. Request(s, c, f) = [s EXCEPT !.fifo[f] = filled[n], !.src[c] = (s.src[c] + REQUEST) % AddrSpace]
  BY Zenon DEF Request, filled, n, byte, ByteAt
<1> HIDE DEF Body
<1> QED BY <1>11, <1>12, <1>13, <1>14 DEF Fills, n, byte

LEMMA RequestTyped ==
    ASSUME NEW s \in Carried, NEW c \in Ch, NEW f \in FifoId
    PROVE  Request(s, c, f) \in Carried
<1> DEFINE n == REQUEST \div 2
<1>1. PICK filled :
         /\ Fills(s, c, f, filled)
         /\ Request(s, c, f) = [s EXCEPT !.fifo[f] = filled[n],
                                         !.src[c] = (s.src[c] + REQUEST) % AddrSpace]
  BY RequestFills
<1>2. s.fifo \in [FifoId -> Fifo] /\ s.src \in [Ch -> 0 .. AddrSpace - 1]
      /\ s.src[c] \in 0 .. AddrSpace - 1 /\ AddrSpace \in Nat \ {0}
  BY SoundAssumption DEF Carried
<1>3. filled[n] \in Fifo
  BY <1>1, SoundFifoAssumption DEF Fills
<1> HIDE DEF n
<1>4. PICK a \in 0 .. AddrSpace - 1 : a = (s.src[c] + REQUEST) % AddrSpace
  BY <1>2, SoundFifoAssumption
<1>5. PICK ff \in [FifoId -> Fifo] : ff = [s.fifo EXCEPT ![f] = filled[n]]
  BY <1>2, <1>3
<1>6. PICK ss \in [Ch -> 0 .. AddrSpace - 1] : ss = [s.src EXCEPT ![c] = a]
  BY <1>2, <1>4
<1>7. Request(s, c, f) = [s EXCEPT !.fifo = ff, !.src = ss]
  BY <1>1, <1>4, <1>5, <1>6 DEF Carried
<1> QED BY <1>7 DEF Carried

LEMMA TickUntilTyped ==
    ASSUME NEW s \in Carried, NEW target \in 0 .. CLOCK - 1, enabled \in BOOLEAN
    PROVE  TickUntil(s, target) \in Carried
<1> DEFINE end == ((s.clock \div CYCLES_PER_SAMPLE + 1) * CYCLES_PER_SAMPLE) % CLOCK
           due == IF end <= target THEN (target - end) \div CYCLES_PER_SAMPLE + 1 ELSE 0
           past == enabled /\ due > 0 /\ target >= CLOCK - CYCLES_PER_SAMPLE
           more == [i \in 1 .. due |-> s.latch]
<1>1. /\ s.fifo \in [FifoId -> Fifo] /\ s.latch \in Samples
      /\ s.src \in [Ch -> 0 .. AddrSpace - 1]
      /\ s.clock \in 0 .. CLOCK - 1 /\ s.out \in Seq(Samples) /\ s.stuck \in BOOLEAN
  BY DEF Carried
<1>2. CLOCK \in Nat \ {0} /\ CYCLES_PER_SAMPLE \in Nat \ {0}
  BY SoundAssumption
<1>3. end \in Nat
  <2>1. (s.clock \div CYCLES_PER_SAMPLE) \in Nat
    <3>1. s.clock \in Nat
      BY <1>1, <1>2
    <3> QED BY <1>2, <3>1
  <2>2. PICK m \in Nat : m = (s.clock \div CYCLES_PER_SAMPLE + 1) * CYCLES_PER_SAMPLE
    <3>1. PICK k \in Nat : k = s.clock \div CYCLES_PER_SAMPLE + 1
      BY <2>1
    <3>2. k * CYCLES_PER_SAMPLE \in Nat
      BY <1>2
    <3> QED BY <3>1, <3>2
  <2>3. m % CLOCK \in Nat
    BY <1>2, <2>2
  <2> QED BY <2>2, <2>3
<1>4. due \in Nat
  <2> HIDE DEF end
  <2>1. ASSUME end <= target PROVE (target - end) \div CYCLES_PER_SAMPLE + 1 \in Nat
    <3>1. target - end \in Nat
      BY <1>2, <1>3, <2>1
    <3> QED BY <1>2, <3>1
  <2> QED BY <2>1
<1>5. TickUntil(s, target) =
        IF past THEN [s EXCEPT !.stuck = TRUE]
        ELSE [s EXCEPT !.clock = target, !.out = IF enabled THEN @ \o more ELSE @]
  BY Zenon DEF TickUntil
<1> HIDE DEF end, due, past
<1>6. more \in Seq(Samples)
  BY <1>1, <1>4
<1> HIDE DEF more
<1>7. CASE past
  BY <1>5, <1>7 DEF Carried
<1>8. CASE ~past
  <2>1. PICK o \in Seq(Samples) : o = IF enabled THEN s.out \o more ELSE s.out
    <3>1. s.out \in Seq(Samples) /\ s.out \o more \in Seq(Samples)
      BY <1>1, <1>6
    <3> QED BY <3>1
  <2>2. TickUntil(s, target) = [s EXCEPT !.clock = target, !.out = o]
    BY <1>5, <1>8, <2>1 DEF Carried
  <2> QED BY <2>2 DEF Carried
<1> QED BY <1>7, <1>8

LEMMA OverflowTyped ==
    ASSUME NEW s \in Carried, NEW timer \in {0, 1} PROVE OnTimerOverflow(s, timer) \in Carried
<1>1. /\ s.fifo \in [FifoId -> Fifo] /\ s.latch \in Samples
      /\ \A f \in FifoId : s.fifo[f] \in Fifo /\ s.latch[f] \in Byte
  BY DEF Carried, Samples
<1>2. \A f \in FifoId : FifoHead(s.fifo[f]) \in Byte /\ FifoTail(s.fifo[f]) \in Fifo
  BY <1>1, FifoTyped
<1>3. PICK l \in Samples :
         l = [f \in FifoId |-> IF timer_of[f] = timer THEN FifoHead(s.fifo[f]) ELSE s.latch[f]]
  BY <1>1, <1>2 DEF Samples
<1>4. PICK q \in [FifoId -> Fifo] :
         q = [f \in FifoId |-> IF timer_of[f] = timer THEN FifoTail(s.fifo[f]) ELSE s.fifo[f]]
  BY <1>1, <1>2
<1>5. OnTimerOverflow(s, timer) = [s EXCEPT !.latch = l, !.fifo = q]
  BY <1>3, <1>4 DEF OnTimerOverflow, Carried
<1> QED BY <1>5 DEF Carried

LEMMA CheckTyped ==
    ASSUME NEW s \in Carried, NEW timer, NEW dma PROVE CheckSoundFifoDma(s, timer, dma) \in Carried
<1> DEFINE serve(r, c) ==
               IF /\ dma[c] \in FifoId
                  /\ timer_of[dma[c]] = timer
                  /\ NeedsData(r.fifo[dma[c]])
               THEN Request(r, c, dma[c]) ELSE r
<1>1. ASSUME NEW r \in Carried, NEW c \in Ch PROVE serve(r, c) \in Carried
  BY RequestTyped
<1>2. CheckSoundFifoDma(s, timer, dma) =
         IF \E f \in FifoId : NeedsData(s.fifo[f]) THEN serve(serve(s, 1), 2) ELSE s
  BY Zenon DEF CheckSoundFifoDma
<1>3. 1 \in Ch /\ 2 \in Ch
  BY DEF Ch
<1> HIDE DEF serve
<1> QED BY <1>1, <1>2, <1>3

\* What Tick needs of the state.
TypedState ==
    /\ enabled \in BOOLEAN /\ fifo \in [FifoId -> Fifo] /\ latch \in Samples
    /\ src \in [Ch -> 0 .. AddrSpace - 1] /\ sample_clock \in 0 .. CLOCK - 1

\* One pop of a batch, with the samples before it.
ClockAt(n) == (sample_clock + n) % CLOCK
Clocked(s, timer, dma) == CheckSoundFifoDma(OnTimerOverflow(s, timer), timer, dma)
PopAt(r, p, cycles, dma) ==
    LET at == IF p.cycle < cycles THEN p.cycle ELSE cycles
    IN  Clocked(TickUntil(r, ClockAt(at)), p.timer, dma)

\* popped[k] is the state after the first k pops.
Pops(cycles, pops, dma, popped) ==
    /\ popped \in [0 .. Len(pops) -> Carried] /\ popped[0] = Carry
    /\ \A k \in 1 .. Len(pops) : popped[k] = PopAt(popped[k - 1], pops[k], cycles, dma)

\* Every pop of a batch, and the samples before it, keep the state typed.
LEMMA RunPops ==
    ASSUME TypedState, NEW cycles \in Nat, NEW ov, NEW dma,
           ov[0] \in Reports(cycles), ov[1] \in Reports(cycles)
    PROVE  \E popped :
              /\ Pops(cycles, Merge(ov), dma, popped)
              /\ Run(cycles, ov, dma) = TickUntil(popped[Len(Merge(ov))], ClockAt(cycles))
<1> DEFINE pops == Merge(ov)
           clock(n) == ClockAt(n)
           Next1(r, p) == PopAt(r, p, cycles, dma)
           Body(g, k) == IF k = 0 THEN Carry ELSE Next1(g[k - 1], pops[k])
           n == Len(pops)
           G == [x \in (0 .. n) \X Carried |-> IF x[1] = 0 THEN x[2] ELSE Next1(x[2], pops[x[1]])]
           popped == CHOOSE g : g = [k \in 0 .. n |-> Body(g, k)]
<1>1. pops \in Seq(Pop) /\ n \in Nat
  BY MergedPops
<1>2. \A m \in Nat : clock(m) \in 0 .. CLOCK - 1
  <2>1. CLOCK \in Nat \ {0} /\ sample_clock \in Nat
    BY SoundAssumption DEF TypedState
  <2> QED BY <2>1 DEF ClockAt
<1>3. Carry \in Carried
  BY DEF Carry, Carried, TypedState
<1>4. Run(cycles, ov, dma) = TickUntil(popped[n], clock(cycles))
  BY Zenon DEF Run, popped, Body, Next1, PopAt, Clocked, clock, ClockAt, pops, n
<1> HIDE DEF clock, pops, n
<1>5. ASSUME NEW r \in Carried, NEW k \in 1 .. n PROVE Next1(r, pops[k]) \in Carried
  <2>1. pops[k] \in Pop
    BY <1>1, <1>5 DEF n
  <2> DEFINE p == pops[k]
  <2>2. p.cycle \in Nat /\ p.timer \in {0, 1}
    BY <2>1 DEF Pop
  <2> HIDE DEF p
  <2> DEFINE at == IF p.cycle < cycles THEN p.cycle ELSE cycles
             sampled == TickUntil(r, clock(at))
  <2>3. at \in Nat
    BY <2>2
  <2> HIDE DEF at
  <2>4. sampled \in Carried
    BY <1>2, <2>3, TickUntilTyped DEF TypedState
  <2> HIDE DEF sampled
  <2>5. CheckSoundFifoDma(OnTimerOverflow(sampled, p.timer), p.timer, dma) \in Carried
    BY <2>2, <2>4, OverflowTyped, CheckTyped
  <2> QED BY <2>5, Zenon DEF PopAt, Clocked, clock, sampled, at, p
<1> HIDE DEF Next1
<1>6. G \in [(0 .. n) \X Carried -> Carried]
  <2>1. ASSUME NEW x \in (0 .. n) \X Carried
        PROVE  (IF x[1] = 0 THEN x[2] ELSE Next1(x[2], pops[x[1]])) \in Carried
    <3>1. x[2] \in Carried /\ (x[1] # 0 => x[1] \in 1 .. n)
      BY <1>1
    <3> QED BY <1>5, <3>1
  <2> QED BY <2>1
<1>7. PICK g \in [0 .. n -> Carried] : CountsUp(n, Carry, G, g)
  <2>1. Steps(n, Carried, Carry, G)
    <3> HIDE DEF G
    <3> QED BY <1>1, <1>3, <1>6 DEF Steps
  <2> HIDE DEF G
  <2> QED BY <2>1, CountExists
<1>8. g = [k \in 0 .. n |-> Body(g, k)]
  <2>1. ASSUME NEW k \in 0 .. n PROVE g[k] = Body(g, k)
    <3>1. CASE k = 0
      BY <1>7, <3>1 DEF CountsUp
    <3>2. CASE k # 0
      <4>1. k \in 1 .. n /\ k - 1 \in 0 .. n
        BY <1>1, <3>2
      <4>2. g[k - 1] \in Carried /\ <<k, g[k - 1]>> \in (0 .. n) \X Carried
        BY <4>1
      <4>3. G[<<k, g[k - 1]>>] = Next1(g[k - 1], pops[k])
        BY <3>2, <4>2
      <4> HIDE DEF G
      <4> QED BY <1>7, <3>2, <4>1, <4>3 DEF CountsUp
    <3> QED BY <3>1, <3>2
  <2> QED BY <2>1
<1>9. popped = [k \in 0 .. n |-> Body(popped, k)]
  <2> HIDE DEF Body
  <2> QED BY <1>8
<1> HIDE DEF popped
<1>10. Chain(n, Carried, popped)
  <2>1. popped[0] \in Carried
    BY <1>1, <1>3, <1>9
  <2>2. ASSUME NEW k \in 1 .. n, popped[k - 1] \in Carried PROVE popped[k] \in Carried
    <3>1. popped[k] = Body(popped, k) /\ k # 0
      BY <1>1, <1>9
    <3>2. popped[k] = Next1(popped[k - 1], pops[k])
      BY <3>1
    <3> QED BY <1>5, <2>2, <3>2
  <2> QED BY <2>1, <2>2 DEF Chain
<1>11. popped \in [0 .. n -> Carried]
  <2>1. \A k \in 0 .. n : popped[k] \in Carried
    BY <1>1, <1>10, CountInductive
  <2> HIDE DEF Body
  <2> QED BY <1>9, <2>1
<1>12. ASSUME NEW k \in 1 .. n PROVE popped[k] = Next1(popped[k - 1], pops[k])
  <2>1. k \in 0 .. n /\ k # 0
    BY <1>1
  <2>2. popped[k] = Body(popped, k)
    BY <1>9, <2>1
  <2> QED BY <2>1, <2>2
<1>13. popped[0] = Carry
  BY <1>1, <1>9
<1> HIDE DEF Body
<1> QED BY <1>4, <1>11, <1>12, <1>13 DEF Pops, Next1, clock, pops, n

LEMMA RunTyped ==
    ASSUME TypedState, NEW cycles \in Nat, NEW ov, NEW dma,
           ov[0] \in Reports(cycles), ov[1] \in Reports(cycles)
    PROVE  Run(cycles, ov, dma) \in Carried
<1>1. PICK popped :
         /\ Pops(cycles, Merge(ov), dma, popped)
         /\ Run(cycles, ov, dma) = TickUntil(popped[Len(Merge(ov))], ClockAt(cycles))
  BY RunPops
<1>2. Len(Merge(ov)) \in Nat
  BY MergedPops
<1>3. popped[Len(Merge(ov))] \in Carried
  BY <1>1, <1>2 DEF Pops
<1>4. ClockAt(cycles) \in 0 .. CLOCK - 1
  <2>1. CLOCK \in Nat \ {0} /\ sample_clock \in Nat
    BY SoundAssumption DEF TypedState
  <2> QED BY <2>1 DEF ClockAt
<1> QED BY <1>1, <1>3, <1>4, TickUntilTyped DEF TypedState

-----------------------------------------------------------------------------
(* Types, and the channels that run                                         *)

\* The inductive invariant: every component has its type, and the channels
\* run.  That a batch keeps the timers typed needs the number of its samples
\* to be a number, which is why the FIFOs are in it.
ChannelsRun ==
    SquareRuns(ch1) /\ SquareRuns(ch2) /\ WaveRuns(ch3) /\ NoiseRuns(ch4)

DirectTyped ==
    /\ TypedState /\ timer_of \in [FifoId -> {0, 1}] /\ step \in 0 .. 7
    /\ emitted \in Seq(Samples) /\ stuck \in BOOLEAN

RunsInv == DirectTyped /\ ChannelsRun

LEMMA NewChannelsRun ==
    SquareRuns(SquareNew) /\ WaveRuns(WaveNew) /\ NoiseRuns(NoiseNew)
<1>1. 0 \in Frequency /\ 0 \in 0 .. LENGTH /\ 0 \in 0 .. WAVE_LENGTH /\ 0 \in 0 .. VOLUME
  BY PsgAssumption, Frequencies DEF Frequency
<1>2. SquareNew \in Square
  BY <1>1 DEF SquareNew, Square
<1>3. WaveNew \in Wave
  BY <1>1 DEF WaveNew, Wave
<1>4. NoiseNew \in Noise
  BY <1>1 DEF NoiseNew, Noise
<1> QED BY <1>2, <1>3, <1>4 DEF SquareRuns, WaveRuns, NoiseRuns, SquareNew, WaveNew, NoiseNew

LEMMA TickRuns ==
    ASSUME RunsInv, NEW cycles \in Nat, NEW ov, NEW dma,
           ov[0] \in Reports(cycles), ov[1] \in Reports(cycles), Tick(cycles, ov, dma)
    PROVE  RunsInv'
<1> DEFINE end == Run(cycles, ov, dma)
           passed == Len(end.out) * CYCLES_PER_SAMPLE
<1>1. end \in Carried
  BY RunTyped DEF RunsInv, DirectTyped
<1>2. /\ fifo' = end.fifo /\ latch' = end.latch /\ src' = end.src
      /\ sample_clock' = end.clock /\ emitted' = end.out /\ stuck' = end.stuck
      /\ UNCHANGED <<enabled, timer_of, step>>
      /\ \/ UNCHANGED psgVars
         \/ /\ ch1' = SquareStep(ch1, passed) /\ ch2' = SquareStep(ch2, passed)
            /\ ch3' = WaveStep(ch3, passed) /\ ch4' = NoiseStep(ch4, passed)
  BY Zenon DEF Tick
<1> HIDE DEF end
<1>3. end.out \in Seq(Samples) /\ passed \in Nat
  <2>1. end.out \in Seq(Samples)
    BY <1>1 DEF Carried
  <2>2. Len(end.out) \in Nat /\ CYCLES_PER_SAMPLE \in Nat
    BY <2>1, SoundAssumption
  <2> QED BY <2>1, <2>2
<1>4. DirectTyped'
  BY <1>1, <1>2 DEF RunsInv, DirectTyped, TypedState, Carried
<1>5. ChannelsRun'
  <2> HIDE DEF passed
  <2>1. CASE UNCHANGED psgVars
    BY <2>1 DEF RunsInv, ChannelsRun, psgVars
  <2>2. CASE ~UNCHANGED psgVars
    BY <1>2, <1>3, <2>2, SquareStepRuns, WaveStepRuns, NoiseStepRuns DEF RunsInv, ChannelsRun
  <2> QED BY <2>1, <2>2
<1> QED BY <1>4, <1>5 DEF RunsInv

LEMMA SequencerRuns == RunsInv /\ FrameSequencerStep => RunsInv'
<1> SUFFICES ASSUME RunsInv, FrameSequencerStep PROVE RunsInv'
  OBVIOUS
<1> DEFINE Ticked(c) == IF step % 2 = 0 THEN LengthTick(c) ELSE c
           Faded(c) == IF step = 7 THEN EnvelopeTick(c) ELSE c
<1>1. /\ ch1' = Faded(IF step \in {2, 6} THEN SweepTick(Ticked(ch1)) ELSE Ticked(ch1))
      /\ ch2' = Faded(Ticked(ch2)) /\ ch3' = Ticked(ch3) /\ ch4' = Faded(Ticked(ch4))
      /\ step' = (step + 1) % 8 /\ emitted' = <<>>
      /\ UNCHANGED <<enabled, directVars, sample_clock, stuck>>
  BY Zenon DEF FrameSequencerStep
<1>2. ASSUME NEW c
      PROVE  /\ SquareRuns(c) => SquareRuns(Ticked(c)) /\ SquareRuns(Faded(c))
             /\ WaveRuns(c) => WaveRuns(Ticked(c))
             /\ NoiseRuns(c) => NoiseRuns(Ticked(c)) /\ NoiseRuns(Faded(c))
  BY LengthTickRuns, EnvelopeTickRuns
<1> HIDE DEF Ticked, Faded
<1>3. ChannelsRun'
  BY <1>1, <1>2, SweepTickRuns DEF RunsInv, ChannelsRun
<1>4. DirectTyped'
  BY <1>1 DEF RunsInv, DirectTyped, TypedState, directVars
<1> QED BY <1>3, <1>4 DEF RunsInv

LEMMA DirectWritesRun ==
    RunsInv /\ (DirectWrites \/ \E on \in BOOLEAN : WriteMaster(on)) => RunsInv'
<1> SUFFICES ASSUME RunsInv PROVE (DirectWrites \/ \E on \in BOOLEAN : WriteMaster(on)) => RunsInv'
  OBVIOUS
<1> USE DEF RunsInv, DirectTyped, TypedState, Quiet
<1>1. ASSUME NEW on \in BOOLEAN, WriteMaster(on) PROVE RunsInv'
  BY <1>1, NewChannelsRun DEF WriteMaster, PowerOff, psgVars, directVars, ChannelsRun
<1>2. ASSUME NEW v \in CntWrites, WriteCntH(v) PROVE RunsInv'
  <2>1. v.timer \in [FifoId -> {0, 1}]
    BY SoundAssumption
  <2>2. fifo' \in [FifoId -> Fifo]
    BY <1>2, FifoTyped DEF WriteCntH
  <2> QED BY <1>2, <2>1, <2>2 DEF WriteCntH, psgVars, ChannelsRun
<1>3. ASSUME NEW f \in FifoId, NEW w \in FifoWrites, WriteFifo(f, w) PROVE RunsInv'
  <2>1. w[1] \in Byte /\ w[2] \in Byte
    BY SoundAssumption
  <2>2. FifoWrite(fifo[f], w[1], w[2]) \in Fifo
    BY <2>1, FifoWriteTyped
  <2>3. fifo' \in [FifoId -> Fifo]
    BY <1>3, <2>2 DEF WriteFifo
  <2> QED BY <1>3, <2>3 DEF WriteFifo, psgVars, ChannelsRun
<1> QED BY <1>1, <1>2, <1>3 DEF DirectWrites

LEMMA PsgWritesRun == RunsInv /\ PsgWrites => RunsInv'
<1> SUFFICES ASSUME RunsInv, PsgWrites PROVE RunsInv'
  OBVIOUS
<1>1. DirectTyped'
  <2>1. emitted' = <<>> /\ UNCHANGED <<enabled, directVars, sample_clock, stuck, step>>
    BY DEF PsgWrites, WriteCh1, WriteCh2, WriteCh3, WriteCh4, WritePsg, Quiet
  <2> QED BY <2>1 DEF RunsInv, DirectTyped, TypedState, directVars
<1>2. ChannelsRun'
  <2> USE DEF RunsInv, ChannelsRun
  <2>1. CASE WriteCh1
    <3>1. UNCHANGED <<ch2, ch3, ch4>>
      BY <2>1 DEF WriteCh1
    <3>2. SquareRuns(ch1')
      BY <2>1, WriteSquareRuns, SoundAssumption DEF WriteCh1
    <3> QED BY <3>1, <3>2
  <2>2. CASE WriteCh2
    <3>1. UNCHANGED <<ch1, ch3, ch4>>
      BY <2>2 DEF WriteCh2
    <3>2. SquareRuns(ch2')
      BY <2>2, WriteSquareRuns, SoundAssumption DEF WriteCh2
    <3> QED BY <3>1, <3>2
  <2>3. CASE WriteCh3
    <3>1. UNCHANGED <<ch1, ch2, ch4>>
      BY <2>3 DEF WriteCh3
    <3>2. WaveRuns(ch3')
      BY <2>3, WriteWaveRuns, SoundAssumption DEF WriteCh3
    <3> QED BY <3>1, <3>2
  <2>4. CASE WriteCh4
    <3>1. UNCHANGED <<ch1, ch2, ch3>>
      BY <2>4 DEF WriteCh4
    <3>2. NoiseRuns(ch4')
      BY <2>4, SetEnvelopeRuns, WriteNoiseRuns, SoundAssumption DEF WriteCh4
    <3> QED BY <3>1, <3>2
  <2> QED BY <2>1, <2>2, <2>3, <2>4 DEF PsgWrites
<1> QED BY <1>1, <1>2 DEF RunsInv

LEMMA InitRunsInv == Init => RunsInv
<1> SUFFICES ASSUME Init PROVE RunsInv
  OBVIOUS
<1>1. AddrSpace \in Nat \ {0} /\ CLOCK \in Nat \ {0}
  BY SoundAssumption
<1>2. DirectTyped
  <2>1. 0 \in 0 .. AddrSpace - 1 /\ 0 \in 0 .. CLOCK - 1 /\ 0 \in 0 .. 7
    BY <1>1
  <2>2. fifo \in [FifoId -> Fifo]
    BY FifoNewTyped DEF Init
  <2>3. latch \in Samples /\ timer_of \in [FifoId -> {0, 1}]
    BY SoundFifoAssumption DEF Init, Samples
  <2>4. src \in [Ch -> 0 .. AddrSpace - 1]
    BY <2>1 DEF Init
  <2>5. /\ enabled \in BOOLEAN /\ stuck \in BOOLEAN /\ emitted \in Seq(Samples)
        /\ sample_clock \in 0 .. CLOCK - 1 /\ step \in 0 .. 7
    <3>1. enabled = FALSE /\ stuck = FALSE /\ emitted = <<>> /\ sample_clock = 0 /\ step = 0
      BY DEF Init
    <3>2. emitted \in Seq(Samples)
      BY <3>1
    <3> QED BY <2>1, <3>1, <3>2
  <2> QED BY <2>2, <2>3, <2>4, <2>5 DEF DirectTyped, TypedState
<1>3. ChannelsRun
  BY NewChannelsRun DEF Init, ChannelsRun
<1> QED BY <1>2, <1>3 DEF RunsInv

LEMMA NextRunsInv == RunsInv /\ [Next]_vars => RunsInv'
<1> SUFFICES ASSUME RunsInv, [Next]_vars PROVE RunsInv'
  OBVIOUS
<1>1. CASE Ticks
  <2>1. PICK cycles \in Batches, dma \in DmaConfigs :
           \E r0, r1 \in Reports(cycles) :
              Tick(cycles, [i \in {0, 1} |-> IF i = 0 THEN r0 ELSE r1], dma)
    BY <1>1, Zenon DEF Ticks
  <2>2. PICK r0 \in Reports(cycles), r1 \in Reports(cycles) :
              Tick(cycles, [i \in {0, 1} |-> IF i = 0 THEN r0 ELSE r1], dma)
    BY <2>1, Zenon
  <2>3. PICK ov : ov = [i \in {0, 1} |-> IF i = 0 THEN r0 ELSE r1]
    OBVIOUS
  <2>4. ov[0] \in Reports(cycles) /\ ov[1] \in Reports(cycles)
    BY <2>3
  <2>5. cycles \in Nat /\ Tick(cycles, ov, dma)
    BY <2>2, <2>3, SoundAssumption
  <2> QED BY <2>4, <2>5, TickRuns
<1>2. CASE FrameSequencerStep
  BY <1>2, SequencerRuns
<1>3. CASE DirectWrites \/ \E on \in BOOLEAN : WriteMaster(on)
  BY <1>3, DirectWritesRun
<1>4. CASE PsgWrites
  BY <1>4, PsgWritesRun
<1>5. CASE UNCHANGED vars
  BY <1>5 DEF vars, psgVars, directVars, RunsInv, DirectTyped, TypedState, ChannelsRun
<1> QED BY <1>1, <1>2, <1>3, <1>4, <1>5, Zenon DEF Next

\* Every component of the unit has its type, the FIFOs' positions and lengths
\* within the ring and the sample clock within its width, whatever overflows,
\* requests and writes a batch brings (apu.rs, Fifo and tick_until).
THEOREM SoundTypeOK == Spec => []TypeOK
<1>1. RunsInv => TypeOK
  BY DEF RunsInv, DirectTyped, TypedState, Samples, ChannelsRun, TypeOK,
         SquareRuns, WaveRuns, NoiseRuns
<1> QED BY <1>1, InitRunsInv, NextRunsInv, PTL DEF Spec

\* No write, sweep, length step or sample leaves a channel active with a timer
\* of zero, which its step could not count down, or with no length left
\* (apu.rs, step, length_tick and the triggers).
THEOREM SoundActiveChannelsRun == Spec => []ActiveChannelsRun
<1>1. RunsInv => ActiveChannelsRun
  BY DEF RunsInv, ChannelsRun, ActiveChannelsRun, SquareRuns, WaveRuns, NoiseRuns
<1> QED BY <1>1, InitRunsInv, NextRunsInv, PTL DEF Spec

-----------------------------------------------------------------------------
(* Rings are queues *)

\* The write position is where the bytes of a ring end.
Ring == {f \in Fifo : f.write_pos = (f.read_pos + f.len) % FIFO_SIZE}

\* Positions of a ring never pass its end twice.
LEMMA OnceAround ==
    ASSUME NEW n \in Nat, n > 0, NEW x \in Nat, x < 2 * n
    PROVE  x % n = IF x < n THEN x ELSE x - n
<1>1. PICK q \in Nat, r \in 0 .. n - 1 : q = x \div n /\ r = x % n
  OBVIOUS
<1>2. x = n * q + r
  BY <1>1
<1>3. q = 0 \/ q = 1
  <2> SUFFICES ASSUME q >= 2 PROVE FALSE
    BY <1>1
  <2>1. n * q >= n * 2
    BY <1>1
  <2> QED BY <1>1, <1>2, <2>1
<1>4. n * 0 = 0 /\ n * 1 = n
  OBVIOUS
<1> QED BY <1>1, <1>2, <1>3, <1>4

\* The position i after r.
Past(n, r, i) == (r + i) % n

LEMMA Around ==
    ASSUME NEW n \in Nat, NEW r \in Nat, NEW i \in Nat, r < n, i <= n
    PROVE  Past(n, r, i) = IF r + i < n THEN r + i ELSE r + i - n
<1>1. PICK x \in Nat : x = r + i
  OBVIOUS
<1>2. x % n = IF x < n THEN x ELSE x - n
  <2>1. n > 0 /\ x < 2 * n
    BY <1>1
  <2> QED BY <2>1, OnceAround
<1> QED BY <1>1, <1>2 DEF Past

LEMMA OneOn ==
    ASSUME NEW n \in Nat, NEW r \in Nat, r < n
    PROVE  (r + 1) % n = IF r + 1 < n THEN r + 1 ELSE r + 1 - n
<1>1. PICK i \in Nat : i = 1
  OBVIOUS
<1>2. Past(n, r, i) = IF r + i < n THEN r + i ELSE r + i - n
  BY <1>1, Around
<1> QED BY <1>1, <1>2 DEF Past

\* What a ring is made of.
LEMMA RingFacts ==
    ASSUME NEW f \in Ring
    PROVE  /\ f \in Fifo /\ FIFO_SIZE \in Nat /\ FIFO_SIZE > 0
           /\ f.data \in [0 .. FIFO_SIZE - 1 -> Byte] /\ f.len \in Nat /\ f.len <= FIFO_SIZE
           /\ f.read_pos \in Nat /\ f.read_pos < FIFO_SIZE
           /\ f.write_pos \in Nat /\ f.write_pos < FIFO_SIZE
           /\ f.write_pos = (f.read_pos + f.len) % FIFO_SIZE
BY SoundFifoAssumption DEF Ring, Fifo

\* The bytes of a ring, each in its place after the read position.
LEMMA ContentsFacts ==
    ASSUME NEW f \in Ring
    PROVE  /\ Contents(f) \in Seq(Byte) /\ Len(Contents(f)) = f.len
           /\ \A i \in 1 .. f.len : Contents(f)[i] = f.data[(f.read_pos + i - 1) % FIFO_SIZE]
<1>1. ASSUME NEW i \in 1 .. f.len PROVE f.data[(f.read_pos + i - 1) % FIFO_SIZE] \in Byte
  <2>1. PICK p \in Nat : p = f.read_pos + i - 1
    BY RingFacts
  <2>2. p % FIFO_SIZE \in 0 .. FIFO_SIZE - 1
    BY RingFacts
  <2> QED BY <2>1, <2>2, RingFacts
<1>2. f.len \in Nat
  BY RingFacts
<1>3. PICK h : h = [i \in 1 .. f.len |-> f.data[(f.read_pos + i - 1) % FIFO_SIZE]]
  OBVIOUS
<1>4. Contents(f) = h
  BY <1>3 DEF Contents
<1>5. \A i \in 1 .. f.len : h[i] = f.data[(f.read_pos + i - 1) % FIFO_SIZE]
  BY <1>3
<1>6. h \in [1 .. f.len -> Byte]
  <2>1. DOMAIN h = 1 .. f.len /\ h = [i \in 1 .. f.len |-> h[i]]
    BY <1>3
  <2> QED BY <1>1, <1>5, <2>1
<1>7. h \in Seq(Byte) /\ Len(h) = f.len
  BY <1>2, <1>6
<1> QED BY <1>4, <1>5, <1>7

LEMMA ResetRing ==
    ASSUME NEW f \in Ring PROVE FifoReset(f) \in Ring /\ Contents(FifoReset(f)) = <<>>
<1> DEFINE g == FifoReset(f)
<1>1. g.read_pos = 0 /\ g.write_pos = 0 /\ g.len = 0 /\ g \in Fifo
  BY RingFacts, FifoTyped DEF FifoReset, Fifo
<1> HIDE DEF g
<1>2. g \in Ring
  BY <1>1, RingFacts, OnceAround DEF Ring
<1>3. Len(Contents(g)) = 0 /\ Contents(g) \in Seq(Byte)
  BY <1>1, <1>2, ContentsFacts
<1> QED BY <1>2, <1>3, EmptySeq DEF g

LEMMA NewRing == FifoNew \in Ring /\ Contents(FifoNew) = <<>>
<1>1. FifoNew \in Fifo /\ FifoNew.read_pos = 0 /\ FifoNew.write_pos = 0 /\ FifoNew.len = 0
  BY FifoNewTyped DEF FifoNew
<1>2. FIFO_SIZE \in Nat /\ FIFO_SIZE > 0
  BY SoundFifoAssumption
<1>3. FifoNew \in Ring
  BY <1>1, <1>2, OnceAround DEF Ring
<1>4. Len(Contents(FifoNew)) = 0 /\ Contents(FifoNew) \in Seq(Byte)
  BY <1>1, <1>3, ContentsFacts
<1> QED BY <1>3, <1>4, EmptySeq

\* A byte that fits is appended, one that does not is dropped.
LEMMA PushRing ==
    ASSUME NEW f \in Ring, NEW b \in Byte
    PROVE  /\ Push(f, b) \in Ring
           /\ f.len < FIFO_SIZE => Contents(Push(f, b)) = Append(Contents(f), b)
           /\ f.len = FIFO_SIZE => Push(f, b) = f
<1>1. PICK N \in Nat, r \in Nat, l \in Nat, w \in Nat :
         /\ N = FIFO_SIZE /\ r = f.read_pos /\ l = f.len /\ w = f.write_pos
         /\ r < N /\ l <= N /\ w < N /\ w = (r + l) % N
  BY RingFacts
<1>2. w = IF r + l < N THEN r + l ELSE r + l - N
  BY <1>1, Around DEF Past
<1>3. CASE l < N
  <2> DEFINE g == Push(f, b)
             old == Contents(f)
  <2>1. /\ g.len = l + 1 /\ g.read_pos = r /\ g.write_pos = (w + 1) % N
        /\ g.data = [f.data EXCEPT ![w] = b] /\ g \in Fifo
    <3>1. g \in Fifo
      BY RingFacts, FifoTyped
    <3> QED BY <1>1, <1>3, <3>1, RingFacts DEF Push, Fifo
  <2> HIDE DEF g
  <2>2. (w + 1) % N = (r + (l + 1)) % N
    <3>1. (w + 1) % N = IF w + 1 < N THEN w + 1 ELSE w + 1 - N
      BY <1>1, OneOn
    <3>2. (r + (l + 1)) % N = IF r + (l + 1) < N THEN r + (l + 1) ELSE r + (l + 1) - N
      <4>1. PICK m \in Nat : m = l + 1 /\ m <= N
        BY <1>3
      <4>2. Past(N, r, m) = IF r + m < N THEN r + m ELSE r + m - N
        BY <1>1, <4>1, Around
      <4> QED BY <4>1, <4>2 DEF Past
    <3> QED BY <1>1, <1>2, <1>3, <3>1, <3>2
  <2>3. g \in Ring
    BY <1>1, <2>1, <2>2 DEF Ring
  <2>4. old \in Seq(Byte) /\ Len(old) = l
    BY <1>1, ContentsFacts
  <2>5. Contents(g) \in Seq(Byte) /\ Len(Contents(g)) = l + 1
    BY <2>1, <2>3, ContentsFacts
  <2>6. ASSUME NEW i \in 1 .. l + 1
        PROVE  Contents(g)[i] = IF i = l + 1 THEN b ELSE old[i]
    <3>1. PICK d \in Nat : d = i - 1 /\ d <= l /\ r + i - 1 = r + d
      BY <1>1
    <3>2. PICK p \in Nat : p = (r + d) % N /\ p = IF r + d < N THEN r + d ELSE r + d - N
      <4>1. (r + d) % N = IF r + d < N THEN r + d ELSE r + d - N
        <5>1. d <= N
          BY <1>3, <3>1
        <5>2. Past(N, r, d) = IF r + d < N THEN r + d ELSE r + d - N
          BY <1>1, <5>1, Around
        <5> QED BY <5>2 DEF Past
      <4> QED BY <1>1, <1>3, <3>1, <4>1
    <3>3. p < N
      BY <1>1, <1>3, <3>1, <3>2
    <3>4. Contents(g)[i] = g.data[p]
      <4>1. i \in 1 .. g.len /\ (g.read_pos + i - 1) % FIFO_SIZE = p
        BY <1>1, <2>1, <3>1, <3>2
      <4> QED BY <1>1, <2>1, <2>3, <4>1, ContentsFacts
    <3>5. CASE i = l + 1
      <4>1. p = w
        BY <1>1, <1>2, <3>1, <3>2, <3>5
      <4>2. w \in 0 .. N - 1 /\ f.data \in [0 .. N - 1 -> Byte]
        BY <1>1, RingFacts
      <4>3. g.data[w] = b
        BY <2>1, <4>2
      <4> QED BY <3>4, <3>5, <4>1, <4>3
    <3>6. CASE i # l + 1
      <4>1. p # w /\ i \in 1 .. l
        BY <1>1, <1>2, <1>3, <3>1, <3>2, <3>6
      <4>2. old[i] = f.data[p]
        BY <1>1, <3>1, <3>2, <4>1, ContentsFacts
      <4> QED BY <1>1, <2>1, <3>3, <3>4, <3>6, <4>1, <4>2, RingFacts
    <3> QED BY <3>5, <3>6
  <2>7. Contents(g) = Append(old, b)
    <3> DEFINE x == Contents(g)
               y == Append(old, b)
    <3> HIDE DEF old
    <3>1. y \in Seq(Byte) /\ Len(y) = l + 1 /\ \A i \in 1 .. l + 1 : y[i] = IF i = l + 1 THEN b ELSE old[i]
      BY <2>4
    <3>2. \A i \in 1 .. Len(x) : x[i] = y[i]
      BY <2>5, <2>6, <3>1
    <3>3. x \in Seq(Byte) /\ Len(x) = l + 1
      BY <2>5
    <3> HIDE DEF x, y
    <3>4. x = y
      BY <3>1, <3>2, <3>3, SeqEqual
    <3> QED BY <3>4 DEF x, y
  <2> QED BY <1>1, <1>3, <2>3, <2>7 DEF g
<1>4. CASE l = N
  <2>1. Push(f, b) = f
    BY <1>1, <1>4 DEF Push
  <2> QED BY <1>1, <1>4, <2>1
<1> QED BY <1>1, <1>3, <1>4

\* A pop takes the oldest byte, if there is one.
LEMMA TailRing ==
    ASSUME NEW f \in Ring
    PROVE  /\ FifoTail(f) \in Ring
           /\ FifoHead(f) = IF Contents(f) = <<>> THEN Silence ELSE Head(Contents(f))
           /\ Contents(FifoTail(f)) = IF Contents(f) = <<>> THEN <<>> ELSE Tail(Contents(f))
<1>1. PICK N \in Nat, r \in Nat, l \in Nat, w \in Nat :
         /\ N = FIFO_SIZE /\ r = f.read_pos /\ l = f.len /\ w = f.write_pos
         /\ r < N /\ l <= N /\ w < N /\ w = (r + l) % N
  BY RingFacts
<1> DEFINE old == Contents(f)
<1>2. old \in Seq(Byte) /\ Len(old) = l
  BY <1>1, ContentsFacts
<1>3. old = <<>> <=> l = 0
  <2> HIDE DEF old
  <2> QED BY <1>1, <1>2, EmptySeq
<1>4. CASE l = 0
  BY <1>1, <1>3, <1>4 DEF FifoTail, FifoHead
<1>5. CASE l # 0
  <2> DEFINE g == FifoTail(f)
  <2>1. /\ g.len = l - 1 /\ g.read_pos = (r + 1) % N
        /\ g.write_pos = w /\ g.data = f.data /\ g \in Fifo
    <3>1. g \in Fifo
      BY RingFacts, FifoTyped
    <3> QED BY <1>1, <1>5, <3>1, RingFacts DEF FifoTail, Fifo
  <2> HIDE DEF g
  <2>2. PICK s \in Nat : s = g.read_pos /\ s < N /\ s = IF r + 1 < N THEN r + 1 ELSE r + 1 - N
    <3>1. (r + 1) % N = IF r + 1 < N THEN r + 1 ELSE r + 1 - N
      BY <1>1, OneOn
    <3> QED BY <1>1, <2>1, <3>1
  <2>3. ASSUME NEW d \in Nat, d < l PROVE (s + d) % N = (r + (d + 1)) % N
    <3>1. (s + d) % N = IF s + d < N THEN s + d ELSE s + d - N
      <4>1. d <= N
        BY <1>1, <2>3
      <4>2. Past(N, s, d) = IF s + d < N THEN s + d ELSE s + d - N
        BY <1>1, <2>2, <4>1, Around
      <4> QED BY <4>2 DEF Past
    <3>2. (r + (d + 1)) % N = IF r + (d + 1) < N THEN r + (d + 1) ELSE r + (d + 1) - N
      <4>1. PICK m \in Nat : m = d + 1 /\ m <= N
        BY <1>1, <2>3
      <4>2. Past(N, r, m) = IF r + m < N THEN r + m ELSE r + m - N
        BY <1>1, <4>1, Around
      <4> QED BY <4>1, <4>2 DEF Past
    <3> QED BY <1>1, <2>2, <2>3, <3>1, <3>2
  <2>4. w = (s + (l - 1)) % N
    <3>1. l - 1 \in Nat /\ l - 1 < l /\ (l - 1) + 1 = l
      BY <1>5
    <3> QED BY <1>1, <2>3, <3>1
  <2>5. g \in Ring
    BY <1>1, <2>1, <2>2, <2>4 DEF Ring
  <2>6. FifoHead(f) = Head(old)
    <3>1. 1 \in 1 .. f.len /\ f.read_pos + 1 - 1 = r
      BY <1>1, <1>5
    <3>2. r % N = r
      BY <1>1, OnceAround
    <3>3. old[1] = f.data[r]
      BY <1>1, <3>1, <3>2, ContentsFacts
    <3> HIDE DEF old
    <3> QED BY <1>1, <1>2, <1>3, <1>5, <3>3 DEF FifoHead
  <2>7. Contents(g) = Tail(old)
    <3> DEFINE x == Contents(g)
               y == Tail(old)
    <3>1. x \in Seq(Byte) /\ Len(x) = l - 1
      BY <2>1, <2>5, ContentsFacts
    <3>2. y \in Seq(Byte) /\ Len(y) = l - 1 /\ \A i \in 1 .. l - 1 : y[i] = old[i + 1]
      <4> HIDE DEF old
      <4> QED BY <1>2, <1>3, <1>5, HeadTailProperties
    <3>3. ASSUME NEW i \in 1 .. l - 1 PROVE x[i] = y[i]
      <4>1. PICK d \in Nat : d = i - 1 /\ d < l /\ i = d + 1 /\ i + 1 \in 1 .. l
        OBVIOUS
      <4>2. x[i] = f.data[(s + d) % N]
        <5>1. i \in 1 .. g.len /\ g.read_pos + i - 1 = s + d
          BY <2>1, <2>2, <4>1
        <5> QED BY <1>1, <2>1, <2>5, <5>1, ContentsFacts
      <4>3. old[i + 1] = f.data[(r + (d + 1)) % N]
        <5>1. i + 1 \in 1 .. f.len /\ f.read_pos + (i + 1) - 1 = r + (d + 1)
          BY <1>1, <4>1
        <5> QED BY <1>1, <5>1, ContentsFacts
      <4> HIDE DEF x, y, old
      <4> QED BY <2>3, <3>2, <4>1, <4>2, <4>3
    <3> HIDE DEF x, y, old
    <3>4. x = y
      BY <3>1, <3>2, <3>3, SeqEqual
    <3> QED BY <3>4 DEF x, y
  <2> QED BY <1>3, <1>5, <2>5, <2>6, <2>7 DEF g
<1> QED BY <1>4, <1>5

\* A count from 0 to n reaches every number that its steps lead to.
LEMMA SetInduction ==
    ASSUME NEW n \in Nat, NEW T, 0 \in T, \A i \in 1 .. n : i - 1 \in T => i \in T
    PROVE  \A i \in 0 .. n : i \in T
<1> DEFINE id == [i \in 0 .. n |-> i]
<1>1. \A i \in 0 .. n : id[i] = i
  OBVIOUS
<1>2. \A i \in 1 .. n : i - 1 \in 0 .. n /\ i \in 0 .. n
  OBVIOUS
<1> HIDE DEF id
<1>3. Chain(n, T, id)
  BY <1>1, <1>2 DEF Chain
<1>4. \A i \in 0 .. n : id[i] \in T
  BY <1>3, CountInductive
<1> QED BY <1>1, <1>4

LEMMA Pairs ==
    ASSUME NEW a \in Byte, NEW b \in Byte
    PROVE  /\ <<a>> \in Seq(Byte) /\ <<b>> \in Seq(Byte) /\ <<a, b>> \in Seq(Byte)
           /\ <<a>> \o <<b>> = <<a, b>>
           /\ SubSeq(<<a, b>>, 1, 0) = <<>> /\ SubSeq(<<a, b>>, 1, 1) = <<a>>
           /\ SubSeq(<<a, b>>, 1, 2) = <<a, b>>
<1> DEFINE x == <<a>>
           y == <<b>>
           p == <<a, b>>
<1>1. /\ x \in Seq(Byte) /\ Len(x) = 1 /\ x[1] = a
      /\ y \in Seq(Byte) /\ Len(y) = 1 /\ y[1] = b
      /\ p \in Seq(Byte) /\ Len(p) = 2 /\ p[1] = a /\ p[2] = b
  OBVIOUS
<1> HIDE DEF x, y, p
<1>2. x \o y = p
  <2>1. x \o y \in Seq(Byte) /\ Len(x \o y) = Len(x) + Len(y)
        /\ \A i \in 1 .. Len(x) + Len(y) : (x \o y)[i] = IF i <= Len(x) THEN x[i] ELSE y[i - Len(x)]
    BY <1>1, ConcatProperties
  <2>2. Len(x \o y) = 2 /\ (x \o y)[1] = a /\ (x \o y)[2] = b
    <3>1. 1 \in 1 .. Len(x) + Len(y) /\ 2 \in 1 .. Len(x) + Len(y) /\ 1 <= Len(x)
          /\ ~(2 <= Len(x)) /\ 2 - Len(x) = 1
      BY <1>1
    <3> QED BY <1>1, <2>1, <3>1
  <2>3. \A i \in 1 .. Len(p) : (x \o y)[i] = p[i]
    BY <1>1, <2>2
  <2> QED BY <1>1, <2>1, <2>2, <2>3, SeqEqual
<1>3. SubSeq(p, 1, 0) = <<>> /\ SubSeq(p, 1, 1) = x /\ SubSeq(p, 1, 2) = p
  <2>1. SubSeq(p, 1, 0) = <<>>
    BY <1>1
  <2>2. SubSeq(p, 1, 1) = x
    <3>1. SubSeq(p, 1, 1) \in Seq(Byte) /\ Len(SubSeq(p, 1, 1)) = 1 /\ SubSeq(p, 1, 1)[1] = p[1]
      BY <1>1, SubSeqProperties
    <3>2. \A i \in 1 .. Len(x) : SubSeq(p, 1, 1)[i] = x[i]
      BY <1>1, <3>1
    <3> QED BY <1>1, <3>1, <3>2, SeqEqual
  <2>3. SubSeq(p, 1, 2) = p
    <3>1. \A i \in 1 .. 2 : p[i] \in Byte
      BY <1>1
    <3>2. /\ SubSeq(p, 1, 2) \in Seq(Byte) /\ Len(SubSeq(p, 1, 2)) = 2
          /\ \A i \in 1 .. 2 - 1 + 1 : SubSeq(p, 1, 2)[i] = p[1 + i - 1]
      BY <3>1, SubSeqProperties
    <3>3. \A i \in 1 .. Len(p) : SubSeq(p, 1, 2)[i] = p[i]
      BY <1>1, <3>2
    <3> QED BY <1>1, <3>2, <3>3, SeqEqual
  <2> QED BY <2>1, <2>2, <2>3
<1> QED BY <1>1, <1>2, <1>3 DEF x, y, p

\* A halfword is appended as far as it fits.
LEMMA WriteRing ==
    ASSUME NEW f \in Ring, NEW a \in Byte, NEW b \in Byte
    PROVE  /\ FifoWrite(f, a, b) \in Ring
           /\ f.len + 2 <= FIFO_SIZE => Contents(FifoWrite(f, a, b)) = Contents(f) \o <<a, b>>
           /\ \E n \in 0 .. 2 :
                 /\ n = 2 \/ f.len + n = FIFO_SIZE
                 /\ f.len + n <= FIFO_SIZE
                 /\ Contents(FifoWrite(f, a, b)) = Contents(f) \o SubSeq(<<a, b>>, 1, n)
<1> DEFINE g == Push(f, a)
           h == Push(g, b)
           old == Contents(f)
<1>1. FifoWrite(f, a, b) = h
  BY DEF FifoWrite
<1>2. PICK N \in Nat, l \in Nat : N = FIFO_SIZE /\ l = f.len /\ l <= N
  BY RingFacts
<1>3. g \in Ring /\ h \in Ring
  BY PushRing
<1>4. old \in Seq(Byte) /\ Len(old) = l
  BY <1>2, ContentsFacts
<1>5. old \o <<>> = old
  <2> HIDE DEF old
  <2> QED BY <1>4, ConcatEmptySeq
<1>6. SubSeq(<<a, b>>, 1, 0) = <<>> /\ SubSeq(<<a, b>>, 1, 1) = <<a>> /\ SubSeq(<<a, b>>, 1, 2) = <<a, b>>
  BY Pairs
<1>7. old \o <<a>> = Append(old, a) /\ old \o <<a, b>> = Append(Append(old, a), b)
  <2> HIDE DEF old
  <2>1. old \o <<a>> = Append(old, a)
    BY <1>4, AppendIsConcat
  <2>2. Append(old, a) \in Seq(Byte)
    BY <1>4
  <2>3. Append(Append(old, a), b) = (old \o <<a>>) \o <<b>>
    BY <2>1, <2>2, AppendIsConcat
  <2>4. <<a>> \in Seq(Byte) /\ <<b>> \in Seq(Byte) /\ <<a>> \o <<b>> = <<a, b>>
    BY Pairs
  <2>5. (old \o <<a>>) \o <<b>> = old \o <<a, b>>
    <3>1. PICK x, y, z : x = <<a>> /\ y = <<b>> /\ z = <<a, b>>
      OBVIOUS
    <3>2. (old \o x) \o y = old \o (x \o y)
      BY <1>4, <2>4, <3>1, ConcatAssociative
    <3> QED BY <2>4, <3>1, <3>2
  <2> QED BY <2>1, <2>3, <2>5
<1>8. CASE l = N
  <2>1. g = f
    BY <1>2, <1>8, PushRing
  <2>2. h = f
    BY <1>2, <1>8, <2>1, PushRing
  <2> HIDE DEF g, h, old
  <2>3. /\ 0 \in 0 .. 2 /\ f.len + 0 = FIFO_SIZE /\ f.len + 0 <= FIFO_SIZE
        /\ ~(f.len + 2 <= FIFO_SIZE)
    BY <1>2, <1>8
  <2>4. Contents(FifoWrite(f, a, b)) = Contents(f) \o SubSeq(<<a, b>>, 1, 0)
    BY <1>1, <1>5, <1>6, <2>2 DEF old
  <2> QED BY <1>1, <1>3, <2>3, <2>4
<1>9. CASE l < N
  <2>1. Contents(g) = Append(old, a)
    BY <1>2, <1>9, PushRing
  <2>2. g.len = l + 1
    <3>1. Len(Append(old, a)) = l + 1
      BY <1>4, AppendProperties
    <3> HIDE DEF g
    <3> QED BY <1>3, <2>1, <3>1, ContentsFacts
  <2>3. CASE l + 1 = N
    <3>1. h = g
      BY <1>2, <1>3, <2>2, <2>3, PushRing
    <3> HIDE DEF g, h, old
    <3>2. /\ 1 \in 0 .. 2 /\ f.len + 1 = FIFO_SIZE /\ f.len + 1 <= FIFO_SIZE
          /\ ~(f.len + 2 <= FIFO_SIZE)
      BY <1>2, <2>3
    <3>3. Contents(FifoWrite(f, a, b)) = Contents(f) \o SubSeq(<<a, b>>, 1, 1)
      BY <1>1, <1>6, <1>7, <2>1, <3>1 DEF old
    <3> QED BY <1>1, <1>3, <3>2, <3>3
  <2>4. CASE l + 1 # N
    <3>1. Contents(h) = Append(Append(old, a), b)
      <4>1. g.len < FIFO_SIZE
        BY <1>2, <1>9, <2>2, <2>4
      <4> HIDE DEF g
      <4> QED BY <1>3, <2>1, <4>1, PushRing
    <3> HIDE DEF g, h, old
    <3>2. 2 \in 0 .. 2 /\ f.len + 2 <= FIFO_SIZE
      BY <1>2, <1>9, <2>4
    <3> QED BY <1>1, <1>3, <1>6, <1>7, <3>1, <3>2 DEF old
  <2> QED BY <2>3, <2>4
<1>10. l = N \/ l < N
  BY <1>2
<1> QED BY <1>8, <1>9, <1>10

\* The first m bytes at the position of a channel.
BytesAtHand(s, c, m) == [j \in 1 .. m |-> ByteAt(s, c, j - 1)]

LEMMA BytesSeq ==
    ASSUME NEW s \in Carried, NEW c \in Ch, NEW m \in Nat
    PROVE  /\ BytesAtHand(s, c, m) \in Seq(Byte) /\ Len(BytesAtHand(s, c, m)) = m
           /\ \A j \in 1 .. m : BytesAtHand(s, c, m)[j] = ByteAt(s, c, j - 1)
<1>1. \A j \in 1 .. m : ByteAt(s, c, j - 1) \in Byte
  <2> SUFFICES ASSUME NEW j \in 1 .. m PROVE ByteAt(s, c, j - 1) \in Byte
    OBVIOUS
  <2>1. j - 1 \in Nat
    OBVIOUS
  <2> QED BY <2>1, BytesAt
<1> QED BY <1>1 DEF BytesAtHand

\* Two more bytes at hand come after those before.
LEMMA BytesGrow ==
    ASSUME NEW s \in Carried, NEW c \in Ch, NEW m \in Nat
    PROVE  BytesAtHand(s, c, m) \o <<ByteAt(s, c, m), ByteAt(s, c, m + 1)>> = BytesAtHand(s, c, m + 2)
<1>1. PICK x, y, t :
         /\ x = BytesAtHand(s, c, m) /\ y = BytesAtHand(s, c, m + 2)
         /\ t = <<ByteAt(s, c, m), ByteAt(s, c, m + 1)>>
  OBVIOUS
<1>2. x \in Seq(Byte) /\ Len(x) = m /\ \A j \in 1 .. m : x[j] = ByteAt(s, c, j - 1)
  BY <1>1, BytesSeq
<1>3. m + 2 \in Nat /\ m + 1 \in Nat
  OBVIOUS
<1>4. y \in Seq(Byte) /\ Len(y) = m + 2 /\ \A j \in 1 .. m + 2 : y[j] = ByteAt(s, c, j - 1)
  BY <1>1, <1>3, BytesSeq
<1>5. ByteAt(s, c, m) \in Byte /\ ByteAt(s, c, m + 1) \in Byte
  BY <1>3, BytesAt
<1>6. t \in Seq(Byte) /\ Len(t) = 2 /\ t[1] = ByteAt(s, c, m) /\ t[2] = ByteAt(s, c, m + 1)
  BY <1>1, <1>5
<1>7. /\ x \o t \in Seq(Byte) /\ Len(x \o t) = m + 2
      /\ \A j \in 1 .. m + 2 : (x \o t)[j] = IF j <= m THEN x[j] ELSE t[j - m]
  <2>1. /\ x \o t \in Seq(Byte) /\ Len(x \o t) = Len(x) + Len(t)
        /\ \A j \in 1 .. Len(x) + Len(t) : (x \o t)[j] = IF j <= Len(x) THEN x[j] ELSE t[j - Len(x)]
    BY <1>2, <1>6, ConcatProperties
  <2> QED BY <1>2, <1>6, <2>1
<1>8. ASSUME NEW j \in 1 .. m + 2 PROVE (x \o t)[j] = y[j]
  <2>1. CASE j <= m
    <3>1. j \in 1 .. m
      BY <2>1
    <3> QED BY <1>2, <1>4, <1>7, <2>1, <3>1
  <2>2. CASE j = m + 1
    <3>1. j - m = 1 /\ j - 1 = m /\ ~(j <= m)
      BY <2>2
    <3> QED BY <1>4, <1>6, <1>7, <3>1
  <2>3. CASE j = m + 2
    <3>1. j - m = 2 /\ j - 1 = m + 1 /\ ~(j <= m)
      BY <2>3
    <3> QED BY <1>4, <1>6, <1>7, <3>1
  <2>4. j <= m \/ j = m + 1 \/ j = m + 2
    BY <1>3
  <2> QED BY <2>1, <2>2, <2>3, <2>4
<1>9. x \o t = y
  BY <1>4, <1>7, <1>8, SeqEqual
<1> QED BY <1>1, <1>9

\* A ring that is at most half full takes the whole request.
LEMMA RequestRing ==
    ASSUME NEW s \in Carried, NEW c \in Ch, NEW f \in FifoId,
           s.fifo[f] \in Ring, s.fifo[f].len <= REQUEST
    PROVE  \E g \in Ring :
              /\ Request(s, c, f) = [s EXCEPT !.fifo[f] = g,
                                              !.src[c] = (s.src[c] + REQUEST) % AddrSpace]
              /\ Contents(g) = Contents(s.fifo[f]) \o BytesAtHand(s, c, REQUEST)
<1>1. PICK n \in Nat : n = REQUEST \div 2 /\ REQUEST = 2 * n /\ FIFO_SIZE = 4 * n
  <2>1. REQUEST \in Nat /\ REQUEST % 2 = 0 /\ 2 * REQUEST = FIFO_SIZE
    BY SoundFifoAssumption
  <2>2. REQUEST \div 2 \in Nat /\ REQUEST = 2 * (REQUEST \div 2)
    BY <2>1
  <2>3. FIFO_SIZE = 4 * (REQUEST \div 2)
    BY <2>1, <2>2
  <2> QED BY <2>2, <2>3
<1>2. PICK filled :
         /\ Fills(s, c, f, filled)
         /\ Request(s, c, f) = [s EXCEPT !.fifo[f] = filled[n],
                                         !.src[c] = (s.src[c] + REQUEST) % AddrSpace]
  <2>1. PICK filled :
           /\ Fills(s, c, f, filled)
           /\ Request(s, c, f) = [s EXCEPT !.fifo[f] = filled[REQUEST \div 2],
                                           !.src[c] = (s.src[c] + REQUEST) % AddrSpace]
    BY RequestFills
  <2> QED BY <1>1, <2>1
<1> DEFINE old == Contents(s.fifo[f])
           l == s.fifo[f].len
           Full(i) == /\ filled[i] \in Ring /\ filled[i].len = l + 2 * i
                      /\ Contents(filled[i]) = old \o BytesAtHand(s, c, 2 * i)
           T == {i \in 0 .. n : Full(i)}
<1>3. old \in Seq(Byte) /\ Len(old) = l /\ l \in Nat
  BY ContentsFacts, RingFacts
<1> HIDE DEF old, l
<1>4. 0 \in T
  <2>1. filled[0] = s.fifo[f]
    BY <1>2 DEF Fills
  <2>2. BytesAtHand(s, c, 0) = <<>>
    <3>1. BytesAtHand(s, c, 0) \in Seq(Byte) /\ Len(BytesAtHand(s, c, 0)) = 0
      BY BytesSeq
    <3> QED BY <3>1, EmptySeq
  <2>3. old \o <<>> = old
    BY <1>3, ConcatEmptySeq
  <2>4. l + 2 * 0 = l /\ 2 * 0 = 0 /\ 0 \in 0 .. n
    BY <1>3
  <2> QED BY <2>1, <2>2, <2>3, <2>4 DEF old, l
<1>5. ASSUME NEW i \in 1 .. n, i - 1 \in T PROVE i \in T
  <2>1. PICK m \in Nat, g \in {filled[i - 1]} : m = 2 * (i - 1) /\ 2 * i - 2 = m /\ 2 * i - 1 = m + 1
    OBVIOUS
  <2>2. g \in Ring /\ g.len = l + m /\ Contents(g) = old \o BytesAtHand(s, c, m)
    BY <1>5, <2>1
  <2>3. filled[i] = FifoWrite(g, ByteAt(s, c, m), ByteAt(s, c, m + 1))
    BY <1>1, <1>2, <2>1 DEF Fills
  <2>4. ByteAt(s, c, m) \in Byte /\ ByteAt(s, c, m + 1) \in Byte
    BY BytesAt
  <2>5. g.len + 2 <= FIFO_SIZE
    <3>1. l <= 2 * n /\ i <= n
      BY <1>1 DEF l
    <3> QED BY <1>1, <1>3, <2>1, <2>2, <3>1
  <2> DEFINE h == filled[i]
             pair == <<ByteAt(s, c, m), ByteAt(s, c, m + 1)>>
             bytes == BytesAtHand(s, c, m)
  <2>6. h \in Ring /\ Contents(h) = Contents(g) \o pair
    <3>1. PICK p, q : p = ByteAt(s, c, m) /\ q = ByteAt(s, c, m + 1)
      OBVIOUS
    <3>2. FifoWrite(g, p, q) \in Ring /\ Contents(FifoWrite(g, p, q)) = Contents(g) \o <<p, q>>
      BY <2>2, <2>4, <2>5, <3>1, WriteRing
    <3> QED BY <2>3, <3>1, <3>2
  <2>7. bytes \in Seq(Byte) /\ pair \in Seq(Byte) /\ Len(bytes) = m /\ Len(pair) = 2
    BY <2>4, BytesSeq
  <2>8. bytes \o pair = BytesAtHand(s, c, m + 2)
    BY BytesGrow
  <2> HIDE DEF h, pair, bytes
  <2>9. Contents(h) = old \o (bytes \o pair)
    <3>1. (old \o bytes) \o pair = old \o (bytes \o pair)
      BY <1>3, <2>7, ConcatAssociative
    <3> QED BY <2>2, <2>6, <3>1 DEF bytes
  <2>10. h.len = l + (m + 2)
    <3>1. Len(bytes \o pair) = m + 2 /\ bytes \o pair \in Seq(Byte)
      <4>1. bytes \o pair \in Seq(Byte) /\ Len(bytes \o pair) = Len(bytes) + Len(pair)
        BY <2>7, ConcatProperties
      <4> QED BY <2>7, <4>1
    <3>2. Len(old \o (bytes \o pair)) = l + (m + 2)
      <4>1. Len(old \o (bytes \o pair)) = Len(old) + Len(bytes \o pair)
        BY <1>3, <3>1, ConcatProperties
      <4> QED BY <1>3, <3>1, <4>1
    <3>3. Len(Contents(h)) = h.len
      BY <2>6, ContentsFacts
    <3> QED BY <2>9, <3>2, <3>3
  <2>11. m + 2 = 2 * i /\ i \in 0 .. n
    BY <2>1
  <2> QED BY <2>6, <2>8, <2>9, <2>10, <2>11 DEF h
<1>6. Full(n)
  <2> HIDE DEF T
  <2>1. \A i \in 0 .. n : i \in T
    BY <1>4, <1>5, SetInduction
  <2>2. n \in T
    BY <2>1
  <2> QED BY <2>2 DEF T
<1> QED BY <1>1, <1>2, <1>6 DEF old

-----------------------------------------------------------------------------
(* What a batch carries along, as the abstract queues see it *)

RingState == {s \in Carried : \A f \in FifoId : s.fifo[f] \in Ring}

View(s) == [queue |-> [f \in FifoId |-> Contents(s.fifo[f])], latch |-> s.latch,
            src |-> s.src, out |-> s.out]

\* The queues after a pop, field by field.
LEMMA ViewPopped ==
    ASSUME NEW s, NEW q2, NEW l2
    PROVE  [View(s) EXCEPT !.latch = l2, !.queue = q2] =
              [queue |-> q2, latch |-> l2, src |-> s.src, out |-> s.out]
<1>1. PICK v, q, l, c, o :
         /\ v = View(s) /\ v = [queue |-> q, latch |-> l, src |-> c, out |-> o]
         /\ l = s.latch /\ c = s.src /\ o = s.out
  BY DEF View
<1> DEFINE R == [queue : {q, q2}, latch : {l, l2}, src : {c}, out : {o}]
           x == [v EXCEPT !.latch = l2, !.queue = q2]
<1>2. v \in R
  BY <1>1
<1>3. x \in R /\ x.queue = q2 /\ x.latch = l2 /\ x.src = c /\ x.out = o
  BY <1>1, <1>2
<1>4. \A y \in R : y = [queue |-> y.queue, latch |-> y.latch, src |-> y.src, out |-> y.out]
  OBVIOUS
<1> HIDE DEF R, x
<1>5. x = [queue |-> q2, latch |-> l2, src |-> c, out |-> o]
  BY <1>3, <1>4
<1> QED BY <1>1, <1>5 DEF x

\* The queues after a request, field by field.
LEMMA ViewFed ==
    ASSUME NEW s, NEW q2, NEW c2
    PROVE  [View(s) EXCEPT !.queue = q2, !.src = c2] =
              [queue |-> q2, latch |-> s.latch, src |-> c2, out |-> s.out]
<1>1. PICK v, q, l, c, o :
         /\ v = View(s) /\ v = [queue |-> q, latch |-> l, src |-> c, out |-> o]
         /\ l = s.latch /\ c = s.src /\ o = s.out
  BY DEF View
<1> DEFINE R == [queue : {q, q2}, latch : {l}, src : {c, c2}, out : {o}]
           x == [v EXCEPT !.queue = q2, !.src = c2]
<1>2. v \in R
  BY <1>1
<1>3. x \in R /\ x.queue = q2 /\ x.latch = l /\ x.src = c2 /\ x.out = o
  BY <1>1, <1>2
<1>4. \A y \in R : y = [queue |-> y.queue, latch |-> y.latch, src |-> y.src, out |-> y.out]
  OBVIOUS
<1> HIDE DEF R, x
<1>5. x = [queue |-> q2, latch |-> l, src |-> c2, out |-> o]
  BY <1>3, <1>4
<1> QED BY <1>1, <1>5 DEF x

LEMMA SameNames == Q!FifoId = FifoId /\ Q!Ch = Ch
BY DEF Q!FifoId, Q!Ch, FifoId, Ch

\* A pop of the ring is a pop of the queue, and one of an empty ring keeps the latch.
LEMMA PopView ==
    ASSUME NEW s \in RingState, NEW timer \in {0, 1}
    PROVE  /\ OnTimerOverflow(s, timer) \in RingState
           /\ View(OnTimerOverflow(s, timer)) = Q!Popped(View(s), timer)
<1> DEFINE t == OnTimerOverflow(s, timer)
           of(f) == timer_of[f] = timer
           v == View(s)
<1>1. s \in Carried /\ \A f \in FifoId : s.fifo[f] \in Ring
  BY DEF RingState
<1>2. t \in Carried
  BY <1>1, OverflowTyped
<1>3. /\ t.fifo = [f \in FifoId |-> IF of(f) THEN FifoTail(s.fifo[f]) ELSE s.fifo[f]]
      /\ t.latch = [f \in FifoId |-> IF of(f) THEN FifoHead(s.fifo[f]) ELSE s.latch[f]]
      /\ t.src = s.src /\ t.out = s.out
  BY <1>1 DEF OnTimerOverflow, Carried
<1>4. t \in RingState
  <2>1. \A f \in FifoId : t.fifo[f] \in Ring
    BY <1>1, <1>3, TailRing
  <2> QED BY <1>2, <2>1 DEF RingState
<1>5. /\ v.queue = [f \in FifoId |-> Contents(s.fifo[f])] /\ v.latch = s.latch
      /\ v.src = s.src /\ v.out = s.out
  BY DEF View
<1> DEFINE newLatch == [f \in FifoId |-> IF ~of(f) THEN v.latch[f]
                                         ELSE IF v.queue[f] = <<>> THEN Silence
                                         ELSE Head(v.queue[f])]
           newQueue == [f \in FifoId |-> IF of(f) /\ v.queue[f] # <<>>
                                         THEN Tail(v.queue[f]) ELSE v.queue[f]]
<1>6. t.latch = newLatch
  <2>1. ASSUME NEW f \in FifoId PROVE t.latch[f] = newLatch[f]
    <3>1. v.queue[f] = Contents(s.fifo[f]) /\ v.latch[f] = s.latch[f]
      BY <1>5
    <3>2. FifoHead(s.fifo[f]) = IF Contents(s.fifo[f]) = <<>> THEN Silence ELSE Head(Contents(s.fifo[f]))
      BY <1>1, TailRing
    <3>3. t.latch[f] = IF of(f) THEN FifoHead(s.fifo[f]) ELSE s.latch[f]
      BY <1>3
    <3>4. newLatch[f] = IF ~of(f) THEN v.latch[f]
                        ELSE IF v.queue[f] = <<>> THEN Silence ELSE Head(v.queue[f])
      OBVIOUS
    <3> HIDE DEF t, v, newLatch, of
    <3> QED BY <3>1, <3>2, <3>3, <3>4
  <2>2. t.latch = [f \in FifoId |-> t.latch[f]]
    BY <1>3
  <2>3. newLatch = [f \in FifoId |-> newLatch[f]]
    OBVIOUS
  <2> HIDE DEF t, newLatch
  <2> QED BY <2>1, <2>2, <2>3
<1>7. [f \in FifoId |-> Contents(t.fifo[f])] = newQueue
  <2>1. ASSUME NEW f \in FifoId PROVE Contents(t.fifo[f]) = newQueue[f]
    <3>1. v.queue[f] = Contents(s.fifo[f])
      BY <1>5
    <3>2. Contents(FifoTail(s.fifo[f])) =
             IF Contents(s.fifo[f]) = <<>> THEN <<>> ELSE Tail(Contents(s.fifo[f]))
      BY <1>1, TailRing
    <3>3. t.fifo[f] = IF of(f) THEN FifoTail(s.fifo[f]) ELSE s.fifo[f]
      BY <1>3
    <3>4. newQueue[f] = IF of(f) /\ v.queue[f] # <<>> THEN Tail(v.queue[f]) ELSE v.queue[f]
      OBVIOUS
    <3> HIDE DEF t, v, newQueue, of
    <3> QED BY <3>1, <3>2, <3>3, <3>4
  <2> QED BY <2>1
<1>8. Q!Popped(v, timer) = [v EXCEPT !.latch = newLatch, !.queue = newQueue]
  BY SameNames DEF Q!Popped
<1>9. View(t) = [v EXCEPT !.latch = t.latch, !.queue = [f \in FifoId |-> Contents(t.fifo[f])]]
  <2>1. View(t) = [queue |-> [f \in FifoId |-> Contents(t.fifo[f])], latch |-> t.latch,
                   src |-> s.src, out |-> s.out]
    <3>1. t.src = s.src /\ t.out = s.out
      BY <1>3
    <3> HIDE DEF t
    <3> QED BY <3>1, Zenon DEF View
  <2>2. PICK q : q = [f \in FifoId |-> Contents(t.fifo[f])]
    OBVIOUS
  <2> HIDE DEF t
  <2>3. [View(s) EXCEPT !.latch = t.latch, !.queue = q] =
           [queue |-> q, latch |-> t.latch, src |-> s.src, out |-> s.out]
    BY ViewPopped
  <2> QED BY <2>1, <2>2, <2>3
<1> HIDE DEF newLatch, newQueue, v, t
<1>10. View(t) = Q!Popped(v, timer)
  BY <1>6, <1>7, <1>8, <1>9
<1> QED BY <1>4, <1>10 DEF v, t

Destinations == [Ch -> FifoId \cup {"none"}]

Served(s, c, timer, dma) ==
    IF dma[c] \in FifoId /\ timer_of[dma[c]] = timer /\ NeedsData(s.fifo[dma[c]])
    THEN Request(s, c, dma[c]) ELSE s

\* A request of the DMA gives a ring the bytes it gives the queue.
LEMMA FedView ==
    ASSUME NEW s \in RingState, NEW c \in Ch, NEW timer \in {0, 1}, NEW dma \in Destinations
    PROVE  /\ Served(s, c, timer, dma) \in RingState
           /\ View(Served(s, c, timer, dma)) = Q!Fed(View(s), c, timer, dma)
<1> DEFINE v == View(s)
           f == dma[c]
<1>1. s \in Carried /\ \A g \in FifoId : s.fifo[g] \in Ring
  BY DEF RingState
<1>2. f \in FifoId \/ f = "none"
  BY DEF Destinations
<1>3. "none" \notin FifoId
  BY DEF FifoId
<1>4. v.src = s.src /\ v.queue = [g \in FifoId |-> Contents(s.fifo[g])]
  BY DEF View
<1>5. Q!Fed(v, c, timer, dma) =
         IF f = "none" THEN v
         ELSE IF timer_of[f] # timer \/ Len(v.queue[f]) > REQUEST THEN v
         ELSE [v EXCEPT !.queue[f] =
                  @ \o [i \in 1 .. REQUEST |-> Mem[(v.src[c] + i - 1) % AddrSpace]],
                        !.src[c] = (@ + REQUEST) % AddrSpace]
  BY Zenon DEF Q!Fed
<1> HIDE DEF f
<1>6. CASE f = "none"
  BY <1>3, <1>5, <1>6 DEF Served, f
<1>7. CASE f \in FifoId
  <2>1. Len(v.queue[f]) = s.fifo[f].len /\ s.fifo[f].len \in Nat /\ REQUEST \in Nat
    BY <1>1, <1>4, <1>7, ContentsFacts, RingFacts, SoundFifoAssumption
  <2>2. CASE timer_of[f] # timer \/ s.fifo[f].len > REQUEST
    <3>1. Served(s, c, timer, dma) = s
      BY <2>1, <2>2 DEF Served, NeedsData, f
    <3>2. Q!Fed(v, c, timer, dma) = v
      BY <1>5, <2>1, <2>2
    <3> QED BY <3>1, <3>2
  <2>3. CASE timer_of[f] = timer /\ s.fifo[f].len <= REQUEST
    <3>1. Served(s, c, timer, dma) = Request(s, c, f)
      BY <1>7, <2>3 DEF Served, NeedsData, f
    <3>2. PICK g \in Ring :
             /\ Request(s, c, f) = [s EXCEPT !.fifo[f] = g,
                                             !.src[c] = (s.src[c] + REQUEST) % AddrSpace]
             /\ Contents(g) = Contents(s.fifo[f]) \o BytesAtHand(s, c, REQUEST)
      BY <1>1, <1>7, <2>3, RequestRing
    <3> DEFINE t == Request(s, c, f)
               a == (s.src[c] + REQUEST) % AddrSpace
    <3>3. t \in Carried
      BY <1>1, <1>7, RequestTyped
    <3> HIDE DEF a
    <3>4. /\ t.fifo = [s.fifo EXCEPT ![f] = g] /\ t.src = [s.src EXCEPT ![c] = a]
          /\ t.latch = s.latch /\ t.out = s.out
      BY <1>1, <3>2 DEF Carried, a
    <3>5. s.fifo \in [FifoId -> Fifo] /\ s.src \in [Ch -> 0 .. AddrSpace - 1]
      BY <1>1 DEF Carried
    <3>6. t \in RingState
      <4>1. \A h \in FifoId : t.fifo[h] \in Ring
        BY <1>1, <1>7, <3>4, <3>5
      <4> QED BY <3>3, <4>1 DEF RingState
    <3> DEFINE bytes == [i \in 1 .. REQUEST |-> Mem[(v.src[c] + i - 1) % AddrSpace]]
    <3>7. bytes = BytesAtHand(s, c, REQUEST)
      <4>1. \A i \in 1 .. REQUEST : v.src[c] + i - 1 = s.src[c] + (i - 1)
        <5>1. s.src[c] \in Int
          BY <3>5, SoundAssumption
        <5> QED BY <1>4, <5>1
      <4> QED BY <4>1 DEF BytesAtHand, ByteAt
    <3>8. Q!Fed(v, c, timer, dma) =
             [v EXCEPT !.queue[f] = @ \o bytes, !.src[c] = (@ + REQUEST) % AddrSpace]
      BY <1>3, <1>5, <1>7, <2>1, <2>3
    <3> HIDE DEF bytes
    <3>9. Q!Fed(v, c, timer, dma) =
             [v EXCEPT !.queue = [v.queue EXCEPT ![f] = v.queue[f] \o bytes],
                       !.src = [v.src EXCEPT ![c] = a]]
      BY <1>4, <3>8, <3>5, <1>7 DEF View, a
    <3>10. [h \in FifoId |-> Contents(t.fifo[h])] = [v.queue EXCEPT ![f] = v.queue[f] \o bytes]
      <4>1. ASSUME NEW h \in FifoId
            PROVE  Contents(t.fifo[h]) = IF h = f THEN v.queue[f] \o bytes ELSE v.queue[h]
        BY <1>4, <1>7, <3>2, <3>4, <3>5, <3>7
      <4> HIDE DEF t
      <4> QED BY <1>4, <1>7, <4>1
    <3>11. View(t) = [v EXCEPT !.queue = [h \in FifoId |-> Contents(t.fifo[h])], !.src = t.src]
      <4>1. View(t) = [queue |-> [h \in FifoId |-> Contents(t.fifo[h])], latch |-> s.latch,
                       src |-> t.src, out |-> s.out]
        <5>1. t.latch = s.latch /\ t.out = s.out
          BY <3>4
        <5> HIDE DEF t
        <5> QED BY <5>1, Zenon DEF View
      <4>2. PICK q, x : q = [h \in FifoId |-> Contents(t.fifo[h])] /\ x = t.src
        OBVIOUS
      <4>3. [View(s) EXCEPT !.queue = q, !.src = x] =
               [queue |-> q, latch |-> s.latch, src |-> x, out |-> s.out]
        BY ViewFed
      <4> HIDE DEF t
      <4> QED BY <4>1, <4>2, <4>3
    <3>12. View(t) = Q!Fed(v, c, timer, dma)
      <4> HIDE DEF t, v
      <4> QED BY <1>4, <3>4, <3>9, <3>10, <3>11
    <3> QED BY <3>1, <3>6, <3>12
  <2> QED BY <2>1, <2>2, <2>3
<1> QED BY <1>2, <1>6, <1>7

\* What an overflow does, to the rings and to the queues.
LEMMA ClockedView ==
    ASSUME NEW s \in RingState, NEW timer \in {0, 1}, NEW dma \in Destinations
    PROVE  /\ Clocked(s, timer, dma) \in RingState
           /\ Clocked(s, timer, dma).clock = s.clock
           /\ View(Clocked(s, timer, dma)) =
                 Q!Fed(Q!Fed(Q!Popped(View(s), timer), 1, timer, dma), 2, timer, dma)
<1> DEFINE t == OnTimerOverflow(s, timer)
           u == Served(t, 1, timer, dma)
           w == Served(u, 2, timer, dma)
<1>1. t \in RingState /\ View(t) = Q!Popped(View(s), timer)
  BY PopView
<1>2. 1 \in Ch /\ 2 \in Ch
  BY DEF Ch
<1> HIDE DEF t
<1>3. u \in RingState /\ View(u) = Q!Fed(View(t), 1, timer, dma)
  BY <1>1, <1>2, FedView
<1> HIDE DEF u
<1>4. w \in RingState /\ View(w) = Q!Fed(View(u), 2, timer, dma)
  BY <1>2, <1>3, FedView
<1>5. Clocked(s, timer, dma) = IF \E f \in FifoId : NeedsData(t.fifo[f]) THEN w ELSE t
  BY Zenon DEF Clocked, CheckSoundFifoDma, Served, t, u
<1>6. Clocked(s, timer, dma) = w
  <2>1. CASE \E f \in FifoId : NeedsData(t.fifo[f])
    BY <1>5, <2>1
  <2>2. CASE ~\E f \in FifoId : NeedsData(t.fifo[f])
    <3>1. u = t
      BY <2>2 DEF u, Served
    <3>2. w = t
      BY <2>2, <3>1 DEF Served
    <3> QED BY <1>5, <2>2, <3>2
  <2> QED BY <2>1, <2>2
<1>7. t.clock = s.clock
  BY DEF t, OnTimerOverflow, RingState, Carried
<1>8. \A r \in RingState, c \in Ch : Served(r, c, timer, dma).clock = r.clock
  BY DEF Served, Request, RingState, Carried
<1>9. w.clock = s.clock
  BY <1>1, <1>2, <1>3, <1>7, <1>8 DEF u
<1> HIDE DEF w
<1> QED BY <1>1, <1>3, <1>4, <1>6, <1>9

-----------------------------------------------------------------------------
(* Samples *)

LEMMA Division ==
    ASSUME NEW c \in Nat, c > 0, NEW x \in Nat
    PROVE  /\ x \div c \in Nat /\ x % c \in Nat /\ x % c < c
           /\ x = c * (x \div c) + (x % c)
<1>1. PICK q \in Nat, r \in 0 .. c - 1 : q = x \div c /\ r = x % c
  OBVIOUS
<1>2. x = c * q + r
  BY <1>1
<1> QED BY <1>1, <1>2

\* A quotient and a remainder in range are the quotient and the remainder.
LEMMA Quotient ==
    ASSUME NEW c \in Nat, c > 0, NEW q \in Nat, NEW r \in Nat, r < c
    PROVE  (c * q + r) \div c = q /\ (c * q + r) % c = r
<1>1. PICK x \in Nat, p \in Nat, s \in Nat :
         /\ x = c * q + r /\ p = x \div c /\ s = x % c /\ s < c /\ x = c * p + s
  <2>1. PICK x \in Nat : x = c * q + r
    OBVIOUS
  <2> QED BY <2>1, Division
<1>2. ~(p < q)
  <2> SUFFICES ASSUME p < q PROVE FALSE
    OBVIOUS
  <2>1. PICK d \in Nat : q = p + 1 + d
    <3>1. q - p - 1 \in Nat /\ q = p + 1 + (q - p - 1)
      OBVIOUS
    <3> QED BY <3>1
  <2>2. c * q = c * p + c + c * d /\ c * d \in Nat
    BY <2>1
  <2> QED BY <1>1, <2>2
<1>3. ~(q < p)
  <2> SUFFICES ASSUME q < p PROVE FALSE
    OBVIOUS
  <2>1. PICK d \in Nat : p = q + 1 + d
    <3>1. p - q - 1 \in Nat /\ p = q + 1 + (p - q - 1)
      OBVIOUS
    <3> QED BY <3>1
  <2>2. c * p = c * q + c + c * d /\ c * d \in Nat
    BY <2>1
  <2> QED BY <1>1, <2>2
<1>4. p = q
  BY <1>2, <1>3
<1>5. s = r
  BY <1>1, <1>4
<1> QED BY <1>1, <1>4, <1>5

\* A sample falls due where the quotient grows.
LEMMA OneCycle ==
    ASSUME NEW c \in Nat, c > 0, NEW x \in Nat
    PROVE  (x + 1) \div c = IF (x + 1) % c = 0 THEN x \div c + 1 ELSE x \div c
<1>1. PICK q \in Nat, r \in Nat : q = x \div c /\ r = x % c /\ r < c /\ x = c * q + r
  BY Division
<1>2. CASE r + 1 < c
  <2>1. PICK s \in Nat : s = r + 1 /\ s < c
    BY <1>2
  <2>2. x + 1 = c * q + s
    BY <1>1, <2>1
  <2>3. (x + 1) \div c = q /\ (x + 1) % c = s /\ s # 0
    BY <2>1, <2>2, Quotient
  <2> QED BY <1>1, <2>3
<1>3. CASE ~(r + 1 < c)
  <2>1. PICK p \in Nat : p = q + 1
    OBVIOUS
  <2>2. c * p = c * q + c
    BY <2>1
  <2>3. x + 1 = c * p + 0
    BY <1>1, <1>3, <2>2
  <2>4. (c * p + 0) \div c = p /\ (c * p + 0) % c = 0
    BY Quotient
  <2> QED BY <1>1, <2>1, <2>3, <2>4
<1> QED BY <1>2, <1>3

\* Phases add up.
LEMMA Phases ==
    ASSUME NEW c \in Nat, c > 0, NEW x \in Nat, NEW n \in Nat
    PROVE  ((x % c) + n) % c = (x + n) % c
<1>1. PICK q \in Nat, r \in Nat : q = x \div c /\ r = x % c /\ r < c /\ x = c * q + r
  BY Division
<1>2. PICK y \in Nat : y = r + n
  OBVIOUS
<1>3. PICK p \in Nat, s \in Nat : p = y \div c /\ s = y % c /\ s < c /\ y = c * p + s
  BY Division
<1>4. PICK t \in Nat : t = q + p
  OBVIOUS
<1>5. c * t = c * q + c * p
  BY <1>4
<1>6. x + n = c * t + s
  BY <1>1, <1>2, <1>3, <1>5
<1>7. (c * t + s) % c = s
  BY <1>3, Quotient
<1> QED BY <1>1, <1>2, <1>3, <1>6, <1>7

\* A whole number of samples fits into the width of the clock.
LEMMA Wrapped ==
    ASSUME NEW c \in Nat, c > 0, NEW m \in Nat, m > 0, m % c = 0, NEW x \in Nat
    PROVE  (x % m) % c = x % c
<1>1. PICK q \in Nat, r \in Nat : q = x \div m /\ r = x % m /\ x = m * q + r
  BY Division
<1>2. PICK k \in Nat : k = m \div c /\ m = c * k
  BY Division
<1>3. PICK p \in Nat, s \in Nat : p = r \div c /\ s = r % c /\ s < c /\ r = c * p + s
  BY Division
<1>4. PICK t \in Nat : t = k * q + p
  OBVIOUS
<1>5. c * t = m * q + c * p
  <2>1. (c * k) * q = c * (k * q)
    OBVIOUS
  <2>2. c * (k * q + p) = c * (k * q) + c * p
    OBVIOUS
  <2> QED BY <1>2, <1>4, <2>1, <2>2
<1>6. x = c * t + s
  <2>1. m * q \in Nat /\ c * p \in Nat
    OBVIOUS
  <2> QED BY <1>1, <1>3, <1>5, <2>1
<1>7. (c * t + s) % c = s
  BY <1>3, Quotient
<1> QED BY <1>1, <1>3, <1>6, <1>7

Tagged(l, d) == [i \in 1 .. d |-> l]

\* The samples due between two clocks, below the last multiple.
DueBetween(from, to) == to \div CYCLES_PER_SAMPLE - from \div CYCLES_PER_SAMPLE

InReach(from, to) == from \in Nat /\ to \in Nat /\ from <= to /\ to < CLOCK - CYCLES_PER_SAMPLE

\* The closed form of the sample loop counts the multiples between two clocks.
LEMMA Due ==
    ASSUME NEW from, NEW to, InReach(from, to)
    PROVE  LET end == ((from \div CYCLES_PER_SAMPLE + 1) * CYCLES_PER_SAMPLE) % CLOCK
               due == IF end <= to THEN (to - end) \div CYCLES_PER_SAMPLE + 1 ELSE 0
           IN  due = DueBetween(from, to) /\ due \in Nat
<1>1. PICK c \in Nat, w \in Nat : c = CYCLES_PER_SAMPLE /\ w = CLOCK /\ c > 0 /\ w > 0
  BY SoundAssumption
<1>2. from \in Nat /\ to \in Nat /\ from <= to /\ to < w - c
  BY <1>1 DEF InReach
<1>3. PICK q \in Nat, r \in Nat : q = from \div c /\ r = from % c /\ r < c /\ from = c * q + r
  BY <1>1, <1>2, Division
<1>4. PICK p \in Nat, s \in Nat : p = to \div c /\ s = to % c /\ s < c /\ to = c * p + s
  BY <1>1, <1>2, Division
<1>5. PICK e \in Nat : e = (q + 1) * c /\ e = c * q + c
  <2>1. (q + 1) * c \in Nat /\ (q + 1) * c = c * q + c
    OBVIOUS
  <2> QED BY <2>1
<1>6. e % w = e
  <2>1. e < w
    BY <1>2, <1>3, <1>5
  <2> QED BY <1>1, <2>1, OnceAround
<1>7. CASE e <= to
  <2>1. p >= q + 1
    <3> SUFFICES ASSUME p <= q PROVE FALSE
      OBVIOUS
    <3>1. PICK d \in Nat : q = p + d
      <4>1. q - p \in Nat /\ q = p + (q - p)
        OBVIOUS
      <4> QED BY <4>1
    <3>2. c * q = c * p + c * d /\ c * d \in Nat
      BY <3>1
    <3> QED BY <1>4, <1>5, <1>7, <3>2
  <2>2. PICK d \in Nat : p = q + 1 + d
    <3>1. p - q - 1 \in Nat /\ p = q + 1 + (p - q - 1)
      BY <2>1
    <3> QED BY <3>1
  <2>3. c * p = c * q + c + c * d
    BY <2>2
  <2>4. to - e = c * d + s
    BY <1>4, <1>5, <2>3
  <2>5. (to - e) \div c = d
    BY <1>1, <1>4, <2>4, Quotient
  <2>6. (to - e) \div c + 1 = p - q /\ p - q \in Nat
    BY <2>2, <2>5
  <2> QED BY <1>1, <1>3, <1>4, <1>5, <1>6, <1>7, <2>6 DEF DueBetween
<1>8. CASE ~(e <= to)
  <2>1. PICK d \in Nat : to = c * q + d /\ d < c
    <3>1. to - c * q \in Nat /\ to = c * q + (to - c * q) /\ to - c * q < c
      BY <1>2, <1>3, <1>5, <1>8
    <3> QED BY <3>1
  <2>2. p = q
    BY <1>1, <1>4, <2>1, Quotient
  <2>3. p - q = 0
    BY <2>2
  <2> QED BY <1>1, <1>3, <1>4, <1>5, <1>6, <1>8, <2>3 DEF DueBetween
<1> QED BY <1>7, <1>8

\* The state of a batch whose clock may still be moved to target.
Movable(s, target) ==
    /\ s \in RingState /\ target \in 0 .. CLOCK - 1 /\ enabled \in BOOLEAN
    /\ enabled => InReach(s.clock, target)

LEMMA TaggedSeq ==
    ASSUME NEW l \in Samples, NEW d \in Nat
    PROVE  /\ Tagged(l, d) \in Seq(Samples) /\ Len(Tagged(l, d)) = d
           /\ \A i \in 1 .. d : Tagged(l, d)[i] = l
           /\ Tagged(l, 0) = <<>> /\ Tagged(l, d + 1) = Append(Tagged(l, d), l)
<1>1. \A n \in Nat : /\ Tagged(l, n) \in Seq(Samples) /\ Len(Tagged(l, n)) = n
                     /\ \A i \in 1 .. n : Tagged(l, n)[i] = l
  BY DEF Tagged
<1>2. Tagged(l, 0) = <<>>
  BY <1>1, EmptySeq
<1>3. Tagged(l, d + 1) = Append(Tagged(l, d), l)
  <2>1. PICK x, y, n : x = Tagged(l, d) /\ y = Tagged(l, n) /\ n = d + 1
    OBVIOUS
  <2>2. /\ x \in Seq(Samples) /\ Len(x) = d /\ \A i \in 1 .. d : x[i] = l
        /\ y \in Seq(Samples) /\ Len(y) = n /\ \A i \in 1 .. n : y[i] = l
    BY <1>1, <2>1
  <2>3. /\ Append(x, l) \in Seq(Samples) /\ Len(Append(x, l)) = n
        /\ \A i \in 1 .. n : Append(x, l)[i] = l
    BY <2>1, <2>2, AppendProperties
  <2>4. Append(x, l) = y
    BY <2>2, <2>3, SeqEqual
  <2> QED BY <2>1, <2>4
<1> QED BY <1>1, <1>2, <1>3

\* The sample loop ends below the last multiple, and emits what is due.
Moves(s, target, t) ==
    /\ t \in RingState /\ t.clock = target /\ t.stuck = s.stuck
    /\ t.fifo = s.fifo /\ t.latch = s.latch /\ t.src = s.src
    /\ enabled => /\ DueBetween(s.clock, target) \in Nat
                  /\ t.out = s.out \o Tagged(s.latch, DueBetween(s.clock, target))
    /\ ~enabled => t.out = s.out

\* Where tick_until leaves the clock, and how many samples it emits.
LEMMA TickUntilEnds ==
    ASSUME NEW s, NEW target, Movable(s, target)
    PROVE  Moves(s, target, TickUntil(s, target))
<1> DEFINE end == ((s.clock \div CYCLES_PER_SAMPLE + 1) * CYCLES_PER_SAMPLE) % CLOCK
           due == IF end <= target THEN (target - end) \div CYCLES_PER_SAMPLE + 1 ELSE 0
           past == enabled /\ due > 0 /\ target >= CLOCK - CYCLES_PER_SAMPLE
           t == TickUntil(s, target)
<1>1. s \in RingState /\ s \in Carried /\ target \in 0 .. CLOCK - 1 /\ enabled \in BOOLEAN
  BY DEF Movable, RingState
<1>2. enabled => due = DueBetween(s.clock, target) /\ due \in Nat
  <2> HAVE enabled
  <2>1. InReach(s.clock, target)
    BY DEF Movable
  <2> QED BY <2>1, Due
<1>3. ~past
  <2> HIDE DEF due
  <2>1. CLOCK \in Nat /\ CYCLES_PER_SAMPLE \in Nat
    BY SoundAssumption
  <2> QED BY <2>1 DEF Movable, InReach
<1>4. t = IF past THEN [s EXCEPT !.stuck = TRUE]
          ELSE [s EXCEPT !.clock = target,
                         !.out = IF enabled THEN @ \o Tagged(s.latch, due) ELSE @]
  BY Zenon DEF TickUntil, Tagged
<1>5. t \in Carried
  BY <1>1, TickUntilTyped
<1> HIDE DEF due, past, t
<1>6. /\ t.fifo = s.fifo /\ t.latch = s.latch /\ t.src = s.src /\ t.clock = target
      /\ t.stuck = s.stuck
      /\ t.out = IF enabled THEN s.out \o Tagged(s.latch, due) ELSE s.out
  BY <1>1, <1>3, <1>4 DEF Carried
<1>7. t \in RingState
  BY <1>1, <1>5, <1>6 DEF RingState
<1> HIDE DEF end
<1> QED BY <1>1, <1>2, <1>6, <1>7 DEF t, Moves

\* Moved nowhere, a state looks the same.
LEMMA StandsStill ==
    ASSUME NEW s, Movable(s, s.clock)
    PROVE  View(TickUntil(s, s.clock)) = View(s)
<1> DEFINE t == TickUntil(s, s.clock)
           due == DueBetween(s.clock, s.clock)
<1>1. /\ t.fifo = s.fifo /\ t.latch = s.latch /\ t.src = s.src
      /\ enabled => due \in Nat /\ t.out = s.out \o Tagged(s.latch, due)
      /\ ~enabled => t.out = s.out
  <2>1. Moves(s, s.clock, t)
    BY TickUntilEnds
  <2> HIDE DEF t, due
  <2> QED BY <2>1 DEF Moves, due
<1>2. s.latch \in Samples /\ s.out \in Seq(Samples)
  BY DEF Movable, RingState, Carried
<1>3. enabled => due = 0
  <2> HAVE enabled
  <2>1. s.clock \in Nat /\ CYCLES_PER_SAMPLE \in Nat /\ CYCLES_PER_SAMPLE > 0
    BY SoundAssumption DEF Movable, InReach
  <2>2. PICK q \in Nat : q = s.clock \div CYCLES_PER_SAMPLE
    BY <2>1, Division
  <2> QED BY <2>2 DEF DueBetween
<1> HIDE DEF t, due
<1>4. t.out = s.out
  <2>1. Tagged(s.latch, 0) = <<>>
    BY <1>2, TaggedSeq
  <2>2. s.out \o <<>> = s.out
    BY <1>2, ConcatEmptySeq
  <2>3. enabled => t.out = s.out
    BY <1>1, <1>3, <2>1, <2>2
  <2> QED BY <1>1, <2>3
<1>5. View(t) = View(s)
  BY <1>1, <1>4, Zenon DEF View
<1> QED BY <1>5 DEF t

\* The state, as it looks, with the sample that is due.
Sampled(v, due) == IF due THEN [v EXCEPT !.out = Append(@, v.latch)] ELSE v

\* The queues after a sample, field by field.
LEMMA ViewSampled ==
    ASSUME NEW t
    PROVE  [View(t) EXCEPT !.out = Append(View(t).out, View(t).latch)] =
              [queue |-> [f \in FifoId |-> Contents(t.fifo[f])], latch |-> t.latch,
               src |-> t.src, out |-> Append(t.out, t.latch)]
<1>1. PICK v, q, l, c, o, p :
         /\ v = View(t) /\ v = [queue |-> q, latch |-> l, src |-> c, out |-> o]
         /\ q = [f \in FifoId |-> Contents(t.fifo[f])]
         /\ l = t.latch /\ c = t.src /\ o = t.out /\ p = Append(o, l)
  BY DEF View
<1> DEFINE R == [queue : {q}, latch : {l}, src : {c}, out : {o, p}]
           x == [v EXCEPT !.out = p]
<1>2. v \in R /\ v.out = o /\ v.latch = l
  BY <1>1
<1>3. x \in R /\ x.queue = q /\ x.latch = l /\ x.src = c /\ x.out = p
  BY <1>1, <1>2
<1>4. \A y \in R : y = [queue |-> y.queue, latch |-> y.latch, src |-> y.src, out |-> y.out]
  OBVIOUS
<1> HIDE DEF R, x
<1>5. x = [queue |-> q, latch |-> l, src |-> c, out |-> p]
  BY <1>3, <1>4
<1> QED BY <1>1, <1>2, <1>5 DEF x

\* One cycle on: the sample of the multiple of CYCLES_PER_SAMPLE, if it is one.
LEMMA OneCycleOn ==
    ASSUME NEW s, NEW x \in Nat, Movable(s, x), Movable(s, x + 1)
    PROVE  View(TickUntil(s, x + 1)) =
              Sampled(View(TickUntil(s, x)), enabled /\ (x + 1) % CYCLES_PER_SAMPLE = 0)
<1>0. PICK y \in Nat : y = x + 1
  OBVIOUS
<1> DEFINE t == TickUntil(s, x)
           u == TickUntil(s, y)
           d == DueBetween(s.clock, x)
           e == DueBetween(s.clock, y)
<1>1. /\ t.fifo = s.fifo /\ t.latch = s.latch /\ t.src = s.src
      /\ enabled => d \in Nat /\ t.out = s.out \o Tagged(s.latch, d)
      /\ ~enabled => t.out = s.out
  <2>1. Moves(s, x, t)
    BY TickUntilEnds
  <2> HIDE DEF t, d
  <2> QED BY <2>1 DEF Moves, d
<1>2. /\ u.fifo = s.fifo /\ u.latch = s.latch /\ u.src = s.src
      /\ enabled => e \in Nat /\ u.out = s.out \o Tagged(s.latch, e)
      /\ ~enabled => u.out = s.out
  <2>1. Moves(s, y, u)
    BY <1>0, TickUntilEnds
  <2> HIDE DEF u, e
  <2> QED BY <2>1 DEF Moves, e
<1>3. s.latch \in Samples /\ s.out \in Seq(Samples)
  BY DEF Movable, RingState, Carried
<1>4. enabled => e = IF y % CYCLES_PER_SAMPLE = 0 THEN d + 1 ELSE d
  <2> HAVE enabled
  <2>1. s.clock \in Nat /\ CYCLES_PER_SAMPLE \in Nat /\ CYCLES_PER_SAMPLE > 0
    BY SoundAssumption DEF Movable, InReach
  <2>2. PICK q \in Nat, a \in Nat, b \in Nat :
           /\ q = s.clock \div CYCLES_PER_SAMPLE
           /\ a = x \div CYCLES_PER_SAMPLE /\ b = y \div CYCLES_PER_SAMPLE
    BY <2>1, Division
  <2>3. b = IF y % CYCLES_PER_SAMPLE = 0 THEN a + 1 ELSE a
    BY <1>0, <2>1, <2>2, OneCycle
  <2>4. d = a - q /\ e = b - q
    BY <2>2 DEF DueBetween
  <2> QED BY <2>3, <2>4
<1> HIDE DEF t, u, d, e
<1> DEFINE due == enabled /\ y % CYCLES_PER_SAMPLE = 0
<1>5. u.out = IF due THEN Append(t.out, t.latch) ELSE t.out
  <2>1. CASE due
    <3>1. Tagged(s.latch, d + 1) = Append(Tagged(s.latch, d), s.latch)
          /\ Tagged(s.latch, d) \in Seq(Samples)
      BY <1>1, <1>3, <2>1, TaggedSeq
    <3>2. PICK z \in Seq(Samples) : z = Tagged(s.latch, d)
      BY <3>1
    <3>3. s.out \o Append(z, s.latch) = Append(s.out \o z, s.latch)
      <4>1. <<s.latch>> \in Seq(Samples) /\ s.out \o z \in Seq(Samples)
        BY <1>3
      <4>2. Append(z, s.latch) = z \o <<s.latch>>
            /\ Append(s.out \o z, s.latch) = (s.out \o z) \o <<s.latch>>
        BY <1>3, <4>1, AppendIsConcat
      <4>3. PICK o, l : o = s.out /\ l = <<s.latch>>
        OBVIOUS
      <4>4. (o \o z) \o l = o \o (z \o l)
        <5>1. o \in Seq(Samples) /\ l \in Seq(Samples)
          BY <1>3, <4>1, <4>3
        <5> HIDE DEF due
        <5> QED BY <5>1, ConcatAssociative
      <4> QED BY <4>2, <4>3, <4>4
    <3> QED BY <1>1, <1>2, <1>4, <2>1, <3>1, <3>2, <3>3
  <2>2. CASE ~due
    BY <1>1, <1>2, <1>4, <2>2
  <2> QED BY <2>1, <2>2
<1>6. View(u) = [queue |-> [f \in FifoId |-> Contents(t.fifo[f])], latch |-> t.latch,
                 src |-> t.src, out |-> u.out]
  BY <1>1, <1>2, Zenon DEF View
<1>7. [View(t) EXCEPT !.out = Append(View(t).out, View(t).latch)] =
         [queue |-> [f \in FifoId |-> Contents(t.fifo[f])], latch |-> t.latch,
          src |-> t.src, out |-> Append(t.out, t.latch)]
  BY ViewSampled
<1>8. View(u) = Sampled(View(t), due)
  <2>1. CASE due
    BY <1>5, <1>6, <1>7, <2>1 DEF Sampled
  <2>2. CASE ~due
    <3>1. Sampled(View(t), due) = View(t)
      BY <2>2 DEF Sampled
    <3>2. u.out = t.out
      BY <1>5, <2>2
    <3> QED BY <1>6, <3>1, <3>2, Zenon DEF View
  <2> QED BY <2>1, <2>2
<1> QED BY <1>0, <1>8 DEF t, u

-----------------------------------------------------------------------------
(* Overflows *)

\* The cycle of overflow k of a report.
Nth(r, k) == r.first + r.period * k

\* Of the overflows of r, the first a are those up to cycle m.
Seen(r, a, m) ==
    /\ a \in 0 .. r.count
    /\ a < r.count => Nth(r, a) > m
    /\ a > 0 => Nth(r, a - 1) <= m

\* The overflows of a report lie inside its batch, one period apart.
LEMMA ReportSpread ==
    ASSUME NEW cycles \in Nat, NEW r \in Reports(cycles)
    PROVE  /\ r.count \in Nat /\ r.first \in Nat /\ r.period \in Nat /\ r.period > 0
           /\ r.count > 0 => r.first > 0
           /\ \A k \in Nat : k < r.count => Nth(r, k) <= cycles
<1>1. CASE r = NoOverflow
  BY <1>1 DEF NoOverflow
<1>2. CASE r # NoOverflow
  <2>1. PICK first \in 1 .. cycles, period \in Periods :
           r = [count |-> (cycles - first) \div period + 1, first |-> first, period |-> period]
    BY <1>2 DEF Reports
  <2>2. PICK d \in Nat : d = cycles - first /\ cycles = first + d
    OBVIOUS
  <2>3. period \in Nat /\ period > 0
    BY SoundAssumption
  <2>4. PICK q \in Nat, s \in Nat : q = d \div period /\ s = d % period /\ d = period * q + s
    BY <2>3, Division
  <2>5. r.count = q + 1 /\ r.first = first /\ r.period = period
    BY <2>1, <2>2, <2>4
  <2>6. ASSUME NEW k \in Nat, k < q + 1 PROVE first + period * k <= cycles
    <3>1. PICK e \in Nat : q = k + e
      <4>1. q - k \in Nat /\ q = k + (q - k)
        BY <2>6
      <4> QED BY <4>1
    <3>2. period * q = period * k + period * e /\ period * e \in Nat /\ period * k \in Nat
      BY <2>3, <3>1
    <3> QED BY <2>2, <2>4, <3>2
  <2>7. \A k \in Nat : k < r.count => Nth(r, k) <= cycles
    BY <2>5, <2>6 DEF Nth
  <2>8. r.count \in Nat /\ r.first \in Nat /\ r.period \in Nat /\ r.period > 0 /\ r.first > 0
    BY <2>3, <2>5
  <2> QED BY <2>7, <2>8
<1> QED BY <1>1, <1>2

\* Later overflows come later.
LEMMA NthSpread ==
    ASSUME NEW cycles \in Nat, NEW r \in Reports(cycles), NEW j \in Nat, NEW k \in Nat, j < k
    PROVE  Nth(r, j) \in Nat /\ Nth(r, k) \in Nat /\ Nth(r, j) < Nth(r, k)
<1>1. PICK f \in Nat, p \in Nat : f = r.first /\ p = r.period /\ p > 0
  BY ReportSpread
<1>2. PICK e \in Nat : k = j + 1 + e
  <2>1. k - j - 1 \in Nat /\ k = j + 1 + (k - j - 1)
    OBVIOUS
  <2> QED BY <2>1
<1>3. p * k = p * j + p + p * e /\ p * e \in Nat /\ p * j \in Nat
  BY <1>2
<1>4. Nth(r, j) = f + p * j /\ Nth(r, k) = f + p * k
  BY <1>1 DEF Nth
<1> QED BY <1>1, <1>3, <1>4

\* Which overflow falls into the next cycle.
LEMMA Overflowing ==
    ASSUME NEW cycles \in Nat, NEW r \in Reports(cycles), NEW n \in Nat, n > 0,
           NEW a, Seen(r, a, n - 1)
    PROVE  /\ Q!Overflows(r, n) <=> a < r.count /\ Nth(r, a) = n
           /\ ~Q!Overflows(r, n) => Seen(r, a, n)
           /\ Q!Overflows(r, n) => Seen(r, a + 1, n)
<1>1. r.count \in Nat /\ r.first \in Nat /\ r.period \in Nat /\ r.period > 0
  BY ReportSpread
<1>2. a \in Nat /\ a <= r.count
  BY <1>1 DEF Seen
<1>3. \A k \in Nat : Nth(r, k) \in Nat
  <2> SUFFICES ASSUME NEW k \in Nat PROVE Nth(r, k) \in Nat
    OBVIOUS
  <2>1. k < k + 1 /\ k + 1 \in Nat
    OBVIOUS
  <2> QED BY <2>1, NthSpread
<1>4. ASSUME NEW k \in 0 .. r.count - 1 PROVE r.first + k * r.period = Nth(r, k)
  <2>1. k * r.period = r.period * k
    BY <1>1
  <2> QED BY <2>1 DEF Nth
<1>5. Q!Overflows(r, n) <=> \E k \in 0 .. r.count - 1 : Nth(r, k) = n
  BY <1>4 DEF Q!Overflows
<1>6. ASSUME NEW k \in 0 .. r.count - 1, Nth(r, k) = n PROVE k = a
  <2>1. ~(k < a)
    <3> SUFFICES ASSUME k < a PROVE FALSE
      OBVIOUS
    <3>1. PICK b \in Nat : b = a - 1 /\ k <= b
      BY <1>2
    <3>2. Nth(r, b) <= n - 1 /\ Nth(r, b) \in Nat
      BY <1>2, <1>3, <3>1 DEF Seen
    <3>3. k \in Nat /\ (k = b \/ k < b)
      BY <3>1
    <3>4. Nth(r, k) <= Nth(r, b)
      BY <1>3, <3>3, NthSpread
    <3> QED BY <1>6, <3>2, <3>4
  <2>2. ~(a < k)
    <3> SUFFICES ASSUME a < k PROVE FALSE
      OBVIOUS
    <3>1. k \in Nat /\ a < r.count
      BY <1>1, <1>2
    <3>2. Nth(r, a) > n - 1 /\ Nth(r, a) \in Nat
      BY <1>2, <1>3, <3>1 DEF Seen
    <3>3. Nth(r, a) < Nth(r, k)
      BY <1>2, <3>1, NthSpread
    <3> QED BY <1>6, <3>2, <3>3
  <2> QED BY <1>2, <2>1, <2>2
<1>7. Q!Overflows(r, n) <=> a < r.count /\ Nth(r, a) = n
  <2>1. a < r.count <=> a \in 0 .. r.count - 1
    BY <1>1, <1>2
  <2> QED BY <1>5, <1>6, <2>1
<1>8. ASSUME ~(a < r.count /\ Nth(r, a) = n) PROVE Seen(r, a, n)
  <2>1. a < r.count => Nth(r, a) > n
    BY <1>2, <1>3, <1>8 DEF Seen
  <2>2. a > 0 => Nth(r, a - 1) <= n
    <3> HAVE a > 0
    <3>1. PICK b \in Nat : b = a - 1
      BY <1>2
    <3> QED BY <1>3, <3>1 DEF Seen
  <2> QED BY <2>1, <2>2 DEF Seen
<1>9. ASSUME a < r.count, Nth(r, a) = n PROVE Seen(r, a + 1, n)
  <2>1. PICK b \in Nat : b = a + 1 /\ b - 1 = a /\ a < b /\ b \in 0 .. r.count
    BY <1>1, <1>2, <1>9
  <2>2. Nth(r, b) > n
    BY <1>2, <1>3, <1>9, <2>1, NthSpread
  <2> QED BY <1>9, <2>1, <2>2 DEF Seen
<1> QED BY <1>7, <1>8, <1>9

\* Before the first cycle none has been seen, after the last one all.
LEMMA FirstAndLast ==
    ASSUME NEW cycles \in Nat, NEW r \in Reports(cycles)
    PROVE  Seen(r, 0, 0) /\ \A a : Seen(r, a, cycles) => a = r.count
<1>1. /\ r.count \in Nat /\ r.first \in Nat /\ r.period \in Nat
      /\ r.count > 0 => r.first > 0
      /\ \A k \in Nat : k < r.count => Nth(r, k) <= cycles
  BY ReportSpread
<1>2. Nth(r, 0) = r.first
  BY <1>1 DEF Nth
<1>3. Seen(r, 0, 0)
  BY <1>1, <1>2 DEF Seen
<1>4. ASSUME NEW a, Seen(r, a, cycles), a # r.count PROVE FALSE
  <2>1. a \in Nat /\ a < r.count
    BY <1>1, <1>4 DEF Seen
  <2>2. Nth(r, a) \in Nat
    BY <1>1, <2>1 DEF Nth
  <2>3. Nth(r, a) > cycles /\ Nth(r, a) <= cycles
    BY <1>1, <1>4, <2>1 DEF Seen
  <2> QED BY <2>2, <2>3
<1> QED BY <1>3, <1>4

-----------------------------------------------------------------------------
(* A batch, cycle by cycle *)

\* The batch: its overflows merged along from, the states between its pops.
Batch(cycles, ov, dma, from, popped) ==
    /\ cycles \in Nat /\ ov[0] \in Reports(cycles) /\ ov[1] \in Reports(cycles)
    /\ dma \in Destinations
    /\ TypedState /\ \A f \in FifoId : fifo[f] \in Ring
    /\ enabled => sample_clock + cycles < CLOCK - CYCLES_PER_SAMPLE
    /\ Merges(ov, from) /\ Merge(ov) = from[<<0, 0>>] /\ Merge(ov) \in Seq(Pop)
    /\ Pops(cycles, Merge(ov), dma, popped)

\* k of the merged overflows have been taken, a of timer 0 and b of timer 1.
Taken(pops, from, a, b, k) ==
    /\ k \in Nat /\ Len(pops) = k + Len(from[<<a, b>>])
    /\ \A i \in 1 .. Len(from[<<a, b>>]) : pops[k + i] = from[<<a, b>>][i]

\* An overflow of timer in cycle n comes first there, then what is left is that
\* after c overflows of timer 0 and d of timer 1.
FirstPop(from, a, b, n, timer, c, d) ==
    /\ from[<<a, b>>] = <<[cycle |-> n, timer |-> timer]>> \o from[<<c, d>>]
    /\ from[<<c, d>>] \in Seq(Pop)

\* s is a state of the batch whose clock has not passed cycle n.
Reaches(s, n) == s \in RingState /\ (enabled => s.clock <= ClockAt(n))

\* In cycle n, with the overflows of timer 0 seen up to m0 and those of timer
\* 1 up to m1, the queues are v.
Stands(ov, from, popped, n, m0, m1, v) ==
    \E a, b, k :
        /\ Seen(ov[0], a, m0) /\ Seen(ov[1], b, m1)
        /\ Taken(Merge(ov), from, a, b, k)
        /\ Reaches(popped[k], n)
        /\ View(TickUntil(popped[k], ClockAt(n))) = v

\* What an overflow of a timer does to the queues, and in a cycle that may
\* have none.
Clocks(v, timer, dma) == Q!Fed(Q!Fed(Q!Popped(v, timer), 1, timer, dma), 2, timer, dma)
Overflowed(v, timer, dma, due) == IF due THEN Clocks(v, timer, dma) ELSE v

\* Within a batch the clock goes up with the cycles and does not wrap.
LEMMA ClocksMove ==
    ASSUME NEW cycles, NEW ov, NEW dma, NEW from, NEW popped,
           Batch(cycles, ov, dma, from, popped), NEW n \in 0 .. cycles
    PROVE  /\ ClockAt(n) \in 0 .. CLOCK - 1
           /\ enabled => ClockAt(n) = sample_clock + n
           /\ enabled => ClockAt(n) < CLOCK - CYCLES_PER_SAMPLE
           /\ \A s : Reaches(s, n) => Movable(s, ClockAt(n))
<1>1. /\ cycles \in Nat /\ TypedState
      /\ enabled => sample_clock + cycles < CLOCK - CYCLES_PER_SAMPLE
  BY DEF Batch
<1>2. /\ CLOCK \in Nat /\ CLOCK > 0 /\ CYCLES_PER_SAMPLE \in Nat /\ CYCLES_PER_SAMPLE > 0
      /\ sample_clock \in Nat /\ enabled \in BOOLEAN /\ n \in Nat /\ n <= cycles
  BY <1>1, SoundAssumption DEF TypedState
<1>3. PICK x \in Nat : x = sample_clock + n
  BY <1>2
<1>4. ClockAt(n) \in 0 .. CLOCK - 1
  <2>1. x % CLOCK \in 0 .. CLOCK - 1
    BY <1>2
  <2> QED BY <1>3, <2>1 DEF ClockAt
<1>5. enabled => ClockAt(n) = x /\ x < CLOCK - CYCLES_PER_SAMPLE
  <2> HAVE enabled
  <2>1. x < CLOCK - CYCLES_PER_SAMPLE /\ x < CLOCK
    BY <1>1, <1>2, <1>3
  <2>2. x % CLOCK = x
    BY <1>2, <2>1, OnceAround
  <2> QED BY <1>3, <2>1, <2>2 DEF ClockAt
<1>6. ASSUME NEW s, Reaches(s, n) PROVE Movable(s, ClockAt(n))
  <2>1. s \in RingState /\ (enabled => s.clock <= ClockAt(n))
    BY <1>6 DEF Reaches
  <2>2. s.clock \in Nat
    BY <1>2, <2>1 DEF RingState, Carried
  <2> QED BY <1>2, <1>3, <1>4, <1>5, <2>1, <2>2 DEF Movable, InReach
<1> QED BY <1>3, <1>4, <1>5, <1>6

\* The sample first.
LEMMA CycleSamples ==
    ASSUME NEW cycles, NEW ov, NEW dma, NEW from, NEW popped,
           Batch(cycles, ov, dma, from, popped), NEW n \in 1 .. cycles, NEW s, Reaches(s, n - 1)
    PROVE  /\ Reaches(s, n)
           /\ View(TickUntil(s, ClockAt(n))) =
                 Sampled(View(TickUntil(s, ClockAt(n - 1))),
                         enabled /\ (sample_clock + n) % CYCLES_PER_SAMPLE = 0)
<1>2. TypedState /\ cycles \in Nat
  BY DEF Batch
<1>1. PICK m \in 0 .. cycles : m = n - 1 /\ n = m + 1 /\ n \in 0 .. cycles /\ m \in Nat
  BY <1>2
<1>3. /\ enabled => ClockAt(m) = sample_clock + m
      /\ enabled => ClockAt(n) = sample_clock + n
      /\ \A r : Reaches(r, m) => Movable(r, ClockAt(m))
      /\ \A r : Reaches(r, n) => Movable(r, ClockAt(n))
  BY <1>1, ClocksMove
<1>4. s \in RingState /\ s.clock \in Nat /\ sample_clock \in Nat /\ enabled \in BOOLEAN
  BY <1>2, SoundAssumption DEF Reaches, RingState, Carried, TypedState
<1>5. Reaches(s, n)
  BY <1>1, <1>3, <1>4 DEF Reaches
<1>6. Movable(s, ClockAt(m)) /\ Movable(s, ClockAt(n))
  BY <1>1, <1>3, <1>5
<1>7. CASE enabled
  <2>1. PICK x \in Nat : x = ClockAt(m) /\ ClockAt(n) = x + 1 /\ sample_clock + n = x + 1
    BY <1>1, <1>3, <1>4, <1>7
  <2>2. View(TickUntil(s, x + 1)) =
           Sampled(View(TickUntil(s, x)), enabled /\ (x + 1) % CYCLES_PER_SAMPLE = 0)
    BY <1>6, <2>1, OneCycleOn
  <2> QED BY <1>1, <1>5, <2>1, <2>2
<1>8. CASE ~enabled
  <2>1. \A c : Movable(s, c) => View(TickUntil(s, c)) = View(s)
    <3> SUFFICES ASSUME NEW c, Movable(s, c) PROVE View(TickUntil(s, c)) = View(s)
      OBVIOUS
    <3>1. PICK t : t = TickUntil(s, c)
      OBVIOUS
    <3>2. Moves(s, c, t)
      BY <3>1, TickUntilEnds
    <3>3. t.fifo = s.fifo /\ t.latch = s.latch /\ t.src = s.src /\ t.out = s.out
      BY <1>8, <3>2 DEF Moves
    <3>4. View(t) = View(s)
      BY <3>3, Zenon DEF View
    <3> QED BY <3>1, <3>4
  <2>2. \A v, due : Sampled(v, enabled /\ due) = v
    BY <1>8 DEF Sampled
  <2>3. View(TickUntil(s, ClockAt(n))) = View(TickUntil(s, ClockAt(m)))
    BY <1>6, <2>1
  <2> QED BY <1>1, <1>5, <2>2, <2>3
<1> QED BY <1>4, <1>7, <1>8

\* Then a pop that falls into the cycle.
PopsNext(cycles, ov, dma, from, popped, n, timer, a, b, c, d, k) ==
    /\ Batch(cycles, ov, dma, from, popped) /\ n \in 1 .. cycles /\ timer \in {0, 1}
    /\ Taken(Merge(ov), from, a, b, k) /\ Reaches(popped[k], n)
    /\ FirstPop(from, a, b, n, timer, c, d)

\* The next pop of the merge, in cycle n, is an overflow of its timer at the clock of cycle n.
LEMMA CyclePops ==
    ASSUME NEW cycles, NEW ov, NEW dma, NEW from, NEW popped, NEW n, NEW timer,
           NEW a, NEW b, NEW c, NEW d, NEW k,
           PopsNext(cycles, ov, dma, from, popped, n, timer, a, b, c, d, k)
    PROVE  /\ Taken(Merge(ov), from, c, d, k + 1)
           /\ Reaches(popped[k + 1], n)
           /\ View(TickUntil(popped[k + 1], ClockAt(n))) =
                 Clocks(View(TickUntil(popped[k], ClockAt(n))), timer, dma)
<1>0. /\ Batch(cycles, ov, dma, from, popped) /\ n \in 1 .. cycles /\ timer \in {0, 1}
      /\ Taken(Merge(ov), from, a, b, k) /\ Reaches(popped[k], n)
      /\ FirstPop(from, a, b, n, timer, c, d)
  BY Zenon DEF PopsNext
<1>1. PICK x, y, p, j, pops :
         /\ x = from[<<a, b>>] /\ y = from[<<c, d>>] /\ p = [cycle |-> n, timer |-> timer]
         /\ j = k + 1 /\ pops = Merge(ov)
  OBVIOUS
<1>2. /\ k \in Nat /\ Len(pops) = k + Len(x) /\ \A i \in 1 .. Len(x) : pops[k + i] = x[i]
      /\ y \in Seq(Pop) /\ x = <<p>> \o y /\ Len(y) \in Nat
  <2>1. k \in Nat /\ Len(pops) = k + Len(x) /\ \A i \in 1 .. Len(x) : pops[k + i] = x[i]
    BY <1>0, <1>1, Zenon DEF Taken
  <2>2. y \in Seq(Pop) /\ x = <<p>> \o y
    BY <1>0, <1>1, Zenon DEF FirstPop
  <2> QED BY <2>1, <2>2
<1>3. /\ cycles \in Nat /\ dma \in Destinations /\ pops \in Seq(Pop)
      /\ Pops(cycles, pops, dma, popped)
  BY <1>0, <1>1 DEF Batch
<1>4. p \in Pop /\ p.cycle = n /\ p.timer = timer
  BY <1>0, <1>1, <1>3 DEF Pop
<1>5. Len(x) = Len(y) + 1 /\ x[1] = p /\ \A i \in 1 .. Len(y) : x[i + 1] = y[i]
  <2>0. <<p>> \in Seq(Pop) /\ Len(<<p>>) = 1 /\ <<p>>[1] = p
    BY <1>4
  <2>1. PICK h : h = <<p>> /\ h \in Seq(Pop) /\ Len(h) = 1 /\ h[1] = p
    BY <2>0
  <2>2. /\ Len(h \o y) = Len(h) + Len(y)
        /\ \A i \in 1 .. Len(h) + Len(y) : (h \o y)[i] = IF i <= Len(h) THEN h[i] ELSE y[i - Len(h)]
    BY <1>2, <2>1, ConcatProperties
  <2>3. ASSUME NEW i \in 1 .. Len(y) PROVE x[i + 1] = y[i]
    <3>1. PICK l \in Nat : l = i + 1 /\ l \in 1 .. Len(h) + Len(y) /\ ~(l <= Len(h)) /\ l - Len(h) = i
      BY <1>2, <2>1
    <3> QED BY <1>2, <2>1, <2>2, <3>1
  <2>4. 1 \in 1 .. Len(h) + Len(y) /\ 1 <= Len(h)
    BY <1>2, <2>1
  <2> QED BY <1>2, <2>1, <2>2, <2>3, <2>4
<1>6. /\ j \in Nat /\ Len(pops) = j + Len(y) /\ j \in 1 .. Len(pops) /\ j - 1 = k /\ pops[j] = p
      /\ k \in 0 .. Len(pops) /\ j \in 0 .. Len(pops)
  <2>0. Len(y) \in Nat /\ Len(x) \in Nat /\ Len(x) = Len(y) + 1
    BY <1>2, <1>5
  <2>1. PICK l \in Nat, e \in Nat, g \in Nat : l = Len(x) /\ e = Len(y) /\ l = e + 1 /\ g = 1
    BY <2>0
  <2>2. g \in 1 .. Len(x) /\ k + g = j
    BY <1>1, <2>1
  <2>3. pops[k + g] = x[g]
    BY <1>2, <2>1, <2>2
  <2>4. pops[j] = p
    BY <1>5, <2>1, <2>2, <2>3
  <2>5. j \in Nat /\ Len(pops) = j + Len(y) /\ j - 1 = k /\ Len(pops) = k + l
    <3>1. Len(pops) = k + l
      BY <1>2, <2>1
    <3>2. k \in Nat /\ j = k + 1
      BY <1>1, <1>2
    <3>3. k + l = j + e /\ j \in Nat /\ j - 1 = k
      BY <2>1, <3>2
    <3> QED BY <2>1, <3>1, <3>3
  <2> QED BY <1>2, <2>1, <2>4, <2>5
<1>7. Taken(pops, from, c, d, j)
  <2>1. ASSUME NEW i \in 1 .. Len(y) PROVE pops[j + i] = y[i]
    <3>1. PICK l \in 1 .. Len(x) : l = i + 1 /\ j + i = k + l
      BY <1>1, <1>2, <1>5
    <3> QED BY <1>2, <1>5, <3>1
  <2> QED BY <1>1, <1>6, <2>1 DEF Taken
<1>8. PICK r : r = popped[k] /\ Reaches(r, n) /\ r \in RingState
  BY <1>0 DEF Reaches
<1>9. PICK t, s : t = ClockAt(n) /\ s = TickUntil(r, t)
  OBVIOUS
<1>10. n \in 0 .. cycles
  BY <1>0, <1>3
<1>11. Movable(r, t)
  BY <1>8, <1>9, <1>10, <1>0, ClocksMove
<1>12. s \in RingState /\ s.clock = t
  <2>1. Moves(r, t, s)
    BY <1>9, <1>11, TickUntilEnds
  <2> QED BY <2>1 DEF Moves
<1>13. popped[j] = Clocked(s, timer, dma)
  <2>1. popped[j] = PopAt(popped[j - 1], pops[j], cycles, dma)
    BY <1>3, <1>6 DEF Pops
  <2>2. popped[j] = PopAt(r, p, cycles, dma)
    BY <1>6, <1>8, <2>1
  <2>3. PICK at : at = IF p.cycle < cycles THEN p.cycle ELSE cycles
    OBVIOUS
  <2>4. at = n
    BY <1>0, <1>3, <1>4, <1>10, <2>3
  <2>5. popped[j] = Clocked(TickUntil(r, ClockAt(at)), p.timer, dma)
    BY <2>2, <2>3, Zenon DEF PopAt
  <2> QED BY <1>0, <1>4, <1>9, <2>4, <2>5
<1>14. PICK w : w = popped[j] /\ w \in RingState /\ w.clock = t
               /\ View(w) = Clocks(View(s), timer, dma)
  BY <1>0, <1>3, <1>12, <1>13, ClockedView DEF Clocks
<1>15. Reaches(w, n)
  <2>1. t \in Nat
    <3>1. t \in 0 .. CLOCK - 1
      BY <1>9, <1>10, <1>0, ClocksMove
    <3> QED BY <3>1, SoundAssumption
  <2> QED BY <1>9, <1>14, <2>1 DEF Reaches
<1>16. View(TickUntil(w, t)) = View(w)
  <2>1. Movable(w, w.clock)
    BY <1>9, <1>10, <1>14, <1>15, <1>0, ClocksMove
  <2> QED BY <1>14, <2>1, StandsStill
<1> QED BY <1>1, <1>7, <1>8, <1>9, <1>14, <1>15, <1>16

\* What Merge takes next, when both timers have overflows left or only one has.
LEMMA NextPop ==
    ASSUME NEW ov, NEW from, Merges(ov, from),
           NEW a \in 0 .. ov[0].count, NEW b \in 0 .. ov[1].count
    PROVE  /\ ZeroIsNext(ov, a, b) /\ a + 1 \in 0 .. ov[0].count =>
                 FirstPop(from, a, b, At(ov, 0, a), 0, a + 1, b)
           /\ ~ZeroIsNext(ov, a, b) /\ b # ov[1].count /\ b + 1 \in 0 .. ov[1].count =>
                 FirstPop(from, a, b, At(ov, 1, b), 1, a, b + 1)
           /\ a = ov[0].count /\ b = ov[1].count => Len(from[<<a, b>>]) = 0
<1>1. \A c \in 0 .. ov[0].count, d \in 0 .. ov[1].count : from[<<c, d>>] \in Seq(Pop)
  BY Zenon DEF Merges
<1>2. from[<<a, b>>] =
         IF a = ov[0].count /\ b = ov[1].count THEN <<>>
         ELSE IF ZeroIsNext(ov, a, b)
         THEN <<[cycle |-> At(ov, 0, a), timer |-> 0]>> \o from[<<a + 1, b>>]
         ELSE <<[cycle |-> At(ov, 1, b), timer |-> 1]>> \o from[<<a, b + 1>>]
  BY Zenon DEF Merges
<1>3. ASSUME ZeroIsNext(ov, a, b), a + 1 \in 0 .. ov[0].count
      PROVE  FirstPop(from, a, b, At(ov, 0, a), 0, a + 1, b)
  <2>1. a # ov[0].count
    <3>1. a < ov[0].count /\ a \in Int
      BY <1>3 DEF ZeroIsNext
    <3> QED BY <3>1
  <2>2. from[<<a, b>>] = <<[cycle |-> At(ov, 0, a), timer |-> 0]>> \o from[<<a + 1, b>>]
    BY <1>2, <1>3, <2>1
  <2> QED BY <1>1, <1>3, <2>2, Zenon DEF FirstPop
<1>4. ASSUME ~ZeroIsNext(ov, a, b), b # ov[1].count, b + 1 \in 0 .. ov[1].count
      PROVE  FirstPop(from, a, b, At(ov, 1, b), 1, a, b + 1)
  <2>1. from[<<a, b>>] = <<[cycle |-> At(ov, 1, b), timer |-> 1]>> \o from[<<a, b + 1>>]
    BY <1>2, <1>4
  <2> QED BY <1>1, <1>4, <2>1, Zenon DEF FirstPop
<1>5. ASSUME a = ov[0].count, b = ov[1].count PROVE Len(from[<<a, b>>]) = 0
  BY <1>2, <1>5
<1> QED BY <1>3, <1>4, <1>5, Zenon

\* In a cycle timer 0 comes first.
LEMMA ZeroClocks ==
    ASSUME NEW cycles, NEW ov, NEW dma, NEW from, NEW popped,
           Batch(cycles, ov, dma, from, popped), NEW n \in 1 .. cycles, NEW v,
           Stands(ov, from, popped, n, n - 1, n - 1, v)
    PROVE  Stands(ov, from, popped, n, n, n - 1,
                  Overflowed(v, 0, dma, Q!Overflows(ov[0], n)))
<1>1. PICK a, b, k : /\ Seen(ov[0], a, n - 1) /\ Seen(ov[1], b, n - 1)
                     /\ Taken(Merge(ov), from, a, b, k)
                     /\ Reaches(popped[k], n)
                     /\ View(TickUntil(popped[k], ClockAt(n))) = v
  BY Zenon DEF Stands
<1>2. /\ cycles \in Nat /\ ov[0] \in Reports(cycles) /\ ov[1] \in Reports(cycles)
      /\ Merges(ov, from)
  BY DEF Batch
<1>3. n \in Nat /\ n > 0
  BY <1>2
<1>4. a \in 0 .. ov[0].count /\ b \in 0 .. ov[1].count
  BY <1>1 DEF Seen
<1>5. CASE ~Q!Overflows(ov[0], n)
  <2>1. Seen(ov[0], a, n)
    BY <1>1, <1>2, <1>3, <1>5, Overflowing
  <2>2. Overflowed(v, 0, dma, Q!Overflows(ov[0], n)) = v
    BY <1>5 DEF Overflowed
  <2> QED BY <1>1, <2>1, <2>2, Zenon DEF Stands
<1>6. CASE Q!Overflows(ov[0], n)
  <2>1. a < ov[0].count /\ Nth(ov[0], a) = n /\ Seen(ov[0], a + 1, n)
    BY <1>1, <1>2, <1>3, <1>6, Overflowing
  <2>2. At(ov, 0, a) = n
    BY <2>1 DEF At, Nth
  <2>3. ZeroIsNext(ov, a, b)
    <3>1. b < ov[1].count => At(ov, 0, a) <= At(ov, 1, b)
      <4> HAVE b < ov[1].count
      <4>1. Nth(ov[1], b) > n - 1
        BY <1>1 DEF Seen
      <4>2. Nth(ov[1], b) \in Nat
        <5>1. b \in Nat /\ b < b + 1
          BY <1>4
        <5> QED BY <1>2, <5>1, NthSpread
      <4>3. At(ov, 1, b) = Nth(ov[1], b)
        BY DEF At, Nth
      <4> QED BY <1>3, <2>2, <4>1, <4>2, <4>3
    <3> QED BY <2>1, <3>1 DEF ZeroIsNext
  <2>4. a + 1 \in 0 .. ov[0].count
    BY <2>1 DEF Seen
  <2>5. FirstPop(from, a, b, n, 0, a + 1, b)
    <3>1. FirstPop(from, a, b, At(ov, 0, a), 0, a + 1, b)
      BY <1>2, <1>4, <2>3, <2>4, NextPop
    <3> QED BY <2>2, <3>1
  <2>7. /\ Taken(Merge(ov), from, a + 1, b, k + 1)
        /\ Reaches(popped[k + 1], n)
        /\ View(TickUntil(popped[k + 1], ClockAt(n))) = Clocks(v, 0, dma)
    <3>1. PICK c, t : c = a + 1 /\ t = 0 /\ t \in {0, 1}
      OBVIOUS
    <3>2. PopsNext(cycles, ov, dma, from, popped, n, t, a, b, c, b, k)
      BY <1>1, <2>5, <3>1 DEF PopsNext
    <3>3. /\ Taken(Merge(ov), from, c, b, k + 1)
          /\ Reaches(popped[k + 1], n)
          /\ View(TickUntil(popped[k + 1], ClockAt(n)))
                = Clocks(View(TickUntil(popped[k], ClockAt(n))), t, dma)
      BY <3>2, CyclePops
    <3> QED BY <1>1, <3>1, <3>3
  <2>8. Overflowed(v, 0, dma, Q!Overflows(ov[0], n)) = Clocks(v, 0, dma)
    BY <1>6 DEF Overflowed
  <2> QED BY <1>1, <2>1, <2>7, <2>8, Zenon DEF Stands
<1> QED BY <1>5, <1>6

\* Once timer 0 has had its turn in a cycle, timer 1 has its own.
LEMMA OneClocks ==
    ASSUME NEW cycles, NEW ov, NEW dma, NEW from, NEW popped,
           Batch(cycles, ov, dma, from, popped), NEW n \in 1 .. cycles, NEW v,
           Stands(ov, from, popped, n, n, n - 1, v)
    PROVE  Stands(ov, from, popped, n, n, n,
                  Overflowed(v, 1, dma, Q!Overflows(ov[1], n)))
<1>1. PICK a, b, k : /\ Seen(ov[0], a, n) /\ Seen(ov[1], b, n - 1)
                     /\ Taken(Merge(ov), from, a, b, k)
                     /\ Reaches(popped[k], n)
                     /\ View(TickUntil(popped[k], ClockAt(n))) = v
  BY Zenon DEF Stands
<1>2. /\ cycles \in Nat /\ ov[0] \in Reports(cycles) /\ ov[1] \in Reports(cycles)
      /\ Merges(ov, from)
  BY DEF Batch
<1>3. n \in Nat /\ n > 0
  BY <1>2
<1>4. a \in 0 .. ov[0].count /\ b \in 0 .. ov[1].count
  BY <1>1 DEF Seen
<1>5. CASE ~Q!Overflows(ov[1], n)
  <2>1. Seen(ov[1], b, n)
    BY <1>1, <1>2, <1>3, <1>5, Overflowing
  <2>2. Overflowed(v, 1, dma, Q!Overflows(ov[1], n)) = v
    BY <1>5 DEF Overflowed
  <2> QED BY <1>1, <2>1, <2>2, Zenon DEF Stands
<1>6. CASE Q!Overflows(ov[1], n)
  <2>1. b < ov[1].count /\ Nth(ov[1], b) = n /\ Seen(ov[1], b + 1, n)
    BY <1>1, <1>2, <1>3, <1>6, Overflowing
  <2>2. At(ov, 1, b) = n
    BY <2>1 DEF At, Nth
  <2>3. ~ZeroIsNext(ov, a, b) /\ b # ov[1].count
    <3>1. ASSUME a < ov[0].count PROVE ~(At(ov, 0, a) <= At(ov, 1, b))
      <4>1. Nth(ov[0], a) > n
        BY <1>1, <3>1 DEF Seen
      <4>2. Nth(ov[0], a) \in Nat
        <5>1. a \in Nat /\ a < a + 1
          BY <1>4
        <5> QED BY <1>2, <5>1, NthSpread
      <4>3. At(ov, 0, a) = Nth(ov[0], a)
        BY DEF At, Nth
      <4> QED BY <1>3, <2>2, <4>1, <4>2, <4>3
    <3>2. b # ov[1].count
      BY <1>4, <2>1
    <3> QED BY <2>1, <3>1, <3>2 DEF ZeroIsNext
  <2>4. b + 1 \in 0 .. ov[1].count
    BY <2>1 DEF Seen
  <2>5. FirstPop(from, a, b, n, 1, a, b + 1)
    <3>1. FirstPop(from, a, b, At(ov, 1, b), 1, a, b + 1)
      BY <1>2, <1>4, <2>3, <2>4, NextPop
    <3> QED BY <2>2, <3>1
  <2>7. /\ Taken(Merge(ov), from, a, b + 1, k + 1)
        /\ Reaches(popped[k + 1], n)
        /\ View(TickUntil(popped[k + 1], ClockAt(n))) = Clocks(v, 1, dma)
    <3>1. PICK c, t : c = b + 1 /\ t = 1 /\ t \in {0, 1}
      OBVIOUS
    <3>2. PopsNext(cycles, ov, dma, from, popped, n, t, a, b, a, c, k)
      BY <1>1, <2>5, <3>1 DEF PopsNext
    <3>3. /\ Taken(Merge(ov), from, a, c, k + 1)
          /\ Reaches(popped[k + 1], n)
          /\ View(TickUntil(popped[k + 1], ClockAt(n)))
                = Clocks(View(TickUntil(popped[k], ClockAt(n))), t, dma)
      BY <3>2, CyclePops
    <3> QED BY <1>1, <3>1, <3>3
  <2>8. Overflowed(v, 1, dma, Q!Overflows(ov[1], n)) = Clocks(v, 1, dma)
    BY <1>6 DEF Overflowed
  <2> QED BY <1>1, <2>1, <2>7, <2>8, Zenon DEF Stands
<1> QED BY <1>5, <1>6

\* A cycle of the batch is a cycle of the queues.
LEMMA CycleImplements ==
    ASSUME NEW cycles, NEW ov, NEW dma, NEW from, NEW popped,
           Batch(cycles, ov, dma, from, popped), NEW n \in 1 .. cycles, NEW v,
           Stands(ov, from, popped, n - 1, n - 1, n - 1, v)
    PROVE  Stands(ov, from, popped, n, n, n, Q!Cycle(v, n, ov, dma))
<1> DEFINE due == enabled /\ ((sample_clock % CYCLES_PER_SAMPLE) + n) % CYCLES_PER_SAMPLE = 0
           sampled == Sampled(v, due)
           zero == Overflowed(sampled, 0, dma, Q!Overflows(ov[0], n))
           one == Overflowed(zero, 1, dma, Q!Overflows(ov[1], n))
<1>1. Q!Cycle(v, n, ov, dma) = one
  BY Zenon DEF Q!Cycle, Sampled, Overflowed, Clocks
<1>2. Stands(ov, from, popped, n, n - 1, n - 1, sampled)
  <2>1. PICK a, b, k : /\ Seen(ov[0], a, n - 1) /\ Seen(ov[1], b, n - 1)
                       /\ Taken(Merge(ov), from, a, b, k)
                       /\ Reaches(popped[k], n - 1)
                       /\ View(TickUntil(popped[k], ClockAt(n - 1))) = v
    BY Zenon DEF Stands
  <2>2. (sample_clock + n) % CYCLES_PER_SAMPLE
           = ((sample_clock % CYCLES_PER_SAMPLE) + n) % CYCLES_PER_SAMPLE
    <3>1. cycles \in Nat /\ TypedState
      BY DEF Batch
    <3>2. n \in Nat /\ sample_clock \in Nat /\ CYCLES_PER_SAMPLE \in Nat /\ CYCLES_PER_SAMPLE > 0
      BY <3>1, SoundAssumption DEF TypedState
    <3> QED BY <3>2, Phases
  <2>3. PICK s : s = popped[k] /\ Reaches(s, n - 1)
    BY <2>1
  <2>4. /\ Reaches(s, n)
        /\ View(TickUntil(s, ClockAt(n))) =
              Sampled(View(TickUntil(s, ClockAt(n - 1))),
                      enabled /\ (sample_clock + n) % CYCLES_PER_SAMPLE = 0)
    BY <2>3, CycleSamples
  <2>5. View(TickUntil(s, ClockAt(n))) = sampled
    BY <2>1, <2>2, <2>3, <2>4
  <2> HIDE DEF sampled
  <2> QED BY <2>1, <2>3, <2>4, <2>5, Zenon DEF Stands
<1> HIDE DEF sampled, due
<1>3. Stands(ov, from, popped, n, n, n - 1, zero)
  BY <1>2, ZeroClocks
<1> HIDE DEF zero
<1>4. Stands(ov, from, popped, n, n, n, one)
  BY <1>3, OneClocks
<1> QED BY <1>1, <1>4

\* The queues after each cycle of a batch.
QueuesAfter(cycles, ov, dma, after) ==
    /\ after[0] = [queue |-> [f \in FifoId |-> Contents(fifo[f])], latch |-> latch,
                   src |-> src, out |-> <<>>]
    /\ \A n \in 1 .. cycles : after[n] = Q!Cycle(after[n - 1], n, ov, dma)

\* By induction over its cycles, a batch leaves what its cycles leave one by one.
LEMMA BatchImplements ==
    ASSUME NEW cycles, NEW ov, NEW dma, NEW from, NEW popped,
           Batch(cycles, ov, dma, from, popped), NEW after, QueuesAfter(cycles, ov, dma, after)
    PROVE  LET end == TickUntil(popped[Len(Merge(ov))], ClockAt(cycles))
           IN  View(end) = after[cycles] /\ end \in RingState /\ end.clock = ClockAt(cycles)
<1> DEFINE T == {n \in 0 .. cycles : Stands(ov, from, popped, n, n, n, after[n])}
<1>1. /\ cycles \in Nat /\ ov[0] \in Reports(cycles) /\ ov[1] \in Reports(cycles)
      /\ TypedState /\ \A f \in FifoId : fifo[f] \in Ring
      /\ Merges(ov, from) /\ Merge(ov) = from[<<0, 0>>] /\ Merge(ov) \in Seq(Pop)
      /\ Pops(cycles, Merge(ov), dma, popped)
  BY DEF Batch
<1>2. 0 \in 0 .. cycles /\ cycles \in 0 .. cycles
  BY <1>1
<1>3. 0 \in T
  <2>1. Seen(ov[0], 0, 0) /\ Seen(ov[1], 0, 0)
    BY <1>1, FirstAndLast
  <2>2. Taken(Merge(ov), from, 0, 0, 0)
    <3>1. PICK p : p = Merge(ov) /\ p = from[<<0, 0>>] /\ p \in Seq(Pop)
      BY <1>1
    <3>2. Len(p) = 0 + Len(p) /\ \A i \in 1 .. Len(p) : p[0 + i] = p[i]
      BY <3>1
    <3> QED BY <3>1, <3>2 DEF Taken
  <2>3. popped[0] = Carry
    BY <1>1 DEF Pops
  <2>4. Carry \in RingState /\ Carry.clock = sample_clock
    <3>1. popped[0] \in Carried
      <4>1. 0 \in 0 .. Len(Merge(ov))
        BY <1>1
      <4> QED BY <1>1, <4>1 DEF Pops
    <3>2. Carry \in Carried
      BY <2>3, <3>1
    <3>3. Carry.fifo = fifo /\ Carry.clock = sample_clock
      BY DEF Carry
    <3> QED BY <1>1, <3>2, <3>3 DEF RingState
  <2>5. /\ ClockAt(0) \in 0 .. CLOCK - 1
        /\ enabled => ClockAt(0) = sample_clock + 0
        /\ \A s : Reaches(s, 0) => Movable(s, ClockAt(0))
    BY <1>2, ClocksMove
  <2>6. sample_clock \in Nat /\ sample_clock < CLOCK /\ CLOCK \in Nat
    BY <1>1, SoundAssumption DEF TypedState
  <2>7. ClockAt(0) = sample_clock
    BY <2>6, OnceAround DEF ClockAt
  <2>8. Reaches(Carry, 0)
    BY <2>4, <2>6, <2>7 DEF Reaches
  <2>9. View(TickUntil(Carry, ClockAt(0))) = View(Carry)
    <3>1. PICK s : s = Carry /\ s.clock = ClockAt(0) /\ Movable(s, s.clock)
      BY <2>4, <2>5, <2>7, <2>8
    <3>2. View(TickUntil(s, s.clock)) = View(s)
      BY <3>1, StandsStill
    <3> QED BY <3>1, <3>2
  <2>10. View(Carry) = after[0]
    <3>1. Carry.fifo = fifo /\ Carry.latch = latch /\ Carry.src = src /\ Carry.out = <<>>
      BY DEF Carry
    <3> QED BY <3>1, Zenon DEF View, QueuesAfter
  <2>11. Stands(ov, from, popped, 0, 0, 0, after[0])
    BY <2>1, <2>2, <2>3, <2>8, <2>9, <2>10, Zenon DEF Stands
  <2> QED BY <1>2, <2>11
<1>4. ASSUME NEW n \in 1 .. cycles, n - 1 \in T PROVE n \in T
  <2>1. Stands(ov, from, popped, n - 1, n - 1, n - 1, after[n - 1])
    BY <1>4
  <2>2. Stands(ov, from, popped, n, n, n, Q!Cycle(after[n - 1], n, ov, dma))
    BY <2>1, CycleImplements
  <2>3. after[n] = Q!Cycle(after[n - 1], n, ov, dma)
    BY DEF QueuesAfter
  <2>4. n \in 0 .. cycles
    BY <1>1
  <2> QED BY <2>2, <2>3, <2>4
<1> HIDE DEF T
<1>5. cycles \in T
  BY <1>1, <1>2, <1>3, <1>4, SetInduction
<1>6. PICK a, b, k : /\ Seen(ov[0], a, cycles) /\ Seen(ov[1], b, cycles)
                     /\ Taken(Merge(ov), from, a, b, k)
                     /\ Reaches(popped[k], cycles)
                     /\ View(TickUntil(popped[k], ClockAt(cycles))) = after[cycles]
  BY <1>5, Zenon DEF T, Stands
<1>7. a = ov[0].count /\ b = ov[1].count
  BY <1>1, <1>6, FirstAndLast
<1>8. Len(from[<<a, b>>]) = 0
  <2>1. a \in 0 .. ov[0].count /\ b \in 0 .. ov[1].count
    BY <1>6 DEF Seen
  <2> QED BY <1>1, <1>7, <2>1, NextPop
<1>9. Len(Merge(ov)) = k
  BY <1>6, <1>8 DEF Taken
<1>10. Moves(popped[k], ClockAt(cycles), TickUntil(popped[k], ClockAt(cycles)))
  <2>1. Movable(popped[k], ClockAt(cycles))
    BY <1>2, <1>6, ClocksMove
  <2> QED BY <2>1, TickUntilEnds
<1> QED BY <1>6, <1>9, <1>10 DEF Moves

-----------------------------------------------------------------------------
(* The refinement *)

\* No enabled batch reaches the last multiple of CYCLES_PER_SAMPLE below the
\* width of the clock, where the sample loop does not end.
BelowWrap == MaxClock <= CLOCK - CYCLES_PER_SAMPLE

Queues == [f \in FifoId |-> Contents(fifo[f])]

\* The queues end a batch as end says.
EndsIn(end, cycles) ==
    /\ (sample_clock % CYCLES_PER_SAMPLE)' = ((sample_clock % CYCLES_PER_SAMPLE) + cycles) % CYCLES_PER_SAMPLE
    /\ UNCHANGED <<enabled, timer_of>>
    /\ Queues' = end.queue /\ latch' = end.latch /\ src' = end.src /\ emitted' = end.out

\* The states after 0, 1, .. cycles lead to a step of the queues.
LEMMA QueuesTick ==
    ASSUME NEW cycles \in Nat, NEW ov, NEW dma
    PROVE  \E after : /\ QueuesAfter(cycles, ov, dma, after)
                      /\ EndsIn(after[cycles], cycles) => Q!Tick(cycles, ov, dma)
<1> DEFINE start == [queue |-> [f \in FifoId |-> Contents(fifo[f])], latch |-> latch,
                     src |-> src, out |-> <<>>]
           Body(g, n) == IF n = 0 THEN start ELSE Q!Cycle(g[n - 1], n, ov, dma)
           after == CHOOSE g : g = [n \in 0 .. cycles |-> Body(g, n)]
           T == {m \in 0 .. cycles : \E g : g = [n \in 0 .. m |-> Body(g, n)]}
<1>1. Q!Tick(cycles, ov, dma) <=> EndsIn(after[cycles], cycles)
  BY Zenon DEF Q!Tick, EndsIn, Queues, after, Body, start
<1>2. 0 \in T
  <2>1. PICK g : g = [n \in 0 .. 0 |-> start]
    OBVIOUS
  <2>2. \A n \in 0 .. 0 : n = 0
    OBVIOUS
  <2>3. g = [n \in 0 .. 0 |-> Body(g, n)]
    <3> HIDE DEF start
    <3> QED BY <2>1, <2>2
  <2>4. 0 \in 0 .. cycles
    OBVIOUS
  <2> HIDE DEF Body
  <2> QED BY <2>3, <2>4
<1>3. ASSUME NEW m \in 1 .. cycles, m - 1 \in T PROVE m \in T
  <2>0. PICK k \in Nat : k = m - 1 /\ m = k + 1 /\ m \in 0 .. cycles
    OBVIOUS
  <2>1. PICK g : g = [n \in 0 .. k |-> Body(g, n)]
    <3> HIDE DEF Body
    <3> QED BY <1>3, <2>0
  <2>2. PICK h : h = [n \in 0 .. m |-> IF n <= k THEN g[n] ELSE Q!Cycle(g[k], m, ov, dma)]
    OBVIOUS
  <2>3. ASSUME NEW n \in 0 .. m PROVE h[n] = Body(h, n)
    <3>1. CASE n = 0
      <4>1. n \in 0 .. k /\ n \in 0 .. m /\ n <= k
        BY <2>0, <3>1
      <4>2. h[n] = g[n] /\ g[n] = Body(g, n)
        <5> HIDE DEF Body
        <5> QED BY <2>1, <2>2, <4>1
      <4> HIDE DEF start
      <4> QED BY <3>1, <4>2
    <3>2. CASE n # 0 /\ n <= k
      <4>1. n \in 0 .. k /\ n \in 0 .. m /\ n - 1 \in 0 .. m /\ n - 1 <= k
        BY <2>0, <3>2
      <4>2. h[n] = g[n] /\ g[n] = Body(g, n) /\ h[n - 1] = g[n - 1]
        <5> HIDE DEF Body
        <5> QED BY <2>1, <2>2, <3>2, <4>1
      <4> HIDE DEF start
      <4> QED BY <3>2, <4>2
    <3>3. CASE n # 0 /\ ~(n <= k)
      <4>1. n = m /\ n - 1 = k /\ k \in 0 .. m /\ k <= k
        BY <2>0, <3>3
      <4>2. h[n] = Q!Cycle(g[k], m, ov, dma) /\ h[k] = g[k]
        BY <2>2, <3>3, <4>1
      <4> HIDE DEF start
      <4> QED BY <3>3, <4>1, <4>2
    <3> QED BY <3>1, <3>2, <3>3
  <2> HIDE DEF Body
  <2>4. h = [n \in 0 .. m |-> Body(h, n)]
    BY <2>2, <2>3
  <2> QED BY <2>0, <2>4
<1>4. cycles \in T
  <2> HIDE DEF T
  <2>1. cycles \in 0 .. cycles
    OBVIOUS
  <2> QED BY <1>2, <1>3, <2>1, SetInduction
<1>5. after = [n \in 0 .. cycles |-> Body(after, n)]
  <2> HIDE DEF Body
  <2>1. PICK g : g = [n \in 0 .. cycles |-> Body(g, n)]
    BY <1>4
  <2> QED BY <2>1
<1> HIDE DEF after
<1>6. after[0] = start
  <2>1. 0 \in 0 .. cycles
    OBVIOUS
  <2> HIDE DEF start
  <2> QED BY <1>5, <2>1
<1>7. ASSUME NEW n \in 1 .. cycles PROVE after[n] = Q!Cycle(after[n - 1], n, ov, dma)
  <2>1. n \in 0 .. cycles /\ n # 0
    OBVIOUS
  <2>2. after[n] = Body(after, n)
    <3> HIDE DEF Body
    <3> QED BY <1>5, <2>1
  <2> HIDE DEF start
  <2> QED BY <2>1, <2>2
<1>8. QueuesAfter(cycles, ov, dma, after)
  BY <1>6, <1>7 DEF QueuesAfter
<1> HIDE DEF Body, T
<1> QED BY <1>1, <1>8

\* The inductive invariant: types, and every FIFO a ring.
QueueInv == RunsInv /\ \A f \in FifoId : fifo[f] \in Ring

\* Rings and queues are empty at power-on.
LEMMA InitQueue == Init => QueueInv /\ Q!Init
<1> SUFFICES ASSUME Init PROVE QueueInv /\ Q!Init
  OBVIOUS
<1>1. RunsInv
  BY InitRunsInv
<1>2. fifo = [f \in FifoId |-> FifoNew]
  BY DEF Init
<1>3. \A f \in FifoId : fifo[f] \in Ring /\ Contents(fifo[f]) = <<>>
  BY <1>2, NewRing
<1>4. [f \in FifoId |-> Contents(fifo[f])] = [f \in FifoId |-> <<>>]
  BY <1>3
<1>5. sample_clock % CYCLES_PER_SAMPLE = 0
  <2>1. CYCLES_PER_SAMPLE \in Nat /\ CYCLES_PER_SAMPLE > 0 /\ sample_clock = 0
    BY SoundAssumption DEF Init
  <2> QED BY <2>1, OnceAround
<1>6. Q!Init
  BY <1>4, <1>5, SameNames DEF Q!Init, Init
<1> QED BY <1>1, <1>3, <1>6 DEF QueueInv

\* A batch of the code is a batch of the queues.
LEMMA TickQueue ==
    ASSUME QueueInv, BelowWrap, NEW cycles \in Nat, NEW ov, NEW dma \in Destinations,
           ov[0] \in Reports(cycles), ov[1] \in Reports(cycles), Tick(cycles, ov, dma)
    PROVE  Q!Tick(cycles, ov, dma) /\ \A f \in FifoId : fifo'[f] \in Ring
<1>1. TypedState /\ \A f \in FifoId : fifo[f] \in Ring
  BY DEF QueueInv, RunsInv, DirectTyped
<1>2. enabled => sample_clock + cycles < CLOCK - CYCLES_PER_SAMPLE
  <2> HAVE enabled
  <2>1. sample_clock + cycles < MaxClock
    BY Zenon DEF Tick
  <2>2. sample_clock \in Nat /\ MaxClock \in Nat /\ CLOCK \in Nat /\ CYCLES_PER_SAMPLE \in Nat
    BY <1>1, SoundAssumption DEF TypedState
  <2> QED BY <2>1, <2>2 DEF BelowWrap
<1>3. PICK popped :
         /\ Pops(cycles, Merge(ov), dma, popped)
         /\ Run(cycles, ov, dma) = TickUntil(popped[Len(Merge(ov))], ClockAt(cycles))
  BY <1>1, RunPops
<1>4. Merge(ov) \in Seq(Pop) /\ \E from : Merges(ov, from) /\ Merge(ov) = from[<<0, 0>>]
  BY MergedPops
<1>5. PICK from : Merges(ov, from) /\ Merge(ov) = from[<<0, 0>>]
  BY <1>4
<1>6. Batch(cycles, ov, dma, from, popped)
  BY <1>1, <1>2, <1>3, <1>4, <1>5 DEF Batch
<1>7. PICK end : end = Run(cycles, ov, dma)
  OBVIOUS
<1>8. /\ fifo' = end.fifo /\ latch' = end.latch /\ src' = end.src
      /\ sample_clock' = end.clock /\ emitted' = end.out
      /\ UNCHANGED <<enabled, timer_of>>
  BY <1>7, Zenon DEF Tick
<1>9. PICK after :
         /\ QueuesAfter(cycles, ov, dma, after)
         /\ EndsIn(after[cycles], cycles) => Q!Tick(cycles, ov, dma)
  BY QueuesTick
<1>10. View(end) = after[cycles] /\ end \in RingState /\ end.clock = ClockAt(cycles)
  BY <1>3, <1>6, <1>7, <1>9, BatchImplements
<1>11. EndsIn(after[cycles], cycles)
  <2>1. PICK v : v = after[cycles] /\ v = View(end)
    BY <1>10
  <2>2. /\ v.queue = [f \in FifoId |-> Contents(end.fifo[f])] /\ v.latch = end.latch
        /\ v.src = end.src /\ v.out = end.out
    BY <2>1 DEF View
  <2>3. ClockAt(cycles) % CYCLES_PER_SAMPLE = ((sample_clock % CYCLES_PER_SAMPLE) + cycles) % CYCLES_PER_SAMPLE
    <3>1. PICK c \in Nat, w \in Nat, x \in Nat :
             c = CYCLES_PER_SAMPLE /\ c > 0 /\ w = CLOCK /\ w > 0 /\ x = sample_clock
      BY <1>1, SoundAssumption DEF TypedState
    <3>2. PICK y \in Nat : y = x + cycles
      BY <3>1
    <3>3. w % c = 0
      BY <3>1, SoundAssumption
    <3>4. (y % w) % c = y % c
      BY <3>1, <3>3, Wrapped, Zenon
    <3>5. ((x % c) + cycles) % c = y % c
      <4>1. ((x % c) + cycles) % c = (x + cycles) % c
        BY <3>1, Phases, Zenon
      <4> QED BY <4>1, <3>2
    <3> QED BY <3>1, <3>2, <3>4, <3>5 DEF ClockAt
  <2>4. (sample_clock % CYCLES_PER_SAMPLE)' = ClockAt(cycles) % CYCLES_PER_SAMPLE
    BY <1>8, <1>10
  <2>5. Queues' = v.queue
    BY <1>8, <2>2 DEF Queues
  <2> QED BY <1>8, <2>1, <2>2, <2>3, <2>4, <2>5 DEF EndsIn
<1>12. \A f \in FifoId : fifo'[f] \in Ring
  BY <1>8, <1>10 DEF RingState
<1> QED BY <1>9, <1>11, <1>12

\* Two dma channels, each with a destination or none.
LEMMA DmaDestinations == DmaConfigs \subseteq Destinations
BY SoundAssumption DEF Destinations

\* A write that keeps or empties queues is a control write to the queues.
LEMMA ControlQueue ==
    ASSUME QueueInv, NEW reset \in SUBSET FifoId, emitted' = <<>>,
           UNCHANGED <<latch, src, sample_clock>>, enabled' \in BOOLEAN,
           timer_of' \in [FifoId -> {0, 1}],
           fifo' = [f \in FifoId |-> IF f \in reset THEN FifoReset(fifo[f]) ELSE fifo[f]]
    PROVE  Q!Control /\ \A f \in FifoId : fifo'[f] \in Ring
<1>1. \A f \in FifoId : fifo[f] \in Ring
  BY DEF QueueInv
<1>2. ASSUME NEW f \in FifoId
      PROVE  /\ fifo'[f] \in Ring
             /\ Contents(fifo'[f]) = IF f \in reset THEN <<>> ELSE Queues[f]
  <2>1. Queues[f] = Contents(fifo[f])
    BY DEF Queues
  <2>2. FifoReset(fifo[f]) \in Ring /\ Contents(FifoReset(fifo[f])) = <<>>
    BY <1>1, ResetRing
  <2>3. fifo'[f] = IF f \in reset THEN FifoReset(fifo[f]) ELSE fifo[f]
    OBVIOUS
  <2> QED BY <1>1, <2>1, <2>2, <2>3
<1>3. Queues' = [f \in FifoId |-> IF f \in reset THEN <<>> ELSE Queues[f]]
  <2>1. Queues' = [f \in FifoId |-> Contents(fifo'[f])]
    BY DEF Queues
  <2> QED BY <1>2, <2>1
<1>4. (sample_clock % CYCLES_PER_SAMPLE)' = sample_clock % CYCLES_PER_SAMPLE
  OBVIOUS
<1>5. Q!Control
  BY <1>3, <1>4, SameNames DEF Q!Control, Queues
<1> QED BY <1>2, <1>5

\* A halfword a program stores is put into the queue as far as there is room.
LEMMA WriteQueue ==
    ASSUME QueueInv, NEW f \in FifoId, NEW w \in FifoWrites, WriteFifo(f, w)
    PROVE  /\ \E g \in FifoId, a, b \in Byte : Q!Put(g, <<a, b>>)
           /\ \A g \in FifoId : fifo'[g] \in Ring
<1>1. \A g \in FifoId : fifo[g] \in Ring
  BY DEF QueueInv
<1>2. PICK a \in Byte, b \in Byte : a = w[1] /\ b = w[2]
  BY SoundAssumption
<1>3. PICK h : h = FifoWrite(fifo[f], a, b)
  OBVIOUS
<1>4. /\ fifo' = [fifo EXCEPT ![f] = h] /\ emitted' = <<>>
      /\ UNCHANGED <<enabled, latch, timer_of, src, sample_clock>>
  BY <1>2, <1>3 DEF WriteFifo, Quiet
<1>5. fifo \in [FifoId -> Fifo]
  BY DEF QueueInv, RunsInv, DirectTyped, TypedState
<1>6. PICK n \in 0 .. 2 :
         /\ n = 2 \/ fifo[f].len + n = FIFO_SIZE
         /\ fifo[f].len + n <= FIFO_SIZE
         /\ Contents(h) = Contents(fifo[f]) \o SubSeq(<<a, b>>, 1, n)
  BY <1>1, <1>3, WriteRing
<1>7. h \in Ring
  BY <1>1, <1>3, WriteRing
<1>8. ASSUME NEW g \in FifoId
      PROVE  fifo'[g] \in Ring /\ fifo'[g] = IF g = f THEN h ELSE fifo[g]
  BY <1>1, <1>4, <1>5, <1>7
<1>9. Len(Queues[f]) = fifo[f].len
  BY <1>1, ContentsFacts DEF Queues
<1>10. Queues' = [Queues EXCEPT ![f] = @ \o SubSeq(<<a, b>>, 1, n)]
  <2>1. Queues' = [g \in FifoId |-> Contents(fifo'[g])]
    BY DEF Queues
  <2>2. PICK q : q = Contents(fifo[f]) \o SubSeq(<<a, b>>, 1, n)
    OBVIOUS
  <2>3. Queues' = [g \in FifoId |-> IF g = f THEN q ELSE Contents(fifo[g])]
    BY <1>6, <1>8, <2>1, <2>2
  <2>4. Queues = [g \in FifoId |-> Contents(fifo[g])] /\ Queues[f] = Contents(fifo[f])
    BY DEF Queues
  <2>5. [Queues EXCEPT ![f] = q] = [g \in FifoId |-> IF g = f THEN q ELSE Contents(fifo[g])]
    BY <2>4
  <2> QED BY <2>2, <2>3, <2>4, <2>5
<1>11. Len(<<a, b>>) = 2
  OBVIOUS
<1>12. (sample_clock % CYCLES_PER_SAMPLE)' = sample_clock % CYCLES_PER_SAMPLE
  BY <1>4
<1>13. Q!Put(f, <<a, b>>)
  BY <1>4, <1>6, <1>9, <1>10, <1>11, <1>12 DEF Q!Put, Queues
<1> QED BY <1>8, <1>13

\* Every step keeps the rings in order and is a step of the queues, or a stutter.
LEMMA NextQueue ==
    ASSUME BelowWrap, QueueInv, [Next]_vars PROVE QueueInv' /\ [Q!Next]_Q!queueVars
<1>1. RunsInv /\ RunsInv'
  BY NextRunsInv DEF QueueInv
<1> SUFFICES (\A f \in FifoId : fifo'[f] \in Ring) /\ [Q!Next]_Q!queueVars
  BY <1>1 DEF QueueInv
<1>2. CASE Ticks
  <2>1. PICK cycles \in Batches, dma \in DmaConfigs :
           \E r0, r1 \in Reports(cycles) :
              Tick(cycles, [i \in {0, 1} |-> IF i = 0 THEN r0 ELSE r1], dma)
    BY <1>2, Zenon DEF Ticks
  <2>2. PICK r0 \in Reports(cycles), r1 \in Reports(cycles) :
              Tick(cycles, [i \in {0, 1} |-> IF i = 0 THEN r0 ELSE r1], dma)
    BY <2>1, Zenon
  <2>3. PICK ov : ov = [i \in {0, 1} |-> IF i = 0 THEN r0 ELSE r1]
    OBVIOUS
  <2>4. ov[0] \in Reports(cycles) /\ ov[1] \in Reports(cycles)
    BY <2>3
  <2>5. cycles \in Nat /\ dma \in Destinations /\ Tick(cycles, ov, dma)
    BY <2>2, <2>3, SoundAssumption, DmaDestinations
  <2>6. Q!Tick(cycles, ov, dma) /\ \A f \in FifoId : fifo'[f] \in Ring
    BY <2>4, <2>5, TickQueue
  <2>7. Q!Next
    BY <2>3, <2>6, Zenon DEF Q!Next
  <2> QED BY <2>6, <2>7
<1>3. ASSUME NEW reset \in SUBSET FifoId, emitted' = <<>>,
             UNCHANGED <<latch, src, sample_clock>>, enabled' \in BOOLEAN,
             timer_of' \in [FifoId -> {0, 1}],
             fifo' = [f \in FifoId |-> IF f \in reset THEN FifoReset(fifo[f]) ELSE fifo[f]]
      PROVE  (\A f \in FifoId : fifo'[f] \in Ring) /\ Q!Next
  BY <1>3, ControlQueue DEF Q!Next
<1>4. enabled' \in BOOLEAN /\ timer_of' \in [FifoId -> {0, 1}] /\ fifo \in [FifoId -> Fifo]
  BY <1>1 DEF RunsInv, DirectTyped, TypedState
<1>5. ASSUME emitted' = <<>>, UNCHANGED <<fifo, latch, src, sample_clock>>
      PROVE  (\A f \in FifoId : fifo'[f] \in Ring) /\ Q!Next
  <2>1. fifo' = [f \in FifoId |-> IF f \in {} THEN FifoReset(fifo[f]) ELSE fifo[f]]
    BY <1>4, <1>5
  <2>2. {} \in SUBSET FifoId
    OBVIOUS
  <2> QED BY <1>3, <1>4, <1>5, <2>1, <2>2
<1>6. CASE FrameSequencerStep \/ PsgWrites \/ \E on \in BOOLEAN : WriteMaster(on)
  <2>1. emitted' = <<>> /\ UNCHANGED <<fifo, latch, src, sample_clock>>
    BY <1>6 DEF FrameSequencerStep, PsgWrites, WriteCh1, WriteCh2, WriteCh3, WriteCh4,
                WritePsg, WriteMaster, Quiet, directVars
  <2> QED BY <1>5, <2>1
<1>7. ASSUME NEW v \in CntWrites, WriteCntH(v)
      PROVE  (\A f \in FifoId : fifo'[f] \in Ring) /\ Q!Next
  <2>1. /\ emitted' = <<>> /\ UNCHANGED <<latch, src, sample_clock>>
        /\ fifo' = [f \in FifoId |-> IF f \in v.reset THEN FifoReset(fifo[f]) ELSE fifo[f]]
    BY <1>7 DEF WriteCntH, Quiet
  <2>2. v.reset \in SUBSET FifoId
    BY SoundAssumption
  <2> QED BY <1>3, <1>4, <2>1, <2>2
<1>8. ASSUME NEW f \in FifoId, NEW w \in FifoWrites, WriteFifo(f, w)
      PROVE  (\A g \in FifoId : fifo'[g] \in Ring) /\ Q!Next
  <2>1. /\ \E g \in FifoId, a, b \in Byte : Q!Put(g, <<a, b>>)
        /\ \A g \in FifoId : fifo'[g] \in Ring
    BY <1>8, WriteQueue
  <2> QED BY <2>1, SameNames DEF Q!Next
<1>9. CASE UNCHANGED vars
  <2>1. UNCHANGED Q!queueVars
    BY <1>9 DEF vars, directVars, Q!queueVars
  <2>2. \A f \in FifoId : fifo'[f] \in Ring
    BY <1>9 DEF vars, directVars, QueueInv
  <2> QED BY <2>1, <2>2
<1> QED BY <1>2, <1>6, <1>7, <1>8, <1>9, Zenon DEF Next, DirectWrites

\* While no enabled batch reaches the last multiple of the sample period below
\* the clock's width, the rings are queues and a batch is worth its cycles one
\* by one: pops, requests and samples fall in the order of the cycles (bus.rs,
\* tick), and no byte is dropped, repeated or mixed up (apu.rs, Fifo).
THEOREM SoundImplementsSoundQueue ==
    ASSUME BelowWrap
    PROVE  Spec => ImplementsSoundQueue
<1>1. QueueInv /\ [Next]_vars => QueueInv' /\ [Q!Next]_Q!queueVars
  BY NextQueue
<1> QED BY <1>1, InitQueue, PTL DEF Spec, ImplementsSoundQueue, Q!Spec
=============================================================================
