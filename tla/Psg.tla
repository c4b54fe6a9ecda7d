-------------------------------- MODULE Psg --------------------------------
(***************************************************************************)
(* The four channels inherited from the Game Boy (apu.rs, SquareChannel,   *)
(* WaveChannel, NoiseChannel) as records and the functions on them that    *)
(* the register writes, the 512 Hz frame sequencer and the sample loop     *)
(* apply.  A register value is a record of its fields.  What only shapes   *)
(* the wave is left out: the duty, the position in the wave, the wave RAM, *)
(* the shift register of the noise and the volume codes.                   *)
(***************************************************************************)
EXTENDS Naturals

CONSTANTS
    FREQ_LOW,        \* frequencies are 8 high parts times 2^8 low ones
    LENGTH,          \* 64, the longest length of channels 1, 2 and 4
    WAVE_LENGTH,     \* 256, that of channel 3
    VOLUME,          \* 15
    DEFAULT_SWEEP,   \* 8, the sweep timer's start for a period of zero
    SQUARE_CYCLES,   \* 16 CPU cycles per step of a square timer
    WAVE_CYCLES,     \* 8
    NOISE_CYCLES     \* 32, the noise period for divisor code zero

FREQ == 8 * FREQ_LOW    \* 2048

ASSUME PsgAssumption ==
    /\ FREQ_LOW \in Nat \ {0} /\ LENGTH \in Nat \ {0} /\ WAVE_LENGTH \in Nat \ {0}
    /\ VOLUME \in Nat \ {0} /\ DEFAULT_SWEEP \in Nat \ {0}
    /\ SQUARE_CYCLES \in Nat \ {0} /\ WAVE_CYCLES \in Nat \ {0}
    /\ NOISE_CYCLES \in Nat \ {0}

-----------------------------------------------------------------------------
(* Register values *)

Frequency == 0 .. FREQ - 1
Nr10 == [period : 0 .. 7, negate : BOOLEAN, shift : 0 .. 7]
Nr12 == [length : 0 .. LENGTH - 1, env_period : 0 .. 7,
         env_direction : BOOLEAN, env_initial : 0 .. VOLUME]
Nr14 == [frequency : Frequency, length_enabled : BOOLEAN, trigger : BOOLEAN]
Nr30 == [enabled : BOOLEAN]
Nr31 == [length : 0 .. WAVE_LENGTH - 1]
Nr44 == [divisor_code : 0 .. 7, clock_shift : 0 .. 15,
         length_enabled : BOOLEAN, trigger : BOOLEAN]

Square ==
    [active : BOOLEAN,
     sweep_period : 0 .. 7, sweep_negate : BOOLEAN, sweep_shift : 0 .. 7,
     sweep_timer : Nat, sweep_enabled : BOOLEAN, sweep_shadow : Frequency,
     length_counter : 0 .. LENGTH, length_enabled : BOOLEAN,
     env_initial : 0 .. VOLUME, env_direction : BOOLEAN,
     env_period : 0 .. 7, env_timer : 0 .. 7, env_volume : 0 .. VOLUME,
     frequency : Frequency, timer : Nat]

Wave ==
    [active : BOOLEAN, enabled : BOOLEAN,
     length_counter : 0 .. WAVE_LENGTH, length_enabled : BOOLEAN,
     frequency : Frequency, timer : Nat]

Noise ==
    [active : BOOLEAN, length_counter : 0 .. LENGTH, length_enabled : BOOLEAN,
     env_initial : 0 .. VOLUME, env_direction : BOOLEAN,
     env_period : 0 .. 7, env_timer : 0 .. 7, env_volume : 0 .. VOLUME,
     divisor_code : 0 .. 7, clock_shift : 0 .. 15, timer : Nat]

SquareNew ==
    [active |-> FALSE,
     sweep_period |-> 0, sweep_negate |-> FALSE, sweep_shift |-> 0,
     sweep_timer |-> 0, sweep_enabled |-> FALSE, sweep_shadow |-> 0,
     length_counter |-> 0, length_enabled |-> FALSE,
     env_initial |-> 0, env_direction |-> FALSE,
     env_period |-> 0, env_timer |-> 0, env_volume |-> 0,
     frequency |-> 0, timer |-> 0]

WaveNew ==
    [active |-> FALSE, enabled |-> FALSE, length_counter |-> 0,
     length_enabled |-> FALSE, frequency |-> 0, timer |-> 0]

NoiseNew ==
    [active |-> FALSE, length_counter |-> 0, length_enabled |-> FALSE,
     env_initial |-> 0, env_direction |-> FALSE,
     env_period |-> 0, env_timer |-> 0, env_volume |-> 0,
     divisor_code |-> 0, clock_shift |-> 0, timer |-> 0]

-----------------------------------------------------------------------------
(* Register writes *)

\* a | b on three bits.
Or3(a, b) ==
    LET bit(w) == IF (a \div w) % 2 = 1 \/ (b \div w) % 2 = 1 THEN w ELSE 0
    IN  bit(1) + bit(2) + bit(4)

\* (old & 0x700) | (new & 0x7FF): the high bits only ever gain.
MergeFrequency(old, new) ==
    Or3(old \div FREQ_LOW, new \div FREQ_LOW) * FREQ_LOW + (new % FREQ_LOW)

\* The DAC of channels 1, 2 and 4 is on unless volume 0 falls.
DacOn(c) == c.env_initial > 0 \/ c.env_direction

SquarePeriod(f) == (FREQ - f) * SQUARE_CYCLES
WavePeriod(f) == (FREQ - f) * WAVE_CYCLES
NoisePeriod(c) ==
    (IF c.divisor_code = 0 THEN NOISE_CYCLES ELSE 2 * NOISE_CYCLES * c.divisor_code)
        * 2^c.clock_shift

CalcSweep(c) ==
    LET delta == c.sweep_shadow \div 2^c.sweep_shift
    IN  IF c.sweep_negate THEN c.sweep_shadow - delta ELSE c.sweep_shadow + delta

WriteNr10(c, v) ==
    [c EXCEPT !.sweep_period = v.period, !.sweep_negate = v.negate,
              !.sweep_shift = v.shift]

SetEnvelope(c, v) ==
    [c EXCEPT !.length_counter = LENGTH - v.length, !.env_period = v.env_period,
              !.env_direction = v.env_direction, !.env_initial = v.env_initial]

\* Seeded fault: the envelope write leaves the channel active.
WriteNr12_NoDac(c, v) == SetEnvelope(c, v)

WriteNr12(c, v) ==
    LET d == SetEnvelope(c, v) IN [d EXCEPT !.active = @ /\ DacOn(d)]

\* Seeded fault: a trigger leaves a length counter of zero.
Trigger_NoLength(c) ==
    [c EXCEPT !.timer = SquarePeriod(c.frequency), !.active = DacOn(c)]

Trigger(c) ==
    LET d == [c EXCEPT
                !.length_counter = IF @ = 0 THEN LENGTH ELSE @,
                !.timer = SquarePeriod(c.frequency),
                !.env_volume = c.env_initial, !.env_timer = c.env_period,
                !.sweep_shadow = c.frequency,
                !.sweep_timer = IF c.sweep_period > 0 THEN c.sweep_period
                                                      ELSE DEFAULT_SWEEP,
                !.sweep_enabled = c.sweep_period > 0 \/ c.sweep_shift > 0]
    IN  [d EXCEPT !.active = /\ d.sweep_shift > 0 => CalcSweep(d) < FREQ
                             /\ DacOn(d)]

WriteNr14(c, v) ==
    IF v.trigger
    THEN Trigger([c EXCEPT !.frequency = v.frequency,
                           !.length_enabled = v.length_enabled])
    ELSE [c EXCEPT !.frequency = MergeFrequency(@, v.frequency),
                   !.length_enabled = v.length_enabled]

WriteNr30(c, v) == [c EXCEPT !.enabled = v.enabled, !.active = @ /\ v.enabled]

WriteNr31(c, v) == [c EXCEPT !.length_counter = WAVE_LENGTH - v.length]

WriteNr34(c, v) ==
    IF v.trigger
    THEN [c EXCEPT !.active = TRUE, !.frequency = v.frequency,
                   !.length_enabled = v.length_enabled,
                   !.length_counter = IF @ = 0 THEN WAVE_LENGTH ELSE @,
                   !.timer = WavePeriod(v.frequency)]
    ELSE [c EXCEPT !.frequency = MergeFrequency(@, v.frequency),
                   !.length_enabled = v.length_enabled]

WriteNr44(c, v) ==
    LET d == [c EXCEPT !.divisor_code = v.divisor_code,
                       !.clock_shift = v.clock_shift,
                       !.length_enabled = v.length_enabled]
    IN  IF v.trigger
        THEN [d EXCEPT !.active = DacOn(d),
                       !.length_counter = IF @ = 0 THEN LENGTH ELSE @,
                       !.env_volume = d.env_initial, !.env_timer = d.env_period,
                       !.timer = NoisePeriod(d)]
        ELSE d

-----------------------------------------------------------------------------
(* The frame sequencer's ticks *)

\* Seeded fault: the counter stops at one.
LengthTick_Stops(c) ==
    IF c.length_enabled /\ c.length_counter > 1
    THEN [c EXCEPT !.length_counter = @ - 1] ELSE c

LengthTick(c) ==
    IF c.length_enabled /\ c.length_counter > 0
    THEN [c EXCEPT !.length_counter = @ - 1,
                   !.active = @ /\ c.length_counter > 1]
    ELSE c

EnvelopeTick(c) ==
    LET left == IF c.env_timer = 0 THEN 0 ELSE c.env_timer - 1
    IN  IF c.env_period = 0 THEN c
        ELSE IF left > 0 THEN [c EXCEPT !.env_timer = left]
        ELSE [c EXCEPT !.env_timer = c.env_period,
                       !.env_volume =
                           IF c.env_direction THEN (IF @ < VOLUME THEN @ + 1 ELSE @)
                                              ELSE (IF @ > 0 THEN @ - 1 ELSE @)]

SweepTick(c) ==
    LET left == IF c.sweep_timer = 0 THEN 0 ELSE c.sweep_timer - 1
        new_freq == CalcSweep(c)
        moved == [c EXCEPT !.sweep_timer = c.sweep_period,
                           !.sweep_shadow = new_freq, !.frequency = new_freq]
    IN  IF ~c.sweep_enabled \/ c.sweep_period = 0 THEN c
        ELSE IF left > 0 THEN [c EXCEPT !.sweep_timer = left]
        ELSE IF new_freq >= FREQ
        THEN [c EXCEPT !.sweep_timer = c.sweep_period, !.active = FALSE]
        ELSE IF c.sweep_shift > 0
        THEN [moved EXCEPT !.active = @ /\ CalcSweep(moved) < FREQ]
        ELSE [c EXCEPT !.sweep_timer = c.sweep_period]

-----------------------------------------------------------------------------
(* The sample loop's steps *)

\* What `while cycles >= timer { cycles -= timer; timer = period }` followed
\* by `timer -= cycles` leaves in the timer.
Counted(timer, period, cycles) ==
    IF cycles < timer THEN timer - cycles
    ELSE period - ((cycles - timer) % period)

SquareStep(c, cycles) ==
    IF c.active
    THEN [c EXCEPT !.timer = Counted(@, SquarePeriod(c.frequency), cycles)] ELSE c

WaveStep(c, cycles) ==
    IF c.active /\ c.enabled
    THEN [c EXCEPT !.timer = Counted(@, WavePeriod(c.frequency), cycles)] ELSE c

NoiseStep(c, cycles) ==
    IF c.active
    THEN [c EXCEPT !.timer = Counted(@, NoisePeriod(c), cycles)] ELSE c
=============================================================================
