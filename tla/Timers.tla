------------------------------- MODULE Timers -------------------------------
(***************************************************************************)
(* The four hardware timers (timer.rs): batched counting with prescaler,   *)
(* start-up delay and cascade, the overflow report that Bus::tick turns    *)
(* into interrupts and sound FIFO steps, and the register writes.          *)
(*                                                                         *)
(* A timer counts modulo Modulus; Prescale[control & 3] is 1 << shift.     *)
(***************************************************************************)
EXTENDS Integers, FiniteSets

CONSTANTS
    Modulus,    \* 2^16
    Prescale,   \* 1, 64, 256, 1024 by the low two control bits, 0 .. 3
    MaxBatch,   \* the longest batch of cycles one tick is given
    Reloads,    \* values a program may write to the reload register
    Controls    \* values a program may write to each timer's control register

Timer == 0 .. 3
Control == [enabled : BOOLEAN, cascade : BOOLEAN, sel : DOMAIN Prescale]

ASSUME TimersAssumption ==
    /\ Modulus \in Nat \ {0, 1} /\ MaxBatch \in Nat \ {0}
    /\ \A sel \in DOMAIN Prescale : Prescale[sel] \in Nat \ {0}
    /\ 0 \in DOMAIN Prescale
    /\ Reloads \subseteq 0 .. Modulus - 1
    /\ Controls \in [Timer -> SUBSET Control]

VARIABLE t       \* Timers.t

TimerState ==
    [reload : 0 .. Modulus - 1, counter : 0 .. Modulus - 1, control : Control,
     prescaler_counter : Nat, startup_delay : 0 .. 2]
TimerOverflow == [count : Nat, first_cycle : Nat]
NONE == [count |-> 0, first_cycle |-> 0]

TypeOK == t \in [Timer -> TimerState]

Init ==
    t = [i \in Timer |->
            [reload |-> 0, counter |-> 0,
             control |-> [enabled |-> FALSE, cascade |-> FALSE, sel |-> 0],
             prescaler_counter |-> 0, startup_delay |-> 0]]

Period(s) == Prescale[s.control.sel]
Running(s) == s.control.enabled /\ ~s.control.cascade
Cascaded(s) == s.control.enabled /\ s.control.cascade

-----------------------------------------------------------------------------
(* Counting a batch *)

\* The first overflow takes Modulus - counter ticks, each later one
\* Modulus - reload.
AddToTimer(s, ticks) ==
    LET sum == s.counter + ticks
        remaining == sum - Modulus
        period == Modulus - s.reload
    IN  IF sum < Modulus
        THEN [counter |-> sum, count |-> 0]
        ELSE [counter |-> s.reload + (remaining % period),
              count |-> 1 + (remaining \div period)]

\* The cycles of a batch that the start-up delay leaves.
\* Seeded fault: the delay eats the whole batch it ends in.
Effective_WholeBatch(s, cycles) == IF s.startup_delay > 0 THEN 0 ELSE cycles

Effective(s, cycles) ==
    IF s.startup_delay >= cycles THEN 0 ELSE cycles - s.startup_delay

\* The cycle of a batch in which a running timer overflows first.
\* Seeded fault: the cycles the prescaler has already counted are forgotten.
FirstCycle_NoPhase(s, cycles) ==
    LET first == s.startup_delay + Period(s) + (Modulus - s.counter - 1) * Period(s)
    IN  IF first < cycles THEN first ELSE cycles

FirstCycle(s, cycles) ==
    LET first == s.startup_delay + (Period(s) - s.prescaler_counter)
                    + (Modulus - s.counter - 1) * Period(s)
    IN  IF first < cycles THEN first ELSE cycles

\* A timer that counts cycles.
OwnTick(s, cycles) ==
    LET phase == s.prescaler_counter + Effective(s, cycles)
        sum == AddToTimer(s, phase \div Period(s))
        delay == IF s.startup_delay >= cycles THEN s.startup_delay - cycles ELSE 0
    IN  [timer |-> [reload |-> s.reload, counter |-> sum.counter, control |-> s.control,
                    prescaler_counter |-> phase % Period(s), startup_delay |-> delay],
         overflow |-> IF sum.count = 0 THEN NONE
                      ELSE [count |-> sum.count, first_cycle |-> FirstCycle(s, cycles)]]

\* A timer that counts the overflows of the timer below it.
CascadeTick(s, below) ==
    LET sum == AddToTimer(s, below.count)
    IN  [timer |-> [s EXCEPT !.counter = sum.counter],
         overflow |-> IF sum.count = 0 THEN NONE
                      ELSE [count |-> sum.count, first_cycle |-> below.first_cycle]]

TickOne(s, cycles, below) ==
    CASE Running(s) -> OwnTick(s, cycles)
      [] Cascaded(s) -> CascadeTick(s, below)
      [] OTHER -> [timer |-> s, overflow |-> NONE]

\* Timers::tick: every timer and its report.  Nothing is below timer 0.
TickAll(timers, cycles) ==
    LET t0 == TickOne(timers[0], cycles, NONE)
        t1 == TickOne(timers[1], cycles, t0.overflow)
        t2 == TickOne(timers[2], cycles, t1.overflow)
        t3 == TickOne(timers[3], cycles, t2.overflow)
    IN  [i \in Timer |-> CASE i = 0 -> t0 [] i = 1 -> t1 [] i = 2 -> t2 [] i = 3 -> t3]

Tick(cycles) ==
    LET after == TickAll(t, cycles)
    IN  t' = [i \in Timer |-> after[i].timer]

\* Cycles between two overflows, as Bus::tick spaces them.
PeriodCycles(s) == (Modulus - s.reload) * Period(s)

-----------------------------------------------------------------------------
(* Register writes *)

WriteReload(i, val) == t' = [t EXCEPT ![i].reload = val]

\* A timer that is stopped counts one more cycle, with its old prescaler and
\* whatever its start-up delay is.
Stopped(s, val) ==
    LET phase == s.prescaler_counter + 1
        sum == AddToTimer(s, phase \div Period(s))
    IN  [reload |-> s.reload, counter |-> sum.counter, control |-> val,
         prescaler_counter |-> phase % Period(s), startup_delay |-> s.startup_delay]

Started(s, val) ==
    [reload |-> s.reload, counter |-> s.reload, control |-> val,
     prescaler_counter |-> 0, startup_delay |-> 2]

Retimed(s, val) ==
    [reload |-> s.reload, counter |-> s.counter, control |-> val,
     prescaler_counter |-> IF Prescale[val.sel] = Period(s) THEN s.prescaler_counter ELSE 0,
     startup_delay |-> s.startup_delay]

WriteControl(i, val) ==
    LET s == t[i]
    IN  t' = [t EXCEPT ![i] =
                 CASE s.control.enabled /\ ~val.enabled /\ ~val.cascade -> Stopped(s, val)
                   [] ~s.control.enabled /\ val.enabled -> Started(s, val)
                   [] s.control.enabled /\ val.enabled -> Retimed(s, val)
                   [] OTHER -> [s EXCEPT !.control = val]]

Next ==
    \/ \E cycles \in 1 .. MaxBatch : Tick(cycles)
    \/ \E i \in Timer, val \in Reloads : WriteReload(i, val)
    \/ \E i \in Timer : \E val \in Controls[i] : WriteControl(i, val)

Spec == Init /\ [][Next]_t

-----------------------------------------------------------------------------
(* Reference: the timers one cycle at a time.  Every cycle that is past the *)
(* start-up delay moves the prescaler, a full prescaler moves the counter,  *)
(* a full counter takes the reload value and moves a cascaded neighbour.    *)

Bump(s) ==
    IF s.counter + 1 = Modulus
    THEN [timer |-> [s EXCEPT !.counter = s.reload], overflowed |-> TRUE]
    ELSE [timer |-> [s EXCEPT !.counter = @ + 1], overflowed |-> FALSE]

Idle(s) == [timer |-> s, overflowed |-> FALSE]

CycleOne(s, carry) ==
    CASE Running(s) /\ s.startup_delay > 0 -> Idle([s EXCEPT !.startup_delay = @ - 1])
      [] Running(s) /\ s.startup_delay = 0 ->
             IF s.prescaler_counter + 1 = Period(s)
             THEN Bump([s EXCEPT !.prescaler_counter = 0])
             ELSE Idle([s EXCEPT !.prescaler_counter = @ + 1])
      [] Cascaded(s) -> IF carry THEN Bump(s) ELSE Idle(s)
      [] OTHER -> Idle(s)

Cycle(timers) ==
    LET t0 == CycleOne(timers[0], FALSE)
        t1 == CycleOne(timers[1], t0.overflowed)
        t2 == CycleOne(timers[2], t1.overflowed)
        t3 == CycleOne(timers[3], t2.overflowed)
    IN  [i \in Timer |-> CASE i = 0 -> t0 [] i = 1 -> t1 [] i = 2 -> t2 [] i = 3 -> t3]

\* The last cycle of a batch that starts now, by the reference.
LastCycle(cycles) ==
    LET before == TickAll(t, cycles - 1) IN Cycle([i \in Timer |-> before[i].timer])

-----------------------------------------------------------------------------
(* Properties *)

\* A timer that counts has less than one prescaler period in its prescaler.
\* Timers::tick subtracts the phase from the period in unsigned arithmetic.
PhaseBelowPeriod ==
    \A i \in Timer : t[i].control.enabled => t[i].prescaler_counter < Period(t[i])

\* Counting a batch at once leaves every timer where counting it cycle by
\* cycle does, and reports every overflow, cascades included: a batch that is
\* one cycle longer adds what the reference does in that cycle.
BatchEqualsCycles ==
    /\ \A i \in Timer : TickAll(t, 0)[i] = [timer |-> t[i], overflow |-> NONE]
    /\ \A cycles \in 1 .. MaxBatch :
        LET before == TickAll(t, cycles - 1)
            after == TickAll(t, cycles)
            last == LastCycle(cycles)
        IN  \A i \in Timer :
                /\ after[i].timer = last[i].timer
                /\ after[i].overflow.count =
                       before[i].overflow.count + (IF last[i].overflowed THEN 1 ELSE 0)

\* The instants that Bus::tick derives from a report: first_cycle, and then
\* one every period.
ReportedInstants(overflow, s) ==
    {overflow.first_cycle + k * PeriodCycles(s) : k \in 0 .. overflow.count - 1}

\* For a timer without cascade these are the cycles in which it overflows.
OverflowInstantsExact ==
    \A cycles \in 1 .. MaxBatch :
        LET before == TickAll(t, cycles - 1)
            after == TickAll(t, cycles)
            last == LastCycle(cycles)
        IN  \A i \in Timer :
                Running(t[i]) =>
                    ReportedInstants(after[i].overflow, t[i]) =
                        ReportedInstants(before[i].overflow, t[i])
                            \cup (IF last[i].overflowed THEN {cycles} ELSE {})
=============================================================================
