-------------------------- MODULE AlgorithmsProofs --------------------------
(***************************************************************************)
(* Proofs about the timers, for every counter width, prescaler table and   *)
(* batch length: types, the prescaler phase, and the equality of batched   *)
(* counting with counting cycle by cycle, in the registers and in the      *)
(* cycles of the overflows; about the reference point of affine            *)
(* backgrounds, for every number of lines and every slope; about the       *)
(* pixels of a line, for every screen, number of sprites and picture; and  *)
(* about instructions, for every width of a word: shifts, sums, conditions *)
(* and carries, and that each Thumb instruction is its ARM counterpart.    *)
(***************************************************************************)
EXTENDS Timers, AffineBg, Compositor, Thumb, WellFoundedInduction, FiniteSetTheorems, TLAPS

-----------------------------------------------------------------------------
(* Division with remainder *)

LEMMA DivUnique ==
    ASSUME NEW p \in Nat \ {0}, NEW q \in Int, NEW r \in 0 .. p - 1
    PROVE  (p * q + r) \div p = q /\ (p * q + r) % p = r
OBVIOUS

LEMMA DivDef ==
    ASSUME NEW p \in Nat \ {0}, NEW x \in Nat
    PROVE  /\ x = p * (x \div p) + (x % p)
           /\ x % p \in 0 .. p - 1
           /\ x \div p \in Nat
OBVIOUS

\* One more than x: the quotient moves when the remainder is at its end.
LEMMA DivStep ==
    ASSUME NEW p \in Nat \ {0}, NEW x \in Nat
    PROVE  IF x % p = p - 1
           THEN (x + 1) % p = 0 /\ (x + 1) \div p = (x \div p) + 1
           ELSE (x + 1) % p = (x % p) + 1 /\ (x + 1) \div p = x \div p
<1> DEFINE q == x \div p
           r == x % p
<1>1. x = p * q + r /\ r \in 0 .. p - 1 /\ q \in Nat
  BY DivDef
<1> HIDE DEF q, r
<1>2. CASE r = p - 1
  <2>1. x + 1 = p * (q + 1) + 0
    BY <1>1, <1>2
  <2>2. (p * (q + 1) + 0) \div p = q + 1 /\ (p * (q + 1) + 0) % p = 0
    BY DivUnique, <1>1
  <2> QED BY <2>1, <2>2, <1>2 DEF q, r
<1>3. CASE r # p - 1
  <2>1. x + 1 = p * q + (r + 1) /\ r + 1 \in 0 .. p - 1
    BY <1>1, <1>3
  <2>2. (p * q + (r + 1)) \div p = q /\ (p * q + (r + 1)) % p = r + 1
    BY DivUnique, <1>1, <2>1
  <2> QED BY <2>1, <2>2, <1>3 DEF q, r
<1> QED BY <1>2, <1>3

LEMMA DivSmall ==
    ASSUME NEW p \in Nat \ {0}, NEW x \in 0 .. p - 1
    PROVE  x \div p = 0 /\ x % p = x
<1>1. x = p * 0 + x
  OBVIOUS
<1> QED BY <1>1, DivUnique

-----------------------------------------------------------------------------
(* One timer *)

LEMMA Fields ==
    ASSUME NEW u \in TimerState
    PROVE  /\ u.reload \in 0 .. Modulus - 1 /\ u.counter \in 0 .. Modulus - 1
           /\ u.control \in Control
           /\ u.control.enabled \in BOOLEAN /\ u.control.cascade \in BOOLEAN
           /\ u.control.sel \in DOMAIN Prescale
           /\ u.prescaler_counter \in Nat /\ u.startup_delay \in 0 .. 2
           /\ Period(u) \in Nat \ {0}
BY TimersAssumption DEF TimerState, Control, Period

\* What add_to_timer returns is a counter value and a number.
LEMMA AddType ==
    ASSUME NEW u \in TimerState, NEW ticks \in Nat
    PROVE  /\ AddToTimer(u, ticks).counter \in 0 .. Modulus - 1
           /\ AddToTimer(u, ticks).count \in Nat
<1> DEFINE sum == u.counter + ticks
           period == Modulus - u.reload
<1>1. sum \in Nat /\ period \in Nat \ {0} /\ u.reload \in Nat /\ Modulus \in Nat
  BY Fields, TimersAssumption
<1>2. CASE sum < Modulus
  BY <1>1, <1>2 DEF AddToTimer
<1>3. CASE sum >= Modulus
  <2>1. sum - Modulus \in Nat
    BY <1>1, <1>3
  <2>2. /\ (sum - Modulus) % period \in 0 .. period - 1
        /\ (sum - Modulus) \div period \in Nat
    BY <1>1, <2>1, DivDef
  <2>3. AddToTimer(u, ticks) = [counter |-> u.reload + ((sum - Modulus) % period),
                                count |-> 1 + ((sum - Modulus) \div period)]
    BY <1>1, <1>3 DEF AddToTimer
  <2> HIDE DEF sum
  <2>4. u.reload + ((sum - Modulus) % period) \in 0 .. Modulus - 1
    BY <1>1, <2>2
  <2> QED BY <2>2, <2>3, <2>4
<1> QED BY <1>1, <1>2, <1>3

\* No tick changes nothing.
LEMMA AddZero ==
    ASSUME NEW u \in TimerState
    PROVE  AddToTimer(u, 0) = [counter |-> u.counter, count |-> 0]
BY Fields, TimersAssumption DEF AddToTimer

\* One tick more moves the counter on by one; a full counter takes the reload
\* value and the overflow is counted.
LEMMA AddStep ==
    ASSUME NEW u \in TimerState, NEW ticks \in Nat
    PROVE  LET before == AddToTimer(u, ticks)
               after == AddToTimer(u, ticks + 1)
           IN  IF before.counter + 1 = Modulus
               THEN after.counter = u.reload /\ after.count = before.count + 1
               ELSE after.counter = before.counter + 1 /\ after.count = before.count
<1> DEFINE sum == u.counter + ticks
           over == sum - Modulus
           period == Modulus - u.reload
           before == AddToTimer(u, ticks)
           after == AddToTimer(u, ticks + 1)
<1>1. /\ sum \in Nat /\ period \in Nat \ {0} /\ u.reload \in Nat /\ Modulus \in Nat
      /\ u.counter + (ticks + 1) = sum + 1 /\ (sum + 1) - Modulus = over + 1
      /\ Modulus = period + u.reload
  BY Fields, TimersAssumption
<1> SUFFICES IF before.counter + 1 = Modulus
             THEN after.counter = u.reload /\ after.count = before.count + 1
             ELSE after.counter = before.counter + 1 /\ after.count = before.count
  OBVIOUS
<1>2. CASE sum + 1 < Modulus
  <2>1. before = [counter |-> sum, count |-> 0] /\ after = [counter |-> sum + 1, count |-> 0]
    BY <1>1, <1>2 DEF AddToTimer
  <2> QED BY <1>1, <1>2, <2>1
<1>3. CASE sum + 1 = Modulus
  <2>1. over + 1 = 0
    BY <1>1, <1>3
  <2>2. before = [counter |-> sum, count |-> 0]
    BY <1>1, <1>3 DEF AddToTimer
  <2>3. after = [counter |-> u.reload + (0 % period), count |-> 1 + (0 \div period)]
    BY <1>1, <1>3, <2>1 DEF AddToTimer
  <2>4. 0 % period = 0 /\ 0 \div period = 0
    <3>1. 0 \in 0 .. period - 1
      BY <1>1
    <3> HIDE DEF period
    <3> QED BY <1>1, <3>1, DivSmall
  <2>5. /\ before.counter = sum /\ before.count = 0
        /\ after.counter = u.reload /\ after.count = 1
    BY <1>1, <2>2, <2>3, <2>4
  <2> HIDE DEF before, after
  <2> QED BY <1>1, <1>3, <2>5
<1>4. CASE sum >= Modulus
  <2>1. over \in Nat
    BY <1>1, <1>4
  <2>2. before = [counter |-> u.reload + (over % period), count |-> 1 + (over \div period)]
    BY <1>1, <1>4 DEF AddToTimer
  <2>3. after = [counter |-> u.reload + ((over + 1) % period),
                 count |-> 1 + ((over + 1) \div period)]
    BY <1>1, <1>4 DEF AddToTimer
  <2>4. over % period \in 0 .. period - 1 /\ over \div period \in Nat
    BY <1>1, <2>1, DivDef
  <2>5. IF over % period = period - 1
        THEN (over + 1) % period = 0 /\ (over + 1) \div period = (over \div period) + 1
        ELSE (over + 1) % period = (over % period) + 1
                /\ (over + 1) \div period = over \div period
    BY <1>1, <2>1, DivStep
  <2> DEFINE r == over % period
             q == over \div period
             r1 == (over + 1) % period
             q1 == (over + 1) \div period
  <2>6. /\ r \in 0 .. period - 1 /\ q \in Nat
        /\ IF r = period - 1 THEN r1 = 0 /\ q1 = q + 1 ELSE r1 = r + 1 /\ q1 = q
        /\ before.counter = u.reload + r /\ before.count = 1 + q
        /\ after.counter = u.reload + r1 /\ after.count = 1 + q1
    BY <2>2, <2>3, <2>4, <2>5
  <2> HIDE DEF r, q, r1, q1, before, after
  <2> QED BY <1>1, <2>6
<1> QED BY <1>1, <1>2, <1>3, <1>4

\* What the prescaler and the counter have after a number of cycles.
Phase(u, cycles) == u.prescaler_counter + Effective(u, cycles)
Sum(u, cycles) == AddToTimer(u, Phase(u, cycles) \div Period(u))
Delay(u, cycles) == IF u.startup_delay >= cycles THEN u.startup_delay - cycles ELSE 0

LEMMA OwnFields ==
    ASSUME NEW u \in TimerState, NEW cycles \in Nat
    PROVE  /\ Phase(u, cycles) \in Nat
           /\ Phase(u, cycles) \div Period(u) \in Nat
           /\ Phase(u, cycles) % Period(u) \in 0 .. Period(u) - 1
           /\ Sum(u, cycles).counter \in 0 .. Modulus - 1
           /\ Sum(u, cycles).count \in Nat
           /\ Delay(u, cycles) \in 0 .. 2
           /\ OwnTick(u, cycles).timer =
                  [reload |-> u.reload, counter |-> Sum(u, cycles).counter,
                   control |-> u.control,
                   prescaler_counter |-> Phase(u, cycles) % Period(u),
                   startup_delay |-> Delay(u, cycles)]
           /\ OwnTick(u, cycles).overflow.count = Sum(u, cycles).count
<1>1. Phase(u, cycles) \in Nat
  BY Fields DEF Phase, Effective
<1>2. /\ Phase(u, cycles) \div Period(u) \in Nat
      /\ Phase(u, cycles) % Period(u) \in 0 .. Period(u) - 1
  BY <1>1, Fields, DivDef
<1>3. Sum(u, cycles).counter \in 0 .. Modulus - 1 /\ Sum(u, cycles).count \in Nat
  BY <1>2, AddType DEF Sum
<1>4. Delay(u, cycles) \in 0 .. 2
  BY Fields DEF Delay
<1>5. OwnTick(u, cycles).timer =
          [reload |-> u.reload, counter |-> Sum(u, cycles).counter,
           control |-> u.control,
           prescaler_counter |-> Phase(u, cycles) % Period(u),
           startup_delay |-> Delay(u, cycles)]
  BY DEF OwnTick, Phase, Sum, Delay
<1>6. OwnTick(u, cycles).overflow.count = Sum(u, cycles).count
  <2>1. OwnTick(u, cycles).overflow =
            IF Sum(u, cycles).count = 0 THEN NONE
            ELSE [count |-> Sum(u, cycles).count, first_cycle |-> FirstCycle(u, cycles)]
    BY DEF OwnTick, Phase, Sum
  <2> QED BY <2>1 DEF NONE
<1> QED BY <1>1, <1>2, <1>3, <1>4, <1>5, <1>6

LEMMA OwnType ==
    ASSUME NEW u \in TimerState, NEW cycles \in Nat
    PROVE  /\ OwnTick(u, cycles).timer \in TimerState
           /\ OwnTick(u, cycles).timer.control = u.control
           /\ OwnTick(u, cycles).timer.prescaler_counter < Period(u)
           /\ OwnTick(u, cycles).overflow.count \in Nat
<1>1. /\ u.reload \in 0 .. Modulus - 1 /\ u.control \in Control /\ Period(u) \in Nat
      /\ Modulus \in Nat
  BY Fields, TimersAssumption
<1> DEFINE counter == Sum(u, cycles).counter
           phase == Phase(u, cycles) % Period(u)
           delay == Delay(u, cycles)
<1>2. /\ OwnTick(u, cycles).timer =
             [reload |-> u.reload, counter |-> counter, control |-> u.control,
              prescaler_counter |-> phase, startup_delay |-> delay]
      /\ counter \in 0 .. Modulus - 1 /\ phase \in 0 .. Period(u) - 1 /\ delay \in 0 .. 2
      /\ OwnTick(u, cycles).overflow.count \in Nat
  BY OwnFields
<1> HIDE DEF counter, phase, delay
<1>3. phase \in Nat /\ phase < Period(u)
  BY <1>1, <1>2
<1> QED BY <1>1, <1>2, <1>3 DEF TimerState

\* One cycle more, during the start-up delay.
LEMMA OwnStepDelayed ==
    ASSUME NEW u \in TimerState, NEW c \in Nat, NEW carry \in BOOLEAN, Running(u),
           u.startup_delay >= c + 1
    PROVE  CycleOne(OwnTick(u, c).timer, carry) =
               [timer |-> OwnTick(u, c + 1).timer, overflowed |-> FALSE]
           /\ OwnTick(u, c + 1).overflow.count = OwnTick(u, c).overflow.count
<1> DEFINE x == OwnTick(u, c).timer
<1>1. Effective(u, c) = 0 /\ Effective(u, c + 1) = 0
  BY Fields DEF Effective
<1>2. Phase(u, c + 1) = Phase(u, c) /\ Sum(u, c + 1) = Sum(u, c)
  BY <1>1 DEF Phase, Sum
<1>3. Delay(u, c) = u.startup_delay - c /\ Delay(u, c + 1) = u.startup_delay - c - 1
  BY Fields DEF Delay
<1>4. /\ x = [reload |-> u.reload, counter |-> Sum(u, c).counter, control |-> u.control,
              prescaler_counter |-> Phase(u, c) % Period(u),
              startup_delay |-> Delay(u, c)]
      /\ OwnTick(u, c).overflow.count = Sum(u, c).count
  BY OwnFields
<1>5. /\ OwnTick(u, c + 1).timer =
            [reload |-> u.reload, counter |-> Sum(u, c + 1).counter, control |-> u.control,
             prescaler_counter |-> Phase(u, c + 1) % Period(u),
             startup_delay |-> Delay(u, c + 1)]
      /\ OwnTick(u, c + 1).overflow.count = Sum(u, c + 1).count
  <2>1. c + 1 \in Nat
    OBVIOUS
  <2> QED BY <2>1, OwnFields
<1> HIDE DEF x
<1>6. /\ Running(x) /\ ~Cascaded(x)
      /\ x.startup_delay > 0 /\ x.startup_delay = u.startup_delay - c
  BY <1>3, <1>4, Fields DEF Running, Cascaded
<1>7. CycleOne(x, carry) = Idle([x EXCEPT !.startup_delay = @ - 1])
  BY <1>6 DEF CycleOne
<1>8. [x EXCEPT !.startup_delay = @ - 1] = OwnTick(u, c + 1).timer
  BY <1>2, <1>3, <1>4, <1>5
<1> QED BY <1>2, <1>4, <1>5, <1>7, <1>8 DEF Idle, x

\* One cycle more, past the start-up delay.
LEMMA OwnStepCounting ==
    ASSUME NEW u \in TimerState, NEW c \in Nat, NEW carry \in BOOLEAN, Running(u),
           u.startup_delay <= c
    PROVE  LET tail == CycleOne(OwnTick(u, c).timer, carry)
           IN  /\ tail.timer = OwnTick(u, c + 1).timer
               /\ tail.overflowed \in BOOLEAN
               /\ OwnTick(u, c + 1).overflow.count =
                      OwnTick(u, c).overflow.count + (IF tail.overflowed THEN 1 ELSE 0)
<1> DEFINE x == OwnTick(u, c).timer
           y == OwnTick(u, c + 1).timer
           tail == CycleOne(x, carry)
           p == Period(u)
           ticks == Phase(u, c) \div p
           a == Sum(u, c)
           b == Sum(u, c + 1)
<1>0. c + 1 \in Nat
  OBVIOUS
<1>1. Phase(u, c + 1) = Phase(u, c) + 1
  BY Fields DEF Phase, Effective
<1>2. Delay(u, c) = 0 /\ Delay(u, c + 1) = 0
  BY Fields DEF Delay
<1>3. /\ x = [reload |-> u.reload, counter |-> a.counter, control |-> u.control,
              prescaler_counter |-> Phase(u, c) % p, startup_delay |-> 0]
      /\ OwnTick(u, c).overflow.count = a.count
      /\ a.count \in Nat /\ a.counter \in 0 .. Modulus - 1
      /\ Phase(u, c) \in Nat /\ ticks \in Nat /\ p \in Nat \ {0}
      /\ Phase(u, c) % p \in 0 .. p - 1
  BY <1>2, OwnFields, Fields
<1>4. /\ y = [reload |-> u.reload, counter |-> b.counter, control |-> u.control,
              prescaler_counter |-> (Phase(u, c) + 1) % p, startup_delay |-> 0]
      /\ OwnTick(u, c + 1).overflow.count = b.count
  BY <1>0, <1>1, <1>2, OwnFields
<1>5. Running(x) /\ ~Cascaded(x) /\ x.startup_delay = 0 /\ Period(x) = p
  BY <1>3 DEF Running, Cascaded, Period
<1>6. tail = IF x.prescaler_counter + 1 = p THEN Bump([x EXCEPT !.prescaler_counter = 0])
                                            ELSE Idle([x EXCEPT !.prescaler_counter = @ + 1])
  BY <1>5 DEF CycleOne
<1>7. IF Phase(u, c) % p = p - 1
      THEN (Phase(u, c) + 1) % p = 0 /\ (Phase(u, c) + 1) \div p = ticks + 1
      ELSE (Phase(u, c) + 1) % p = (Phase(u, c) % p) + 1 /\ (Phase(u, c) + 1) \div p = ticks
  BY <1>3, DivStep
<1>8. a = AddToTimer(u, ticks) /\ b = AddToTimer(u, (Phase(u, c) + 1) \div p)
  BY <1>1 DEF Sum
<1> SUFFICES /\ tail.timer = y
             /\ tail.overflowed \in BOOLEAN
             /\ OwnTick(u, c + 1).overflow.count =
                    OwnTick(u, c).overflow.count + (IF tail.overflowed THEN 1 ELSE 0)
  OBVIOUS
<1>9. CASE Phase(u, c) % p = p - 1
  <2>1. IF a.counter + 1 = Modulus
        THEN b.counter = u.reload /\ b.count = a.count + 1
        ELSE b.counter = a.counter + 1 /\ b.count = a.count
    BY <1>3, <1>7, <1>8, <1>9, AddStep
  <2>2. tail = Bump([x EXCEPT !.prescaler_counter = 0])
    BY <1>3, <1>6, <1>9
  <2>3. (Phase(u, c) + 1) % p = 0
    BY <1>7, <1>9
  <2> HIDE DEF a, b, x, y, tail, p
  <2>4. [x EXCEPT !.prescaler_counter = 0] =
            [reload |-> u.reload, counter |-> a.counter, control |-> u.control,
             prescaler_counter |-> 0, startup_delay |-> 0]
    BY <1>3
  <2>5. CASE a.counter + 1 = Modulus
    <3>1. tail = [timer |-> [reload |-> u.reload, counter |-> u.reload,
                             control |-> u.control, prescaler_counter |-> 0,
                             startup_delay |-> 0],
                  overflowed |-> TRUE]
      BY <2>2, <2>4, <2>5 DEF Bump
    <3> QED BY <1>3, <1>4, <2>1, <2>3, <2>5, <3>1
  <2>6. CASE a.counter + 1 # Modulus
    <3>1. tail = [timer |-> [reload |-> u.reload, counter |-> a.counter + 1,
                             control |-> u.control, prescaler_counter |-> 0,
                             startup_delay |-> 0],
                  overflowed |-> FALSE]
      BY <2>2, <2>4, <2>6 DEF Bump
    <3> QED BY <1>3, <1>4, <2>1, <2>3, <2>6, <3>1
  <2> QED BY <2>5, <2>6
<1>10. CASE Phase(u, c) % p # p - 1
  <2>1. a = b
    BY <1>7, <1>8, <1>10
  <2>2. tail = Idle([x EXCEPT !.prescaler_counter = @ + 1])
    BY <1>3, <1>6, <1>10
  <2>3. (Phase(u, c) + 1) % p = (Phase(u, c) % p) + 1
    BY <1>7, <1>10
  <2> HIDE DEF a, b, x, y, tail, p
  <2>4. [x EXCEPT !.prescaler_counter = @ + 1] = y
    BY <1>3, <1>4, <2>1, <2>3
  <2> QED BY <1>3, <1>4, <2>1, <2>2, <2>4 DEF Idle
<1> QED BY <1>9, <1>10

\* A cascaded timer takes one tick of the timer below it.
LEMMA CascadeStep ==
    ASSUME NEW u \in TimerState, NEW c \in Nat, NEW carry \in BOOLEAN, Cascaded(u),
           NEW below, NEW next, below.count \in Nat,
           next.count = below.count + (IF carry THEN 1 ELSE 0)
    PROVE  LET tail == CycleOne(CascadeTick(u, below).timer, carry)
           IN  /\ tail.timer = CascadeTick(u, next).timer
               /\ tail.overflowed \in BOOLEAN
               /\ CascadeTick(u, next).overflow.count =
                      CascadeTick(u, below).overflow.count
                          + (IF tail.overflowed THEN 1 ELSE 0)
<1> DEFINE x == CascadeTick(u, below).timer
           tail == CycleOne(x, carry)
           a == AddToTimer(u, below.count)
           b == AddToTimer(u, next.count)
<1>1. /\ x = [u EXCEPT !.counter = a.counter]
      /\ CascadeTick(u, next).timer = [u EXCEPT !.counter = b.counter]
  BY DEF CascadeTick
<1>2. /\ CascadeTick(u, below).overflow.count = a.count
      /\ CascadeTick(u, next).overflow.count = b.count
  BY DEF CascadeTick, NONE
<1>3. a.counter \in 0 .. Modulus - 1 /\ a.count \in Nat
  BY AddType
<1>4. /\ x.control = u.control /\ x.counter = a.counter /\ x.reload = u.reload
      /\ \A v : [x EXCEPT !.counter = v] = [u EXCEPT !.counter = v]
  BY <1>1 DEF TimerState
<1>5. Cascaded(x) /\ ~Running(x)
  BY <1>4 DEF Cascaded, Running
<1>6. tail = IF carry THEN Bump(x) ELSE Idle(x)
  BY <1>5 DEF CycleOne
<1> SUFFICES /\ tail.timer = CascadeTick(u, next).timer
             /\ tail.overflowed \in BOOLEAN
             /\ CascadeTick(u, next).overflow.count =
                    CascadeTick(u, below).overflow.count
                        + (IF tail.overflowed THEN 1 ELSE 0)
  OBVIOUS
<1>7. CASE carry
  <2>1. next.count = below.count + 1
    BY <1>7
  <2>2. IF a.counter + 1 = Modulus
        THEN b.counter = u.reload /\ b.count = a.count + 1
        ELSE b.counter = a.counter + 1 /\ b.count = a.count
    BY <2>1, AddStep
  <2>3. tail = Bump(x)
    BY <1>6, <1>7
  <2> HIDE DEF x, tail, a, b
  <2>4. CASE a.counter + 1 = Modulus
    <3>1. tail = [timer |-> [x EXCEPT !.counter = u.reload], overflowed |-> TRUE]
      BY <1>4, <2>3, <2>4 DEF Bump
    <3> QED BY <1>1, <1>2, <1>3, <1>4, <2>2, <2>4, <3>1
  <2>5. CASE a.counter + 1 # Modulus
    <3>1. tail = [timer |-> [x EXCEPT !.counter = a.counter + 1], overflowed |-> FALSE]
      BY <1>4, <2>3, <2>5 DEF Bump
    <3>2. b.counter = a.counter + 1 /\ b.count = a.count
      BY <2>2, <2>5
    <3>3. tail.timer = CascadeTick(u, next).timer
      BY <1>1, <1>4, <3>1, <3>2
    <3> QED BY <1>2, <1>3, <3>1, <3>2, <3>3
  <2> QED BY <2>4, <2>5
<1>8. CASE ~carry
  <2>1. next.count = below.count
    BY <1>8
  <2>2. a = b
    BY <2>1
  <2> HIDE DEF x, tail, a, b
  <2> QED BY <1>1, <1>2, <1>3, <1>6, <1>8, <2>2 DEF Idle
<1> QED BY <1>7, <1>8

\* What counting a batch leaves of a timer, whatever its mode.
LEMMA OneType ==
    ASSUME NEW u \in TimerState, NEW c \in Nat, NEW below, below.count \in Nat
    PROVE  /\ TickOne(u, c, below).timer \in TimerState
           /\ TickOne(u, c, below).timer.control = u.control
           /\ TickOne(u, c, below).overflow.count \in Nat
           /\ u.control.enabled =>
                  \/ TickOne(u, c, below).timer.prescaler_counter < Period(u)
                  \/ TickOne(u, c, below).timer.prescaler_counter = u.prescaler_counter
<1>1. CASE Running(u)
  <2>1. TickOne(u, c, below) = OwnTick(u, c)
    BY <1>1 DEF TickOne, Running, Cascaded
  <2> QED BY <2>1, OwnType
<1>2. CASE Cascaded(u)
  <2>1. TickOne(u, c, below) = CascadeTick(u, below)
    BY <1>2 DEF TickOne, Running, Cascaded
  <2> DEFINE a == AddToTimer(u, below.count)
  <2>2. a.counter \in 0 .. Modulus - 1 /\ a.count \in Nat
    BY AddType
  <2>3. /\ CascadeTick(u, below).timer = [u EXCEPT !.counter = a.counter]
        /\ CascadeTick(u, below).overflow.count = a.count
    BY DEF CascadeTick, NONE
  <2> HIDE DEF a
  <2> QED BY <2>1, <2>2, <2>3 DEF TimerState
<1>3. CASE ~Running(u) /\ ~Cascaded(u)
  <2>1. TickOne(u, c, below) = [timer |-> u, overflow |-> NONE]
    BY <1>3 DEF TickOne
  <2> QED BY <2>1 DEF NONE
<1> QED BY <1>1, <1>2, <1>3

\* An empty batch changes nothing.
LEMMA OneZero ==
    ASSUME NEW u \in TimerState, NEW below, below.count = 0,
           u.control.enabled => u.prescaler_counter < Period(u)
    PROVE  TickOne(u, 0, below) = [timer |-> u, overflow |-> NONE]
<1>1. CASE Running(u)
  <2>1. TickOne(u, 0, below) = OwnTick(u, 0)
    BY <1>1 DEF TickOne, Running, Cascaded
  <2>2. /\ Effective(u, 0) = 0 /\ u.prescaler_counter \in 0 .. Period(u) - 1
        /\ Period(u) \in Nat \ {0}
        /\ u.startup_delay - 0 = u.startup_delay /\ u.startup_delay >= 0
    BY <1>1, Fields DEF Running, Effective
  <2>3. u.prescaler_counter + Effective(u, 0) = u.prescaler_counter
    BY <2>2
  <2>4. /\ u.prescaler_counter \div Period(u) = 0
        /\ u.prescaler_counter % Period(u) = u.prescaler_counter
    BY <2>2, DivSmall
  <2> DEFINE phase == u.prescaler_counter + Effective(u, 0)
             sum == AddToTimer(u, phase \div Period(u))
             delay == IF u.startup_delay >= 0 THEN u.startup_delay - 0 ELSE 0
  <2>5. phase \div Period(u) = 0 /\ phase % Period(u) = u.prescaler_counter
    BY <2>3, <2>4
  <2>6. sum.counter = u.counter /\ sum.count = 0
    BY <2>5, AddZero
  <2>7. delay = u.startup_delay
    BY <2>2
  <2>8. OwnTick(u, 0) =
            [timer |-> [reload |-> u.reload, counter |-> sum.counter, control |-> u.control,
                        prescaler_counter |-> phase % Period(u),
                        startup_delay |-> delay],
             overflow |-> IF sum.count = 0 THEN NONE
                          ELSE [count |-> sum.count, first_cycle |-> FirstCycle(u, 0)]]
    BY DEF OwnTick
  <2> HIDE DEF phase, sum, delay
  <2> QED BY <2>1, <2>5, <2>6, <2>7, <2>8 DEF TimerState
<1>2. CASE Cascaded(u)
  <2>1. TickOne(u, 0, below) = CascadeTick(u, below)
    BY <1>2 DEF TickOne, Running, Cascaded
  <2>2. CascadeTick(u, below) = [timer |-> [u EXCEPT !.counter = u.counter],
                                 overflow |-> NONE]
    BY AddZero DEF CascadeTick
  <2> QED BY <2>1, <2>2 DEF TimerState
<1>3. CASE ~Running(u) /\ ~Cascaded(u)
  BY <1>3 DEF TickOne
<1> QED BY <1>1, <1>2, <1>3

\* One cycle more for any timer, given that the timer below agrees.
LEMMA OneStep ==
    ASSUME NEW u \in TimerState, NEW c \in Nat, NEW carry \in BOOLEAN,
           NEW below, NEW next, below.count \in Nat,
           next.count = below.count + (IF carry THEN 1 ELSE 0)
    PROVE  LET tail == CycleOne(TickOne(u, c, below).timer, carry)
           IN  /\ tail.timer = TickOne(u, c + 1, next).timer
               /\ tail.overflowed \in BOOLEAN
               /\ TickOne(u, c + 1, next).overflow.count =
                      TickOne(u, c, below).overflow.count
                          + (IF tail.overflowed THEN 1 ELSE 0)
<1>1. CASE Running(u)
  <2>1. TickOne(u, c, below) = OwnTick(u, c) /\ TickOne(u, c + 1, next) = OwnTick(u, c + 1)
    BY <1>1 DEF TickOne, Running, Cascaded
  <2>2. CASE u.startup_delay >= c + 1
    <3>1. /\ CycleOne(OwnTick(u, c).timer, carry) =
                 [timer |-> OwnTick(u, c + 1).timer, overflowed |-> FALSE]
          /\ OwnTick(u, c + 1).overflow.count = OwnTick(u, c).overflow.count
          /\ OwnTick(u, c).overflow.count \in Nat
      BY <1>1, <2>2, OwnStepDelayed, OwnType
    <3> QED BY <2>1, <3>1
  <2>3. CASE u.startup_delay <= c
    BY <1>1, <2>1, <2>3, OwnStepCounting
  <2> QED BY <2>2, <2>3, Fields
<1>2. CASE Cascaded(u)
  <2>1. /\ TickOne(u, c, below) = CascadeTick(u, below)
        /\ TickOne(u, c + 1, next) = CascadeTick(u, next)
    BY <1>2 DEF TickOne, Running, Cascaded
  <2> QED BY <1>2, <2>1, CascadeStep
<1>3. CASE ~Running(u) /\ ~Cascaded(u)
  <2>1. /\ TickOne(u, c, below) = [timer |-> u, overflow |-> NONE]
        /\ TickOne(u, c + 1, next) = [timer |-> u, overflow |-> NONE]
        /\ CycleOne(u, carry) = Idle(u)
    BY <1>3 DEF TickOne, CycleOne
  <2>2. /\ TickOne(u, c + 1, next).timer = u
        /\ TickOne(u, c, below).overflow.count = 0
        /\ TickOne(u, c + 1, next).overflow.count = 0
    BY <2>1 DEF NONE
  <2>3. CycleOne(TickOne(u, c, below).timer, carry) = [timer |-> u, overflowed |-> FALSE]
    BY <2>1 DEF Idle
  <2> QED BY <2>2, <2>3
<1> QED BY <1>1, <1>2, <1>3

-----------------------------------------------------------------------------
(* The four timers *)

\* The four reports of a batch, each timer with the one below it.
LEMMA Four ==
    ASSUME NEW timers, NEW c
    PROVE  LET all == TickAll(timers, c)
           IN  /\ all[0] = TickOne(timers[0], c, NONE)
               /\ all[1] = TickOne(timers[1], c, all[0].overflow)
               /\ all[2] = TickOne(timers[2], c, all[1].overflow)
               /\ all[3] = TickOne(timers[3], c, all[2].overflow)
BY DEF TickAll, Timer

LEMMA FourCycle ==
    ASSUME NEW timers
    PROVE  LET all == Cycle(timers)
           IN  /\ all[0] = CycleOne(timers[0], FALSE)
               /\ all[1] = CycleOne(timers[1], all[0].overflowed)
               /\ all[2] = CycleOne(timers[2], all[1].overflowed)
               /\ all[3] = CycleOne(timers[3], all[2].overflowed)
BY DEF Cycle, Timer

LEMMA AllType ==
    ASSUME TypeOK, NEW c \in Nat, NEW i \in Timer
    PROVE  /\ TickAll(t, c)[i].timer \in TimerState
           /\ TickAll(t, c)[i].timer.control = t[i].control
           /\ TickAll(t, c)[i].overflow.count \in Nat
           /\ t[i].control.enabled =>
                  \/ TickAll(t, c)[i].timer.prescaler_counter < Period(t[i])
                  \/ TickAll(t, c)[i].timer.prescaler_counter = t[i].prescaler_counter
<1> DEFINE all == TickAll(t, c)
           Good(j) == /\ all[j].timer \in TimerState
                      /\ all[j].timer.control = t[j].control
                      /\ all[j].overflow.count \in Nat
                      /\ t[j].control.enabled =>
                             \/ all[j].timer.prescaler_counter < Period(t[j])
                             \/ all[j].timer.prescaler_counter = t[j].prescaler_counter
<1>1. /\ all[0] = TickOne(t[0], c, NONE)
      /\ all[1] = TickOne(t[1], c, all[0].overflow)
      /\ all[2] = TickOne(t[2], c, all[1].overflow)
      /\ all[3] = TickOne(t[3], c, all[2].overflow)
  BY Four
<1>2. t[0] \in TimerState /\ t[1] \in TimerState /\ t[2] \in TimerState /\ t[3] \in TimerState
  BY DEF TypeOK, Timer
<1> HIDE DEF all
<1>3. Good(0)
  <2>1. NONE.count \in Nat
    BY DEF NONE
  <2> QED BY <1>1, <1>2, <2>1, OneType
<1>4. Good(1)
  BY <1>1, <1>2, <1>3, OneType
<1>5. Good(2)
  BY <1>1, <1>2, <1>4, OneType
<1>6. Good(3)
  BY <1>1, <1>2, <1>5, OneType
<1>7. i = 0 \/ i = 1 \/ i = 2 \/ i = 3
  BY DEF Timer
<1>8. Good(i)
  BY <1>3, <1>4, <1>5, <1>6, <1>7
<1> QED BY <1>8 DEF all

IInv == TypeOK /\ PhaseBelowPeriod

\* The types and the phase are preserved by every batch and register write.
LEMMA StepInv == IInv /\ [Next]_t => IInv'
<1> SUFFICES ASSUME TypeOK, PhaseBelowPeriod, [Next]_t
             PROVE  TypeOK' /\ PhaseBelowPeriod'
  BY DEF IInv
<1>1. ASSUME NEW cycles \in 1 .. MaxBatch, Tick(cycles) PROVE TypeOK' /\ PhaseBelowPeriod'
  <2>1. cycles \in Nat
    BY TimersAssumption
  <2>2. t' = [i \in Timer |-> TickAll(t, cycles)[i].timer]
    BY <1>1 DEF Tick
  <2>3. ASSUME NEW i \in Timer
        PROVE  /\ t'[i] \in TimerState
               /\ t'[i].control.enabled => t'[i].prescaler_counter < Period(t'[i])
    <3>1. t'[i] = TickAll(t, cycles)[i].timer
      BY <2>2
    <3>2. Period(t'[i]) = Period(t[i])
      BY <2>1, <3>1, AllType DEF Period
    <3>3. /\ t'[i] \in TimerState /\ t'[i].control = t[i].control
          /\ t[i].control.enabled =>
                 \/ t'[i].prescaler_counter < Period(t[i])
                 \/ t'[i].prescaler_counter = t[i].prescaler_counter
      BY <2>1, <3>1, AllType
    <3> QED BY <3>2, <3>3 DEF PhaseBelowPeriod
  <2> QED BY <2>2, <2>3 DEF TypeOK, PhaseBelowPeriod
<1>2. ASSUME NEW i \in Timer, NEW val \in Reloads, WriteReload(i, val)
      PROVE  TypeOK' /\ PhaseBelowPeriod'
  <2>1. val \in 0 .. Modulus - 1
    BY TimersAssumption
  <2>2. t' = [t EXCEPT ![i] = [t[i] EXCEPT !.reload = val]]
    BY <1>2 DEF WriteReload
  <2>3. TypeOK'
    BY <2>1, <2>2 DEF TypeOK, TimerState
  <2>4. ASSUME NEW j \in Timer
        PROVE  /\ t'[j].control = t[j].control
               /\ t'[j].prescaler_counter = t[j].prescaler_counter
    BY <2>2 DEF TypeOK, TimerState
  <2> QED BY <2>3, <2>4 DEF PhaseBelowPeriod, Period
<1>3. ASSUME NEW i \in Timer, NEW val \in Controls[i], WriteControl(i, val)
      PROVE  TypeOK' /\ PhaseBelowPeriod'
  <2> DEFINE u == t[i]
             w == CASE u.control.enabled /\ ~val.enabled /\ ~val.cascade -> Stopped(u, val)
                    [] ~u.control.enabled /\ val.enabled -> Started(u, val)
                    [] u.control.enabled /\ val.enabled -> Retimed(u, val)
                    [] OTHER -> [u EXCEPT !.control = val]
  <2>1. val \in Control
    BY TimersAssumption
  <2>2. u \in TimerState
    BY DEF TypeOK
  <2>3. t' = [t EXCEPT ![i] = w]
    BY <1>3 DEF WriteControl
  <2>4. /\ w \in TimerState
        /\ w.control.enabled => w.prescaler_counter < Period(w)
    <3>0. u.control.enabled => u.prescaler_counter < Period(u)
      BY DEF PhaseBelowPeriod
    <3> HIDE DEF u
    <3>1. CASE u.control.enabled /\ ~val.enabled /\ ~val.cascade
      <4>1. w = Stopped(u, val)
        BY <3>1
      <4> DEFINE phase == u.prescaler_counter + 1
                 sum == AddToTimer(u, phase \div Period(u))
      <4>2. phase \in Nat
        BY <2>2, Fields
      <4>3. phase % Period(u) \in Nat /\ phase \div Period(u) \in Nat
        <5>1. Period(u) \in Nat \ {0}
          BY <2>2, Fields
        <5> HIDE DEF phase
        <5>2. phase % Period(u) \in 0 .. Period(u) - 1 /\ phase \div Period(u) \in Nat
          BY <4>2, <5>1, DivDef
        <5> QED BY <5>1, <5>2
      <4>4. sum.counter \in 0 .. Modulus - 1
        BY <2>2, <4>3, AddType
      <4>5. Stopped(u, val) =
                [reload |-> u.reload, counter |-> sum.counter, control |-> val,
                 prescaler_counter |-> phase % Period(u),
                 startup_delay |-> u.startup_delay]
        BY DEF Stopped
      <4> HIDE DEF phase, sum, w
      <4> QED BY <2>1, <2>2, <3>1, <4>1, <4>3, <4>4, <4>5, Fields DEF TimerState
    <3>2. CASE ~u.control.enabled /\ val.enabled
      <4>1. w = Started(u, val)
        BY <3>2
      <4>2. Prescale[val.sel] \in Nat \ {0}
        BY <2>1, TimersAssumption DEF Control
      <4> HIDE DEF w
      <4>3. w \in TimerState /\ w.prescaler_counter = 0 /\ Period(w) = Prescale[val.sel]
        BY <2>1, <2>2, <4>1, Fields DEF Started, TimerState, Period
      <4> QED BY <4>2, <4>3
    <3>3. CASE u.control.enabled /\ val.enabled
      <4>1. w = Retimed(u, val)
        BY <3>3
      <4> DEFINE phase == IF Prescale[val.sel] = Period(u) THEN u.prescaler_counter ELSE 0
      <4>2. Prescale[val.sel] \in Nat \ {0}
        BY <2>1, TimersAssumption DEF Control
      <4>3. phase \in Nat /\ phase < Prescale[val.sel]
        BY <2>2, <3>0, <3>3, <4>2, Fields
      <4>4. Retimed(u, val) =
                [reload |-> u.reload, counter |-> u.counter, control |-> val,
                 prescaler_counter |-> phase, startup_delay |-> u.startup_delay]
        BY DEF Retimed
      <4> HIDE DEF w, phase
      <4> QED BY <2>1, <2>2, <4>1, <4>3, <4>4, Fields DEF TimerState, Period
    <3>4. CASE ~val.enabled /\ (u.control.enabled => val.cascade)
      <4>1. w = [u EXCEPT !.control = val]
        BY <3>4
      <4> HIDE DEF w
      <4> QED BY <2>1, <2>2, <3>4, <4>1 DEF TimerState
    <3>5. val.enabled \in BOOLEAN /\ u.control.enabled \in BOOLEAN
      BY <2>1, <2>2, Fields DEF Control
    <3> QED BY <3>1, <3>2, <3>3, <3>4, <3>5
  <2> HIDE DEF w
  <2> QED BY <2>3, <2>4 DEF TypeOK, PhaseBelowPeriod
<1>4. CASE UNCHANGED t
  BY <1>4 DEF TypeOK, PhaseBelowPeriod, Period
<1> QED BY <1>1, <1>2, <1>3, <1>4 DEF Next

\* No batch reports nothing, and each cycle more does what the reference does.
LEMMA BatchInduction == IInv => BatchEqualsCycles
<1> SUFFICES ASSUME TypeOK, PhaseBelowPeriod PROVE BatchEqualsCycles
  BY DEF IInv
<1>0. t[0] \in TimerState /\ t[1] \in TimerState /\ t[2] \in TimerState /\ t[3] \in TimerState
  BY DEF TypeOK, Timer
<1>1. ASSUME NEW i \in Timer
      PROVE  TickAll(t, 0)[i] = [timer |-> t[i], overflow |-> NONE]
  <2> DEFINE all == TickAll(t, 0)
             Same(j) == all[j] = [timer |-> t[j], overflow |-> NONE]
  <2>1. /\ all[0] = TickOne(t[0], 0, NONE)
        /\ all[1] = TickOne(t[1], 0, all[0].overflow)
        /\ all[2] = TickOne(t[2], 0, all[1].overflow)
        /\ all[3] = TickOne(t[3], 0, all[2].overflow)
    BY Four
  <2>2. NONE.count = 0
    BY DEF NONE
  <2>3. \A j \in Timer : t[j].control.enabled => t[j].prescaler_counter < Period(t[j])
    BY DEF PhaseBelowPeriod
  <2> HIDE DEF all
  <2>4. Same(0)
    BY <1>0, <2>1, <2>2, <2>3, OneZero DEF Timer
  <2>5. Same(1)
    <3>1. all[0].overflow = NONE
      BY <2>4
    <3> QED BY <1>0, <2>1, <2>2, <2>3, <3>1, OneZero DEF Timer
  <2>6. Same(2)
    <3>1. all[1].overflow = NONE
      BY <2>5
    <3> QED BY <1>0, <2>1, <2>2, <2>3, <3>1, OneZero DEF Timer
  <2>7. Same(3)
    <3>1. all[2].overflow = NONE
      BY <2>6
    <3> QED BY <1>0, <2>1, <2>2, <2>3, <3>1, OneZero DEF Timer
  <2>8. i = 0 \/ i = 1 \/ i = 2 \/ i = 3
    BY DEF Timer
  <2>9. Same(i)
    BY <2>4, <2>5, <2>6, <2>7, <2>8
  <2> QED BY <2>9 DEF all
<1>2. ASSUME NEW cycles \in 1 .. MaxBatch, NEW i \in Timer
      PROVE  /\ TickAll(t, cycles)[i].timer = LastCycle(cycles)[i].timer
             /\ TickAll(t, cycles)[i].overflow.count =
                    TickAll(t, cycles - 1)[i].overflow.count
                        + (IF LastCycle(cycles)[i].overflowed THEN 1 ELSE 0)
  <2> DEFINE c == cycles - 1
             before == TickAll(t, c)
             after == TickAll(t, cycles)
             tail == LastCycle(cycles)
             Agree(j) == /\ tail[j].timer = after[j].timer
                         /\ tail[j].overflowed \in BOOLEAN
                         /\ after[j].overflow.count =
                                before[j].overflow.count
                                    + (IF tail[j].overflowed THEN 1 ELSE 0)
  <2>1. c \in Nat /\ c + 1 = cycles
    BY TimersAssumption
  <2>2. /\ before[0] = TickOne(t[0], c, NONE)
        /\ before[1] = TickOne(t[1], c, before[0].overflow)
        /\ before[2] = TickOne(t[2], c, before[1].overflow)
        /\ before[3] = TickOne(t[3], c, before[2].overflow)
    BY Four
  <2>3. /\ after[0] = TickOne(t[0], cycles, NONE)
        /\ after[1] = TickOne(t[1], cycles, after[0].overflow)
        /\ after[2] = TickOne(t[2], cycles, after[1].overflow)
        /\ after[3] = TickOne(t[3], cycles, after[2].overflow)
    BY Four
  <2>4. /\ tail[0] = CycleOne(before[0].timer, FALSE)
        /\ tail[1] = CycleOne(before[1].timer, tail[0].overflowed)
        /\ tail[2] = CycleOne(before[2].timer, tail[1].overflowed)
        /\ tail[3] = CycleOne(before[3].timer, tail[2].overflowed)
    <3> DEFINE timers == [j \in Timer |-> before[j].timer]
    <3>1. tail = Cycle(timers)
      BY DEF LastCycle
    <3>2. /\ timers[0] = before[0].timer /\ timers[1] = before[1].timer
          /\ timers[2] = before[2].timer /\ timers[3] = before[3].timer
      BY DEF Timer
    <3> HIDE DEF timers, tail, before
    <3> QED BY <3>1, <3>2, FourCycle
  <2>5. \A j \in Timer : before[j].overflow.count \in Nat
    BY <2>1, AllType
  <2>6. NONE.count \in Nat /\ NONE.count = NONE.count + (IF FALSE THEN 1 ELSE 0)
    BY DEF NONE
  <2> HIDE DEF c, before, after, tail
  <2>7. Agree(0)
    <3> DEFINE one == CycleOne(TickOne(t[0], c, NONE).timer, FALSE)
    <3>1. NONE.count \in Nat /\ FALSE \in BOOLEAN
          /\ NONE.count = NONE.count + (IF FALSE THEN 1 ELSE 0)
      BY <2>6 DEF Timer
    <3>2. /\ one.timer = TickOne(t[0], c + 1, NONE).timer
          /\ one.overflowed \in BOOLEAN
          /\ TickOne(t[0], c + 1, NONE).overflow.count =
                 TickOne(t[0], c, NONE).overflow.count
                     + (IF one.overflowed THEN 1 ELSE 0)
      <4> DEFINE carry == FALSE
                 below == NONE
                 next == NONE
      <4>1. /\ carry \in BOOLEAN /\ below.count \in Nat
            /\ next.count = below.count + (IF carry THEN 1 ELSE 0)
        BY <3>1
      <4> HIDE DEF carry, below, next
      <4>2. LET with == CycleOne(TickOne(t[0], c, below).timer, carry)
            IN  /\ with.timer = TickOne(t[0], c + 1, next).timer
                /\ with.overflowed \in BOOLEAN
                /\ TickOne(t[0], c + 1, next).overflow.count =
                       TickOne(t[0], c, below).overflow.count
                           + (IF with.overflowed THEN 1 ELSE 0)
        BY <1>0, <2>1, <4>1, OneStep
      <4> QED BY <4>2 DEF carry, below, next
    <3>3. tail[0] = one
      BY <2>2, <2>4
    <3> HIDE DEF one
    <3> QED BY <2>1, <2>2, <2>3, <3>2, <3>3
  <2>8. Agree(1)
    <3> DEFINE one == CycleOne(TickOne(t[1], c, before[0].overflow).timer, tail[0].overflowed)
    <3>1. before[0].overflow.count \in Nat /\ tail[0].overflowed \in BOOLEAN
          /\ after[0].overflow.count = before[0].overflow.count + (IF tail[0].overflowed THEN 1 ELSE 0)
      BY <2>5, <2>7 DEF Timer
    <3>2. /\ one.timer = TickOne(t[1], c + 1, after[0].overflow).timer
          /\ one.overflowed \in BOOLEAN
          /\ TickOne(t[1], c + 1, after[0].overflow).overflow.count =
                 TickOne(t[1], c, before[0].overflow).overflow.count
                     + (IF one.overflowed THEN 1 ELSE 0)
      BY <1>0, <2>1, <3>1, OneStep
    <3>3. tail[1] = one
      BY <2>2, <2>4
    <3> HIDE DEF one
    <3> QED BY <2>1, <2>2, <2>3, <3>2, <3>3
  <2>9. Agree(2)
    <3> DEFINE one == CycleOne(TickOne(t[2], c, before[1].overflow).timer, tail[1].overflowed)
    <3>1. before[1].overflow.count \in Nat /\ tail[1].overflowed \in BOOLEAN
          /\ after[1].overflow.count = before[1].overflow.count + (IF tail[1].overflowed THEN 1 ELSE 0)
      BY <2>5, <2>8 DEF Timer
    <3>2. /\ one.timer = TickOne(t[2], c + 1, after[1].overflow).timer
          /\ one.overflowed \in BOOLEAN
          /\ TickOne(t[2], c + 1, after[1].overflow).overflow.count =
                 TickOne(t[2], c, before[1].overflow).overflow.count
                     + (IF one.overflowed THEN 1 ELSE 0)
      BY <1>0, <2>1, <3>1, OneStep
    <3>3. tail[2] = one
      BY <2>2, <2>4
    <3> HIDE DEF one
    <3> QED BY <2>1, <2>2, <2>3, <3>2, <3>3
  <2>10. Agree(3)
    <3> DEFINE one == CycleOne(TickOne(t[3], c, before[2].overflow).timer, tail[2].overflowed)
    <3>1. before[2].overflow.count \in Nat /\ tail[2].overflowed \in BOOLEAN
          /\ after[2].overflow.count = before[2].overflow.count + (IF tail[2].overflowed THEN 1 ELSE 0)
      BY <2>5, <2>9 DEF Timer
    <3>2. /\ one.timer = TickOne(t[3], c + 1, after[2].overflow).timer
          /\ one.overflowed \in BOOLEAN
          /\ TickOne(t[3], c + 1, after[2].overflow).overflow.count =
                 TickOne(t[3], c, before[2].overflow).overflow.count
                     + (IF one.overflowed THEN 1 ELSE 0)
      BY <1>0, <2>1, <3>1, OneStep
    <3>3. tail[3] = one
      BY <2>2, <2>4
    <3> HIDE DEF one
    <3> QED BY <2>1, <2>2, <2>3, <3>2, <3>3
  <2>11. i = 0 \/ i = 1 \/ i = 2 \/ i = 3
    BY DEF Timer
  <2>12. Agree(i)
    BY <2>7, <2>8, <2>9, <2>10, <2>11
  <2> QED BY <2>12 DEF c, before, after, tail
<1> QED BY <1>1, <1>2 DEF BatchEqualsCycles

-----------------------------------------------------------------------------
(* The cycles of the overflows *)

\* A quotient reaches m where the dividend reaches m times the divisor.
LEMMA DivReaches ==
    ASSUME NEW p \in Nat \ {0}, NEW x \in Nat, NEW m \in Nat
    PROVE  x \div p >= m <=> x >= m * p
<1> DEFINE q == x \div p
           r == x % p
<1>1. x = p * q + r /\ r \in 0 .. p - 1 /\ q \in Nat
  BY DivDef
<1> HIDE DEF q, r
<1>2. CASE q >= m
  <2>1. PICK d \in Nat : q = m + d
    BY <1>1, <1>2
  <2>2. p * q = m * p + p * d /\ p * d \in Nat
    BY <2>1
  <2>3. m * p \in Nat
    OBVIOUS
  <2> QED BY <1>1, <1>2, <2>2, <2>3 DEF q
<1>3. CASE q < m
  <2>1. PICK d \in Nat : m = q + 1 + d
    <3>1. m - (q + 1) \in Nat /\ m = q + 1 + (m - (q + 1))
      BY <1>1, <1>3
    <3> QED BY <3>1
  <2>2. m * p = p * q + p + p * d /\ p * d \in Nat
    BY <1>1, <2>1
  <2>3. p * q \in Nat
    BY <1>1
  <2>4. ~(x >= m * p)
    BY <1>1, <2>2, <2>3
  <2> QED BY <1>1, <1>3, <2>4 DEF q
<1> QED BY <1>1, <1>2, <1>3

\* The cycle in which a timer overflows first, however long the batch is.
First(u) ==
    u.startup_delay + (Period(u) - u.prescaler_counter) + (Modulus - u.counter - 1) * Period(u)

\* A batch counts more than k overflows if it is as long as the first and k
\* periods: the k-th overflow falls in that cycle.
LEMMA CountAbove ==
    ASSUME NEW u \in TimerState, u.prescaler_counter < Period(u), NEW c \in Nat, NEW k \in Nat
    PROVE  /\ First(u) \in Nat /\ PeriodCycles(u) \in Nat \ {0}
           /\ OwnTick(u, c).overflow.count > k <=> c >= First(u) + k * PeriodCycles(u)
<1> DEFINE P == Period(u)
           R == Modulus - u.reload
           M == Modulus - u.counter
           x == Phase(u, c)
           ticks == x \div P
<1>1. /\ P \in Nat \ {0} /\ R \in Nat \ {0} /\ M \in Nat \ {0} /\ Modulus \in Nat
      /\ u.prescaler_counter \in Nat /\ u.startup_delay \in Nat
      /\ u.counter \in Nat /\ u.reload \in Nat
  BY Fields, TimersAssumption
<1>2. x \in Nat /\ ticks \in Nat
  BY OwnFields
<1>3. x = u.prescaler_counter + (IF u.startup_delay >= c THEN 0 ELSE c - u.startup_delay)
  BY DEF Phase, Effective
<1>4. OwnTick(u, c).overflow.count = AddToTimer(u, ticks).count
  BY OwnFields DEF Sum
<1>5. AddToTimer(u, ticks).count > k <=> ticks >= M + k * R
  <2>1. k * R \in Nat
    BY <1>1
  <2>2. CASE u.counter + ticks < Modulus
    <3>1. AddToTimer(u, ticks).count = 0
      BY <2>2 DEF AddToTimer
    <3>2. ~(ticks >= M + k * R)
      <4> HIDE DEF R, ticks
      <4> QED BY <1>1, <1>2, <2>1, <2>2
    <3> QED BY <3>1, <3>2
  <2>3. CASE ~(u.counter + ticks < Modulus)
    <3>1. AddToTimer(u, ticks).count = 1 + ((u.counter + ticks - Modulus) \div R)
      <4> HIDE DEF ticks
      <4>1. AddToTimer(u, ticks) =
               [counter |-> u.reload + ((u.counter + ticks - Modulus) % R),
                count |-> 1 + ((u.counter + ticks - Modulus) \div R)]
        BY <1>1, <1>2, <2>3 DEF AddToTimer
      <4> QED BY <4>1
    <3>2. PICK y \in Nat : y = u.counter + ticks - Modulus
      <4> HIDE DEF ticks
      <4> QED BY <1>1, <1>2, <2>3
    <3>3. y \div R \in Nat /\ (y \div R >= k <=> y >= k * R)
      BY <1>1, DivReaches, DivDef
    <3>4. ticks = y + M
      <4> HIDE DEF ticks
      <4> QED BY <1>1, <1>2, <3>2
    <3> HIDE DEF R, ticks, M
    <3>5. M \in Int
      BY <1>1
    <3> QED BY <1>1, <2>1, <3>1, <3>2, <3>3, <3>4, <3>5
  <2> QED BY <2>2, <2>3
<1>6. ticks >= M + k * R <=> x >= (M + k * R) * P
  <2>1. M + k * R \in Nat
    BY <1>1
  <2> HIDE DEF x
  <2> QED BY <1>1, <1>2, <2>1, DivReaches
<1>7. (M + k * R) * P = M * P + k * (R * P)
  <2> HIDE DEF M, R, P
  <2> QED BY <1>1
<1>8. M * P = (M - 1) * P + P
  <2> HIDE DEF M, P
  <2> QED BY <1>1
<1>9. First(u) = u.startup_delay + (P - u.prescaler_counter) + (M - 1) * P
  BY DEF First
<1>10. PeriodCycles(u) = R * P /\ R * P \in Nat \ {0}
  <2>1. PeriodCycles(u) = R * P
    BY DEF PeriodCycles
  <2> HIDE DEF R, P
  <2> QED BY <1>1, <2>1
<1>11. /\ (M - 1) * P \in Nat /\ k * (R * P) \in Nat
  <2> HIDE DEF M, R, P
  <2>1. M - 1 \in Nat
    BY <1>1
  <2> QED BY <1>1, <1>10, <2>1
<1>12. u.prescaler_counter < P
  OBVIOUS
<1> HIDE DEF P, R, M, x, ticks
<1>13. PICK a \in Nat, b \in Nat : a = (M - 1) * P /\ b = k * (R * P)
  BY <1>11
<1>14. x >= M * P + k * (R * P) <=> c >= First(u) + k * (R * P)
  BY <1>1, <1>3, <1>8, <1>9, <1>12, <1>13
<1> QED BY <1>1, <1>4, <1>5, <1>6, <1>7, <1>9, <1>10, <1>12, <1>13, <1>14

\* What a report's instants are, for a batch of any length.
LEMMA InstantsOf ==
    ASSUME NEW u \in TimerState, u.prescaler_counter < Period(u), NEW c \in Nat
    PROVE  LET n == OwnTick(u, c).overflow.count
           IN  /\ n \in Nat
               /\ ReportedInstants(OwnTick(u, c).overflow, u) =
                     {First(u) + k * PeriodCycles(u) : k \in 0 .. n - 1}
<1> DEFINE n == OwnTick(u, c).overflow.count
           o == OwnTick(u, c).overflow
<1>1. n \in Nat
  BY OwnFields
<1>2. CASE n = 0
  BY <1>2 DEF ReportedInstants
<1>3. CASE n > 0
  <2>1. c >= First(u) /\ First(u) \in Nat
    <3>1. First(u) \in Nat /\ PeriodCycles(u) \in Nat
      BY CountAbove
    <3>2. n > 0 <=> c >= First(u) + 0 * PeriodCycles(u)
      BY CountAbove
    <3> QED BY <1>3, <3>1, <3>2
  <2>2. FirstCycle(u, c) = First(u)
    <3>1. FirstCycle(u, c) = IF First(u) < c THEN First(u) ELSE c
      BY DEF FirstCycle, First
    <3> QED BY <2>1, <3>1
  <2>3. o.first_cycle = FirstCycle(u, c)
    <3>1. o = IF Sum(u, c).count = 0 THEN NONE
              ELSE [count |-> Sum(u, c).count, first_cycle |-> FirstCycle(u, c)]
      BY DEF OwnTick, Phase, Sum
    <3>2. n = Sum(u, c).count
      BY OwnFields
    <3> QED BY <1>3, <3>1, <3>2
  <2> HIDE DEF o
  <2>4. o.first_cycle = First(u)
    BY <2>2, <2>3
  <2>5. n = o.count /\ o = OwnTick(u, c).overflow
    BY DEF o
  <2> HIDE DEF n
  <2>6. ReportedInstants(o, u) = {First(u) + k * PeriodCycles(u) : k \in 0 .. n - 1}
    BY <2>4, <2>5, Zenon DEF ReportedInstants
  <2> QED BY <1>1, <2>5, <2>6 DEF n
<1> QED BY <1>1, <1>2, <1>3

\* One cycle more adds its own instant, if the timer overflows in it.
LEMMA InstantsExact == IInv => OverflowInstantsExact
<1> SUFFICES ASSUME IInv, NEW cycles \in 1 .. MaxBatch, NEW i \in Timer, Running(t[i])
             PROVE  ReportedInstants(TickAll(t, cycles)[i].overflow, t[i]) =
                        ReportedInstants(TickAll(t, cycles - 1)[i].overflow, t[i])
                            \cup (IF LastCycle(cycles)[i].overflowed THEN {cycles} ELSE {})
  BY DEF OverflowInstantsExact
<1> DEFINE u == t[i]
           n == OwnTick(u, cycles - 1).overflow.count
           m == OwnTick(u, cycles).overflow.count
           First0 == First(u)
           gap == PeriodCycles(u)
<1>1. u \in TimerState /\ u.prescaler_counter < Period(u)
  BY DEF IInv, TypeOK, PhaseBelowPeriod, Running
<1>2. cycles \in Nat /\ cycles - 1 \in Nat
  BY TimersAssumption
<1>3. \A c \in Nat : TickAll(t, c)[i].overflow = OwnTick(u, c).overflow
  <2> SUFFICES ASSUME NEW c \in Nat PROVE TickAll(t, c)[i] = OwnTick(u, c)
    OBVIOUS
  <2>1. \A below : TickOne(t[i], c, below) = OwnTick(t[i], c)
    BY DEF TickOne, Running, Cascaded
  <2>2. i = 0 \/ i = 1 \/ i = 2 \/ i = 3
    BY DEF Timer
  <2> QED BY <2>1, <2>2, Four
<1>4. m = n + (IF LastCycle(cycles)[i].overflowed THEN 1 ELSE 0)
  <2>1. TickAll(t, cycles)[i].overflow.count =
           TickAll(t, cycles - 1)[i].overflow.count
              + (IF LastCycle(cycles)[i].overflowed THEN 1 ELSE 0)
    BY BatchInduction, Zenon DEF BatchEqualsCycles
  <2> QED BY <1>2, <1>3, <2>1
<1>5. /\ n \in Nat /\ m \in Nat
      /\ ReportedInstants(TickAll(t, cycles - 1)[i].overflow, u) =
            {First0 + k * gap : k \in 0 .. n - 1}
      /\ ReportedInstants(TickAll(t, cycles)[i].overflow, u) =
            {First0 + k * gap : k \in 0 .. m - 1}
  BY <1>1, <1>2, <1>3, InstantsOf
<1>6. First0 \in Nat /\ gap \in Nat
  BY <1>1, <1>2, CountAbove
<1>7. CASE LastCycle(cycles)[i].overflowed
  <2>1. m = n + 1
    BY <1>4, <1>7
  <2>2. m > n <=> cycles >= First0 + n * gap
    BY <1>1, <1>2, <1>5, CountAbove
  <2>3. n > n <=> cycles - 1 >= First0 + n * gap
    BY <1>1, <1>2, <1>5, CountAbove
  <2> HIDE DEF First0, gap, n, m, u
  <2>4. n * gap \in Nat
    BY <1>5, <1>6
  <2>5. cycles = First0 + n * gap
    BY <1>2, <1>5, <1>6, <2>1, <2>2, <2>3, <2>4
  <2>6. 0 .. m - 1 = (0 .. n - 1) \cup {n}
    BY <1>5, <2>1
  <2>7. {First0 + k * gap : k \in 0 .. m - 1} = {First0 + k * gap : k \in 0 .. n - 1} \cup {cycles}
    BY <2>5, <2>6
  <2> QED BY <1>5, <1>7, <2>7 DEF u
<1>8. CASE ~LastCycle(cycles)[i].overflowed
  <2>1. m = n
    BY <1>4, <1>5, <1>8
  <2> HIDE DEF First0, gap, n, m, u
  <2> QED BY <1>5, <1>8, <2>1 DEF u
<1> QED BY <1>7, <1>8

-----------------------------------------------------------------------------
(* The theorems *)

\* Whatever batches are counted and registers written (timer.rs), every timer
\* keeps its type and, while it is enabled, less than one prescaler period in
\* its prescaler: the unsigned subtraction of Timers::tick cannot wrap.
THEOREM TimersInvariant == Spec => []IInv
<1>1. Init => IInv
  <2> SUFFICES ASSUME Init PROVE TypeOK /\ PhaseBelowPeriod
    BY DEF IInv
  <2> QED BY TimersAssumption DEF Init, TypeOK, PhaseBelowPeriod, TimerState, Control
<1>2. IInv /\ [Next]_t => IInv'
  BY StepInv
<1> QED BY <1>1, <1>2, PTL DEF Spec

\* Every timer keeps its type.
THEOREM TimersTypeOK == Spec => []TypeOK
<1>1. IInv => TypeOK
  BY DEF IInv
<1> QED BY <1>1, TimersInvariant, PTL

\* Timers::tick never subtracts more than the period from the period.
THEOREM TimersPhaseBelowPeriod == Spec => []PhaseBelowPeriod
<1>1. IInv => PhaseBelowPeriod
  BY DEF IInv
<1> QED BY <1>1, TimersInvariant, PTL

\* In every state a batch of any length, counted at once as Timers::tick does,
\* is its cycles counted one by one: the same registers and as many overflows,
\* through any chain of cascades.
THEOREM TimersBatchEqualsCycles == Spec => []BatchEqualsCycles
<1>1. IInv => BatchEqualsCycles
  BY BatchInduction
<1> QED BY <1>1, TimersInvariant, PTL

\* The cycles that Bus::tick spaces from a report, the first and then one per
\* period, are those in which a timer without cascade overflows when it is
\* counted cycle by cycle: the FIFO pops fall where the hardware's do.
THEOREM TimersOverflowInstantsExact == Spec => []OverflowInstantsExact
<1>1. IInv => OverflowInstantsExact
  BY InstantsExact
<1> QED BY <1>1, TimersInvariant, PTL

-----------------------------------------------------------------------------
(* Affine reference points *)

AffineInv ==
    /\ line \in 0 .. LINES - 1 /\ blank \in BOOLEAN /\ moved \in BOOLEAN
    /\ pb \in Int /\ ref \in Int /\ internal \in Int
    /\ LinesFollowReference

LEMMA NoLinesNoMove == \A k, slope \in Int : k = k + 0 * slope
OBVIOUS

LEMMA AffineStart == AffineInit => AffineInv
<1> SUFFICES ASSUME AffineInit PROVE AffineInv
  OBVIOUS
<1>1. DrawnLines = 0
  BY AffineAssumption DEF AffineInit, DrawnLines
<1>2. internal = 0 /\ ref = 0 /\ pb = 0 /\ 0 = 0 + 0 * 0
  BY DEF AffineInit
<1>3. LinesFollowReference
  BY <1>1, <1>2 DEF LinesFollowReference
<1>4. 0 \in 0 .. LINES - 1
  BY AffineAssumption
<1>5. blank \in BOOLEAN /\ moved \in BOOLEAN
  BY Zenon DEF AffineInit
<1>6. line \in 0 .. LINES - 1 /\ pb \in Int /\ ref \in Int /\ internal \in Int
  BY <1>4 DEF AffineInit
<1> QED BY <1>3, <1>5, <1>6, Zenon DEF AffineInv

\* The lines drawn when HBlank begins: the line counts if it is visible.
LEMMA AffineHBlankStep ==
    ASSUME AffineInv, AffineHBlank PROVE AffineInv'
<1>1. CASE line < VISIBLE
  <2>1. DrawnLines' = DrawnLines + 1 /\ DrawnLines \in Nat
    BY <1>1, AffineAssumption DEF AffineInv, AffineHBlank, DrawnLines
  <2>2. \A n \in Nat, k \in Int : (n + 1) * k = n * k + k
    OBVIOUS
  <2>3. internal' = internal + pb /\ pb' = pb /\ ref' = ref /\ moved' = moved
    BY <1>1 DEF AffineHBlank
  <2>4. DrawnLines' * pb' = DrawnLines * pb + pb /\ DrawnLines * pb \in Int
    BY <2>1, <2>2, <2>3 DEF AffineInv
  <2>5. LinesFollowReference'
    <3> SUFFICES ASSUME ~moved PROVE internal + pb = ref + (DrawnLines * pb + pb)
      BY <2>3, <2>4 DEF LinesFollowReference
    <3>1. internal = ref + DrawnLines * pb
      BY DEF AffineInv, LinesFollowReference
    <3> DEFINE p == DrawnLines * pb
    <3>2. p \in Int /\ internal = ref + p
      BY <2>4, <3>1
    <3> HIDE DEF p
    <3>3. internal + pb = ref + (p + pb)
      BY <3>2 DEF AffineInv
    <3> QED BY <3>3 DEF p
  <2> QED BY <2>3, <2>5 DEF AffineInv, AffineHBlank
<1>2. CASE ~(line < VISIBLE)
  <2>1. DrawnLines' = DrawnLines /\ UNCHANGED <<line, pb, ref, internal, moved>>
    BY <1>2 DEF AffineHBlank, DrawnLines
  <2> QED BY <2>1 DEF AffineInv, AffineHBlank, LinesFollowReference
<1> QED BY <1>1, <1>2

\* A new line has the lines above it drawn; at VBlank the count starts again,
\* and so does the copy.
LEMMA AffineHDrawStep ==
    ASSUME AffineInv, AffineHDraw PROVE AffineInv'
<1>1. line' \in 0 .. LINES - 1 /\ line' = (IF line = LINES - 1 THEN 0 ELSE line + 1)
  BY AffineAssumption DEF AffineInv, AffineHDraw
<1>2. internal' \in Int /\ moved' \in BOOLEAN /\ UNCHANGED <<pb, ref>> /\ blank' = FALSE
  BY DEF AffineInv, AffineHDraw
<1>3. CASE line' = VISIBLE
  <2>1. DrawnLines' = 0 /\ internal' = ref'
    BY <1>2, <1>3 DEF AffineHDraw, DrawnLines
  <2>2. ref' = ref' + DrawnLines' * pb'
    BY <1>2, <2>1, NoLinesNoMove DEF AffineInv
  <2>3. LinesFollowReference'
    BY <2>1, <2>2 DEF LinesFollowReference
  <2> QED BY <1>1, <1>2, <2>3 DEF AffineInv
<1>4. CASE line' # VISIBLE
  <2>1. DrawnLines' = DrawnLines
    BY <1>1, <1>2, <1>4, AffineAssumption DEF AffineInv, AffineHDraw, DrawnLines
  <2>2. internal' = internal /\ (moved' <=> moved)
    BY <1>4 DEF AffineHDraw
  <2> QED BY <1>1, <1>2, <2>1, <2>2 DEF AffineInv, LinesFollowReference
<1> QED BY <1>3, <1>4

LEMMA SignExtendedInt ==
    ASSUME NEW v \in Int PROVE SignExtended(v) \in Int
BY AffineAssumption DEF SignExtended

\* A write below the first line is a move; above it no line has been drawn.
LEMMA AffineWriteRef ==
    ASSUME AffineInv, NEW v \in Int, WriteRef(v) PROVE AffineInv'
<1>1. ref' \in Int /\ internal' = ref' /\ DrawnLines' = DrawnLines
  BY SignExtendedInt DEF WriteRef, DrawnLines
<1>2. DrawnLines \in Nat
  BY AffineAssumption DEF AffineInv, DrawnLines
<1>3. DrawnLines > 0 => moved'
  BY DEF WriteRef
<1>4. DrawnLines = 0 => ref' = ref' + DrawnLines * pb
  BY <1>1, NoLinesNoMove DEF AffineInv
<1>5. LinesFollowReference'
  BY <1>1, <1>2, <1>3, <1>4 DEF WriteRef, LinesFollowReference
<1> QED BY <1>1, <1>5 DEF AffineInv, WriteRef

LEMMA AffineWritePb ==
    ASSUME AffineInv, NEW v \in Slopes, WritePb(v) PROVE AffineInv'
<1>1. v \in Int /\ pb' = v /\ DrawnLines' = DrawnLines
  BY AffineAssumption DEF WritePb, DrawnLines
<1>2. DrawnLines \in Nat
  BY AffineAssumption DEF AffineInv, DrawnLines
<1>3. CASE DrawnLines > 0
  <2>1. moved'
    BY <1>3 DEF WritePb
  <2> QED BY <1>1, <2>1 DEF AffineInv, WritePb, LinesFollowReference
<1>4. CASE DrawnLines = 0
  <2>1. ref + DrawnLines * pb = ref /\ ref + DrawnLines * v = ref
    BY <1>1, <1>4, NoLinesNoMove DEF AffineInv
  <2>2. internal' = internal /\ ref' = ref /\ ~(DrawnLines > 0)
    BY <1>4 DEF WritePb
  <2>3. moved => moved'
    BY Zenon DEF WritePb
  <2>4. ~moved => internal = ref
    BY <2>1 DEF AffineInv, LinesFollowReference
  <2>5. ~moved' => internal' = ref' + DrawnLines' * pb'
    <3>1. ref' + DrawnLines' * pb' = ref
      BY <1>1, <2>1, <2>2
    <3> SUFFICES ASSUME ~moved' PROVE internal' = ref
      BY <3>1
    <3>2. ~moved
      BY <2>3, Zenon
    <3> QED BY <2>2, <2>4, <3>2
  <2> QED BY <1>1, <2>5 DEF AffineInv, WritePb, LinesFollowReference
<1> QED BY <1>2, <1>3, <1>4

LEMMA AffineStep == AffineInv /\ [AffineNext]_affineVars => AffineInv'
<1> SUFFICES ASSUME AffineInv, [AffineNext]_affineVars PROVE AffineInv'
  OBVIOUS
<1>1. CASE AffineHBlank
  BY <1>1, AffineHBlankStep
<1>2. CASE AffineHDraw
  BY <1>2, AffineHDrawStep
<1>3. CASE \E val \in Halves : WriteRefLow(val) \/ WriteRefHigh(val)
  <2>1. PICK val \in Halves : WriteRefLow(val) \/ WriteRefHigh(val)
    BY <1>3
  <2>2. val \in Int /\ ref - (ref % HALF) + val \in Int /\ (ref % HALF) + val * HALF \in Int
    BY AffineAssumption DEF AffineInv
  <2> QED BY <2>1, <2>2, AffineWriteRef DEF WriteRefLow, WriteRefHigh
<1>4. CASE \E val \in Slopes : WritePb(val)
  BY <1>4, AffineWritePb
<1>5. CASE UNCHANGED affineVars
  BY <1>5 DEF affineVars, AffineInv, LinesFollowReference, DrawnLines
<1> QED BY <1>1, <1>2, <1>3, <1>4, <1>5 DEF AffineNext

\* Every line of a frame in which the program leaves reference point and slope
\* alone below the first line is drawn from the point the program set, moved
\* by the slope for each line above it, whatever it did in the frame before.
THEOREM AffineLinesFollowReference == AffineSpec => []LinesFollowReference
<1>1. AffineInv => LinesFollowReference
  BY DEF AffineInv
<1> QED BY AffineStart, AffineStep, <1>1, PTL DEF AffineSpec

-----------------------------------------------------------------------------
(* The line of the picture: places on a circle *)

LEMMA CompositorConstants ==
    /\ XWRAP \in Nat /\ XWRAP > 0 /\ YWRAP \in Nat /\ YWRAP > 0
    /\ SPRITES \in Nat /\ SCREEN_W \in Nat /\ SCREEN_H \in Nat
    /\ SCREEN_W <= XWRAP /\ SCREEN_W <= YWRAP /\ SCREEN_H <= YWRAP
    /\ BG \subseteq 0 .. 3
BY CompositorAssumption

\* The distance from one place of a circle to another.
LEMMA ArcLength ==
    ASSUME NEW p \in Nat \ {0}, NEW a \in 0 .. p - 1, NEW b \in 0 .. p - 1
    PROVE  (b - a) % p = IF a <= b THEN b - a ELSE b - a + p
<1>1. CASE a <= b
  <2>1. b - a = p * 0 + (b - a) /\ b - a \in 0 .. p - 1
    BY <1>1
  <2> QED BY <1>1, <2>1
<1>2. CASE ~(a <= b)
  <2>1. PICK k \in 0 .. p - 1 : k = b - a + p
    BY <1>2
  <2>2. b - a = p * (-1) + k
    BY <2>1
  <2>3. (p * (-1) + k) % p = k
    OBVIOUS
  <2> QED BY <1>2, <2>1, <2>2, <2>3
<1> QED BY <1>1, <1>2

\* A range that does not reach here around the edge is the declared one.
LEMMA RangeIsWithin ==
    ASSUME NEW edge \in Nat, NEW r, r[1] \in Nat, r[2] \in Nat, NEW p \in 0 .. edge - 1,
           r[1] <= r[2] \/ p >= r[2]
    PROVE  InRange(r, p) <=> Within(r, edge, p)
<1>1. PICK from, to \in Nat : from = r[1] /\ to = r[2]
  OBVIOUS
<1>2. InRange(r, p) <=> IF from <= to THEN p >= from /\ p < to ELSE p >= from \/ p < to
  BY <1>1 DEF InRange
<1>3. Within(r, edge, p) <=> p >= from /\ p < (IF to > edge \/ from > to THEN edge ELSE to)
  BY <1>1 DEF Within
<1> QED BY <1>1, <1>2, <1>3

\* A sprite that does not pass the end of the circle covers the pixels whose
\* distance from its origin, counted on the screen, is within its size.
LEMMA SpriteArc ==
    ASSUME NEW p \in Nat \ {0}, NEW screen \in 0 .. p, NEW pos \in 0 .. p - 1, NEW size \in Nat,
           pos < screen => pos + size <= p,
           NEW x \in 0 .. screen - 1
    PROVE  LET k == x - Origin(pos, screen, p)
           IN  /\ k \in 0 .. size - 1 <=> OnArc(pos, size, p, x)
               /\ k \in 0 .. size - 1 => k = (x - pos) % p
<1>1. x \in 0 .. p - 1
  OBVIOUS
<1>2. (x - pos) % p = IF pos <= x THEN x - pos ELSE x - pos + p
  BY <1>1, ArcLength
<1>3. OnArc(pos, size, p, x) <=> (x - pos) % p < size
  BY DEF OnArc
<1>4. CASE pos < screen
  <2>1. Origin(pos, screen, p) = pos
    BY <1>4 DEF Origin
  <2> QED BY <1>1, <1>2, <1>3, <1>4, <2>1
<1>5. CASE ~(pos < screen)
  <2>1. Origin(pos, screen, p) = pos - p
    BY <1>5 DEF Origin
  <2> QED BY <1>1, <1>2, <1>3, <1>5, <2>1
<1> QED BY <1>4, <1>5

-----------------------------------------------------------------------------
(* The line of the picture: the invariant, and one sprite *)

\* Entries of OAM that do not pass the ends of their circles.
Fitting ==
    {e \in Entry : /\ e.x < SCREEN_W => e.x + e.w <= XWRAP
                   /\ e.y < SCREEN_H => e.y + e.h <= YWRAP}

CompositorTypeOK ==
    /\ dispcnt.layers \subseteq BG \cup {OBJ} /\ dispcnt.windows \subseteq Windows
    /\ bgPrio \in [BG -> 0 .. 3]
    /\ winh \in [{"win0", "win1"} -> RangesH \cup {<<0, 0>>}]
    /\ winv \in [{"win0", "win1"} -> RangesV \cup {<<0, 0>>}]
    /\ bldcnt \in [mode : 0 .. 3, first : SUBSET (0 .. 5), second : SUBSET (0 .. 5)]
    /\ oam \in [0 .. SPRITES - 1 -> Fitting]

LEMMA EntriesFit == Entries \subseteq Fitting
<1> SUFFICES ASSUME NEW e \in Entries PROVE e \in Fitting
  OBVIOUS
<1>1. e \in Entry
  BY CompositorAssumption
<1>2. \A f \in Entries : (f.x < SCREEN_W => f.x + f.w <= XWRAP) /\ (f.y < SCREEN_H => f.y + f.h <= YWRAP)
  BY CompositorAssumption
<1> QED BY <1>1, <1>2 DEF Fitting

LEMMA CompositorInitInv == CompositorInit => CompositorTypeOK
<1> SUFFICES ASSUME CompositorInit PROVE CompositorTypeOK
  OBVIOUS
<1>1. HiddenEntry \in Fitting
  <2>1. HiddenEntry \in Entry
    BY CompositorConstants DEF HiddenEntry, Entry
  <2>2. HiddenEntry.x = 0 /\ HiddenEntry.y = 0 /\ HiddenEntry.w = 0 /\ HiddenEntry.h = 0
    BY DEF HiddenEntry
  <2> QED BY <2>1, <2>2, CompositorConstants DEF Fitting
<1> QED BY <1>1 DEF CompositorInit, CompositorTypeOK

LEMMA CompositorStepInv == CompositorTypeOK /\ [CompositorNext]_compositorVars => CompositorTypeOK'
<1> SUFFICES ASSUME CompositorTypeOK, [CompositorNext]_compositorVars PROVE CompositorTypeOK'
  OBVIOUS
<1> USE DEF CompositorTypeOK
<1>1. ASSUME NEW val \in Dispcnts, WriteDispcnt(val) PROVE CompositorTypeOK'
  BY <1>1, CompositorAssumption DEF WriteDispcnt
<1>2. ASSUME NEW b \in BG, NEW prio \in Priorities, WriteBgcnt(b, prio) PROVE CompositorTypeOK'
  BY <1>2, CompositorAssumption DEF WriteBgcnt
<1>3. ASSUME NEW w \in {"win0", "win1"}, NEW r \in RangesH, WriteWinH(w, r) PROVE CompositorTypeOK'
  BY <1>3 DEF WriteWinH
<1>4. ASSUME NEW w \in {"win0", "win1"}, NEW r \in RangesV, WriteWinV(w, r) PROVE CompositorTypeOK'
  BY <1>4 DEF WriteWinV
<1>5. ASSUME NEW val \in Regions, WriteRegions(val) PROVE CompositorTypeOK'
  BY <1>5 DEF WriteRegions
<1>6. ASSUME NEW val \in Blends, WriteBldcnt(val) PROVE CompositorTypeOK'
  <2>1. val \in [mode : 0 .. 3, first : SUBSET (0 .. 5), second : SUBSET (0 .. 5)]
    BY CompositorAssumption
  <2> QED BY <1>6, <2>1 DEF WriteBldcnt
<1>7. ASSUME NEW n \in DOMAIN oam, NEW e \in Entries, WriteOam(n, e) PROVE CompositorTypeOK'
  <2>1. e \in Fitting
    BY EntriesFit
  <2>2. oam' \in [0 .. SPRITES - 1 -> Fitting]
    BY <1>7, <2>1 DEF WriteOam
  <2> QED BY <1>7, <2>2 DEF WriteOam
<1>8. CASE UNCHANGED compositorVars
  BY <1>8 DEF compositorVars
<1> QED BY <1>1, <1>2, <1>3, <1>4, <1>5, <1>6, <1>7, <1>8 DEF CompositorNext

\* Drawing a sprite changes the pixels it is on.
LEMMA DrawnSprite ==
    ASSUME CompositorTypeOK, NEW n \in 0 .. SPRITES - 1, NEW row \in 0 .. SCREEN_H - 1,
           NEW buf, buf = [x \in Pixels |-> buf[x]]
    PROVE  DrawSprite(buf, n, row) =
              [x \in Pixels |->
                  IF n \in SpritesAt(x, row)
                  THEN [obj |-> n, prio |-> oam[n].prio, mode |-> oam[n].mode] ELSE buf[x]]
<1> DEFINE e == oam[n]
           ly == row - Origin(e.y, SCREEN_H, YWRAP)
           lx(x) == x - Origin(e.x, SCREEN_W, XWRAP)
           texel(x) == <<Flipped(e.hflip, e.w, lx(x)), Flipped(e.vflip, e.h, ly)>>
           hit(x) == lx(x) \in 0 .. e.w - 1 /\ texel(x) \in e.opaque
           rec == [obj |-> n, prio |-> e.prio, mode |-> e.mode]
<1>1. DrawSprite(buf, n, row) =
         IF e.hidden \/ ly \notin 0 .. e.h - 1 THEN buf
         ELSE [x \in Pixels |-> IF hit(x) THEN rec ELSE buf[x]]
  BY Zenon DEF DrawSprite
<1>2. /\ e.x \in 0 .. XWRAP - 1 /\ e.y \in 0 .. YWRAP - 1 /\ e.w \in Nat /\ e.h \in Nat
      /\ e.x < SCREEN_W => e.x + e.w <= XWRAP
      /\ e.y < SCREEN_H => e.y + e.h <= YWRAP
      /\ n \in DOMAIN oam
  <2>1. e \in Fitting
    BY DEF CompositorTypeOK
  <2>2. e \in Entry
    BY <2>1 DEF Fitting
  <2>3. n \in DOMAIN oam
    BY DEF CompositorTypeOK
  <2> HIDE DEF e
  <2> QED BY <2>1, <2>2, <2>3 DEF Fitting, Entry
<1>3. /\ ly \in 0 .. e.h - 1 <=> OnArc(e.y, e.h, YWRAP, row)
      /\ ly \in 0 .. e.h - 1 => ly = (row - e.y) % YWRAP
  <2> HIDE DEF e
  <2>1. YWRAP \in Nat \ {0} /\ SCREEN_H \in 0 .. YWRAP
    BY CompositorConstants
  <2> QED BY <1>2, <2>1, SpriteArc
<1>4. ASSUME NEW x \in Pixels
      PROVE  /\ lx(x) \in 0 .. e.w - 1 <=> OnArc(e.x, e.w, XWRAP, x)
             /\ lx(x) \in 0 .. e.w - 1 => lx(x) = (x - e.x) % XWRAP
  <2> HIDE DEF e
  <2>1. XWRAP \in Nat \ {0} /\ SCREEN_W \in 0 .. XWRAP /\ x \in 0 .. SCREEN_W - 1
    BY CompositorConstants DEF Pixels
  <2> QED BY <1>2, <2>1, SpriteArc
<1>5. \A x : n \in SpritesAt(x, row) <=>
              /\ ~e.hidden
              /\ OnArc(e.x, e.w, XWRAP, x) /\ OnArc(e.y, e.h, YWRAP, row)
              /\ <<Flipped(e.hflip, e.w, (x - e.x) % XWRAP), Flipped(e.vflip, e.h, (row - e.y) % YWRAP)>>
                    \in e.opaque
  BY <1>2, Zenon DEF SpritesAt, SpriteTexel
<1>6. ASSUME NEW x \in Pixels
      PROVE  n \in SpritesAt(x, row) <=> ~e.hidden /\ ly \in 0 .. e.h - 1 /\ hit(x)
  <2>1. CASE ~(lx(x) \in 0 .. e.w - 1 /\ ly \in 0 .. e.h - 1)
    <3> HIDE DEF lx, ly, e
    <3> QED BY <1>3, <1>4, <1>5, <2>1
  <2>2. CASE lx(x) \in 0 .. e.w - 1 /\ ly \in 0 .. e.h - 1
    <3>1. lx(x) = (x - e.x) % XWRAP /\ ly = (row - e.y) % YWRAP
      BY <1>3, <1>4, <2>2
    <3>2. texel(x) = <<Flipped(e.hflip, e.w, (x - e.x) % XWRAP),
                       Flipped(e.vflip, e.h, (row - e.y) % YWRAP)>>
      <4> HIDE DEF lx, ly, e
      <4> QED BY <3>1
    <3>3. /\ OnArc(e.x, e.w, XWRAP, x) /\ OnArc(e.y, e.h, YWRAP, row)
      BY <1>3, <1>4, <2>2
    <3> HIDE DEF lx, ly, e, texel
    <3> QED BY <1>5, <2>2, <3>2, <3>3, Zenon
  <2> QED BY <2>1, <2>2
<1> HIDE DEF e, ly, hit
<1>7. rec = [obj |-> n, prio |-> oam[n].prio, mode |-> oam[n].mode]
  BY DEF e
<1> HIDE DEF rec
<1>8. CASE e.hidden \/ ly \notin 0 .. e.h - 1
  <2>1. DrawSprite(buf, n, row) = buf
    BY <1>1, <1>8
  <2>2. \A x \in Pixels : n \notin SpritesAt(x, row)
    BY <1>6, <1>8
  <2> QED BY <2>1, <2>2
<1>9. CASE ~(e.hidden \/ ly \notin 0 .. e.h - 1)
  <2>1. DrawSprite(buf, n, row) = [x \in Pixels |-> IF hit(x) THEN rec ELSE buf[x]]
    BY <1>1, <1>9
  <2>2. \A x \in Pixels : n \in SpritesAt(x, row) <=> hit(x)
    BY <1>6, <1>9
  <2> QED BY <1>7, <2>1, <2>2
<1> QED BY <1>8, <1>9

-----------------------------------------------------------------------------
(* The line of the picture: the sprites from the tail to the first *)

LEMMA LeastExists ==
    ASSUME NEW S, S \subseteq Nat, S # {}
    PROVE  \E m \in S : \A k \in S : m <= k
<1> DEFINE R == {p \in Nat \X Nat : p[1] < p[2]}
<1>1. IsWellFoundedOn(R, Nat)
  BY NatLessThanWellFounded DEF OpToRel
<1>2. \A n, k \in Nat : n < k => <<n, k>> \in R
  OBVIOUS
<1> HIDE DEF R
<1>3. PICK m \in S : \A k \in S : <<k, m>> \notin R
  BY <1>1, WFMin, Zenon
<1>4. \A k \in S : m <= k
  <2> SUFFICES ASSUME NEW k \in S, k < m PROVE FALSE
    OBVIOUS
  <2> QED BY <1>2, <1>3
<1> QED BY <1>4

\* The line buffer after the sprites from n on have been drawn.
FrontFrom(x, row, n) ==
    LET here == {m \in SpritesAt(x, row) : m >= n}
        front == CHOOSE m \in here : \A k \in here : m <= k
    IN  IF here = {} THEN NO_SPRITE
        ELSE [obj |-> front, prio |-> oam[front].prio, mode |-> oam[front].mode]

LEMMA LeastIs ==
    ASSUME NEW S, S \subseteq Nat, NEW m \in S, \A k \in S : m <= k
    PROVE  (CHOOSE l \in S : \A k \in S : l <= k) = m
<1>1. \A l, k \in Nat : l <= k /\ k <= l => l = k
  OBVIOUS
<1> QED BY <1>1

LEMMA SpriteNumbers ==
    ASSUME CompositorTypeOK, NEW x, NEW row
    PROVE  SpritesAt(x, row) \subseteq 0 .. SPRITES - 1
BY DEF SpritesAt, CompositorTypeOK

LEMMA FrontStep ==
    ASSUME CompositorTypeOK, NEW x, NEW row, NEW n \in 0 .. SPRITES - 1
    PROVE  FrontFrom(x, row, n) =
              IF n \in SpritesAt(x, row)
              THEN [obj |-> n, prio |-> oam[n].prio, mode |-> oam[n].mode]
              ELSE FrontFrom(x, row, n + 1)
<1> DEFINE all == SpritesAt(x, row)
           here == {m \in all : m >= n}
           rest == {m \in all : m >= n + 1}
<1>1. all \subseteq Nat
  BY SpriteNumbers, CompositorConstants
<1>2. CASE n \in all
  <2>1. n \in here /\ here \subseteq Nat /\ \A k \in here : n <= k
    BY <1>1, <1>2
  <2> HIDE DEF here
  <2>2. (CHOOSE l \in here : \A k \in here : l <= k) = n
    BY <2>1, LeastIs
  <2>3. FrontFrom(x, row, n) =
           IF here = {} THEN NO_SPRITE
           ELSE [obj |-> (CHOOSE l \in here : \A k \in here : l <= k),
                 prio |-> oam[CHOOSE l \in here : \A k \in here : l <= k].prio,
                 mode |-> oam[CHOOSE l \in here : \A k \in here : l <= k].mode]
    BY Zenon DEF FrontFrom, here
  <2> QED BY <1>2, <2>1, <2>2, <2>3
<1>3. CASE n \notin all
  <2>1. here = rest
    BY <1>1, <1>3
  <2> QED BY <1>3, <2>1 DEF FrontFrom
<1> QED BY <1>2, <1>3

\* The sprite in front of all, shown or not.
FrontSprite(x, row) == FrontOf(SpritesAt(x, row))

LEMMA FrontEnd ==
    ASSUME CompositorTypeOK, NEW x, NEW row
    PROVE  /\ FrontFrom(x, row, SPRITES) = NO_SPRITE
           /\ FrontSprite(x, row) = IF OBJ \notin dispcnt.layers THEN NO_SPRITE
                                     ELSE FrontFrom(x, row, 0)
<1>1. {m \in SpritesAt(x, row) : m >= SPRITES} = {}
  BY SpriteNumbers, CompositorConstants
<1>2. {m \in SpritesAt(x, row) : m >= 0} = SpritesAt(x, row)
  BY SpriteNumbers, CompositorConstants
<1>3. FrontFrom(x, row, SPRITES) = NO_SPRITE
  BY <1>1 DEF FrontFrom
<1> QED BY <1>2, <1>3 DEF FrontFrom, FrontSprite, FrontOf

\* The equations that define the line buffer of RenderSprites.
Drawn(f, row) ==
    f = [n \in 0 .. SPRITES |->
            IF n = SPRITES THEN ClearLine ELSE DrawSprite(f[n + 1], n, row)]

LEMMA FrontSolves ==
    ASSUME CompositorTypeOK, NEW row \in 0 .. SCREEN_H - 1
    PROVE  Drawn([n \in 0 .. SPRITES |-> [x \in Pixels |-> FrontFrom(x, row, n)]], row)
<1> DEFINE f == [n \in 0 .. SPRITES |-> [x \in Pixels |-> FrontFrom(x, row, n)]]
<1>1. f[SPRITES] = ClearLine
  BY FrontEnd, CompositorConstants DEF ClearLine
<1>2. ASSUME NEW n \in 0 .. SPRITES, n # SPRITES PROVE f[n] = DrawSprite(f[n + 1], n, row)
  <2>1. n \in 0 .. SPRITES - 1 /\ n + 1 \in 0 .. SPRITES
    BY <1>2, CompositorConstants
  <2>2. f[n + 1] = [x \in Pixels |-> FrontFrom(x, row, n + 1)]
    BY <2>1
  <2>3. f[n] = [x \in Pixels |-> FrontFrom(x, row, n)]
    BY <2>1
  <2> HIDE DEF f
  <2>4. f[n + 1] = [x \in Pixels |-> f[n + 1][x]]
    BY <2>2
  <2>5. DrawSprite(f[n + 1], n, row) =
           [x \in Pixels |->
               IF n \in SpritesAt(x, row)
               THEN [obj |-> n, prio |-> oam[n].prio, mode |-> oam[n].mode] ELSE f[n + 1][x]]
    BY <2>1, <2>4, DrawnSprite
  <2>6. \A x \in Pixels :
           FrontFrom(x, row, n) =
               IF n \in SpritesAt(x, row)
               THEN [obj |-> n, prio |-> oam[n].prio, mode |-> oam[n].mode] ELSE f[n + 1][x]
    BY <2>1, <2>2, FrontStep
  <2> QED BY <2>3, <2>5, <2>6
<1>3. f = [n \in 0 .. SPRITES |-> f[n]]
  OBVIOUS
<1> HIDE DEF f
<1>4. f = [n \in 0 .. SPRITES |->
              IF n = SPRITES THEN ClearLine ELSE DrawSprite(f[n + 1], n, row)]
  BY <1>1, <1>2, <1>3
<1>5. Drawn(f, row)
  BY <1>4, Zenon DEF Drawn
<1> QED BY <1>5 DEF f

\* Two solutions are equal: at the last place where they differ they come from
\* the same buffer.
LEMMA DrawnOnce ==
    ASSUME NEW row, NEW f, NEW g, Drawn(f, row), Drawn(g, row)
    PROVE  f = g
<1> DEFINE bad == {k \in Nat : k <= SPRITES /\ f[SPRITES - k] # g[SPRITES - k]}
<1>1. /\ f = [n \in 0 .. SPRITES |->
                IF n = SPRITES THEN ClearLine ELSE DrawSprite(f[n + 1], n, row)]
      /\ g = [n \in 0 .. SPRITES |->
                IF n = SPRITES THEN ClearLine ELSE DrawSprite(g[n + 1], n, row)]
  BY Zenon DEF Drawn
<1>2. /\ \A n \in 0 .. SPRITES :
            f[n] = IF n = SPRITES THEN ClearLine ELSE DrawSprite(f[n + 1], n, row)
      /\ \A n \in 0 .. SPRITES :
            g[n] = IF n = SPRITES THEN ClearLine ELSE DrawSprite(g[n + 1], n, row)
  BY <1>1
<1>3. SPRITES \in Nat
  BY CompositorConstants
<1>4. bad = {}
  <2> SUFFICES ASSUME bad # {} PROVE FALSE
    OBVIOUS
  <2>1. PICK k \in bad : \A l \in bad : k <= l
    <3>1. bad \subseteq Nat
      OBVIOUS
    <3> HIDE DEF bad
    <3> QED BY <3>1, LeastExists
  <2>2. k \in Nat /\ SPRITES - k \in 0 .. SPRITES /\ f[SPRITES - k] # g[SPRITES - k]
    BY <1>3
  <2>3. k # 0
    <3> SUFFICES ASSUME k = 0 PROVE FALSE
      OBVIOUS
    <3>1. SPRITES - k = SPRITES /\ SPRITES \in 0 .. SPRITES
      BY <1>3
    <3>2. f[SPRITES] = ClearLine /\ g[SPRITES] = ClearLine
      BY <1>2, <3>1
    <3> QED BY <2>2, <3>1, <3>2
  <2>4. PICK n \in 0 .. SPRITES : n = SPRITES - k /\ n # SPRITES
    BY <1>3, <2>2, <2>3
  <2>5. f[n + 1] = g[n + 1]
    <3>1. k - 1 \in Nat /\ k - 1 <= SPRITES /\ SPRITES - (k - 1) = n + 1 /\ ~(k <= k - 1)
      BY <1>3, <2>2, <2>3, <2>4
    <3>2. k - 1 \notin bad
      <4> HIDE DEF bad
      <4> QED BY <2>1, <3>1
    <3>3. ~(f[SPRITES - (k - 1)] # g[SPRITES - (k - 1)])
      BY <3>1, <3>2
    <3> HIDE DEF bad
    <3> QED BY <3>1, <3>3
  <2>6. f[n] = DrawSprite(f[n + 1], n, row) /\ g[n] = DrawSprite(g[n + 1], n, row)
    BY <1>2, <2>4
  <2>7. f[n] = g[n]
    BY <2>5, <2>6, Zenon
  <2> QED BY <2>2, <2>4, <2>7
<1>5. ASSUME NEW n \in 0 .. SPRITES PROVE f[n] = g[n]
  <2>1. SPRITES - n \in Nat /\ SPRITES - n <= SPRITES /\ SPRITES - (SPRITES - n) = n
    BY <1>3
  <2>2. SPRITES - n \notin bad
    BY <1>4
  <2>3. ~(f[SPRITES - (SPRITES - n)] # g[SPRITES - (SPRITES - n)])
    BY <2>1, <2>2
  <2> HIDE DEF bad
  <2> QED BY <2>1, <2>3
<1>6. f = [n \in 0 .. SPRITES |-> f[n]] /\ g = [n \in 0 .. SPRITES |-> g[n]]
  <2>1. DOMAIN f = 0 .. SPRITES /\ DOMAIN g = 0 .. SPRITES
    BY <1>1
  <2> QED BY <1>1, <2>1
<1> HIDE DEF bad
<1> QED BY <1>5, <1>6

\* The line buffer holds the front sprite of each pixel.
LEMMA BufferFront ==
    ASSUME CompositorTypeOK, NEW row \in 0 .. SCREEN_H - 1, NEW x \in Pixels
    PROVE  RenderSprites(row)[x] = FrontSprite(x, row)
<1> DEFINE front == [n \in 0 .. SPRITES |-> [y \in Pixels |-> FrontFrom(y, row, n)]]
           after == CHOOSE f : Drawn(f, row)
<1>1. Drawn(front, row)
  BY FrontSolves
<1>2. RenderSprites(row) = IF OBJ \in dispcnt.layers THEN after[0] ELSE ClearLine
  BY Zenon DEF RenderSprites, Drawn
<1> HIDE DEF front
<1>3. Drawn(after, row)
  BY <1>1, Zenon
<1> HIDE DEF after
<1>4. after = front
  BY <1>1, <1>3, DrawnOnce
<1>5. front[0][x] = FrontFrom(x, row, 0)
  BY CompositorConstants DEF front
<1>6. ClearLine[x] = NO_SPRITE
  BY DEF ClearLine
<1>7. FrontSprite(x, row) = IF OBJ \notin dispcnt.layers THEN NO_SPRITE ELSE FrontFrom(x, row, 0)
  BY FrontEnd
<1> QED BY <1>2, <1>4, <1>5, <1>6, <1>7

-----------------------------------------------------------------------------
(* The line of the picture: windows *)

\* The pixel is in the range of window w.
InWindow(w, x, row) == w \in dispcnt.windows /\ InRange(winv[w], row) /\ InRange(winh[w], x)

LEMMA WindowRanges ==
    ASSUME CompositorTypeOK, NEW w \in {"win0", "win1"},
           NEW row \in 0 .. SCREEN_H - 1, NEW x \in Pixels, NoRangeGoesAround(x, row)
    PROVE  w \in InsideOf(x, row) <=> InWindow(w, x, row)
<1>1. /\ winh[w][1] \in Nat /\ winh[w][2] \in Nat
      /\ winv[w][1] \in Nat /\ winv[w][2] \in Nat
  <2>1. winh[w] \in RangesH \cup {<<0, 0>>} /\ winv[w] \in RangesV \cup {<<0, 0>>}
    BY DEF CompositorTypeOK
  <2>2. \A r \in RangesH \cup RangesV : r[1] \in 0 .. YWRAP - 1 /\ r[2] \in 0 .. YWRAP - 1
    BY CompositorAssumption
  <2>3. \A r \in RangesH \cup RangesV \cup {<<0, 0>>} : r[1] \in Nat /\ r[2] \in Nat
    BY <2>2
  <2> QED BY <2>1, <2>3
<1>2. x \in 0 .. SCREEN_W - 1 /\ SCREEN_W \in Nat /\ SCREEN_H \in Nat
  BY CompositorConstants DEF Pixels
<1>3. w \in InsideOf(x, row)
         <=> /\ w \in dispcnt.windows
             /\ Within(winh[w], SCREEN_W, x) /\ Within(winv[w], SCREEN_H, row)
  BY DEF InsideOf
<1>4. CASE w \in dispcnt.windows
  <2>1. /\ winh[w][1] <= winh[w][2] \/ x >= winh[w][2]
        /\ winv[w][1] <= winv[w][2] \/ row >= winv[w][2]
    BY <1>4 DEF NoRangeGoesAround
  <2>2. InRange(winh[w], x) <=> Within(winh[w], SCREEN_W, x)
    BY <1>1, <1>2, <2>1, RangeIsWithin
  <2>3. InRange(winv[w], row) <=> Within(winv[w], SCREEN_H, row)
    BY <1>1, <1>2, <2>1, RangeIsWithin
  <2> QED BY <1>3, <2>2, <2>3 DEF InWindow
<1>5. CASE w \notin dispcnt.windows
  BY <1>3, <1>5 DEF InWindow
<1> QED BY <1>4, <1>5

\* The first of some sprites is the one in front of them.
LEMMA FrontIs ==
    ASSUME CompositorTypeOK, NEW x, NEW row, NEW sprites, sprites \subseteq SpritesAt(x, row),
           OBJ \in dispcnt.layers, NEW n \in sprites, \A m \in sprites : n <= m
    PROVE  FrontOf(sprites) = [obj |-> n, prio |-> oam[n].prio, mode |-> oam[n].mode]
<1>1. sprites \subseteq Nat
  BY SpriteNumbers, CompositorConstants
<1>2. (CHOOSE l \in sprites : \A k \in sprites : l <= k) = n
  BY <1>1, LeastIs
<1>3. FrontOf(sprites) =
         IF OBJ \notin dispcnt.layers \/ sprites = {} THEN NO_SPRITE
         ELSE [obj |-> (CHOOSE l \in sprites : \A k \in sprites : l <= k),
               prio |-> oam[CHOOSE l \in sprites : \A k \in sprites : l <= k].prio,
               mode |-> oam[CHOOSE l \in sprites : \A k \in sprites : l <= k].mode]
  BY Zenon DEF FrontOf
<1> QED BY <1>2, <1>3

LEMMA FrontExists ==
    ASSUME CompositorTypeOK, NEW x, NEW row, OBJ \in dispcnt.layers, SpritesAt(x, row) # {}
    PROVE  \E n \in SpritesAt(x, row) :
              /\ \A m \in SpritesAt(x, row) : n <= m
              /\ FrontSprite(x, row) = [obj |-> n, prio |-> oam[n].prio, mode |-> oam[n].mode]
<1>1. SpritesAt(x, row) \subseteq Nat
  BY SpriteNumbers, CompositorConstants
<1>2. PICK n \in SpritesAt(x, row) : \A m \in SpritesAt(x, row) : n <= m
  BY <1>1, LeastExists
<1> QED BY <1>2, FrontIs DEF FrontSprite

\* Where the sprites of the OBJ window only mask, the front sprite tells the
\* OBJ window, but inside another window.
LEMMA FrontTellsMask ==
    ASSUME CompositorTypeOK, NEW x, NEW row, MasksOnlyMask(x, row),
           "win0" \notin InsideOf(x, row), "win1" \notin InsideOf(x, row)
    PROVE  "objwin" \in InsideOf(x, row)
              <=> "objwin" \in dispcnt.windows /\ FrontSprite(x, row).mode = "window"
<1> DEFINE sprite == FrontSprite(x, row)
<1>1. "objwin" \in InsideOf(x, row)
         <=> "objwin" \in dispcnt.windows /\ OBJ \in dispcnt.layers /\ MasksAt(x, row) # {}
  BY DEF InsideOf
<1>2. sprite.mode = "window" => OBJ \in dispcnt.layers /\ MasksAt(x, row) # {}
  <2> SUFFICES ASSUME sprite.mode = "window"
               PROVE  OBJ \in dispcnt.layers /\ MasksAt(x, row) # {}
    OBVIOUS
  <2>1. OBJ \in dispcnt.layers /\ SpritesAt(x, row) # {}
    <3> SUFFICES ASSUME OBJ \notin dispcnt.layers \/ SpritesAt(x, row) = {} PROVE FALSE
      OBVIOUS
    <3>1. sprite = NO_SPRITE
      BY DEF FrontSprite, FrontOf
    <3> QED BY <3>1 DEF NO_SPRITE
  <2>2. PICK n \in SpritesAt(x, row) :
            sprite = [obj |-> n, prio |-> oam[n].prio, mode |-> oam[n].mode]
    BY <2>1, FrontExists
  <2>3. oam[n].mode = "window"
    BY <2>2
  <2> QED BY <2>1, <2>3 DEF MasksAt
<1>3. CASE OBJ \notin dispcnt.layers \/ MasksAt(x, row) = {}
  BY <1>1, <1>2, <1>3
<1>4. CASE sprite.mode = "window"
  BY <1>1, <1>2, <1>4
<1>5. CASE "objwin" \notin dispcnt.windows
  BY <1>1, <1>5
<1>6. InsideOf(x, row) \cap {"win0", "win1"} = {}
  OBVIOUS
<1> QED BY <1>3, <1>4, <1>5, <1>6 DEF MasksOnlyMask, FrontSprite

LEMMA WindowFlags ==
    ASSUME CompositorTypeOK, NEW row \in 0 .. SCREEN_H - 1, NEW x \in Pixels,
           NoRangeGoesAround(x, row), MasksOnlyMask(x, row)
    PROVE  GetWindowFlags(x, row, FrontSprite(x, row)) = RegionFlags(x, row)
<1> DEFINE sprite == FrontSprite(x, row)
           inside == InsideOf(x, row)
           flags == GetWindowFlags(x, row, sprite)
<1>1. "win0" \in inside <=> InWindow("win0", x, row)
  BY WindowRanges
<1>2. "win1" \in inside <=> InWindow("win1", x, row)
  BY WindowRanges
<1>3. "win0" \notin inside /\ "win1" \notin inside =>
         ("objwin" \in inside <=> "objwin" \in dispcnt.windows /\ sprite.mode = "window")
  BY FrontTellsMask
<1>4. inside \subseteq dispcnt.windows /\ dispcnt.windows \subseteq {"win0", "win1", "objwin"}
  BY DEF InsideOf, CompositorTypeOK, Windows
<1>5. flags =
         CASE dispcnt.windows = {} -> BG \cup {OBJ, EFFECTS}
           [] InWindow("win0", x, row) -> regions["win0"]
           [] ~InWindow("win0", x, row) /\ InWindow("win1", x, row) -> regions["win1"]
           [] ~InWindow("win0", x, row) /\ ~InWindow("win1", x, row)
                  /\ "objwin" \in dispcnt.windows /\ sprite.mode = "window" -> regions["objwin"]
           [] OTHER -> regions["outside"]
  BY Zenon DEF GetWindowFlags, InWindow
<1>6. RegionFlags(x, row) =
         CASE dispcnt.windows = {} -> BG \cup {OBJ, EFFECTS}
           [] dispcnt.windows # {} /\ inside = {} -> regions["outside"]
           [] inside # {} ->
                  regions[IF "win0" \in inside THEN "win0"
                          ELSE IF "win1" \in inside THEN "win1" ELSE "objwin"]
  BY Zenon DEF RegionFlags
<1> HIDE DEF sprite, inside, flags
<1>7. CASE dispcnt.windows = {}
  <2>1. inside = {} /\ ~InWindow("win0", x, row) /\ ~InWindow("win1", x, row)
    BY <1>1, <1>2, <1>4, <1>7
  <2> QED BY <1>5, <1>6, <1>7, <2>1 DEF flags, sprite
<1>8. CASE dispcnt.windows # {} /\ "win0" \in inside
  <2>1. flags = regions["win0"]
    BY <1>1, <1>5, <1>8
  <2>2. RegionFlags(x, row) = regions["win0"]
    BY <1>6, <1>8
  <2> QED BY <2>1, <2>2 DEF flags, sprite
<1>9. CASE dispcnt.windows # {} /\ "win0" \notin inside /\ "win1" \in inside
  <2>1. flags = regions["win1"]
    BY <1>1, <1>2, <1>5, <1>9
  <2>2. RegionFlags(x, row) = regions["win1"]
    BY <1>6, <1>9
  <2> QED BY <2>1, <2>2 DEF flags, sprite
<1>10. CASE dispcnt.windows # {} /\ inside = {"objwin"}
  <2>1. flags = regions["objwin"]
    BY <1>1, <1>2, <1>3, <1>5, <1>10
  <2>2. RegionFlags(x, row) = regions["objwin"]
    BY <1>6, <1>10
  <2> QED BY <2>1, <2>2 DEF flags, sprite
<1>11. CASE dispcnt.windows # {} /\ inside = {}
  <2>1. flags = regions["outside"]
    BY <1>1, <1>2, <1>3, <1>5, <1>11
  <2>2. RegionFlags(x, row) = regions["outside"]
    BY <1>6, <1>11
  <2> QED BY <2>1, <2>2 DEF flags, sprite
<1>12. \/ "win0" \in inside \/ ("win0" \notin inside /\ "win1" \in inside)
       \/ inside = {"objwin"} \/ inside = {}
  BY <1>4
<1> QED BY <1>7, <1>8, <1>9, <1>10, <1>11, <1>12

-----------------------------------------------------------------------------
(* The line of the picture: the scan of the layers *)

\* What the scan relies on: priorities and layers are within their ranges.
Layered(L, sprite) ==
    L \subseteq 0 .. 4 /\ \A l \in L : PrioOf(l, sprite) \in 0 .. 3

\* Where the scan comes to a layer.
SlotOf(l, sprite) == 5 * PrioOf(l, sprite) + (IF l = OBJ THEN 1 ELSE l + 2)

LEMMA SlotFacts ==
    /\ DOMAIN Slots = 1 .. 20
    /\ \A k \in 1 .. 20 : Slots[k].prio \in 0 .. 3 /\ Slots[k].layer \in 0 .. 4
    /\ \A k \in 1 .. 20, p \in 0 .. 3, l \in 0 .. 4 :
          k = 5 * p + (IF l = OBJ THEN 1 ELSE l + 2) <=> Slots[k].prio = p /\ Slots[k].layer = l
<1>1. DOMAIN Slots = 1 .. 20
  BY DEF Slots
<1>2. ASSUME NEW k \in 1 .. 20
      PROVE  /\ Slots[k].prio = (k - 1) \div 5
             /\ Slots[k].layer = IF k % 5 = 1 THEN 4 ELSE (k - 2) % 5
  BY DEF Slots, OBJ
<1>3. \A k \in 1 .. 20 :
         /\ (k - 1) \div 5 \in 0 .. 3
         /\ (IF k % 5 = 1 THEN 4 ELSE (k - 2) % 5) \in 0 .. 4
  OBVIOUS
<1>4. \A k \in 1 .. 20, p \in 0 .. 3, l \in 0 .. 4 :
         k = 5 * p + (IF l = 4 THEN 1 ELSE l + 2)
            <=> (k - 1) \div 5 = p /\ (IF k % 5 = 1 THEN 4 ELSE (k - 2) % 5) = l
  OBVIOUS
<1> QED BY <1>1, <1>2, <1>3, <1>4 DEF OBJ

LEMMA SlotOfLayer ==
    ASSUME NEW L, NEW sprite, Layered(L, sprite), NEW l \in L
    PROVE  /\ SlotOf(l, sprite) \in 1 .. 20
           /\ Slots[SlotOf(l, sprite)].layer = l
           /\ Slots[SlotOf(l, sprite)].prio = PrioOf(l, sprite)
<1>1. PICK p \in 0 .. 3 : p = PrioOf(l, sprite)
  BY DEF Layered
<1>2. l \in 0 .. 4
  BY DEF Layered
<1>3. SlotOf(l, sprite) = 5 * p + (IF l = OBJ THEN 1 ELSE l + 2)
  BY <1>1 DEF SlotOf
<1>4. SlotOf(l, sprite) \in 1 .. 20
  BY <1>1, <1>2, <1>3 DEF OBJ
<1> QED BY <1>1, <1>2, <1>3, <1>4, SlotFacts

LEMMA InFrontIsEarlier ==
    ASSUME NEW L, NEW sprite, Layered(L, sprite), NEW a \in L, NEW b \in L, a # b
    PROVE  InFront(a, b, sprite) <=> SlotOf(a, sprite) < SlotOf(b, sprite)
<1>1. PICK p \in 0 .. 3 : p = PrioOf(a, sprite)
  BY DEF Layered
<1>2. PICK q \in 0 .. 3 : q = PrioOf(b, sprite)
  BY DEF Layered
<1>3. a \in 0 .. 4 /\ b \in 0 .. 4
  BY DEF Layered
<1>4. InFront(a, b, sprite) <=> p < q \/ (p = q /\ (a = OBJ \/ (b # OBJ /\ a < b)))
  BY <1>1, <1>2 DEF InFront
<1>5. /\ SlotOf(a, sprite) = 5 * p + (IF a = OBJ THEN 1 ELSE a + 2)
      /\ SlotOf(b, sprite) = 5 * q + (IF b = OBJ THEN 1 ELSE b + 2)
  BY <1>1, <1>2 DEF SlotOf
<1> QED BY <1>3, <1>4, <1>5 DEF OBJ

\* The layer the scan comes to first is the one in front.
LEMMA FrontIsFirst ==
    ASSUME NEW L, NEW sprite, Layered(L, sprite),
           NEW slots, slots = {SlotOf(l, sprite) : l \in L}
    PROVE  /\ Front(L, sprite) = IF slots = {} THEN BACKDROP ELSE Slots[Min(slots)].layer
           /\ L # {} => /\ Front(L, sprite) \in L
                        /\ \A b \in L \ {Front(L, sprite)} :
                              SlotOf(Front(L, sprite), sprite) < SlotOf(b, sprite)
<1>1. CASE L = {}
  BY <1>1 DEF Front
<1>2. CASE L # {}
  <2>1. slots \subseteq Nat /\ slots # {}
    BY <1>2, SlotOfLayer
  <2>2. PICK m \in slots : \A k \in slots : m <= k
    BY <2>1, LeastExists
  <2>3. Min(slots) = m
    BY <2>1, <2>2, LeastIs DEF Min
  <2>4. PICK l \in L : SlotOf(l, sprite) = m
    BY <2>2
  <2>5. Slots[m].layer = l
    BY <2>4, SlotOfLayer
  <2>6. ASSUME NEW b \in L \ {l} PROVE InFront(l, b, sprite) /\ ~InFront(b, l, sprite)
    <3>1. SlotOf(b, sprite) \in slots /\ SlotOf(b, sprite) \in Nat /\ m \in Nat
      BY <2>1, <2>6
    <3>2. m <= SlotOf(b, sprite)
      BY <2>2, <3>1
    <3>3. SlotOf(b, sprite) # m
      BY <2>5, <2>6, SlotOfLayer
    <3>4. InFront(l, b, sprite) <=> m < SlotOf(b, sprite)
      BY <2>4, <2>6, InFrontIsEarlier
    <3>5. InFront(b, l, sprite) <=> SlotOf(b, sprite) < m
      BY <2>4, <2>6, InFrontIsEarlier
    <3> QED BY <3>1, <3>2, <3>3, <3>4, <3>5
  <2>7. (CHOOSE a \in L : \A b \in L \ {a} : InFront(a, b, sprite)) = l
    BY <2>4, <2>6
  <2>8. Front(L, sprite) = l
    BY <1>2, <2>7 DEF Front
  <2>9. \A b \in L \ {l} : SlotOf(l, sprite) < SlotOf(b, sprite)
    BY <2>4, <2>6, InFrontIsEarlier
  <2> QED BY <1>2, <2>1, <2>3, <2>5, <2>8, <2>9
<1> QED BY <1>1, <1>2

\* The slots after the first are those of the layers behind the front.
LEMMA BehindTheFirst ==
    ASSUME NEW L, NEW sprite, Layered(L, sprite)
    PROVE  LET slots == {SlotOf(l, sprite) : l \in L}
           IN  {k \in slots : \E j \in slots : j < k}
                  = {SlotOf(l, sprite) : l \in L \ {Front(L, sprite)}}
<1> DEFINE slots == {SlotOf(l, sprite) : l \in L}
           front == Front(L, sprite)
<1>1. CASE L = {}
  BY <1>1
<1>2. CASE L # {}
  <2>1. front \in L /\ \A b \in L \ {front} : SlotOf(front, sprite) < SlotOf(b, sprite)
    BY <1>2, FrontIsFirst
  <2>2. \A l \in L : SlotOf(l, sprite) \in Nat
    BY SlotOfLayer
  <2> HIDE DEF front
  <2>3. ASSUME NEW l \in L \ {front} PROVE \E j \in slots : j < SlotOf(l, sprite)
    BY <2>1, <2>3
  <2>4. ASSUME NEW j \in slots PROVE ~(j < SlotOf(front, sprite))
    <3>1. PICK l \in L : j = SlotOf(l, sprite)
      BY <2>4
    <3> QED BY <2>1, <2>2, <3>1
  <2>5. \A l \in L : (\E j \in slots : j < SlotOf(l, sprite)) <=> l # front
    BY <2>1, <2>3, <2>4
  <2> QED BY <2>5 DEF front
<1> QED BY <1>1, <1>2

\* The layers that have a pixel here.
LayersAt(sprite, flags, opaque) ==
    (dispcnt.layers \cap opaque \cap flags) \cup (IF sprite = NO_SPRITE THEN {} ELSE {OBJ} \cap flags)

LEMMA FoundSlots ==
    ASSUME CompositorTypeOK, NEW opaque \in SUBSET BG, NEW flags,
           NEW sprite, sprite.prio \in 0 .. 3
    PROVE  LET L == LayersAt(sprite, flags, opaque)
           IN  /\ Layered(L, sprite)
               /\ {k \in DOMAIN Slots : HasPixel(Slots[k], sprite, flags, opaque)}
                     = {SlotOf(l, sprite) : l \in L}
<1> DEFINE L == LayersAt(sprite, flags, opaque)
<1>1. BG \subseteq 0 .. 3 /\ OBJ = 4
  BY CompositorConstants DEF OBJ
<1>2. ASSUME NEW l \in L PROVE l \in 0 .. 4 /\ PrioOf(l, sprite) \in 0 .. 3
  <2>1. CASE l = OBJ
    BY <1>1, <2>1 DEF PrioOf
  <2>2. CASE l # OBJ
    <3>1. l \in BG
      BY <1>2, <2>2 DEF LayersAt
    <3>2. bgPrio[l] \in 0 .. 3
      BY <3>1 DEF CompositorTypeOK
    <3> QED BY <1>1, <2>2, <3>1, <3>2 DEF PrioOf
  <2> QED BY <2>1, <2>2
<1>3. Layered(L, sprite)
  BY <1>2 DEF Layered
<1>4. ASSUME NEW k \in 1 .. 20
      PROVE  HasPixel(Slots[k], sprite, flags, opaque)
                <=> Slots[k].layer \in L /\ PrioOf(Slots[k].layer, sprite) = Slots[k].prio
  <2>1. CASE Slots[k].layer = OBJ
    <3>1. OBJ \notin opaque
      BY <1>1
    <3> QED BY <2>1, <3>1 DEF HasPixel, LayersAt, PrioOf
  <2>2. CASE Slots[k].layer # OBJ
    BY <2>2 DEF HasPixel, LayersAt, PrioOf
  <2> QED BY <2>1, <2>2
<1> HIDE DEF L
<1>5. ASSUME NEW k \in 1 .. 20, HasPixel(Slots[k], sprite, flags, opaque)
      PROVE  \E l \in L : k = SlotOf(l, sprite)
  <2>1. PICK l \in L : l = Slots[k].layer /\ PrioOf(l, sprite) = Slots[k].prio
    BY <1>4, <1>5
  <2>2. l \in 0 .. 4 /\ Slots[k].prio \in 0 .. 3
    BY <1>2, SlotFacts
  <2>3. k = 5 * Slots[k].prio + (IF l = OBJ THEN 1 ELSE l + 2)
    BY <2>1, <2>2, SlotFacts
  <2> QED BY <2>1, <2>3 DEF SlotOf
<1>6. ASSUME NEW l \in L
      PROVE  SlotOf(l, sprite) \in 1 .. 20 /\ HasPixel(Slots[SlotOf(l, sprite)], sprite, flags, opaque)
  BY <1>3, <1>4, SlotOfLayer
<1>7. DOMAIN Slots = 1 .. 20
  BY SlotFacts
<1>8. {k \in DOMAIN Slots : HasPixel(Slots[k], sprite, flags, opaque)}
         = {SlotOf(l, sprite) : l \in L}
  BY <1>5, <1>6, <1>7
<1> QED BY <1>3, <1>8 DEF L

-----------------------------------------------------------------------------
(* The line of the picture: the pixel *)

\* The two ways of telling the effect.
LEMMA EffectIsDeclared ==
    ASSUME CompositorTypeOK, NEW top, NEW bottom, NEW sprite
    PROVE  Blend(top, bottom, top = OBJ /\ sprite.mode = "semi")
              = DeclaredEffect(top, bottom, sprite)
<1> DEFINE semi == top = OBJ /\ sprite.mode = "semi"
           first == top \in bldcnt.first
           second == bottom \in bldcnt.second
           bld == IF top = OBJ /\ sprite.mode = "semi" /\ bottom \in bldcnt.second
                  THEN [bldcnt EXCEPT !.mode = 1, !.first = @ \cup {OBJ}] ELSE bldcnt
           names == <<"none", "alpha", "brighter", "darker">>
<1>1. Blend(top, bottom, semi) =
         CASE second /\ (semi \/ (bldcnt.mode = 1 /\ first)) -> "alpha"
           [] ~(semi /\ second) /\ bldcnt.mode = 2 /\ first -> "brighter"
           [] ~(semi /\ second) /\ bldcnt.mode = 3 /\ first -> "darker"
           [] OTHER -> "none"
  BY Zenon DEF Blend
<1>2. DeclaredEffect(top, bottom, sprite) =
         IF top \notin bld.first \/ (bld.mode = 1 /\ bottom \notin bld.second) THEN "none"
         ELSE names[bld.mode + 1]
  BY Zenon DEF DeclaredEffect
<1>3. bldcnt.mode \in {0, 1, 2, 3}
  BY DEF CompositorTypeOK
<1>4. CASE semi /\ second
  <2>1. bld = [bldcnt EXCEPT !.mode = 1, !.first = @ \cup {OBJ}]
    BY <1>4
  <2>2. bld.mode = 1 /\ bld.first = bldcnt.first \cup {OBJ} /\ bld.second = bldcnt.second
    BY <2>1 DEF CompositorTypeOK
  <2>3. top \in bld.first /\ bottom \in bld.second
    BY <1>4, <2>2
  <2> HIDE DEF bld
  <2>4. DeclaredEffect(top, bottom, sprite) = "alpha"
    BY <1>2, <2>2, <2>3
  <2>5. Blend(top, bottom, semi) = "alpha"
    BY <1>1, <1>4
  <2> QED BY <2>4, <2>5
<1>5. CASE ~(semi /\ second)
  <2>1. bld = bldcnt
    BY <1>5
  <2>2. DeclaredEffect(top, bottom, sprite) =
           IF ~first \/ (bldcnt.mode = 1 /\ ~second) THEN "none" ELSE names[bldcnt.mode + 1]
    BY <1>2, <2>1
  <2>3. Blend(top, bottom, semi) =
           CASE second /\ (bldcnt.mode = 1 /\ first) -> "alpha"
             [] bldcnt.mode = 2 /\ first -> "brighter"
             [] bldcnt.mode = 3 /\ first -> "darker"
             [] OTHER -> "none"
    <3> HIDE DEF semi, first, second
    <3> QED BY <1>1, <1>3, <1>5
  <2>4. names[bldcnt.mode + 1] =
           CASE bldcnt.mode = 1 -> "alpha" [] bldcnt.mode = 2 -> "brighter"
             [] bldcnt.mode = 3 -> "darker" [] OTHER -> "none"
    <3>1. names[1] = "none" /\ names[2] = "alpha" /\ names[3] = "brighter" /\ names[4] = "darker"
      OBVIOUS
    <3>2. \A m \in {0, 1, 2, 3} : m + 1 = 1 + m /\ (m = 0 => m + 1 = 1) /\ (m = 1 => m + 1 = 2)
             /\ (m = 2 => m + 1 = 3) /\ (m = 3 => m + 1 = 4)
      OBVIOUS
    <3> HIDE DEF names
    <3> QED BY <1>3, <3>1, <3>2
  <2>5. Blend(top, bottom, semi) = DeclaredEffect(top, bottom, sprite)
    <3> HIDE DEF semi, first, second, names, bld
    <3> QED BY <1>3, <2>2, <2>3, <2>4
  <2> QED BY <2>5
<1> QED BY <1>4, <1>5

LEMMA SpritePrio ==
    ASSUME CompositorTypeOK, NEW x, NEW row
    PROVE  FrontSprite(x, row).prio \in 0 .. 3
<1>1. CASE OBJ \notin dispcnt.layers \/ SpritesAt(x, row) = {}
  <2>1. FrontSprite(x, row) = NO_SPRITE
    BY <1>1 DEF FrontSprite, FrontOf
  <2> QED BY <2>1 DEF NO_SPRITE
<1>2. CASE OBJ \in dispcnt.layers /\ SpritesAt(x, row) # {}
  <2>1. PICK n \in SpritesAt(x, row) :
            FrontSprite(x, row) = [obj |-> n, prio |-> oam[n].prio, mode |-> oam[n].mode]
    BY <1>2, FrontExists
  <2>2. oam[n] \in Fitting
    BY SpriteNumbers DEF CompositorTypeOK
  <2>3. oam[n].prio \in 0 .. 3
    BY <2>2 DEF Fitting, Entry
  <2> QED BY <2>1, <2>3
<1> QED BY <1>1, <1>2

\* The scan comes to the layers in front and their effect.
LEMMA ScanIsPicture ==
    ASSUME CompositorTypeOK, NEW x, NEW row, NEW opaque \in SUBSET BG,
           NEW sprite, sprite.prio \in 0 .. 3
    PROVE  ComposePixel(x, row, sprite, opaque)
              = Picture(sprite, GetWindowFlags(x, row, sprite), opaque)
<1> DEFINE flags == GetWindowFlags(x, row, sprite)
           L == LayersAt(sprite, flags, opaque)
           found == {k \in DOMAIN Slots : HasPixel(Slots[k], sprite, flags, opaque)}
           layer(slots) == IF slots = {} THEN BACKDROP ELSE Slots[Min(slots)].layer
           behind == {k \in found : \E j \in found : j < k}
           top == Front(L, sprite)
           bottom == Front(L \ {top}, sprite)
<1>1. Layered(L, sprite) /\ found = {SlotOf(l, sprite) : l \in L}
  <2> HIDE DEF flags
  <2> QED BY FoundSlots
<1>2. ComposePixel(x, row, sprite, opaque) =
         Shown(layer(found), layer(behind), sprite,
               IF EFFECTS \in flags
               THEN Blend(layer(found), layer(behind), layer(found) = OBJ /\ sprite.mode = "semi")
               ELSE "none")
  BY Zenon DEF ComposePixel
<1>3. Picture(sprite, flags, opaque) =
         Shown(top, bottom, sprite,
               IF EFFECTS \in flags THEN DeclaredEffect(top, bottom, sprite) ELSE "none")
  BY Zenon DEF Picture, LayersAt
<1> HIDE DEF L
<1>4. layer(found) = top
  <2> HIDE DEF found
  <2> QED BY <1>1, FrontIsFirst
<1>5. behind = {SlotOf(l, sprite) : l \in L \ {top}}
  <2>1. behind = {k \in {SlotOf(l, sprite) : l \in L} : \E j \in {SlotOf(l, sprite) : l \in L} : j < k}
    <3> HIDE DEF found
    <3> QED BY <1>1
  <2>2. {k \in {SlotOf(l, sprite) : l \in L} : \E j \in {SlotOf(l, sprite) : l \in L} : j < k}
           = {SlotOf(l, sprite) : l \in L \ {Front(L, sprite)}}
    BY <1>1, BehindTheFirst
  <2> QED BY <2>1, <2>2, Zenon
<1>6. layer(behind) = bottom
  <2>1. Layered(L \ {top}, sprite)
    BY <1>1 DEF Layered
  <2> HIDE DEF behind, top
  <2> QED BY <1>5, <2>1, FrontIsFirst
<1> HIDE DEF found, behind, layer, top, bottom, flags
<1>7. Picture(sprite, flags, opaque) = ComposePixel(x, row, sprite, opaque)
  BY <1>2, <1>3, <1>4, <1>6, EffectIsDeclared
<1> QED BY <1>7 DEF flags

\* Without OBJ it does not matter which sprite is in front.
LEMMA FrontWithoutObj ==
    ASSUME NEW L, OBJ \notin L, NEW a, NEW b, Layered(L, a), Layered(L, b)
    PROVE  Front(L, a) = Front(L, b) /\ Front(L, a) \in L \cup {BACKDROP}
<1>1. \A l \in L : SlotOf(l, a) = SlotOf(l, b)
  BY DEF SlotOf, PrioOf
<1>2. {SlotOf(l, a) : l \in L} = {SlotOf(l, b) : l \in L}
  BY <1>1
<1>3. PICK slots : slots = {SlotOf(l, a) : l \in L}
  OBVIOUS
<1>4. Front(L, a) = IF slots = {} THEN BACKDROP ELSE Slots[Min(slots)].layer
  BY <1>3, FrontIsFirst
<1>5. Front(L, b) = IF slots = {} THEN BACKDROP ELSE Slots[Min(slots)].layer
  BY <1>2, <1>3, FrontIsFirst
<1>6. Front(L, a) \in L \cup {BACKDROP}
  BY <1>3, FrontIsFirst DEF Front
<1> QED BY <1>4, <1>5, <1>6

LEMMA PictureWithoutObj ==
    ASSUME CompositorTypeOK, NEW flags, OBJ \notin flags, NEW opaque \in SUBSET BG,
           NEW a, a.prio \in 0 .. 3, NEW b, b.prio \in 0 .. 3
    PROVE  Picture(a, flags, opaque) = Picture(b, flags, opaque)
<1> DEFINE L == dispcnt.layers \cap opaque \cap flags
           top(sprite) == Front(L, sprite)
           bottom(sprite) == Front(L \ {top(sprite)}, sprite)
<1>1. LayersAt(a, flags, opaque) = L /\ LayersAt(b, flags, opaque) = L
  BY DEF LayersAt
<1>2. Layered(L, a) /\ Layered(L, b)
  <2>1. Layered(LayersAt(a, flags, opaque), a)
    BY FoundSlots
  <2>2. Layered(LayersAt(b, flags, opaque), b)
    BY FoundSlots
  <2> HIDE DEF L
  <2> QED BY <1>1, <2>1, <2>2, Zenon
<1>3. OBJ \notin L
  OBVIOUS
<1>4. \A sprite \in {a, b} :
         Picture(sprite, flags, opaque) =
             Shown(top(sprite), bottom(sprite), sprite,
                   IF EFFECTS \in flags THEN DeclaredEffect(top(sprite), bottom(sprite), sprite)
                   ELSE "none")
  <2> SUFFICES ASSUME NEW sprite \in {a, b}
               PROVE  Picture(sprite, flags, opaque) =
                         Shown(top(sprite), bottom(sprite), sprite,
                               IF EFFECTS \in flags
                               THEN DeclaredEffect(top(sprite), bottom(sprite), sprite) ELSE "none")
    OBVIOUS
  <2>1. LayersAt(sprite, flags, opaque) = L
    BY <1>1
  <2>2. Picture(sprite, flags, opaque) =
           Shown(Front(LayersAt(sprite, flags, opaque), sprite),
                 Front(LayersAt(sprite, flags, opaque)
                          \ {Front(LayersAt(sprite, flags, opaque), sprite)}, sprite), sprite,
                 IF EFFECTS \in flags
                 THEN DeclaredEffect(Front(LayersAt(sprite, flags, opaque), sprite),
                                     Front(LayersAt(sprite, flags, opaque)
                                        \ {Front(LayersAt(sprite, flags, opaque), sprite)}, sprite),
                                     sprite)
                 ELSE "none")
    BY Zenon DEF Picture, LayersAt
  <2> QED BY <2>1, <2>2
<1> HIDE DEF L
<1>5. top(a) = top(b) /\ top(a) \in L \cup {BACKDROP}
  BY <1>2, <1>3, FrontWithoutObj
<1>6. bottom(a) = bottom(b) /\ bottom(a) \in L \cup {BACKDROP}
  <2>1. PICK rest : rest = L \ {top(a)}
    OBVIOUS
  <2>2. OBJ \notin rest /\ Layered(rest, a) /\ Layered(rest, b)
    BY <1>2, <1>3, <2>1 DEF Layered
  <2>3. Front(rest, a) = Front(rest, b) /\ Front(rest, a) \in rest \cup {BACKDROP}
    BY <2>2, FrontWithoutObj
  <2> QED BY <1>5, <2>1, <2>3
<1>7. PICK fst, snd : fst = top(a) /\ fst = top(b) /\ snd = bottom(a) /\ snd = bottom(b)
  BY <1>5, <1>6
<1>8. fst # OBJ /\ snd # OBJ
  BY <1>3, <1>5, <1>6, <1>7 DEF OBJ, BACKDROP
<1>9. DeclaredEffect(fst, snd, a) = DeclaredEffect(fst, snd, b)
  BY <1>8, Zenon DEF DeclaredEffect
<1>10. \A effect : Shown(fst, snd, a, effect) = Shown(fst, snd, b, effect)
  BY <1>8 DEF Shown
<1> HIDE DEF top, bottom
<1>11. Picture(a, flags, opaque) =
          Shown(fst, snd, a, IF EFFECTS \in flags THEN DeclaredEffect(fst, snd, a) ELSE "none")
  BY <1>4, <1>7
<1>12. Picture(b, flags, opaque) =
          Shown(fst, snd, b, IF EFFECTS \in flags THEN DeclaredEffect(fst, snd, b) ELSE "none")
  BY <1>4, <1>7
<1> QED BY <1>9, <1>10, <1>11, <1>12

\* Where the sprites of the OBJ window only mask, leaving them out of the
\* picture changes nothing.
LEMMA PictureWithoutMasks ==
    ASSUME CompositorTypeOK, NEW x, NEW row, MasksOnlyMask(x, row), NEW opaque \in SUBSET BG
    PROVE  Picture(FrontSprite(x, row), RegionFlags(x, row), opaque)
              = DeclaredPixel(x, row, opaque)
<1> DEFINE here == SpritesAt(x, row)
           masks == MasksAt(x, row)
           shown == FrontOf(here \ masks)
<1>1. DeclaredPixel(x, row, opaque) = Picture(shown, RegionFlags(x, row), opaque)
  BY DEF DeclaredPixel
<1>2. CASE OBJ \notin dispcnt.layers
  BY <1>1, <1>2 DEF FrontSprite, FrontOf
<1>3. CASE masks = {}
  <2>1. here \ masks = here
    BY <1>3
  <2> QED BY <1>1, <2>1 DEF FrontSprite
<1>4. CASE OBJ \in dispcnt.layers /\ masks # {}
  <2>1. here # {} /\ masks = {n \in here : oam[n].mode = "window"}
    BY <1>4 DEF MasksAt
  <2>2. PICK n \in here :
            /\ \A m \in here : n <= m
            /\ FrontSprite(x, row) = [obj |-> n, prio |-> oam[n].prio, mode |-> oam[n].mode]
    BY <1>4, <2>1, FrontExists
  <2>3. CASE oam[n].mode # "window"
    <3>1. n \in here \ masks /\ here \ masks \subseteq here
      BY <2>1, <2>3
    <3>2. shown = [obj |-> n, prio |-> oam[n].prio, mode |-> oam[n].mode]
      <4> HIDE DEF masks
      <4> QED BY <1>4, <2>2, <3>1, FrontIs
    <3> QED BY <1>1, <2>2, <3>2
  <2>4. CASE oam[n].mode = "window"
    <3>1. FrontSprite(x, row).mode = "window"
      BY <2>2, <2>4
    <3>2. OBJ \notin RegionFlags(x, row)
      BY <1>4, <3>1 DEF MasksOnlyMask, FrontSprite
    <3>3. FrontSprite(x, row).prio \in 0 .. 3
      BY SpritePrio
    <3>4. shown.prio \in 0 .. 3
      <4>1. CASE here \ masks = {}
        BY <4>1 DEF FrontOf, NO_SPRITE
      <4>2. CASE here \ masks # {}
        <5>1. here \subseteq 0 .. SPRITES - 1 /\ here \ masks \subseteq Nat
          BY SpriteNumbers, CompositorConstants
        <5>2. PICK m \in here \ masks : \A k \in here \ masks : m <= k
          <6> HIDE DEF here, masks
          <6> QED BY <4>2, <5>1, LeastExists
        <5>3. shown = [obj |-> m, prio |-> oam[m].prio, mode |-> oam[m].mode]
          <6>1. here \ masks \subseteq SpritesAt(x, row)
            OBVIOUS
          <6> HIDE DEF masks
          <6> QED BY <1>4, <5>2, <6>1, FrontIs
        <5>4. oam[m] \in Fitting
          BY <5>1 DEF CompositorTypeOK
        <5>5. oam[m].prio \in 0 .. 3
          BY <5>4 DEF Fitting, Entry
        <5> QED BY <5>3, <5>5
      <4> QED BY <4>1, <4>2
    <3> HIDE DEF shown
    <3> QED BY <1>1, <3>2, <3>3, <3>4, PictureWithoutObj
  <2> QED BY <2>3, <2>4
<1> QED BY <1>2, <1>3, <1>4

LEMMA PixelIsDeclared ==
    ASSUME CompositorTypeOK, NEW row \in 0 .. SCREEN_H - 1, NEW x \in Pixels,
           NEW opaque \in SUBSET BG, NoRangeGoesAround(x, row), MasksOnlyMask(x, row)
    PROVE  ComposePixel(x, row, RenderSprites(row)[x], opaque) = DeclaredPixel(x, row, opaque)
<1>1. RenderSprites(row)[x] = FrontSprite(x, row)
  BY BufferFront
<1>2. PICK sprite : sprite = FrontSprite(x, row) /\ sprite.prio \in 0 .. 3
  BY SpritePrio
<1>3. ComposePixel(x, row, sprite, opaque) = Picture(sprite, GetWindowFlags(x, row, sprite), opaque)
  BY <1>2, ScanIsPicture
<1>4. GetWindowFlags(x, row, sprite) = RegionFlags(x, row)
  BY <1>2, WindowFlags
<1> QED BY <1>1, <1>2, <1>3, <1>4, PictureWithoutMasks

\* Whatever a program has written to the registers and to OAM, each pixel of
\* each line shows the layer in front, the sprite in front and the effect that
\* are declared: drawing the sprites from the last to the first, the ranges of
\* the windows and the scan of the layers come to that, but where a garbage
\* range reaches around the edge or a sprite of the OBJ window is shown or
\* covered (ppu.rs, render_sprites and compose_layers).
THEOREM CompositorPixelShowsFront == CompositorSpec => []PixelShowsFront
<1>1. CompositorTypeOK => PixelShowsFront
  <2> SUFFICES ASSUME CompositorTypeOK PROVE PixelShowsFront
    OBVIOUS
  <2>1. \A row \in 0 .. SCREEN_H - 1, x \in Pixels, opaque \in SUBSET BG :
           NoRangeGoesAround(x, row) /\ MasksOnlyMask(x, row) =>
               ComposePixel(x, row, RenderSprites(row)[x], opaque) = DeclaredPixel(x, row, opaque)
    BY PixelIsDeclared
  <2> QED BY <2>1, Zenon DEF PixelShowsFront
<1> QED BY <1>1, CompositorInitInv, CompositorStepInv, PTL DEF CompositorSpec

-----------------------------------------------------------------------------
(* Powers of two *)

\* What holds of 0, and of i if of i - 1, holds of every number up to n.
LEMMA UpTo ==
    ASSUME NEW n \in Nat, NEW T, 0 \in T, \A i \in 1 .. n : i - 1 \in T => i \in T
    PROVE  \A i \in 0 .. n : i \in T
<1> SUFFICES ASSUME NEW b \in 0 .. n, b \notin T PROVE FALSE
  OBVIOUS
<1> DEFINE S == {i \in 0 .. n : i \notin T}
<1>1. S \subseteq Nat /\ S # {}
  OBVIOUS
<1> HIDE DEF S
<1>2. PICK m \in S : \A k \in S : m <= k
  BY <1>1, LeastExists
<1>3. m \in 0 .. n /\ m \notin T /\ m # 0
  BY <1>2 DEF S
<1>4. m - 1 \in 0 .. n /\ m \in 1 .. n
  BY <1>3
<1>5. m - 1 \in T
  <2> SUFFICES ASSUME m - 1 \in S PROVE FALSE
    BY <1>4 DEF S
  <2>1. m <= m - 1
    BY <1>2
  <2> QED BY <2>1, <1>3
<1> QED BY <1>3, <1>4, <1>5

LEMMA Everywhere ==
    ASSUME NEW T, 0 \in T, \A i \in Nat : i \in T => i + 1 \in T
    PROVE  \A i \in Nat : i \in T
<1> TAKE n \in Nat
<1>1. \A i \in 1 .. n : i - 1 \in Nat /\ (i - 1) + 1 = i
  OBVIOUS
<1>2. \A i \in 1 .. n : i - 1 \in T => i \in T
  BY <1>1
<1>3. \A i \in 0 .. n : i \in T
  BY <1>2, UpTo
<1> QED BY <1>3

\* Doubling from 1, n times.
Doubles(g, n) == g = [i \in 0 .. n |-> IF i = 0 THEN 1 ELSE 2 * g[i - 1]]

LEMMA DoublesExist == \A n \in Nat : \E g : Doubles(g, n)
<1> DEFINE T == {n \in Nat : \E g : Doubles(g, n)}
<1>1. 0 \in T
  <2>1. PICK g : g = [i \in 0 .. 0 |-> 1]
    OBVIOUS
  <2>2. g = [i \in 0 .. 0 |-> IF i = 0 THEN 1 ELSE 2 * g[i - 1]]
    BY <2>1
  <2> QED BY <2>2 DEF Doubles
<1>2. ASSUME NEW n \in Nat, n \in T PROVE n + 1 \in T
  <2>1. PICK g : Doubles(g, n)
    BY <1>2
  <2>2. PICK h : h = [i \in 0 .. n + 1 |-> IF i = n + 1 THEN 2 * g[n] ELSE g[i]]
    OBVIOUS
  <2>3. \A i \in 0 .. n : g[i] = IF i = 0 THEN 1 ELSE 2 * g[i - 1]
    BY <2>1 DEF Doubles
  <2>4. ASSUME NEW i \in 0 .. n + 1 PROVE h[i] = IF i = 0 THEN 1 ELSE 2 * h[i - 1]
    <3>1. CASE i = n + 1
      <4>1. h[i] = 2 * g[n] /\ h[n] = g[n] /\ i - 1 = n /\ i # 0
        BY <2>2, <3>1
      <4> QED BY <4>1
    <3>2. CASE i # n + 1
      <4>1. i \in 0 .. n /\ h[i] = g[i]
        BY <2>2, <3>2
      <4>2. CASE i = 0
        BY <2>3, <4>1, <4>2
      <4>3. CASE i # 0
        <5>1. i - 1 \in 0 .. n + 1 /\ i - 1 # n + 1
          BY <4>1, <4>3
        <5>2. h[i - 1] = g[i - 1]
          BY <2>2, <5>1
        <5> QED BY <2>3, <4>1, <4>3, <5>2
      <4> QED BY <4>2, <4>3
    <3> QED BY <3>1, <3>2
  <2>5. h = [i \in 0 .. n + 1 |-> IF i = 0 THEN 1 ELSE 2 * h[i - 1]]
    BY <2>2, <2>4
  <2>6. Doubles(h, n + 1)
    BY <2>5 DEF Doubles
  <2>7. n + 1 \in Nat
    OBVIOUS
  <2> QED BY <2>6, <2>7, Zenon
<1> HIDE DEF T
<1>3. \A n \in Nat : n \in T
  BY <1>1, <1>2, Everywhere
<1> QED BY <1>3 DEF T

LEMMA DoublesAgree ==
    ASSUME NEW m \in Nat, NEW n \in Nat, m <= n, NEW g, NEW h, Doubles(g, m), Doubles(h, n)
    PROVE  \A i \in 0 .. m : g[i] = h[i]
<1> DEFINE T == {i \in 0 .. m : g[i] = h[i]}
<1>1. \A i \in 0 .. m : /\ g[i] = IF i = 0 THEN 1 ELSE 2 * g[i - 1]
                        /\ h[i] = IF i = 0 THEN 1 ELSE 2 * h[i - 1]
  BY DEF Doubles
<1>2. 0 \in T
  BY <1>1
<1>3. ASSUME NEW i \in 1 .. m, i - 1 \in T PROVE i \in T
  BY <1>1, <1>3
<1> HIDE DEF T
<1>4. \A i \in 0 .. m : i \in T
  BY <1>2, <1>3, UpTo
<1> QED BY <1>4 DEF T

LEMMA Pow2Def == Pow2 = [n \in Nat |-> IF n = 0 THEN 1 ELSE 2 * Pow2[n - 1]]
<1> DEFINE to(n) == CHOOSE g : Doubles(g, n)
           f == [n \in Nat |-> to(n)[n]]
<1>1. \A n \in Nat : Doubles(to(n), n)
  BY DoublesExist
<1>2. ASSUME NEW n \in Nat PROVE f[n] = IF n = 0 THEN 1 ELSE 2 * f[n - 1]
  <2>1. PICK g : g = to(n) /\ Doubles(g, n)
    BY <1>1
  <2>2. g[n] = IF n = 0 THEN 1 ELSE 2 * g[n - 1]
    <3>1. n \in 0 .. n /\ Doubles(g, n)
      BY <2>1
    <3>2. g = [i \in 0 .. n |-> IF i = 0 THEN 1 ELSE 2 * g[i - 1]]
      BY <3>1, Zenon DEF Doubles
    <3> HIDE DEF to, f
    <3> QED BY <3>1, <3>2
  <2>3. ASSUME n # 0 PROVE g[n - 1] = f[n - 1]
    <3>1. n - 1 \in Nat /\ n - 1 <= n /\ n - 1 \in 0 .. n - 1
      BY <2>3
    <3>2. PICK h : h = to(n - 1) /\ Doubles(h, n - 1)
      BY <1>1, <3>1
    <3>3. \A i \in 0 .. n - 1 : h[i] = g[i]
      BY <2>1, <3>1, <3>2, DoublesAgree
    <3> QED BY <3>1, <3>2, <3>3
  <2> QED BY <2>1, <2>2, <2>3
<1>3. PICK g : g = f
  OBVIOUS
<1>4. \A n \in Nat : f[n] = to(n)[n]
  OBVIOUS
<1>5. g = [n \in Nat |-> g[n]]
  BY <1>3
<1> HIDE DEF f, to
<1>6. \A n \in Nat : g[n] = IF n = 0 THEN 1 ELSE 2 * g[n - 1]
  BY <1>2, <1>3
<1>7. g = [n \in Nat |-> IF n = 0 THEN 1 ELSE 2 * g[n - 1]]
  BY <1>5, <1>6
<1> QED BY <1>7, Zenon DEF Pow2

LEMMA Pow2Step == Pow2[0] = 1 /\ \A n \in Nat : Pow2[n + 1] = 2 * Pow2[n]
<1>1. ASSUME NEW n \in Nat PROVE Pow2[n] = IF n = 0 THEN 1 ELSE 2 * Pow2[n - 1]
  BY Pow2Def
<1>2. ASSUME NEW n \in Nat PROVE Pow2[n + 1] = 2 * Pow2[n]
  <2>1. n + 1 \in Nat /\ n + 1 # 0 /\ (n + 1) - 1 = n
    OBVIOUS
  <2> QED BY <1>1, <2>1
<1> QED BY <1>1, <1>2

LEMMA Pow2Type == \A n \in Nat : Pow2[n] \in Nat \ {0}
<1> DEFINE T == {n \in Nat : Pow2[n] \in Nat \ {0}}
<1>1. 0 \in T
  BY Pow2Step
<1>2. ASSUME NEW n \in Nat, n \in T PROVE n + 1 \in T
  BY <1>2, Pow2Step
<1> HIDE DEF T
<1>3. \A n \in Nat : n \in T
  BY <1>1, <1>2, Everywhere
<1> QED BY <1>3 DEF T

LEMMA Pow2Sum == \A m, n \in Nat : Pow2[m + n] = Pow2[m] * Pow2[n]
<1> SUFFICES ASSUME NEW m \in Nat PROVE \A n \in Nat : Pow2[m + n] = Pow2[m] * Pow2[n]
  OBVIOUS
<1> DEFINE T == {n \in Nat : Pow2[m + n] = Pow2[m] * Pow2[n]}
<1>1. 0 \in T
  <2>1. Pow2[m] \in Nat /\ m + 0 = m
    BY Pow2Type
  <2> QED BY <2>1, Pow2Step
<1>2. ASSUME NEW n \in Nat, n \in T PROVE n + 1 \in T
  <2>1. PICK a \in Nat, b \in Nat : a = Pow2[m] /\ b = Pow2[n] /\ Pow2[m + n] = a * b
    BY <1>2, Pow2Type
  <2>2. m + n \in Nat /\ m + (n + 1) = (m + n) + 1
    OBVIOUS
  <2>3. Pow2[m + (n + 1)] = 2 * Pow2[m + n] /\ Pow2[n + 1] = 2 * b
    BY <2>1, <2>2, Pow2Step
  <2>4. 2 * (a * b) = a * (2 * b)
    OBVIOUS
  <2> QED BY <2>1, <2>3, <2>4
<1> HIDE DEF T
<1>3. \A n \in Nat : n \in T
  BY <1>1, <1>2, Everywhere
<1> QED BY <1>3 DEF T

-----------------------------------------------------------------------------
(* Words *)

\* A word has M values, of which H are negative.
Widths(M, H) ==
    /\ M = Pow2[W] /\ H = Pow2[W - 1] /\ M \in Nat /\ H \in Nat
    /\ M = 2 * H /\ H >= 2 /\ M >= 4

LEMMA WordWidths == \E M, H \in Nat : Widths(M, H)
<1>1. W \in Nat /\ W - 1 \in Nat /\ W - 2 \in Nat /\ (W - 1) + 1 = W /\ (W - 2) + 1 = W - 1
  BY AluAssumption
<1>2. PICK a \in Nat : a = Pow2[W - 2] /\ a > 0
  BY <1>1, Pow2Type
<1>3. Pow2[W - 1] = 2 * a
  BY <1>1, <1>2, Pow2Step
<1>4. Pow2[W] = 2 * Pow2[W - 1]
  BY <1>1, Pow2Step
<1>5. PICK H \in Nat, M \in Nat : H = 2 * a /\ M = 2 * H
  OBVIOUS
<1> QED BY <1>2, <1>3, <1>4, <1>5 DEF Widths

LEMMA DoubleWidths ==
    ASSUME NEW M, NEW H, Widths(M, H)
    PROVE  Pow2[2 * W] = M * M /\ Pow2[2 * W - 1] = H * M
<1>1. W \in Nat /\ W - 1 \in Nat /\ W + W = 2 * W /\ (W - 1) + W = 2 * W - 1
  BY AluAssumption
<1> QED BY <1>1, Pow2Sum DEF Widths

LEMMA SplitWidth ==
    ASSUME NEW M, NEW H, Widths(M, H), NEW k \in 0 .. W
    PROVE  \E a, b \in Nat : a = Pow2[k] /\ b = Pow2[W - k] /\ a > 0 /\ b > 0 /\ a * b = M
<1>1. W \in Nat /\ k \in Nat /\ W - k \in Nat /\ k + (W - k) = W
  BY AluAssumption
<1>2. Pow2[k] * Pow2[W - k] = Pow2[W]
  <2>1. Pow2[k + (W - k)] = Pow2[k] * Pow2[W - k]
    BY <1>1, Pow2Sum, Zenon
  <2> QED BY <1>1, <2>1
<1>3. M = Pow2[W]
  BY DEF Widths
<1> QED BY <1>1, <1>2, <1>3, Pow2Type

LEMMA IntDivision ==
    ASSUME NEW p \in Nat, p > 0, NEW x \in Int
    PROVE  \E q \in Int, r \in 0 .. p - 1 : q = x \div p /\ r = x % p /\ x = p * q + r
OBVIOUS

LEMMA Quotients ==
    ASSUME NEW p \in Nat, p > 0, NEW x
    PROVE  \A q \in Int, r \in Nat : r < p /\ x = p * q + r => x \div p = q /\ x % p = r
<1> TAKE q \in Int, r \in Nat
<1> HAVE r < p /\ x = p * q + r
<1>1. p \in Nat \ {0} /\ r \in 0 .. p - 1
  OBVIOUS
<1> QED BY <1>1, DivUnique

LEMMA NatQuotient ==
    ASSUME NEW p \in Nat, p > 0, NEW x \in Nat
    PROVE  \E q, r \in Nat : q = x \div p /\ r = x % p /\ r < p /\ x = p * q + r
<1>1. p \in Nat \ {0}
  OBVIOUS
<1>2. x = p * (x \div p) + (x % p) /\ x % p \in 0 .. p - 1 /\ x \div p \in Nat
  BY <1>1, DivDef
<1> QED BY <1>2

LEMMA WrapIs ==
    ASSUME NEW M, NEW H, Widths(M, H), NEW x
    PROVE  \A q \in Int, r \in Nat : r < M /\ x = M * q + r => Wrap(x) = r
<1> TAKE q \in Int, r \in Nat
<1> HAVE r < M /\ x = M * q + r
<1>1. x % M = r
  BY Quotients DEF Widths
<1> QED BY <1>1 DEF Wrap, Widths

LEMMA Wrapping ==
    ASSUME NEW M, NEW H, Widths(M, H), NEW x \in Int
    PROVE  \E q \in Int, r \in Nat : r = Wrap(x) /\ r < M /\ x = M * q + r
<1>0. M \in Nat /\ M > 0
  BY DEF Widths
<1>1. PICK q \in Int, r \in 0 .. M - 1 : q = x \div M /\ r = x % M /\ x = M * q + r
  BY <1>0, IntDivision
<1> QED BY <1>1 DEF Wrap, Widths

LEMMA Words ==
    ASSUME NEW M, NEW H, Widths(M, H), NEW v
    PROVE  v \in Word <=> v \in Nat /\ v < M
BY DEF Word, Widths

LEMMA WrapType == \A x \in Int : Wrap(x) \in Word
<1> TAKE x \in Int
<1>1. PICK M \in Nat, H \in Nat : Widths(M, H)
  BY WordWidths
<1>2. PICK q \in Int, r \in Nat : r = Wrap(x) /\ r < M /\ x = M * q + r
  BY <1>1, Wrapping
<1> QED BY <1>1, <1>2, Words

LEMMA WrapWord == \A x \in Word : x \in Nat /\ Wrap(x) = x
<1> TAKE x \in Word
<1>1. PICK M \in Nat, H \in Nat : Widths(M, H)
  BY WordWidths
<1>2. x \in Nat /\ x < M
  BY <1>1, Words
<1>3. PICK q \in Int : q = 0 /\ x = M * q + x
  BY <1>2
<1>4. Wrap(x) = x
  BY <1>1, <1>2, <1>3, WrapIs
<1> QED BY <1>2, <1>4

\* A whole turn more or less.
LEMMA WrapTurn == \A x \in Int : Wrap(x + Pow2[W]) = Wrap(x) /\ Wrap(x - Pow2[W]) = Wrap(x)
<1> TAKE x \in Int
<1>1. PICK M \in Nat, H \in Nat : Widths(M, H)
  BY WordWidths
<1>2. PICK q \in Int, r \in Nat : r = Wrap(x) /\ r < M /\ x = M * q + r
  BY <1>1, Wrapping
<1>3. PICK n \in Int, m \in Int : n = q + 1 /\ m = q - 1
  OBVIOUS
<1>4. M * n = M * q + M /\ M * m = M * q - M
  BY <1>3
<1>5. x + M = M * n + r /\ x - M = M * m + r
  BY <1>2, <1>4
<1>6. Wrap(x + M) = r /\ Wrap(x - M) = r
  BY <1>1, <1>2, <1>3, <1>5, WrapIs
<1> QED BY <1>1, <1>2, <1>6 DEF Widths

LEMMA Signs ==
    ASSUME NEW M, NEW H, Widths(M, H), NEW v \in Word
    PROVE  /\ Negative(v) <=> v >= H
           /\ AsSigned(v) = IF v >= H THEN v - M ELSE v
           /\ Complement(v) = M - 1 - v
           /\ AsSigned(v) \in Int /\ -H <= AsSigned(v) /\ AsSigned(v) < H
<1>1. v \in Nat /\ v < M
  BY Words
<1>2. /\ Negative(v) <=> v >= H
      /\ AsSigned(v) = IF v >= H THEN v - M ELSE v
      /\ Complement(v) = M - 1 - v
  BY DEF Negative, AsSigned, Complement, Widths
<1> QED BY <1>1, <1>2 DEF Widths

LEMMA ComplementWord == \A v \in Word : Complement(v) \in Word
<1> TAKE v \in Word
<1>1. PICK M \in Nat, H \in Nat : Widths(M, H)
  BY WordWidths
<1> QED BY <1>1, Words, Signs

\* The lowest bit.
LEMMA LowestBit == \A v \in Nat : Bit(v, 0) = (v % 2 = 1)
<1> TAKE v \in Nat
<1>1. v \div 1 = v
  OBVIOUS
<1> QED BY <1>1, Pow2Step DEF Bit

-----------------------------------------------------------------------------
(* Shifts, bit by bit *)

LEMMA MulLess ==
    ASSUME NEW a \in Nat, a > 0, NEW b \in Nat, NEW r \in Nat, r < b
    PROVE  a * r < a * b /\ r * a < b * a
<1>1. PICK d \in Nat : b = r + d /\ d >= 1
  <2>1. b - r \in Nat /\ b = r + (b - r) /\ b - r >= 1
    OBVIOUS
  <2> QED BY <2>1
<1>2. a * b = a * r + a * d /\ a * d >= 1
  BY <1>1
<1>3. a * r \in Nat /\ a * d \in Nat /\ r * a = a * r /\ b * a = a * b
  BY <1>1
<1> QED BY <1>2, <1>3

LEMMA Distributed ==
    ASSUME NEW a \in Nat, NEW b \in Nat, NEW q \in Nat, NEW r \in Nat
    PROVE  (b * q + r) * a = (a * b) * q + a * r
OBVIOUS

LEMMA OddOrEven ==
    ASSUME NEW q \in Nat
    PROVE  \E p \in Nat, o \in {0, 1} : q = 2 * p + o /\ q \div 2 = p /\ q % 2 = o
OBVIOUS

LEMMA Parity ==
    ASSUME NEW p \in Nat, NEW o \in {0, 1}
    PROVE  (2 * p + o) \div 2 = p /\ (2 * p + o) % 2 = o
OBVIOUS

\* v cut before its lowest bits, k of them: v = p * b + r with b = 2^k.
Cut(v, k, b, q, r) ==
    /\ b \in Nat /\ q \in Nat /\ r \in Nat /\ b = Pow2[k] /\ b > 0 /\ r < b
    /\ v = b * q + r /\ q = v \div b

LEMMA Cuts ==
    ASSUME NEW v \in Nat, NEW k \in Nat
    PROVE  \E b, q, r : Cut(v, k, b, q, r)
<1>1. PICK b \in Nat : b = Pow2[k] /\ b > 0
  BY Pow2Type
<1>2. PICK q \in Nat, r \in Nat : q = v \div b /\ r = v % b /\ r < b /\ v = b * q + r
  BY <1>1, NatQuotient
<1> QED BY <1>1, <1>2 DEF Cut

\* The bit above the cut goes from one side to the other.
LEMMA CutStep ==
    ASSUME NEW v \in Nat, NEW k \in Nat, NEW b, NEW q, NEW r, Cut(v, k, b, q, r)
    PROVE  \E p \in Nat, o \in {0, 1} :
              /\ q = 2 * p + o /\ q \div 2 = p /\ q % 2 = o
              /\ Bit(v, k) <=> o = 1
              /\ Cut(v, k + 1, 2 * b, p, o * b + r)
<1>1. /\ b \in Nat /\ q \in Nat /\ r \in Nat /\ b = Pow2[k] /\ b > 0 /\ r < b
      /\ v = b * q + r /\ q = v \div b
  BY DEF Cut
<1>2. PICK p \in Nat, o \in {0, 1} : q = 2 * p + o /\ q \div 2 = p /\ q % 2 = o
  BY <1>1, OddOrEven
<1>3. PICK d \in Nat : d = 2 * b
  BY <1>1
<1>4. PICK u \in Nat : u = o * b + r
  BY <1>1
<1>5. Pow2[k + 1] = d
  BY <1>1, <1>3, Pow2Step
<1>6. u < d
  BY <1>1, <1>3, <1>4
<1>7. v = d * p + u
  <2>1. b * (2 * p + o) = (2 * b) * p + o * b
    BY <1>1
  <2>2. v = (2 * b) * p + o * b + r
    BY <1>1, <1>2, <2>1
  <2>3. (2 * b) * p = d * p
    BY <1>3
  <2>4. d * p \in Nat /\ o * b \in Nat
    BY <1>1
  <2> QED BY <1>1, <1>4, <2>2, <2>3, <2>4
<1>8. d > 0 /\ p \in Int
  BY <1>1, <1>3
<1>9. p = v \div d
  BY <1>6, <1>7, <1>8, Quotients, Zenon
<1>10. Bit(v, k) <=> o = 1
  BY <1>1, <1>2 DEF Bit
<1>11. Cut(v, k + 1, d, p, u)
  BY <1>3, <1>5, <1>6, <1>7, <1>8, <1>9 DEF Cut
<1> QED BY <1>2, <1>3, <1>4, <1>10, <1>11

-----------------------------------------------------------------------------

LEMMA LslCases ==
    ASSUME NEW v, NEW carry \in BOOLEAN, NEW n \in Nat
    PROVE  /\ n = 0 => Lsl(v, n, carry) = Out(v, carry)
           /\ n \in 1 .. W - 1 => Lsl(v, n, carry) = Out(Wrap(v * Pow2[n]), Bit(v, W - n))
           /\ n = W => Lsl(v, n, carry) = Out(0, Bit(v, 0))
           /\ n > W => Lsl(v, n, carry) = Out(0, FALSE)
<1>1. W \in Nat /\ W > 1
  BY AluAssumption
<1>2. CASE n = 0
  <2>1. n \notin 1 .. W - 1 /\ n # W /\ ~(n > W)
    BY <1>1, <1>2
  <2>2. Lsl(v, n, carry) = Out(v, carry)
    BY <1>2, <2>1, Zenon DEF Lsl
  <2> QED BY <2>1, <2>2
<1>3. CASE n \in 1 .. W - 1
  <2>1. n # 0 /\ n # W /\ ~(n > W)
    BY <1>1, <1>3
  <2>2. Lsl(v, n, carry) = Out(Wrap(v * Pow2[n]), Bit(v, W - n))
    BY <1>3, <2>1, Zenon DEF Lsl
  <2> QED BY <2>1, <2>2
<1>4. CASE n = W
  <2>1. n # 0 /\ n \notin 1 .. W - 1 /\ ~(n > W)
    BY <1>1, <1>4
  <2>2. Lsl(v, n, carry) = Out(0, Bit(v, 0))
    BY <1>4, <2>1, SMT DEF Lsl
  <2> QED BY <2>1, <2>2, Zenon
<1>5. CASE n > W
  <2>1. n # 0 /\ n \notin 1 .. W - 1 /\ n # W
    BY <1>1, <1>5
  <2>2. Lsl(v, n, carry) = Out(0, FALSE)
    BY <2>1, Zenon DEF Lsl
  <2> QED BY <1>5, <2>1, <2>2
<1> QED BY <1>1, <1>2, <1>3, <1>4, <1>5

LEMMA LslValue ==
    ASSUME NEW M, NEW H, Widths(M, H), NEW v \in Word, NEW n \in 0 .. W, NEW carry \in BOOLEAN,
           NEW b, NEW q, NEW r, Cut(v, W - n, b, q, r),
           NEW a \in Nat, a = Pow2[n], a * b = M
    PROVE  /\ Lsl(v, n, carry).res = a * r
           /\ a * r < M
           /\ n > 0 => Lsl(v, n, carry).c = (q % 2 = 1)
<1>1. /\ b \in Nat /\ q \in Nat /\ r \in Nat /\ b = Pow2[W - n] /\ b > 0 /\ r < b
      /\ v = b * q + r /\ q = v \div b
  BY DEF Cut
<1>2. W \in Nat /\ W > 1 /\ n \in Nat /\ v \in Nat /\ v < M /\ M \in Nat /\ M = Pow2[W] /\ M > 0
  BY AluAssumption, Words DEF Widths
<1>3. a > 0
  BY <1>2, Pow2Type
<1>4. a * r < M /\ a * r \in Nat
  BY <1>1, <1>3, MulLess
<1>5. v * a = M * q + a * r
  <2>1. (b * q + r) * a = (a * b) * q + a * r
    <3> b \in Nat /\ q \in Nat /\ r \in Nat /\ a \in Nat
      BY <1>1
    <3> QED BY Distributed
  <2> QED BY <1>1, <2>1
<1>6. Wrap(v * a) = a * r
  BY <1>1, <1>4, <1>5, WrapIs
<1>7. CASE n = 0
  <2>1. a = 1
    BY <1>7, Pow2Step
  <2>2. b = M
    BY <1>1, <1>2, <1>7
  <2>3. q = 0 /\ r = v
    <3>1. v = M * 0 + v
      BY <1>2
    <3>2. v \div M = 0
      BY <1>2
    <3>3. q = 0
      BY <1>1, <2>2, <3>2
    <3> QED BY <1>1, <3>3
  <2>4. Lsl(v, n, carry) = Out(v, carry)
    BY <1>2, <1>7, LslCases
  <2>5. a * r = v
    BY <1>1, <2>1, <2>3
  <2> QED BY <1>4, <1>7, <2>4, <2>5 DEF Out
<1>8. CASE n \in 1 .. W - 1
  <2>1. Lsl(v, n, carry) = Out(Wrap(v * a), Bit(v, W - n))
    BY <1>2, <1>8, LslCases
  <2>2. Bit(v, W - n) = (q % 2 = 1)
    BY <1>1 DEF Bit
  <2> QED BY <1>4, <1>6, <2>1, <2>2 DEF Out
<1>9. CASE n = W
  <2>1. b = 1 /\ W - n = 0
    BY <1>1, <1>2, <1>9, Pow2Step
  <2>2. r = 0 /\ q = v
    BY <1>1, <1>2, <2>1
  <2>3. Lsl(v, n, carry) = Out(0, Bit(v, 0))
    BY <1>2, <1>9, LslCases
  <2>4. Bit(v, 0) = (v % 2 = 1)
    BY <1>2, LowestBit
  <2>5. a * r = 0
    BY <1>3, <2>2
  <2> QED BY <1>4, <2>2, <2>3, <2>4, <2>5 DEF Out
<1> QED BY <1>2, <1>7, <1>8, <1>9

LEMMA LslStep ==
    ASSUME NEW v \in Word, NEW n \in Nat, NEW carry \in BOOLEAN
    PROVE  Lsl(v, n + 1, carry) = OneBit("LSL", Lsl(v, n, carry).res)
<1>1. PICK M \in Nat, H \in Nat : Widths(M, H)
  BY WordWidths
<1>2. W \in Nat /\ W > 1 /\ v \in Nat /\ v < M /\ M = 2 * H /\ H > 0
  BY <1>1, AluAssumption, Words DEF Widths
<1>3. \A x : OneBit("LSL", x) = Out(Wrap(x * 2), Negative(x))
  BY DEF OneBit
<1>4. CASE n + 1 \in 1 .. W
  <2>1. n \in 0 .. W /\ n + 1 \in 0 .. W /\ n > -1 /\ n + 1 > 0
    BY <1>2, <1>4
  <2>2. W - (n + 1) \in Nat /\ (W - (n + 1)) + 1 = W - n
    BY <1>2, <1>4
  <2>3. PICK b, q, r : Cut(v, W - (n + 1), b, q, r)
    BY <1>2, <2>2, Cuts
  <2>4. PICK p \in Nat, o \in {0, 1} :
              /\ q = 2 * p + o /\ q \div 2 = p /\ q % 2 = o
              /\ Cut(v, W - n, 2 * b, p, o * b + r)
    BY <1>2, <2>2, <2>3, CutStep
  <2>5. b \in Nat /\ q \in Nat /\ r \in Nat /\ b > 0 /\ r < b
    BY <2>3 DEF Cut
  <2>6. PICK a \in Nat : a = Pow2[n] /\ a > 0
    BY Pow2Type
  <2>7. a * (2 * b) = M
    <3>1. PICK c \in Nat, d \in Nat : c = Pow2[n] /\ d = Pow2[W - n] /\ c * d = M
      BY <1>1, <2>1, SplitWidth
    <3>2. d = 2 * b
      BY <2>4, <3>1 DEF Cut
    <3> QED BY <2>6, <3>1, <3>2
  <2>8. a * b = H /\ (2 * a) * b = M
    <3>1. a * (2 * b) = 2 * (a * b) /\ (2 * a) * b = 2 * (a * b) /\ a * b \in Nat
      BY <2>5
    <3> QED BY <1>2, <2>7, <3>1
  <2>9. 2 * a \in Nat /\ 2 * a = Pow2[n + 1]
    BY <2>6, Pow2Step
  <2>10. Lsl(v, n, carry).res = a * (o * b + r)
    BY <1>1, <2>1, <2>4, <2>6, <2>7, LslValue
  <2>11. Lsl(v, n + 1, carry).res = (2 * a) * r /\ (2 * a) * r < M
         /\ Lsl(v, n + 1, carry).c = (o = 1)
    BY <1>1, <2>1, <2>3, <2>4, <2>8, <2>9, LslValue
  <2>12. PICK x \in Nat : x = a * r
    BY <2>5
  <2>13. x < H
    BY <2>5, <2>6, <2>8, <2>12, MulLess
  <2>14. PICK y \in Nat : y = o * H + x /\ y = Lsl(v, n, carry).res
    <3>1. a * (o * b + r) = o * (a * b) + a * r
      BY <2>5
    <3> QED BY <2>8, <2>10, <2>12, <3>1
  <2>15. (2 * a) * r = 2 * x
    BY <2>5, <2>12
  <2>16. Wrap(y * 2) = 2 * x
    <3>1. y * 2 = M * o + 2 * x
      BY <1>2, <2>14
    <3>2. o \in Int /\ 2 * x \in Nat /\ 2 * x < M
      BY <1>2, <2>13
    <3> QED BY <1>1, <3>1, <3>2, WrapIs
  <2>17. Negative(y) = (o = 1)
    <3>1. y < M
      BY <1>2, <2>13, <2>14
    <3>2. y \in Word
      BY <1>1, <3>1, Words
    <3>3. Negative(y) <=> y >= H
      BY <1>1, <3>2, Signs
    <3>4. y >= H <=> o = 1
      BY <1>2, <2>13, <2>14
    <3>5. Negative(y) \in BOOLEAN
      BY DEF Negative
    <3> QED BY <3>3, <3>4, <3>5
  <2>18. Lsl(v, n + 1, carry) = Out(2 * x, o = 1)
    <3>1. n + 1 \in Nat /\ (n + 1 \in 1 .. W - 1 \/ n + 1 = W)
      BY <1>2, <2>1
    <3>2. \E res, c : Lsl(v, n + 1, carry) = Out(res, c)
      <4>1. CASE n + 1 \in 1 .. W - 1
        <5>1. Lsl(v, n + 1, carry) = Out(Wrap(v * Pow2[n + 1]), Bit(v, W - (n + 1)))
          BY <3>1, <4>1, LslCases
        <5> QED BY <5>1
      <4>2. CASE n + 1 = W
        <5>1. Lsl(v, n + 1, carry) = Out(0, Bit(v, 0))
          BY <3>1, <4>2, LslCases
        <5> QED BY <5>1
      <4> QED BY <3>1, <4>1, <4>2
    <3> QED BY <2>11, <2>15, <3>2 DEF Out
  <2>19. OneBit("LSL", y) = Out(2 * x, o = 1)
    BY <1>3, <2>16, <2>17
  <2> QED BY <2>14, <2>18, <2>19
<1>5. CASE n + 1 \notin 1 .. W
  <2>1. n + 1 \in Nat /\ n + 1 > W /\ (n = W \/ n > W)
    BY <1>2, <1>5
  <2>2. Lsl(v, n + 1, carry) = Out(0, FALSE)
    BY <2>1, LslCases
  <2>3. Lsl(v, n, carry).res = 0
    BY <1>2, <2>1, LslCases DEF Out
  <2>4. 0 \in Word /\ 0 * 2 = 0
    BY <1>1, <1>2, Words
  <2>5. Wrap(0 * 2) = 0 /\ ~Negative(0)
    BY <1>1, <1>2, <2>4, WrapWord, Signs
  <2>6. Negative(0) = FALSE
    BY <2>5
  <2> QED BY <1>3, <2>2, <2>3, <2>5, <2>6
<1> QED BY <1>4, <1>5

LEMMA LsrNone ==
    ASSUME NEW v, NEW carry, NEW imm, ~imm
    PROVE  Lsr(v, 0, carry, imm) = Out(v, carry)
<1>1. W \in Nat /\ W > 1
  BY AluAssumption
<1>2. EncodedAmount(0, imm) = 0 /\ 0 \notin 1 .. W - 1 /\ 0 # W
  BY <1>1 DEF EncodedAmount
<1> QED BY <1>2, Zenon DEF Lsr

LEMMA LsrWithin ==
    ASSUME NEW n \in 1 .. W - 1, NEW v, NEW carry, NEW imm
    PROVE  Lsr(v, n, carry, imm) = Out(v \div Pow2[n], Bit(v, n - 1))
<1>1. W \in Nat /\ W > 1
  BY AluAssumption
<1>2. EncodedAmount(n, imm) = n /\ n # 0 /\ n # W
  BY <1>1 DEF EncodedAmount
<1> QED BY <1>2, Zenon DEF Lsr

LEMMA LsrWidth ==
    ASSUME NEW v, NEW carry, NEW imm
    PROVE  Lsr(v, W, carry, imm) = Out(0, Negative(v))
<1>1. W \in Nat /\ W > 1
  BY AluAssumption
<1>2. EncodedAmount(W, imm) = W /\ W # 0 /\ W \notin 1 .. W - 1
  BY <1>1 DEF EncodedAmount
<1> QED BY <1>2, Zenon DEF Lsr

LEMMA LsrBeyond ==
    ASSUME NEW n \in Nat, n > W, NEW v, NEW carry, NEW imm
    PROVE  Lsr(v, n, carry, imm) = Out(0, FALSE)
<1>1. W \in Nat /\ W > 1
  BY AluAssumption
<1>2. EncodedAmount(n, imm) = n /\ n # 0 /\ n # W /\ n \notin 1 .. W - 1
  BY <1>1 DEF EncodedAmount
<1> QED BY <1>2, Zenon DEF Lsr

\* Of the top bit nothing is left above it.
LEMMA TopBit ==
    ASSUME NEW M, NEW H, Widths(M, H), NEW v \in Word, NEW b, NEW q, NEW r, Cut(v, W - 1, b, q, r)
    PROVE  b = H /\ q \in {0, 1} /\ (q = 1 <=> v >= H)
<1>1. /\ b \in Nat /\ q \in Nat /\ r \in Nat /\ r < b /\ v = b * q + r /\ b = H
  BY DEF Cut, Widths
<1>2. v \in Nat /\ v < 2 * H /\ H > 0
  BY Words DEF Widths
<1>3. q < 2
  <2> SUFFICES ASSUME q >= 2 PROVE FALSE
    BY <1>1
  <2>1. PICK d \in Nat : q = 2 + d
    <3>1. q - 2 \in Nat /\ q = 2 + (q - 2)
      BY <1>1
    <3> QED BY <3>1
  <2>2. b * q = 2 * b + b * d /\ b * d \in Nat
    BY <1>1, <2>1
  <2> QED BY <1>1, <1>2, <2>2
<1>4. CASE q = 0
  BY <1>1, <1>2, <1>4
<1>5. CASE q = 1
  BY <1>1, <1>2, <1>5
<1> QED BY <1>1, <1>3, <1>4, <1>5

\* The cut below a word's every bit.
LEMMA WholeCut ==
    ASSUME NEW v \in Nat, NEW b, NEW q, NEW r, Cut(v, 0, b, q, r)
    PROVE  b = 1 /\ q = v /\ r = 0
<1>1. /\ b \in Nat /\ q \in Nat /\ r \in Nat /\ r < b /\ v = b * q + r /\ b = 1
  BY Pow2Step DEF Cut
<1> QED BY <1>1

LEMMA LsrStep ==
    ASSUME NEW v \in Word, NEW n \in Nat, NEW carry \in BOOLEAN, NEW imm \in BOOLEAN, ~imm
    PROVE  Lsr(v, n + 1, carry, imm) = OneBit("LSR", Lsr(v, n, carry, imm).res)
<1>1. PICK M \in Nat, H \in Nat : Widths(M, H)
  BY WordWidths
<1>2. W \in Nat /\ W > 1 /\ v \in Nat /\ v < M /\ M = 2 * H /\ H > 0
  BY <1>1, AluAssumption, Words DEF Widths
<1>3. \A x : OneBit("LSR", x) = Out(x \div 2, Bit(x, 0))
  BY DEF OneBit
<1>4. PICK b, q, r : Cut(v, n, b, q, r)
  BY <1>2, Cuts
<1>5. PICK p \in Nat, o \in {0, 1} :
         /\ q = 2 * p + o /\ q \div 2 = p /\ q % 2 = o
         /\ Bit(v, n) <=> o = 1
         /\ Cut(v, n + 1, 2 * b, p, o * b + r)
  BY <1>2, <1>4, CutStep
<1>6. q \in Nat /\ p = v \div Pow2[n + 1] /\ q = v \div Pow2[n]
  BY <1>4, <1>5 DEF Cut
<1>7. OneBit("LSR", q) = Out(p, o = 1)
  BY <1>3, <1>5, <1>6, LowestBit
<1>8. n + 1 \in Nat /\ n + 1 # 0 /\ (n + 1) - 1 = n
  OBVIOUS
<1>9. CASE n < W
  <2>1. Lsr(v, n, carry, imm).res = q
    <3>1. CASE n = 0
      <4>1. Lsr(v, n, carry, imm) = Out(v, carry)
        BY <3>1, LsrNone, Zenon
      <4>2. q = v
        BY <1>2, <1>4, <3>1, WholeCut
      <4> QED BY <4>1, <4>2 DEF Out
    <3>2. CASE n # 0
      <4>1. Lsr(v, n, carry, imm) = Out(v \div Pow2[n], Bit(v, n - 1))
        <5>1. n \in 1 .. W - 1
          BY <1>2, <1>9, <3>2
        <5> QED BY <5>1, LsrWithin, Zenon
      <4> QED BY <1>6, <4>1 DEF Out
    <3> QED BY <3>1, <3>2
  <2>2. CASE n + 1 < W
    <3>1. Lsr(v, n + 1, carry, imm) = Out(v \div Pow2[n + 1], Bit(v, (n + 1) - 1))
      <4>1. n + 1 \in 1 .. W - 1
        BY <1>2, <2>2
      <4> QED BY <4>1, LsrWithin, Zenon
    <3>2. Bit(v, n) = (o = 1)
      <4>1. Bit(v, n) \in BOOLEAN
        BY DEF Bit
      <4> QED BY <1>5, <4>1
    <3>3. Lsr(v, n + 1, carry, imm) = Out(p, o = 1)
      BY <1>6, <1>8, <3>1, <3>2
    <3> QED BY <1>7, <2>1, <3>3
  <2>3. CASE n + 1 = W
    <3>1. Lsr(v, n + 1, carry, imm) = Out(0, Negative(v))
      BY <2>3, LsrWidth, Zenon
    <3>2. n = W - 1
      BY <1>2, <2>3
    <3>3. q \in {0, 1} /\ (q = 1 <=> v >= H)
      BY <1>1, <1>4, <3>2, TopBit
    <3>4. p = 0 /\ o = q
      BY <1>5, <3>3
    <3>5. Negative(v) = (o = 1)
      <4>1. Negative(v) \in BOOLEAN
        BY DEF Negative
      <4> QED BY <1>1, <3>3, <3>4, <4>1, Signs
    <3> QED BY <1>7, <2>1, <3>1, <3>4, <3>5
  <2> QED BY <1>2, <1>9, <2>2, <2>3
<1>10. CASE ~(n < W)
  <2>1. Lsr(v, n + 1, carry, imm) = Out(0, FALSE)
    <3>1. n + 1 > W
      BY <1>2, <1>10
    <3> QED BY <1>8, <3>1, LsrBeyond, Zenon
  <2>2. Lsr(v, n, carry, imm).res = 0
    <3>1. CASE n = W
      <4>1. Lsr(v, n, carry, imm) = Out(0, Negative(v))
        BY <3>1, LsrWidth, Zenon
      <4> QED BY <4>1 DEF Out
    <3>2. CASE n > W
      <4>1. Lsr(v, n, carry, imm) = Out(0, FALSE)
        BY <3>2, LsrBeyond, Zenon
      <4> QED BY <4>1 DEF Out
    <3> QED BY <1>2, <1>10, <3>1, <3>2
  <2>3. OneBit("LSR", 0) = Out(0, FALSE)
    <3>1. 0 \div 2 = 0 /\ 0 % 2 = 0
      OBVIOUS
    <3>2. Bit(0, 0) = FALSE
      BY <3>1, LowestBit
    <3> QED BY <1>3, <3>1, <3>2
  <2> QED BY <2>1, <2>2, <2>3
<1> QED BY <1>9, <1>10

LEMMA AsrNone ==
    ASSUME NEW v, NEW carry, NEW imm, ~imm
    PROVE  Asr(v, 0, carry, imm) = Out(v, carry)
<1>1. W \in Nat /\ W > 1
  BY AluAssumption
<1>2. EncodedAmount(0, imm) = 0 /\ 0 \notin 1 .. W - 1
  BY <1>1 DEF EncodedAmount
<1> QED BY <1>2, Zenon DEF Asr

LEMMA AsrWithin ==
    ASSUME NEW n \in 1 .. W - 1, NEW v, NEW carry, NEW imm
    PROVE  Asr(v, n, carry, imm) = Out(Wrap(AsSigned(v) \div Pow2[n]), Bit(v, n - 1))
<1>1. W \in Nat /\ W > 1
  BY AluAssumption
<1>2. EncodedAmount(n, imm) = n /\ n # 0
  BY <1>1 DEF EncodedAmount
<1> QED BY <1>2, Zenon DEF Asr

LEMMA AsrBeyond ==
    ASSUME NEW n \in Nat, n >= W, NEW v, NEW carry, NEW imm
    PROVE  Asr(v, n, carry, imm) = Out(IF Negative(v) THEN Pow2[W] - 1 ELSE 0, Negative(v))
<1>1. W \in Nat /\ W > 1
  BY AluAssumption
<1>2. EncodedAmount(n, imm) = n /\ n # 0 /\ n \notin 1 .. W - 1
  BY <1>1 DEF EncodedAmount
<1> QED BY <1>2, Zenon DEF Asr

LEMMA AtLeast ==
    ASSUME NEW a \in Nat, a > 0, NEW c \in Nat
    PROVE  c <= a * c
<1>1. PICK e \in Nat : a = 1 + e
  <2>1. a - 1 \in Nat /\ a = 1 + (a - 1)
    OBVIOUS
  <2> QED BY <2>1
<1>2. (1 + e) * c = c + e * c /\ e * c \in Nat
  OBVIOUS
<1> QED BY <1>1, <1>2

\* A negative word loses its low bits: what is left is as far below a power of
\* two as its cut.
LEMMA NegativeCut ==
    ASSUME NEW M, NEW H, Widths(M, H), NEW v \in Word, NEW n \in 0 .. W,
           NEW b, NEW q, NEW r, Cut(v, n, b, q, r), NEW c \in Nat, b * c = M
    PROVE  (v - M) \div b = q - c /\ q < c
<1>1. /\ b \in Nat /\ b > 0 /\ q \in Nat /\ r \in Nat /\ r < b /\ v = b * q + r
  BY DEF Cut
<1>2. v \in Nat /\ v < M /\ M \in Nat
  BY Words DEF Widths
<1>3. PICK d \in Int : d = q - c
  BY <1>1
<1>4. v - M = b * d + r
  <2>1. b * (q - c) = b * q - b * c
    BY <1>1
  <2>2. b * d = b * q - M
    BY <1>3, <2>1
  <2> QED BY <1>1, <2>2
<1>5. (v - M) \div b = d
  BY <1>1, <1>4, Quotients
<1>6. q < c
  <2> SUFFICES ASSUME c <= q PROVE FALSE
    BY <1>1
  <2>1. PICK e \in Nat : q = c + e
    <3>1. q - c \in Nat /\ q = c + (q - c)
      BY <1>1
    <3> QED BY <3>1
  <2>2. b * q = b * c + b * e /\ b * e \in Nat
    BY <1>1, <2>1
  <2> QED BY <1>1, <1>2, <2>2
<1> QED BY <1>3, <1>5, <1>6

\* The cut, and how often its part below fits into a word.
CutWord(M, H, v, n, b, q, r, c) ==
    /\ Widths(M, H) /\ v \in Word /\ n \in 0 .. W /\ Cut(v, n, b, q, r)
    /\ c \in Nat /\ c = Pow2[W - n] /\ b * c = M

LEMMA AsrValue ==
    ASSUME NEW M, NEW H, NEW v, NEW n, NEW b, NEW q, NEW r, NEW c, CutWord(M, H, v, n, b, q, r, c),
           NEW carry, NEW imm, ~imm
    PROVE  Asr(v, n, carry, imm).res = IF v >= H THEN q + M - c ELSE q
<1> /\ Widths(M, H) /\ v \in Word /\ n \in 0 .. W /\ Cut(v, n, b, q, r)
    /\ c \in Nat /\ c = Pow2[W - n] /\ b * c = M
  BY DEF CutWord
<1>1. /\ b \in Nat /\ b > 0 /\ q \in Nat /\ r \in Nat /\ r < b /\ v = b * q + r
      /\ b = Pow2[n] /\ q = v \div b
  BY DEF Cut
<1>2. W \in Nat /\ W > 1 /\ v \in Nat /\ v < M /\ M \in Nat /\ H \in Nat /\ M = 2 * H /\ M = Pow2[W]
  BY AluAssumption, Words DEF Widths
<1>3. (v - M) \div b = q - c /\ q < c
  BY NegativeCut
<1>4. AsSigned(v) = IF v >= H THEN v - M ELSE v
  BY Signs
<1>5. CASE n = 0
  <2>1. b = 1 /\ q = v
    BY <1>2, <1>5, WholeCut
  <2>2. c = M
    BY <1>2, <1>5
  <2>3. Asr(v, n, carry, imm) = Out(v, carry)
    BY <1>5, AsrNone, Zenon
  <2> QED BY <1>2, <2>1, <2>2, <2>3 DEF Out
<1>6. CASE n \in 1 .. W - 1
  <2>1. Asr(v, n, carry, imm) = Out(Wrap(AsSigned(v) \div b), Bit(v, n - 1))
    BY <1>1, <1>6, AsrWithin, Zenon
  <2>2. CASE v >= H
    <3>1. AsSigned(v) \div b = q - c
      BY <1>3, <1>4, <2>2
    <3>2. PICK x \in Nat : x = q + M - c /\ x < M
      <4>1. c <= M
        <5>1. c <= b * c
          BY <1>1, AtLeast
        <5> QED BY <5>1
      <4> QED BY <1>1, <1>2, <1>3, <4>1
    <3>3. PICK k \in Int : k = -1
      OBVIOUS
    <3>4. q - c = M * k + x
      BY <1>1, <1>2, <3>2, <3>3
    <3>5. Wrap(q - c) = x
      BY <3>2, <3>4, WrapIs
    <3> QED BY <2>1, <2>2, <3>1, <3>2, <3>5 DEF Out
  <2>3. CASE ~(v >= H)
    <3>1. AsSigned(v) \div b = q
      BY <1>1, <1>4, <2>3
    <3>2. q <= v
      <4>1. q <= b * q /\ b * q \in Nat
        BY <1>1, AtLeast
      <4> QED BY <1>1, <4>1
    <3>3. q \in Word
      BY <1>1, <1>2, <3>2, Words
    <3>4. Wrap(q) = q
      BY <3>3, WrapWord
    <3> QED BY <2>1, <2>3, <3>1, <3>4 DEF Out
  <2> QED BY <2>2, <2>3
<1>7. CASE n = W
  <2>1. c = 1
    BY <1>2, <1>7, Pow2Step
  <2>2. q = 0
    BY <1>1, <1>3, <2>1
  <2>3. Asr(v, n, carry, imm) = Out(IF Negative(v) THEN M - 1 ELSE 0, Negative(v))
    BY <1>2, <1>7, AsrBeyond
  <2>4. Negative(v) <=> v >= H
    BY Signs
  <2> QED BY <1>2, <2>1, <2>2, <2>3, <2>4 DEF Out
<1> QED BY <1>2, <1>5, <1>6, <1>7

LEMMA Spread ==
    ASSUME NEW b \in Nat, NEW q \in Nat, NEW f \in Nat
    PROVE  b * (q + 1 + f) = b * q + b + b * f /\ b * f \in Nat
OBVIOUS

LEMMA AsrStep ==
    ASSUME NEW v \in Word, NEW n \in Nat, NEW carry \in BOOLEAN, NEW imm \in BOOLEAN, ~imm
    PROVE  Asr(v, n + 1, carry, imm) = OneBit("ASR", Asr(v, n, carry, imm).res)
<1>1. PICK M \in Nat, H \in Nat : Widths(M, H)
  BY WordWidths
<1>2. W \in Nat /\ W > 1 /\ v \in Nat /\ v < M /\ M = 2 * H /\ H > 0 /\ M = Pow2[W]
  BY <1>1, AluAssumption, Words DEF Widths
<1>3. \A x : OneBit("ASR", x) =
               Out(AsSigned(x) \div 2 + (IF Negative(x) THEN M ELSE 0), Bit(x, 0))
  BY <1>2 DEF OneBit
<1>4. n + 1 \in Nat /\ (n + 1) - 1 = n
  OBVIOUS
<1>5. CASE n < W
  <2>1. PICK b, q, r : Cut(v, n, b, q, r)
    BY <1>2, Cuts
  <2>2. PICK p \in Nat, o \in {0, 1} :
           /\ q = 2 * p + o /\ q \div 2 = p /\ q % 2 = o
           /\ Bit(v, n) <=> o = 1
           /\ Cut(v, n + 1, 2 * b, p, o * b + r)
    BY <1>2, <2>1, CutStep
  <2>3. b \in Nat /\ b > 0 /\ q \in Nat /\ r \in Nat /\ r < b /\ b = Pow2[n] /\ v = b * q + r
    BY <2>1 DEF Cut
  <2>4. n \in 0 .. W /\ n + 1 \in 0 .. W /\ W - (n + 1) \in Nat /\ (W - (n + 1)) + 1 = W - n
    BY <1>2, <1>5
  <2>5. PICK c \in Nat : c = Pow2[W - (n + 1)] /\ (2 * b) * c = M
    <3>1. PICK x \in Nat, c \in Nat : x = Pow2[n + 1] /\ c = Pow2[W - (n + 1)] /\ x * c = M
      BY <1>1, <2>4, SplitWidth
    <3>2. x = 2 * b
      BY <2>3, <3>1, Pow2Step
    <3> QED BY <3>1, <3>2
  <2>6. PICK d \in Nat : d = 2 * c
    OBVIOUS
  <2>7. d = Pow2[W - n] /\ b * d = M
    <3>1. Pow2[W - n] = 2 * Pow2[W - (n + 1)]
      BY <2>4, Pow2Step
    <3>2. b * (2 * c) = (2 * b) * c
      BY <2>3
    <3> QED BY <2>5, <2>6, <3>1, <3>2
  <2>8. Asr(v, n, carry, imm).res = IF v >= H THEN q + M - d ELSE q
    <3>1. CutWord(M, H, v, n, b, q, r, d)
      BY <1>1, <2>1, <2>4, <2>6, <2>7 DEF CutWord
    <3> QED BY <3>1, AsrValue
  <2>9. Asr(v, n + 1, carry, imm).res = IF v >= H THEN p + M - c ELSE p
    <3>1. CutWord(M, H, v, n + 1, 2 * b, p, o * b + r, c)
      BY <1>1, <2>2, <2>4, <2>5 DEF CutWord
    <3> QED BY <3>1, AsrValue
  <2>10. q < d /\ p < c
    <3>1. q < d
      BY <1>1, <2>1, <2>4, <2>6, <2>7, NegativeCut, Zenon
    <3>2. p < c
      BY <1>1, <2>2, <2>4, <2>5, NegativeCut, Zenon
    <3> QED BY <3>1, <3>2
  <2>11. d <= M
    BY <2>3, <2>7, AtLeast
  <2>12. PICK x \in Nat : x = Asr(v, n, carry, imm).res
    BY <2>3, <2>8, <2>11, <1>2
  <2>13. PICK y \in Nat : y = Asr(v, n + 1, carry, imm).res
    BY <2>2, <2>5, <2>6, <2>9, <2>11, <1>2
  <2>14. Bit(x, 0) = (o = 1)
    <3>1. CASE v >= H
      <4>1. PICK m \in Nat : m = p + H - c
        BY <1>2, <2>2, <2>6, <2>11
      <4>2. x = 2 * m + o
        BY <1>2, <2>2, <2>6, <2>8, <2>12, <3>1, <4>1
      <4>3. x % 2 = o
        BY <2>2, <4>1, <4>2, Parity
      <4> QED BY <2>12, <4>3, LowestBit
    <3>2. CASE ~(v >= H)
      BY <2>2, <2>8, <2>12, <3>2, LowestBit
    <3> QED BY <3>1, <3>2
  <2>15. x \in Word /\ (x >= H <=> v >= H)
    <3>1. x < M
      BY <2>3, <2>8, <2>10, <2>11, <2>12, <1>2
    <3>2. CASE v >= H
      <4>1. d <= 2 * q
        <5> SUFFICES ASSUME 2 * q + 1 <= d PROVE FALSE
          BY <2>3
        <5>1. PICK e \in Nat : d = 2 * q + 1 + e
          <6>1. d - (2 * q + 1) \in Nat /\ d = 2 * q + 1 + (d - (2 * q + 1))
            BY <2>3
          <6> QED BY <6>1
        <5>2. b * d = 2 * (b * q) + b + b * e /\ b * e \in Nat /\ b * q \in Nat
          BY <2>3, <5>1
        <5>3. CASE n = 0
          <6>1. b = 1 /\ q = v
            BY <1>2, <2>1, <5>3, WholeCut
          <6>2. d = M
            BY <2>7, <6>1
          <6> QED BY <1>2, <3>2, <5>1, <6>1, <6>2
        <5>4. CASE n # 0
          <6>1. 2 * b * q + b + b * e = M
            BY <2>3, <2>7, <5>2
          <6>2. PICK g \in Nat : d = 2 * g
            BY <2>6
          <6>3. q + 1 <= g
            BY <2>3, <5>1, <6>2
          <6>4. b * g = H
            <7>1. b * (2 * g) = 2 * (b * g) /\ b * g \in Nat
              BY <2>3
            <7> QED BY <1>2, <2>7, <6>2, <7>1
          <6>5. PICK f \in Nat : g = q + 1 + f
            <7>1. g - (q + 1) \in Nat /\ g = q + 1 + (g - (q + 1))
              BY <2>3, <6>3
            <7> QED BY <7>1
          <6>6. b * g = b * q + b + b * f /\ b * f \in Nat
            <7>1. b * (q + 1 + f) = b * q + b + b * f /\ b * f \in Nat
              <8>1. b \in Nat /\ q \in Nat /\ f \in Nat
                BY <2>3, <6>5
              <8> QED BY <8>1, Spread
            <7> QED BY <6>5, <7>1
          <6> QED BY <1>2, <2>3, <3>2, <6>4, <6>6
        <5> QED BY <5>3, <5>4
      <4>2. x = q + M - d
        BY <2>8, <2>12, <3>2
      <4>3. x >= H
        <5>1. PICK g \in Nat : d = 2 * g
          BY <2>6
        <5>2. g <= q /\ g <= H
          BY <1>2, <2>3, <2>11, <4>1, <5>1
        <5> QED BY <1>2, <2>3, <4>2, <5>1, <5>2
      <4> QED BY <1>1, <3>1, <3>2, <4>3, Words
    <3>3. CASE ~(v >= H)
      <4>1. q <= b * q /\ b * q \in Nat
        BY <2>3, AtLeast
      <4>2. x = q
        BY <2>8, <2>12, <3>3
      <4>3. x < H
        BY <1>2, <2>3, <3>3, <4>1, <4>2
      <4> QED BY <1>1, <3>1, <3>3, <4>3, Words
    <3> QED BY <3>2, <3>3
  <2>16. AsSigned(x) \div 2 + (IF Negative(x) THEN M ELSE 0) = y
    <3>1. (Negative(x) <=> x >= H) /\ AsSigned(x) = IF x >= H THEN x - M ELSE x
      BY <1>1, <2>15, Signs
    <3>2. CASE v >= H
      <4>1. PICK k \in Int : k = p - c
        BY <2>2
      <4>2. x - M = 2 * k + o
        BY <2>2, <2>6, <2>8, <2>12, <3>2, <4>1, <1>2
      <4>3. (x - M) \div 2 = k
        BY <2>2, <4>1, <4>2
      <4> QED BY <1>2, <2>2, <2>9, <2>13, <2>15, <3>1, <3>2, <4>1, <4>3
    <3>3. CASE ~(v >= H)
      <4>1. x = q /\ y = p
        BY <2>8, <2>9, <2>12, <2>13, <3>3
      <4> QED BY <2>2, <2>15, <3>1, <3>3, <4>1
    <3> QED BY <3>2, <3>3
  <2>17. OneBit("ASR", x) = Out(y, o = 1)
    BY <1>3, <2>14, <2>16
  <2>18. Asr(v, n + 1, carry, imm) = Out(y, o = 1)
    <3>1. CASE n + 1 < W
      <4>1. n + 1 \in 1 .. W - 1
        BY <1>2, <3>1
      <4>2. Asr(v, n + 1, carry, imm) = Out(Wrap(AsSigned(v) \div Pow2[n + 1]), Bit(v, (n + 1) - 1))
        BY <4>1, AsrWithin, Zenon
      <4>3. Bit(v, n) = (o = 1)
        <5>1. Bit(v, n) \in BOOLEAN
          BY DEF Bit
        <5> QED BY <2>2, <5>1
      <4>4. Wrap(AsSigned(v) \div Pow2[n + 1]) = y
        BY <2>13, <4>2 DEF Out
      <4> QED BY <1>4, <4>2, <4>3, <4>4
    <3>2. CASE n + 1 = W
      <4>1. n + 1 >= W
        BY <1>2, <3>2
      <4>2. Asr(v, n + 1, carry, imm) = Out(IF Negative(v) THEN Pow2[W] - 1 ELSE 0, Negative(v))
        BY <1>4, <4>1, AsrBeyond, Zenon
      <4>3. n = W - 1
        BY <1>2, <3>2
      <4>4. q \in {0, 1} /\ (q = 1 <=> v >= H)
        BY <1>1, <2>1, <4>3, TopBit
      <4>5. o = q
        BY <2>2, <4>4
      <4>6. Negative(v) = (o = 1)
        <5>1. Negative(v) \in BOOLEAN
          BY DEF Negative
        <5> QED BY <1>1, <4>4, <4>5, <5>1, Signs
      <4>7. (IF Negative(v) THEN Pow2[W] - 1 ELSE 0) = y
        BY <2>13, <4>2 DEF Out
      <4> QED BY <4>2, <4>6, <4>7
    <3> QED BY <1>2, <1>5, <3>1, <3>2
  <2> QED BY <2>12, <2>17, <2>18
<1>6. CASE ~(n < W)
  <2>1. n >= W /\ n + 1 >= W
    BY <1>2, <1>6
  <2>2. PICK x : x = IF Negative(v) THEN M - 1 ELSE 0
    OBVIOUS
  <2>3. Asr(v, n, carry, imm) = Out(x, Negative(v)) /\ Asr(v, n + 1, carry, imm) = Out(x, Negative(v))
    <3>1. Asr(v, n, carry, imm) = Out(IF Negative(v) THEN Pow2[W] - 1 ELSE 0, Negative(v))
      BY <2>1, AsrBeyond, Zenon
    <3>2. Asr(v, n + 1, carry, imm) = Out(IF Negative(v) THEN Pow2[W] - 1 ELSE 0, Negative(v))
      BY <1>4, <2>1, AsrBeyond, Zenon
    <3> QED BY <1>2, <2>2, <3>1, <3>2
  <2>4. x \in Word
    BY <1>1, <1>2, <2>2, Words
  <2>5. OneBit("ASR", x) = Out(x, Negative(v))
    <3>1. (Negative(x) <=> x >= H) /\ AsSigned(x) = IF x >= H THEN x - M ELSE x
      BY <1>1, <2>4, Signs
    <3>2. CASE Negative(v)
      <4>1. x = M - 1
        BY <2>2, <3>2
      <4>2. AsSigned(x) = -1 /\ Negative(x)
        BY <1>2, <3>1, <4>1
      <4>3. AsSigned(x) \div 2 + M = x
        BY <1>2, <4>1, <4>2
      <4>4. Bit(x, 0) = TRUE
        <5>1. PICK m \in Nat : m = H - 1
          BY <1>2
        <5>2. x = 2 * m + 1
          BY <1>2, <4>1, <5>1
        <5>3. x % 2 = 1
          BY <5>2
        <5>4. x \in Nat
          BY <5>2
        <5> QED BY <5>3, <5>4, LowestBit
      <4> QED BY <1>3, <3>2, <4>2, <4>3, <4>4
    <3>3. CASE ~Negative(v)
      <4>1. x = 0
        BY <2>2, <3>3
      <4>2. AsSigned(x) = 0 /\ Negative(x) = FALSE
        <5>1. Negative(x) \in BOOLEAN
          BY DEF Negative
        <5> QED BY <1>2, <3>1, <4>1, <5>1
      <4>3. AsSigned(x) \div 2 = 0 /\ x % 2 = 0 /\ x \in Nat
        BY <4>1, <4>2
      <4>4. Bit(x, 0) = FALSE
        BY <4>3, LowestBit
      <4>5. OneBit("ASR", x) = Out(0, FALSE)
        <5>1. OneBit("ASR", x) = Out(AsSigned(x) \div 2 + 0, Bit(x, 0))
          BY <1>3, <4>2
        <5>2. AsSigned(x) \div 2 + 0 = 0
          BY <4>3
        <5> QED BY <4>4, <5>1, <5>2
      <4>6. Negative(v) = FALSE
        <5>1. Negative(v) \in BOOLEAN
          BY DEF Negative
        <5> QED BY <3>3, <5>1
      <4> QED BY <4>1, <4>5, <4>6
    <3> QED BY <3>2, <3>3
  <2> QED BY <2>3, <2>5 DEF Out
<1> QED BY <1>5, <1>6

\* A rotation puts the part below the cut on top.
LEMMA RotateValue ==
    ASSUME NEW M, NEW H, NEW v, NEW n, NEW b, NEW q, NEW r, NEW c, CutWord(M, H, v, n, b, q, r, c)
    PROVE  RotateRight(v, n) = q + c * r /\ c * r \in Nat /\ q + c * r < M
<1>0. /\ Widths(M, H) /\ v \in Word /\ n \in 0 .. W /\ Cut(v, n, b, q, r)
      /\ c \in Nat /\ c = Pow2[W - n] /\ b * c = M
  BY DEF CutWord
<1>1. /\ b \in Nat /\ b > 0 /\ q \in Nat /\ r \in Nat /\ r < b /\ v = b * q + r
      /\ b = Pow2[n] /\ q = v \div b
  BY <1>0 DEF Cut
<1>2. W \in Nat /\ v \in Nat /\ v < M /\ M \in Nat /\ M > 0
  BY <1>0, AluAssumption, Words DEF Widths
<1>3. q < c
  BY <1>0, NegativeCut
<1>4. c > 0 /\ c * b = M /\ c * r \in Nat
  BY <1>0, <1>1, <1>3
<1>5. v * c = M * q + c * r
  <2>1. (b * q + r) * c = (c * b) * q + c * r
    <3>1. c \in Nat /\ b \in Nat /\ q \in Nat /\ r \in Nat
      BY <1>0, <1>1
    <3> QED BY <3>1, Distributed
  <2> QED BY <1>0, <1>1, <1>4, <2>1
<1>6. c * r < M
  <2>1. c * r < c * b
    BY <1>0, <1>1, <1>4, MulLess
  <2> QED BY <1>4, <2>1
<1>7. Wrap(v * c) = c * r
  BY <1>0, <1>1, <1>4, <1>5, <1>6, WrapIs
<1>8. q + c * r < M
  <2>1. PICK e \in Nat : b = r + 1 + e
    <3>1. b - (r + 1) \in Nat /\ b = r + 1 + (b - (r + 1))
      BY <1>1
    <3> QED BY <3>1
  <2>2. c * (r + 1 + e) = c * r + c + c * e /\ c * e \in Nat
    <3>1. c \in Nat /\ r \in Nat /\ e \in Nat
      BY <1>0, <1>1, <2>1
    <3> QED BY <3>1, Spread
  <2>3. M = c * r + c + c * e
    BY <1>4, <2>1, <2>2
  <2> QED BY <1>0, <1>1, <1>2, <1>3, <1>4, <2>2, <2>3
<1> QED BY <1>0, <1>1, <1>4, <1>7, <1>8 DEF RotateRight

LEMMA CutsWord ==
    ASSUME NEW M, NEW H, Widths(M, H), NEW v \in Word, NEW n \in 0 .. W
    PROVE  \E b, q, r, c : CutWord(M, H, v, n, b, q, r, c)
<1>1. v \in Nat /\ n \in Nat
  BY AluAssumption, WrapWord
<1>2. PICK b, q, r : Cut(v, n, b, q, r)
  BY <1>1, Cuts
<1>3. PICK a \in Nat, c \in Nat : a = Pow2[n] /\ c = Pow2[W - n] /\ a * c = M
  BY SplitWidth
<1> QED BY <1>2, <1>3 DEF Cut, CutWord

LEMMA RotateType == \A v \in Word, n \in 0 .. W : RotateRight(v, n) \in Word
<1> TAKE v \in Word, n \in 0 .. W
<1>1. PICK M \in Nat, H \in Nat : Widths(M, H)
  BY WordWidths
<1>2. PICK b, q, r, c : CutWord(M, H, v, n, b, q, r, c)
  BY <1>1, CutsWord
<1>3. RotateRight(v, n) = q + c * r /\ c * r \in Nat /\ q + c * r < M
  BY <1>2, RotateValue
<1>4. q \in Nat
  BY <1>2 DEF CutWord, Cut
<1> QED BY <1>1, <1>3, <1>4, Words

\* By nothing, and all the way round.
LEMMA RotateRound == \A v \in Word : RotateRight(v, 0) = v /\ RotateRight(v, W) = v
<1> TAKE v \in Word
<1>1. PICK M \in Nat, H \in Nat : Widths(M, H)
  BY WordWidths
<1>2. W \in Nat /\ v \in Nat /\ M > 0 /\ M = Pow2[W]
  BY <1>1, AluAssumption, WrapWord DEF Widths
<1>3. RotateRight(v, 0) = v
  <2>1. 0 \in 0 .. W
    BY <1>2
  <2>2. PICK b, q, r, c : CutWord(M, H, v, 0, b, q, r, c)
    BY <1>1, <2>1, CutsWord
  <2>3. b = 1 /\ q = v /\ r = 0 /\ c \in Nat
    BY <1>2, <2>2, WholeCut DEF CutWord
  <2>4. RotateRight(v, 0) = q + c * r
    BY <2>2, RotateValue
  <2> QED BY <1>2, <2>3, <2>4
<1>4. RotateRight(v, W) = v
  <2>1. W \in 0 .. W
    BY <1>2
  <2>2. PICK b, q, r, c : CutWord(M, H, v, W, b, q, r, c)
    BY <1>1, <2>1, CutsWord
  <2>3. /\ b \in Nat /\ b = M /\ q \in Nat /\ r \in Nat /\ v = b * q + r
        /\ Cut(v, W, b, q, r) /\ c \in Nat /\ c = Pow2[W - W] /\ b * c = M
    BY <1>2, <2>2 DEF CutWord, Cut
  <2>4. c = 1
    BY <1>2, <2>3, Pow2Step
  <2>5. q < c
    BY <1>1, <2>1, <2>3, NegativeCut
  <2>6. q = 0
    BY <2>3, <2>4, <2>5
  <2>7. r = v
    BY <2>3, <2>6
  <2>8. RotateRight(v, W) = q + c * r
    BY <2>2, RotateValue
  <2> QED BY <1>2, <2>4, <2>6, <2>7, <2>8
<1> QED BY <1>3, <1>4

\* One bit further.
LEMMA RotateStep ==
    ASSUME NEW v \in Word, NEW k \in 0 .. W - 1
    PROVE  OneBit("ROR", RotateRight(v, k)) = Out(RotateRight(v, k + 1), Negative(RotateRight(v, k + 1)))
<1>1. PICK M \in Nat, H \in Nat : Widths(M, H)
  BY WordWidths
<1>2. W \in Nat /\ W > 1 /\ v \in Nat /\ v < M /\ M = 2 * H /\ H > 0 /\ H = Pow2[W - 1]
  BY <1>1, AluAssumption, Words DEF Widths
<1>3. k \in 0 .. W /\ k + 1 \in 0 .. W /\ k \in Nat /\ W - (k + 1) \in Nat /\ (W - (k + 1)) + 1 = W - k
  BY <1>2
<1>4. PICK b, q, r, d : CutWord(M, H, v, k, b, q, r, d)
  BY <1>1, <1>3, CutsWord
<1>5. /\ b \in Nat /\ b > 0 /\ q \in Nat /\ r \in Nat /\ r < b /\ b = Pow2[k]
      /\ Cut(v, k, b, q, r) /\ d \in Nat /\ d = Pow2[W - k] /\ b * d = M
  BY <1>4 DEF CutWord, Cut
<1>6. PICK p \in Nat, o \in {0, 1} :
         q = 2 * p + o /\ Cut(v, k + 1, 2 * b, p, o * b + r)
  BY <1>2, <1>3, <1>5, CutStep
<1>7. PICK c \in Nat : c = Pow2[W - (k + 1)] /\ d = 2 * c
  BY <1>3, <1>5, Pow2Step, Pow2Type
<1>8. (2 * b) * c = M /\ c * b = H /\ c * b \in Nat
  <2>1. b * (2 * c) = 2 * (c * b) /\ (2 * b) * c = 2 * (c * b) /\ c * b \in Nat
    BY <1>5
  <2> QED BY <1>2, <1>5, <1>7, <2>1
<1>9. CutWord(M, H, v, k + 1, 2 * b, p, o * b + r, c)
  BY <1>1, <1>3, <1>6, <1>7, <1>8 DEF CutWord
<1>10. PICK m \in Nat : m = p + c * r
  BY <1>5, <1>6
<1>11. RotateRight(v, k) = 2 * m + o /\ 2 * m + o < M
  <2>1. RotateRight(v, k) = q + d * r /\ q + d * r < M
    BY <1>4, RotateValue
  <2>2. d * r = 2 * (c * r) /\ c * r \in Nat
    BY <1>5, <1>7
  <2>3. q + d * r = 2 * m + o
    BY <1>6, <1>10, <2>2
  <2> QED BY <2>1, <2>3
<1>12. RotateRight(v, k + 1) = m + o * H
  <2>1. RotateRight(v, k + 1) = p + c * (o * b + r)
    BY <1>9, RotateValue
  <2>2. c * (o * b + r) = o * (c * b) + c * r
    <3>1. CASE o = 0
      BY <1>5, <3>1
    <3>2. CASE o = 1
      <4>1. c * (b + r) = c * b + c * r
        BY <1>5
      <4> QED BY <1>5, <1>8, <3>2, <4>1
    <3> QED BY <3>1, <3>2
  <2>3. c * r \in Nat
    BY <1>5
  <2> QED BY <1>2, <1>6, <1>8, <1>10, <2>1, <2>2, <2>3
<1>13. PICK x \in Nat : x = RotateRight(v, k) /\ x = 2 * m + o
  BY <1>11
<1>14. x \div 2 = m /\ x % 2 = o
  BY <1>13, Parity
<1>15. OneBit("ROR", x) = Out(m + H * o, Bit(x, 0))
  BY <1>2, <1>14 DEF OneBit
<1>16. Bit(x, 0) = (o = 1)
  BY <1>14, LowestBit
<1>17. PICK y \in Nat : y = RotateRight(v, k + 1) /\ y = m + o * H
  BY <1>2, <1>12
<1>18. Negative(y) = (o = 1)
  <2>1. y \in Word
    BY <1>3, <1>17, RotateType
  <2>2. Negative(y) \in BOOLEAN /\ (Negative(y) <=> y >= H)
    BY <1>1, <2>1, Signs DEF Negative
  <2>3. m < H
    BY <1>2, <1>11
  <2> QED BY <1>2, <1>17, <2>2, <2>3
<1>19. m + H * o = y
  BY <1>2, <1>17
<1> QED BY <1>13, <1>15, <1>16, <1>17, <1>18, <1>19

LEMMA RorNone ==
    ASSUME NEW v, NEW carry, NEW imm, ~imm
    PROVE  Ror(v, 0, carry, imm) = Out(v, carry)
BY DEF Ror

LEMMA RorSome ==
    ASSUME NEW v \in Word, NEW n \in Nat, n # 0, NEW carry, NEW imm
    PROVE  Ror(v, n, carry, imm) = Out(RotateRight(v, n % W), Negative(RotateRight(v, n % W)))
<1>1. Ror(v, n, carry, imm) =
        Out(IF n % W = 0 THEN v ELSE RotateRight(v, n % W),
            Negative(IF n % W = 0 THEN v ELSE RotateRight(v, n % W)))
  BY Zenon DEF Ror
<1>2. CASE n % W = 0
  <2>1. RotateRight(v, n % W) = v
    BY <1>2, RotateRound
  <2> QED BY <1>1, <1>2, <2>1
<1>3. CASE n % W # 0
  BY <1>1, <1>3
<1> QED BY <1>2, <1>3

LEMMA RorStep ==
    ASSUME NEW v \in Word, NEW n \in Nat, NEW carry \in BOOLEAN, NEW imm \in BOOLEAN, ~imm
    PROVE  Ror(v, n + 1, carry, imm) = OneBit("ROR", Ror(v, n, carry, imm).res)
<1>1. W \in Nat /\ W > 0 /\ n + 1 \in Nat /\ n + 1 # 0
  BY AluAssumption
<1>2. PICK q \in Nat, k \in Nat : k = n % W /\ k < W /\ n = W * q + k
  BY <1>1, NatQuotient
<1>3. Ror(v, n, carry, imm).res = RotateRight(v, k)
  <2>1. CASE n = 0
    <3>1. k = 0
      <4>1. n < W /\ W * 0 + n = n
        BY <1>1, <2>1
      <4>2. PICK z \in Int : z = 0
        OBVIOUS
      <4>3. n = W * z + n
        BY <1>1, <4>1, <4>2
      <4>4. n % W = n
        BY <1>1, <4>1, <4>3, Quotients
      <4> QED BY <1>2, <2>1, <4>4
    <3> QED BY <2>1, <3>1, RorNone, RotateRound DEF Out
  <2>2. CASE n # 0
    BY <1>2, <2>2, RorSome DEF Out
  <2> QED BY <2>1, <2>2
<1>4. RotateRight(v, (n + 1) % W) = RotateRight(v, k + 1)
  <2>1. CASE k + 1 < W
    <3>1. n + 1 = W * q + (k + 1)
      BY <1>1, <1>2
    <3>2. (n + 1) % W = k + 1
      BY <1>1, <1>2, <2>1, <3>1, Quotients
    <3> QED BY <3>2
  <2>2. CASE k + 1 = W
    <3>1. PICK z \in Nat : z = 0
      OBVIOUS
    <3>2. n + 1 = W * (q + 1) + z
      <4>1. W * (q + 1) = W * q + W
        BY <1>1
      <4> QED BY <1>1, <1>2, <2>2, <3>1, <4>1
    <3>3. (n + 1) % W = 0
      <4>1. q + 1 \in Int /\ z < W
        BY <1>1, <3>1
      <4>2. (n + 1) % W = z
        BY <1>1, <3>2, <4>1, Quotients
      <4> QED BY <3>1, <4>2
    <3> QED BY <2>2, <3>3, RotateRound
  <2> QED BY <1>1, <1>2, <2>1, <2>2
<1>5. Ror(v, n + 1, carry, imm) =
        Out(RotateRight(v, (n + 1) % W), Negative(RotateRight(v, (n + 1) % W)))
  BY <1>1, RorSome
<1>6. k \in 0 .. W - 1
  BY <1>1, <1>2
<1> QED BY <1>3, <1>4, <1>5, <1>6, RotateStep

LEMMA ShiftNone ==
    ASSUME NEW kind \in ThumbShifts, NEW v \in Word, NEW carry \in BOOLEAN, NEW imm \in BOOLEAN, ~imm
    PROVE  Shift(kind, v, 0, carry, imm) = Out(v, carry)
<1>1. CASE kind = "LSL"
  <2>1. Lsl(v, 0, carry) = Out(v, carry)
    BY LslCases
  <2> QED BY <1>1, <2>1 DEF Shift
<1>2. CASE kind = "LSR"
  <2>1. Lsr(v, 0, carry, imm) = Out(v, carry)
    BY LsrNone, Zenon
  <2> QED BY <1>2, <2>1 DEF Shift
<1>3. CASE kind = "ASR"
  <2>1. Asr(v, 0, carry, imm) = Out(v, carry)
    BY AsrNone, Zenon
  <2> QED BY <1>3, <2>1 DEF Shift
<1>4. CASE kind = "ROR"
  <2>1. Ror(v, 0, carry, imm) = Out(v, carry)
    BY RorNone, Zenon
  <2> QED BY <1>4, <2>1 DEF Shift
<1> QED BY <1>1, <1>2, <1>3, <1>4 DEF ThumbShifts

LEMMA ShiftStep ==
    ASSUME NEW kind \in ThumbShifts, NEW v \in Word, NEW n \in Nat, NEW carry \in BOOLEAN,
           NEW imm \in BOOLEAN, ~imm
    PROVE  Shift(kind, v, n + 1, carry, imm) = OneBit(kind, Shift(kind, v, n, carry, imm).res)
<1>1. CASE kind = "LSL"
  <2>1. Lsl(v, n + 1, carry) = OneBit(kind, Lsl(v, n, carry).res)
    BY <1>1, LslStep
  <2> QED BY <1>1, <2>1 DEF Shift
<1>2. CASE kind = "LSR"
  <2>1. Lsr(v, n + 1, carry, imm) = OneBit(kind, Lsr(v, n, carry, imm).res)
    BY <1>2, LsrStep
  <2> QED BY <1>2, <2>1 DEF Shift
<1>3. CASE kind = "ASR"
  <2>1. Asr(v, n + 1, carry, imm) = OneBit(kind, Asr(v, n, carry, imm).res)
    BY <1>3, AsrStep
  <2> QED BY <1>3, <2>1 DEF Shift
<1>4. CASE kind = "ROR"
  <2>1. Ror(v, n + 1, carry, imm) = OneBit(kind, Ror(v, n, carry, imm).res)
    BY <1>4, RorStep
  <2> QED BY <1>4, <2>1 DEF Shift
<1> QED BY <1>1, <1>2, <1>3, <1>4 DEF ThumbShifts

\* The function that BitByBit defines.
Steps(kind, v, carry, amt, f) ==
    f = [n \in 0 .. amt |-> IF n = 0 THEN Out(v, carry) ELSE OneBit(kind, f[n - 1].res)]

LEMMA BitByBitDef ==
    ASSUME NEW kind, NEW v, NEW carry, NEW amt
    PROVE  BitByBit(kind, v, carry, amt) = (CHOOSE f : Steps(kind, v, carry, amt, f))[amt]
BY DEF BitByBit, Steps

LEMMA ShiftBits ==
    ASSUME NEW kind \in ThumbShifts, NEW v \in Word, NEW amt \in Nat, NEW carry \in BOOLEAN,
           NEW imm \in BOOLEAN, ~imm
    PROVE  Shift(kind, v, amt, carry, imm) = BitByBit(kind, v, carry, amt)
<1>1. PICK g : g = [n \in 0 .. amt |-> Shift(kind, v, n, carry, imm)]
  OBVIOUS
<1>2. \A n \in 0 .. amt : g[n] = Shift(kind, v, n, carry, imm)
  BY <1>1
<1>3. ASSUME NEW n \in 0 .. amt
      PROVE  g[n] = IF n = 0 THEN Out(v, carry) ELSE OneBit(kind, g[n - 1].res)
  <2>1. CASE n = 0
    BY <1>2, <2>1, ShiftNone
  <2>2. CASE n # 0
    <3>1. n - 1 \in 0 .. amt /\ n - 1 \in Nat /\ (n - 1) + 1 = n
      BY <2>2
    <3>2. Shift(kind, v, (n - 1) + 1, carry, imm) = OneBit(kind, Shift(kind, v, n - 1, carry, imm).res)
      BY <3>1, ShiftStep
    <3>3. g[n] = Shift(kind, v, n, carry, imm) /\ g[n - 1] = Shift(kind, v, n - 1, carry, imm)
      BY <1>2, <3>1
    <3> QED BY <2>2, <3>1, <3>2, <3>3
  <2> QED BY <2>1, <2>2
<1>4. Steps(kind, v, carry, amt, g)
  <2>1. g = [n \in 0 .. amt |-> g[n]]
    BY <1>1
  <2>2. \A n \in 0 .. amt : g[n] = IF n = 0 THEN Out(v, carry) ELSE OneBit(kind, g[n - 1].res)
    BY <1>3
  <2> QED BY <2>1, <2>2 DEF Steps
<1>5. PICK f : f = (CHOOSE h : Steps(kind, v, carry, amt, h)) /\ Steps(kind, v, carry, amt, f)
  BY <1>4
<1>6. ASSUME NEW n \in 0 .. amt
      PROVE  f[n] = IF n = 0 THEN Out(v, carry) ELSE OneBit(kind, f[n - 1].res)
  BY <1>5 DEF Steps
<1> DEFINE T == {n \in 0 .. amt : f[n] = g[n]}
<1>7. 0 \in T
  BY <1>3, <1>6
<1>8. ASSUME NEW n \in 1 .. amt, n - 1 \in T PROVE n \in T
  <2>1. n \in 0 .. amt /\ n # 0 /\ f[n - 1] = g[n - 1]
    BY <1>8
  <2>2. f[n] = OneBit(kind, f[n - 1].res)
    BY <1>6, <2>1
  <2>3. g[n] = OneBit(kind, g[n - 1].res)
    BY <1>3, <2>1
  <2> QED BY <2>1, <2>2, <2>3
<1> HIDE DEF T
<1>9. \A n \in 0 .. amt : n \in T
  BY <1>7, <1>8, UpTo
<1>10. f[amt] = g[amt] /\ g[amt] = Shift(kind, v, amt, carry, imm)
  <2>1. amt \in 0 .. amt
    OBVIOUS
  <2>2. f[amt] = g[amt]
    BY <1>9, <2>1 DEF T
  <2> QED BY <1>2, <2>1, <2>2
<1> QED BY <1>5, <1>10, BitByBitDef

-----------------------------------------------------------------------------
(* The amounts that an instruction encodes *)

LEMMA ShiftEncoded ==
    ASSUME NEW kind \in ThumbShifts, NEW v \in Word, NEW amt \in 1 .. W - 1, NEW carry \in BOOLEAN,
           NEW imm \in BOOLEAN, NEW reg \in BOOLEAN
    PROVE  Shift(kind, v, amt, carry, imm) = Shift(kind, v, amt, carry, reg)
<1>1. CASE kind = "LSL"
  BY <1>1 DEF Shift
<1>2. CASE kind = "LSR"
  <2>1. Lsr(v, amt, carry, imm) = Lsr(v, amt, carry, reg)
    BY LsrWithin
  <2> QED BY <1>2, <2>1 DEF Shift
<1>3. CASE kind = "ASR"
  <2>1. Asr(v, amt, carry, imm) = Asr(v, amt, carry, reg)
    BY AsrWithin
  <2> QED BY <1>3, <2>1 DEF Shift
<1>4. CASE kind = "ROR"
  <2>1. amt \in Nat /\ amt # 0
    BY AluAssumption
  <2>2. Ror(v, amt, carry, imm) = Ror(v, amt, carry, reg)
    BY <2>1, RorSome
  <2> QED BY <1>4, <2>2 DEF Shift
<1> QED BY <1>1, <1>2, <1>3, <1>4 DEF ThumbShifts

LEMMA LsrEncodedZero ==
    ASSUME NEW v, NEW carry, NEW imm, imm
    PROVE  Lsr(v, 0, carry, imm) = Out(0, Negative(v))
<1>1. EncodedAmount(0, imm) = W
  BY DEF EncodedAmount
<1>2. W # 0 /\ W \notin 1 .. W - 1
  BY AluAssumption
<1> QED BY <1>1, <1>2, Zenon DEF Lsr

LEMMA AsrEncodedZero ==
    ASSUME NEW v, NEW carry, NEW imm, imm
    PROVE  Asr(v, 0, carry, imm) = Out(IF Negative(v) THEN Pow2[W] - 1 ELSE 0, Negative(v))
<1>1. EncodedAmount(0, imm) = W
  BY DEF EncodedAmount
<1>2. W # 0 /\ W \notin 1 .. W - 1
  BY AluAssumption
<1> QED BY <1>1, <1>2, Zenon DEF Asr

LEMMA RorEncodedZero ==
    ASSUME NEW v \in Word, NEW carry \in BOOLEAN, NEW imm, imm
    PROVE  Ror(v, 0, carry, imm) = Out((v + (IF carry THEN Pow2[W] ELSE 0)) \div 2, v % 2 = 1)
<1>1. PICK M \in Nat, H \in Nat : Widths(M, H)
  BY WordWidths
<1>2. v \in Nat /\ M = 2 * H /\ M = Pow2[W] /\ H = Pow2[W - 1]
  BY <1>1, Words DEF Widths
<1>3. Ror(v, 0, carry, imm) = Out(v \div 2 + (IF carry THEN H ELSE 0), Bit(v, 0))
  BY <1>2, Zenon DEF Ror
<1>4. v \div 2 + (IF carry THEN H ELSE 0) = (v + (IF carry THEN M ELSE 0)) \div 2
  <2>1. (v + 2 * H) \div 2 = v \div 2 + H /\ v \div 2 \in Nat
    BY <1>2
  <2>2. CASE carry
    BY <1>2, <2>1, <2>2
  <2>3. CASE ~carry
    <3>1. v \div 2 + 0 = (v + 0) \div 2
      BY <1>2
    <3> QED BY <2>3, <3>1
  <2> QED BY <2>2, <2>3
<1>5. Bit(v, 0) = (v % 2 = 1)
  BY <1>2, LowestBit
<1> QED BY <1>2, <1>3, <1>4, <1>5

\* Every shift of a word is that many shifts by one bit.
LEMMA ShiftMoves ==
    ASSUME NEW kind \in ThumbShifts, NEW v \in Word, NEW amt \in Nat, NEW carry \in BOOLEAN
    PROVE  ShiftMovesBits(kind, v, amt, carry)
<1>1. W \in Nat /\ ~(W < 1)
  BY AluAssumption
<1>2. PICK no \in BOOLEAN, yes \in BOOLEAN : no = FALSE /\ yes = TRUE
  OBVIOUS
<1>3. Shift(kind, v, amt, carry, no) = BitByBit(kind, v, carry, amt)
  BY <1>2, ShiftBits
<1>4. ASSUME amt \in 1 .. W - 1
      PROVE  Shift(kind, v, amt, carry, yes) = BitByBit(kind, v, carry, amt)
  BY <1>3, <1>4, ShiftEncoded
<1>5. Shift(kind, v, W, carry, no) = BitByBit(kind, v, carry, W)
  BY <1>1, <1>2, ShiftBits
<1>6. CASE kind = "LSL"
  <2>1. Lsl(v, 0, carry) = Out(v, carry)
    BY LslCases
  <2>2. Shift(kind, v, 0, carry, yes) = Out(v, carry)
    BY <1>6, <2>1 DEF Shift
  <2> QED BY <1>2, <1>3, <1>4, <1>6, <2>2, Zenon DEF ShiftMovesBits
<1>7. CASE kind = "ROR"
  <2>1. Ror(v, 0, carry, yes) = Out((v + (IF carry THEN Pow2[W] ELSE 0)) \div 2, v % 2 = 1)
    BY <1>2, RorEncodedZero
  <2>2. Shift(kind, v, 0, carry, yes) = Out((v + (IF carry THEN Pow2[W] ELSE 0)) \div 2, v % 2 = 1)
    BY <1>7, <2>1 DEF Shift
  <2> QED BY <1>2, <1>3, <1>4, <1>7, <2>2 DEF ShiftMovesBits
<1>8. ASSUME kind \in {"LSR", "ASR"}
      PROVE  Shift(kind, v, 0, carry, yes) = Shift(kind, v, W, carry, no)
  <2>1. CASE kind = "LSR"
    <3>1. Lsr(v, 0, carry, yes) = Lsr(v, W, carry, no)
      BY <1>2, LsrEncodedZero, LsrWidth
    <3> QED BY <2>1, <3>1 DEF Shift
  <2>2. CASE kind = "ASR"
    <3>1. W \in Nat /\ W >= W
      BY <1>1
    <3>2. Asr(v, 0, carry, yes) = Asr(v, W, carry, no)
      BY <1>2, <3>1, AsrEncodedZero, AsrBeyond
    <3> QED BY <2>2, <3>2 DEF Shift
  <2> QED BY <1>8, <2>1, <2>2
<1>9. CASE kind \in {"LSR", "ASR"}
  <2>1. kind # "LSL" /\ kind # "ROR"
    BY <1>9
  <2>2. Shift(kind, v, 0, carry, yes) = BitByBit(kind, v, carry, W)
    BY <1>5, <1>8, <1>9
  <2> QED BY <1>2, <1>3, <1>4, <2>1, <2>2 DEF ShiftMovesBits
<1> QED BY <1>6, <1>7, <1>9 DEF ThumbShifts

-----------------------------------------------------------------------------
(* Sums and differences *)

Flags == [n : BOOLEAN, z : BOOLEAN, c : BOOLEAN, v : BOOLEAN]

LEMMA SetFlagsIs ==
    ASSUME NEW f \in Flags, NEW sum
    PROVE  /\ SetFlags(f, sum).n = Negative(sum.res)
           /\ SetFlags(f, sum).z = (sum.res = 0)
           /\ SetFlags(f, sum).c = sum.c
           /\ SetFlags(f, sum).v = sum.v
BY DEF Flags, SetFlags, SetNzc, SetNz

\* A sum, split into the word and what is carried out of it.
SumIs(M, H, x, y, ci, c, res) ==
    /\ c \in {0, 1} /\ res \in Word /\ x + y + ci = M * c + res
    /\ AddFlags(x, y, ci).res = res
    /\ AddFlags(x, y, ci).c = (c = 1)
    /\ AddFlags(x, y, ci).v = (((x >= H) # (res >= H)) /\ ((y >= H) # (res >= H)))

LEMMA Sums ==
    ASSUME NEW M, NEW H, Widths(M, H), NEW x \in Word, NEW y \in Word, NEW ci \in {0, 1}
    PROVE  \E c, res : SumIs(M, H, x, y, ci, c, res)
<1>1. x \in Nat /\ y \in Nat /\ x < M /\ y < M /\ M \in Nat /\ H \in Nat /\ M > 0 /\ M = Pow2[W] /\ H = Pow2[W - 1]
  BY Words DEF Widths
<1>2. PICK c \in {0, 1}, res \in Nat : x + y + ci = M * c + res /\ res < M
  <2>1. CASE x + y + ci < M
    <3>1. PICK res \in Nat, c \in {0, 1} : res = x + y + ci /\ c = 0
      BY <1>1
    <3>2. x + y + ci = M * c + res
      BY <1>1, <3>1
    <3> QED BY <2>1, <3>1, <3>2
  <2>2. CASE ~(x + y + ci < M)
    <3>1. PICK res \in Nat, c \in {0, 1} : res = x + y + ci - M /\ c = 1
      BY <1>1, <2>2
    <3>2. x + y + ci = M * c + res /\ res < M
      BY <1>1, <3>1
    <3> QED BY <3>1, <3>2
  <2> QED BY <2>1, <2>2
<1>3. Wrap(x + y + ci) = res
  <2>1. c \in Int
    OBVIOUS
  <2> QED BY <1>2, <2>1, WrapIs
<1>4. res \in Word
  BY <1>2, Words
<1>5. AddFlags(x, y, ci) =
        [res |-> res, c |-> x + y + ci > M - 1,
         v |-> (x >= H) # (res >= H) /\ (y >= H) # (res >= H)]
  BY <1>1, <1>3 DEF AddFlags, Negative
<1>6. (x + y + ci > M - 1) = (c = 1)
  <2>1. CASE c = 0
    BY <1>1, <1>2, <2>1
  <2>2. CASE c = 1
    BY <1>1, <1>2, <2>2
  <2> QED BY <2>1, <2>2
<1> QED BY <1>2, <1>4, <1>5, <1>6 DEF SumIs

\* Overflow: the sum of the signed numbers is none of a word's.
LEMMA SignedSum ==
    ASSUME NEW M, NEW H, Widths(M, H), NEW x \in Word, NEW y \in Word, NEW ci \in {0, 1},
           NEW c, NEW res, SumIs(M, H, x, y, ci, c, res)
    PROVE  AddFlags(x, y, ci).v <=> AsSigned(x) + AsSigned(y) + ci \notin -H .. H - 1
<1>1. x \in Nat /\ y \in Nat /\ res \in Nat /\ x < M /\ y < M /\ res < M /\ M \in Nat /\ H \in Nat /\ M = 2 * H
  BY Words DEF Widths, SumIs
<1>2. AsSigned(x) = (IF x >= H THEN x - M ELSE x) /\ AsSigned(y) = (IF y >= H THEN y - M ELSE y)
  BY Signs
<1>3. AddFlags(x, y, ci).v <=> (((x >= H) # (res >= H)) /\ ((y >= H) # (res >= H)))
  BY DEF SumIs
<1>4. x + y + ci = res \/ x + y + ci = M + res
  BY <1>1 DEF SumIs
<1>5. CASE x >= H /\ y >= H
  <2>1. AsSigned(x) + AsSigned(y) + ci = x + y + ci - 2 * M
    BY <1>1, <1>2, <1>5
  <2>2. x + y + ci = M + res
    BY <1>1, <1>4, <1>5
  <2> QED BY <1>1, <1>3, <1>5, <2>1, <2>2
<1>6. CASE x >= H /\ ~(y >= H)
  <2>1. AsSigned(x) + AsSigned(y) + ci = x + y + ci - M
    BY <1>1, <1>2, <1>6
  <2> QED BY <1>1, <1>3, <1>6, <2>1
<1>7. CASE ~(x >= H) /\ y >= H
  <2>1. AsSigned(x) + AsSigned(y) + ci = x + y + ci - M
    BY <1>1, <1>2, <1>7
  <2> QED BY <1>1, <1>3, <1>7, <2>1
<1>8. CASE ~(x >= H) /\ ~(y >= H)
  <2>1. AsSigned(x) + AsSigned(y) + ci = x + y + ci
    BY <1>1, <1>2, <1>8
  <2>2. x + y + ci = res
    BY <1>1, <1>4, <1>8
  <2> QED BY <1>1, <1>3, <1>8, <2>1, <2>2
<1> QED BY <1>5, <1>6, <1>7, <1>8

\* A difference, split into the word and what it borrows.
DifferenceIs(M, H, x, y, ci, d, res) ==
    /\ d \in {0, 1} /\ res \in Word /\ x - y - (1 - ci) = res - M * d
    /\ SubFlags(x, y, ci).res = res
    /\ SubFlags(x, y, ci).c = (d = 0)
    /\ (Negative(res) = SubFlags(x, y, ci).v) <=> AsSigned(x) - AsSigned(y) - (1 - ci) >= 0

LEMMA Differences ==
    ASSUME NEW M, NEW H, Widths(M, H), NEW x \in Word, NEW y \in Word, NEW ci \in {0, 1}
    PROVE  \E d, res : DifferenceIs(M, H, x, y, ci, d, res)
<1>1. x \in Nat /\ y \in Nat /\ x < M /\ y < M /\ M \in Nat /\ H \in Nat /\ M = 2 * H
  BY Words DEF Widths
<1>2. PICK z : z = Complement(y) /\ z \in Word /\ z = M - 1 - y
  BY Signs, ComplementWord
<1>3. PICK c, res : SumIs(M, H, x, z, ci, c, res)
  BY <1>2, Sums
<1>4. c \in {0, 1} /\ res \in Word /\ res \in Nat /\ res < M /\ x + z + ci = M * c + res
  BY <1>3, Words DEF SumIs
<1>5. PICK d \in {0, 1} : d = 1 - c
  BY <1>4
<1>6. SubFlags(x, y, ci) = AddFlags(x, z, ci)
  BY <1>2 DEF SubFlags
<1>7. x - y - (1 - ci) = res - M * d
  <2>1. CASE c = 0
    BY <1>1, <1>2, <1>4, <1>5, <2>1
  <2>2. CASE c = 1
    BY <1>1, <1>2, <1>4, <1>5, <2>2
  <2> QED BY <1>4, <2>1, <2>2
<1>8. SubFlags(x, y, ci).res = res /\ SubFlags(x, y, ci).c = (d = 0)
  <2>1. SubFlags(x, y, ci).res = res /\ SubFlags(x, y, ci).c = (c = 1)
    BY <1>3, <1>6 DEF SumIs
  <2> QED BY <1>4, <1>5, <2>1
<1>9. (Negative(res) = SubFlags(x, y, ci).v) <=> AsSigned(x) - AsSigned(y) - (1 - ci) >= 0
  <2>1. AsSigned(x) = (IF x >= H THEN x - M ELSE x) /\ AsSigned(y) = (IF y >= H THEN y - M ELSE y)
    BY Signs
  <2>2. SubFlags(x, y, ci).v = (((x >= H) # (res >= H)) /\ ((z >= H) # (res >= H)))
    BY <1>3, <1>6 DEF SumIs
  <2>3. Negative(res) = (res >= H)
    <3>1. Negative(res) \in BOOLEAN
      BY DEF Negative
    <3> QED BY <1>4, <3>1, Signs
  <2>4. (z >= H) = ~(y >= H)
    BY <1>1, <1>2
  <2>5. (Negative(res) = SubFlags(x, y, ci).v) <=> ((res >= H) = (((x >= H) # (res >= H)) /\ ((y >= H) = (res >= H))))
    BY <2>2, <2>3, <2>4
  <2>6. x - y - (1 - ci) = res \/ x - y - (1 - ci) = res - M
    BY <1>1, <1>4, <1>7
  <2>7. CASE x >= H /\ y >= H
    <3>1. AsSigned(x) - AsSigned(y) = x - y
      BY <1>1, <2>1, <2>7
    <3> QED BY <1>1, <1>4, <2>5, <2>6, <2>7, <3>1
  <2>8. CASE x >= H /\ ~(y >= H)
    <3>1. AsSigned(x) - AsSigned(y) = x - y - M
      BY <1>1, <2>1, <2>8
    <3> QED BY <1>1, <1>4, <2>5, <2>6, <2>8, <3>1
  <2>9. CASE ~(x >= H) /\ y >= H
    <3>1. AsSigned(x) - AsSigned(y) = x - y + M
      BY <1>1, <2>1, <2>9
    <3> QED BY <1>1, <1>4, <2>5, <2>6, <2>9, <3>1
  <2>10. CASE ~(x >= H) /\ ~(y >= H)
    <3>1. AsSigned(x) - AsSigned(y) = x - y
      BY <1>1, <2>1, <2>10
    <3> QED BY <1>1, <1>4, <2>5, <2>6, <2>10, <3>1
  <2> QED BY <2>7, <2>8, <2>9, <2>10
<1> QED BY <1>4, <1>7, <1>8, <1>9 DEF DifferenceIs

LEMMA Ordered ==
    ASSUME NEW f \in Flags, NEW a \in Word, NEW b \in Word
    PROVE  ConditionsOrder(f, a, b)
<1>1. PICK M \in Nat, H \in Nat : Widths(M, H)
  BY WordWidths
<1>2. PICK d, res : DifferenceIs(M, H, a, b, 1, d, res)
  BY <1>1, Differences
<1>3. d \in {0, 1} /\ res \in Nat /\ res < M /\ a \in Nat /\ b \in Nat /\ a < M /\ b < M
  BY <1>1, <1>2, Words DEF DifferenceIs
<1>4. a - b = res - M * d /\ (d = 0 => a - b = res) /\ (d = 1 => a - b = res - M)
  BY <1>2, <1>3 DEF DifferenceIs
<1>5. AsSigned(a) \in Int /\ AsSigned(b) \in Int
  BY <1>1, Signs
<1>6. PICK g : g = SetFlags(f, SubFlags(a, b, 1))
  OBVIOUS
<1>7. g.c = (d = 0) /\ g.z = (res = 0) /\ ((g.n = g.v) <=> AsSigned(a) - AsSigned(b) >= 0)
  <2>1. (Negative(res) = SubFlags(a, b, 1).v) <=> AsSigned(a) - AsSigned(b) - (1 - 1) >= 0
    BY <1>2 DEF DifferenceIs
  <2>2. AsSigned(a) - AsSigned(b) - (1 - 1) = AsSigned(a) - AsSigned(b)
    BY <1>5
  <2>3. SubFlags(a, b, 1).res = res /\ SubFlags(a, b, 1).c = (d = 0)
    BY <1>2 DEF DifferenceIs
  <2> QED BY <1>6, <2>1, <2>2, <2>3, SetFlagsIs
<1>8. res = 0 <=> a = b
  BY <1>3, <1>4
<1>9. AsSigned(a) = AsSigned(b) <=> a = b
  BY <1>1, <1>3, Signs DEF Widths
<1>10. CheckCond(g, "EQ") <=> a = b
  BY <1>7, <1>8 DEF CheckCond
<1>11. CheckCond(g, "HI") <=> a > b
  <2>1. CheckCond(g, "HI") <=> d = 0 /\ res # 0
    BY <1>7 DEF CheckCond
  <2> QED BY <1>3, <1>4, <2>1
<1>12. CheckCond(g, "LS") <=> a <= b
  <2>1. CheckCond(g, "LS") <=> d # 0 \/ res = 0
    BY <1>7 DEF CheckCond
  <2> QED BY <1>3, <1>4, <2>1
<1>13. CheckCond(g, "GT") <=> AsSigned(a) > AsSigned(b)
  <2>1. CheckCond(g, "GT") <=> res # 0 /\ AsSigned(a) - AsSigned(b) >= 0
    BY <1>7 DEF CheckCond
  <2> QED BY <1>5, <1>8, <1>9, <2>1
<1>14. CheckCond(g, "LE") <=> AsSigned(a) <= AsSigned(b)
  <2>1. CheckCond(g, "LE") <=> res = 0 \/ ~(AsSigned(a) - AsSigned(b) >= 0)
    BY <1>7 DEF CheckCond
  <2> QED BY <1>5, <1>8, <1>9, <2>1
<1> QED BY <1>6, <1>10, <1>11, <1>12, <1>13, <1>14 DEF ConditionsOrder

-----------------------------------------------------------------------------
(* Numbers of two words *)

LEMMA HigherSign ==
    ASSUME NEW M \in Nat, M > 0, NEW k \in Int, NEW l \in Nat, l < M
    PROVE  k * M \in Int /\ (k * M + l >= 0 <=> k >= 0)
<1>1. CASE k >= 0
  <2>1. k \in Nat
    BY <1>1
  <2>2. k * M \in Nat
    BY <2>1
  <2> QED BY <1>1, <2>2
<1>2. CASE ~(k >= 0)
  <2>1. PICK j \in Nat : k = -(1 + j)
    <3>1. -1 - k \in Nat /\ k = -(1 + (-1 - k))
      BY <1>2
    <3> QED BY <3>1
  <2>2. j * M \in Nat
    OBVIOUS
  <2>3. (-(1 + j)) * M = -(M + j * M)
    OBVIOUS
  <2>4. k * M = -(M + j * M)
    BY <2>1, <2>3
  <2> QED BY <1>2, <2>2, <2>4
<1> QED BY <1>1, <1>2

LEMMA Shifted ==
    ASSUME NEW M \in Nat, NEW k \in Int, NEW h \in Int
    PROVE  (k + h) * M = k * M + h * M /\ (k - h) * M = k * M - h * M
           /\ k * M \in Int /\ h * M \in Int
OBVIOUS

LEMMA HigherRange ==
    ASSUME NEW M \in Nat, M > 0, NEW H \in Nat, NEW k \in Int, NEW l \in Nat, l < M
    PROVE  k * M + l \notin -(H * M) .. H * M - 1 <=> k \notin -H .. H - 1
<1>1. k * M + l >= -(H * M) <=> k >= -H
  <2>1. (k + H) * M + l >= 0 <=> k + H >= 0
    <3>1. k + H \in Int
      OBVIOUS
    <3> QED BY <3>1, HigherSign
  <2>2. (k + H) * M = k * M + H * M /\ k * M \in Int /\ H * M \in Int
    BY Shifted
  <2> QED BY <2>1, <2>2
<1>2. k * M + l >= H * M <=> k >= H
  <2>1. (k - H) * M + l >= 0 <=> k - H >= 0
    <3>1. k - H \in Int
      OBVIOUS
    <3> QED BY <3>1, HigherSign
  <2>2. (k - H) * M = k * M - H * M /\ k * M \in Int /\ H * M \in Int
    BY Shifted
  <2> QED BY <2>1, <2>2
<1>3. k * M \in Int /\ H * M \in Int
  OBVIOUS
<1>4. PICK x \in Int, y \in Int : x = k * M + l /\ y = H * M
  BY <1>3
<1>5. x >= -y <=> k >= -H
  BY <1>1, <1>4
<1>6. x >= y <=> k >= H
  BY <1>2, <1>4
<1>7. x \notin -y .. y - 1 <=> k \notin -H .. H - 1
  BY <1>5, <1>6
<1> QED BY <1>4, <1>7

LEMMA DoubleWord ==
    ASSUME NEW M, NEW H, Widths(M, H), NEW hi \in Word, NEW lo \in Word
    PROVE  /\ Double(hi, lo) = hi * M + lo /\ DoubleSigned(hi, lo) = AsSigned(hi) * M + lo
           /\ hi * M \in Nat /\ hi * M + lo \in Nat /\ hi * M + lo < M * M
<1>1. hi \in Nat /\ lo \in Nat /\ hi < M /\ lo < M /\ M \in Nat /\ M = Pow2[W]
  BY Words DEF Widths
<1>2. PICK e \in Nat : M = hi + 1 + e
  <2>1. M - (hi + 1) \in Nat /\ M = hi + 1 + (M - (hi + 1))
    BY <1>1
  <2> QED BY <2>1
<1>3. M * (hi + 1 + e) = M * hi + M + M * e /\ M * e \in Nat
  BY <1>1, Spread
<1>4. M * hi = hi * M /\ hi * M \in Nat
  BY <1>1
<1>5. M * M = hi * M + M + M * e
  BY <1>2, <1>3, <1>4
<1>6. hi * M + lo < M * M
  BY <1>1, <1>3, <1>4, <1>5
<1> QED BY <1>1, <1>4, <1>6 DEF Double, DoubleSigned

LEMMA SignedConditions ==
    ASSUME NEW g, g.c \in BOOLEAN, NEW x \in Int, NEW y \in Int,
           g.c <=> x >= 0, (g.n = g.v) <=> y >= 0
    PROVE  \A cond \in {"CS", "CC", "GE", "LT"} : CheckCond(g, cond) <=> Relation(cond, x, y)
<1>1. CheckCond(g, "CS") <=> Relation("CS", x, y)
  BY DEF CheckCond, Relation
<1>2. CheckCond(g, "CC") <=> Relation("CC", x, y)
  BY DEF CheckCond, Relation
<1>3. CheckCond(g, "GE") <=> Relation("GE", x, y)
  BY DEF CheckCond, Relation
<1>4. CheckCond(g, "LT") <=> Relation("LT", x, y)
  BY DEF CheckCond, Relation
<1> QED BY <1>1, <1>2, <1>3, <1>4

\* A comparison of the low words, and of the high ones with the borrow.
LEMMA DifferenceChain ==
    ASSUME NEW M, NEW H, Widths(M, H), NEW a \in Word, NEW b \in Word, NEW lo1 \in Word, NEW lo2 \in Word,
           NEW f \in Flags, NEW low, low = SubFlags(lo1, lo2, 1),
           NEW high, high = SubFlags(a, b, CarryIn(low))
    PROVE  /\ \A cond \in {"CS", "CC", "GE", "LT"} :
                 CheckCond(SetFlags(f, high), cond) <=>
                     Relation(cond, Double(a, lo1) - Double(b, lo2),
                              DoubleSigned(a, lo1) - DoubleSigned(b, lo2))
           /\ Double(high.res, low.res) = (Double(a, lo1) - Double(b, lo2)) % Pow2[2 * W]
<1>1. PICK d, res : DifferenceIs(M, H, lo1, lo2, 1, d, res)
  BY Differences
<1>2. d \in {0, 1} /\ res \in Word /\ low.res = res /\ low.c = (d = 0) /\ lo1 - lo2 - (1 - 1) = res - M * d
  BY <1>1 DEF DifferenceIs
<1>3. PICK ci \in {0, 1} : ci = CarryIn(low) /\ ci = 1 - d
  <2>1. CASE d = 0
    <3>1. CarryIn(low) = 1
      BY <1>2, <2>1 DEF CarryIn
    <3> QED BY <2>1, <3>1
  <2>2. CASE d = 1
    <3>1. CarryIn(low) = 0
      BY <1>2, <2>2 DEF CarryIn
    <3> QED BY <2>2, <3>1
  <2> QED BY <1>2, <2>1, <2>2
<1>4. PICK e, hres : DifferenceIs(M, H, a, b, ci, e, hres)
  BY Differences
<1>5. /\ e \in {0, 1} /\ hres \in Word /\ high.res = hres /\ high.c = (e = 0)
      /\ a - b - (1 - ci) = hres - M * e
      /\ (Negative(hres) = high.v) <=> AsSigned(a) - AsSigned(b) - (1 - ci) >= 0
  BY <1>3, <1>4 DEF DifferenceIs
<1>6. /\ M \in Nat /\ M > 0 /\ a \in Nat /\ b \in Nat /\ lo1 \in Nat /\ lo2 \in Nat /\ hres \in Nat /\ res \in Nat
      /\ res < M /\ d \in Nat /\ e \in Nat
  <2>1. \A w \in Word : w \in Nat /\ w < M
    BY Words
  <2>2. M \in Nat /\ H \in Nat /\ M > 0
    BY DEF Widths
  <2>3. hres \in Word /\ res \in Word
    BY <1>2, <1>5
  <2>4. d \in Nat /\ e \in Nat
    BY <1>2, <1>5
  <2> QED BY <2>1, <2>2, <2>3, <2>4
<1>7. PICK sa \in Int, sb \in Int : sa = AsSigned(a) /\ sb = AsSigned(b)
  BY Signs
<1>8. lo1 - lo2 = res - d * M /\ a - b = hres + d - e * M /\ d * M \in Nat /\ e * M \in Nat
  <2>1. M * d = d * M /\ M * e = e * M /\ d * M \in Nat /\ e * M \in Nat
    BY <1>6
  <2> QED BY <1>2, <1>3, <1>5, <1>6, <2>1
<1>9. PICK x \in Int : x = Double(a, lo1) - Double(b, lo2) /\ x = (hres * M + res) - e * (M * M)
  <2>1. Double(a, lo1) - Double(b, lo2) = (a * M + lo1) - (b * M + lo2)
    <3>1. Double(a, lo1) = a * M + lo1
      BY DoubleWord
    <3>2. Double(b, lo2) = b * M + lo2
      BY DoubleWord
    <3> QED BY <3>1, <3>2, Zenon
  <2>2. a * M - b * M = (a - b) * M /\ a * M \in Int /\ b * M \in Int
    BY <1>6, Shifted
  <2>3. (hres + d - e * M) * M = hres * M + d * M - e * (M * M)
    <3>1. (hres + d) * M = hres * M + d * M /\ hres * M \in Int /\ d * M \in Int
      BY <1>6, Shifted
    <3>2. (hres + d - e * M) * M = (hres + d) * M - (e * M) * M
      <4>1. hres + d \in Int /\ e * M \in Int
        BY <1>6
      <4> QED BY <1>6, <4>1, Shifted
    <3>3. (e * M) * M = e * (M * M) /\ (e * M) * M \in Int
      BY <1>6
    <3> QED BY <3>1, <3>2, <3>3
  <2>4. hres * M \in Int /\ d * M \in Int /\ e * (M * M) \in Int
    BY <1>6
  <2>5. (a - b) * M = hres * M + d * M - e * (M * M)
    BY <1>8, <2>3
  <2> QED BY <1>6, <1>8, <2>1, <2>2, <2>4, <2>5
<1>10. PICK y \in Int : y = DoubleSigned(a, lo1) - DoubleSigned(b, lo2) /\ y = (sa - sb - d) * M + res
  <2>1. DoubleSigned(a, lo1) - DoubleSigned(b, lo2) = (sa * M + lo1) - (sb * M + lo2)
    <3>1. DoubleSigned(a, lo1) = sa * M + lo1
      BY <1>7, DoubleWord
    <3>2. DoubleSigned(b, lo2) = sb * M + lo2
      BY <1>7, DoubleWord
    <3> QED BY <3>1, <3>2, Zenon
  <2>2. (sa - sb) * M = sa * M - sb * M /\ sa * M \in Int /\ sb * M \in Int
    BY <1>6, Shifted
  <2>3. (sa - sb - d) * M = (sa - sb) * M - d * M /\ (sa - sb) * M \in Int /\ d * M \in Int
    <3>1. sa - sb \in Int /\ d \in Int
      BY <1>6
    <3> QED BY <1>6, <3>1, Shifted
  <2> QED BY <1>6, <1>8, <2>1, <2>2, <2>3
<1>11. PICK o \in Nat, n \in Nat : o = hres * M + res /\ n = M * M /\ o < n /\ o = Double(hres, res) /\ n > 0
  <2>1. Double(hres, res) = hres * M + res /\ hres * M + res \in Nat /\ hres * M + res < M * M
    BY <1>2, <1>5, DoubleWord
  <2>2. M * M \in Nat
    BY <1>6
  <2> QED BY <2>1, <2>2
<1>12. x = o - e * n
  BY <1>9, <1>11
<1>13. x >= 0 <=> e = 0
  <2>1. CASE e = 0
    BY <1>11, <1>12, <2>1
  <2>2. CASE e = 1
    BY <1>11, <1>12, <2>2
  <2> QED BY <1>5, <2>1, <2>2
<1>14. x % n = o
  <2>1. PICK q \in Int : q = -e
    BY <1>6
  <2>2. x = n * q + o
    <3>1. CASE e = 0
      BY <1>11, <1>12, <2>1, <3>1
    <3>2. CASE e = 1
      BY <1>11, <1>12, <2>1, <3>2
    <3> QED BY <1>5, <3>1, <3>2
  <2> QED BY <1>11, <2>1, <2>2, Quotients
<1>15. y >= 0 <=> sa - sb - d >= 0
  <2>1. sa - sb - d \in Int
    BY <1>6
  <2> QED BY <1>6, <1>10, <2>1, HigherSign
<1>16. PICK g : g = SetFlags(f, high)
  OBVIOUS
<1>17. g.c = (e = 0) /\ g.n = Negative(hres) /\ g.v = high.v
  BY <1>5, <1>16, SetFlagsIs
<1>18. (g.n = g.v) <=> y >= 0
  <2>1. sa - sb - (1 - ci) = sa - sb - d
    BY <1>3, <1>6
  <2> QED BY <1>5, <1>7, <1>15, <1>17, <2>1
<1>19. \A cond \in {"CS", "CC", "GE", "LT"} : CheckCond(g, cond) <=> Relation(cond, x, y)
  <2>1. g.c \in BOOLEAN /\ (g.c <=> x >= 0)
    BY <1>13, <1>17
  <2> QED BY <1>18, <2>1, SignedConditions
<1>20. Pow2[2 * W] = n
  BY <1>11, DoubleWidths
<1> QED BY <1>2, <1>5, <1>9, <1>10, <1>11, <1>14, <1>16, <1>19, <1>20

\* The sum of the low words, and of the high ones with the carry.
LEMMA SumChain ==
    ASSUME NEW M, NEW H, Widths(M, H), NEW a \in Word, NEW b \in Word, NEW lo1 \in Word, NEW lo2 \in Word,
           NEW low, low = AddFlags(lo1, lo2, 0),
           NEW high, high = AddFlags(a, b, CarryIn(low))
    PROVE  /\ Double(high.res, low.res) + (IF high.c THEN Pow2[2 * W] ELSE 0)
                  = Double(a, lo1) + Double(b, lo2)
           /\ high.v <=> DoubleSigned(a, lo1) + DoubleSigned(b, lo2)
                             \notin -(Pow2[2 * W - 1]) .. Pow2[2 * W - 1] - 1
<1>1. PICK d, res : SumIs(M, H, lo1, lo2, 0, d, res)
  BY Sums
<1>2. d \in {0, 1} /\ res \in Word /\ low.res = res /\ low.c = (d = 1) /\ lo1 + lo2 + 0 = M * d + res
  BY <1>1 DEF SumIs
<1>3. CarryIn(low) = d
  BY <1>2 DEF CarryIn
<1>4. PICK e, hres : SumIs(M, H, a, b, d, e, hres)
  BY <1>2, Sums
<1>5. /\ e \in {0, 1} /\ hres \in Word /\ high.res = hres /\ high.c = (e = 1)
      /\ a + b + d = M * e + hres
  BY <1>3, <1>4 DEF SumIs
<1>6. high.v <=> AsSigned(a) + AsSigned(b) + d \notin -H .. H - 1
  BY <1>2, <1>3, <1>4, SignedSum
<1>7. /\ M \in Nat /\ H \in Nat /\ M > 0 /\ a \in Nat /\ b \in Nat /\ lo1 \in Nat
      /\ lo2 \in Nat /\ hres \in Nat /\ res \in Nat
      /\ res < M /\ d \in Nat /\ e \in Nat
  <2>1. \A w \in Word : w \in Nat /\ w < M
    BY Words
  <2>2. M \in Nat /\ H \in Nat /\ M > 0
    BY DEF Widths
  <2>3. hres \in Word /\ res \in Word
    BY <1>2, <1>5
  <2>4. d \in Nat /\ e \in Nat
    BY <1>2, <1>5
  <2> QED BY <2>1, <2>2, <2>3, <2>4
<1>8. PICK sa \in Int, sb \in Int : sa = AsSigned(a) /\ sb = AsSigned(b)
  BY Signs
<1>9. lo1 + lo2 = d * M + res /\ a + b = e * M + hres - d /\ d * M \in Nat /\ e * M \in Nat
  <2>1. M * d = d * M /\ M * e = e * M /\ d * M \in Nat /\ e * M \in Nat
    BY <1>7
  <2> QED BY <1>2, <1>5, <1>7, <2>1
<1>10. Double(hres, res) + e * (M * M) = Double(a, lo1) + Double(b, lo2)
  <2>1. Double(a, lo1) + Double(b, lo2) = a * M + lo1 + (b * M + lo2)
    <3>1. Double(a, lo1) = a * M + lo1
      BY DoubleWord
    <3>2. Double(b, lo2) = b * M + lo2
      BY DoubleWord
    <3> QED BY <3>1, <3>2
  <2>2. (a + b) * M = a * M + b * M /\ a * M \in Int /\ b * M \in Int
    BY <1>7, Shifted
  <2>3. (e * M + hres - d) * M = e * (M * M) + hres * M - d * M
    <3>1. (e * M + hres) * M = (e * M) * M + hres * M /\ hres * M \in Int /\ (e * M) * M \in Int
      BY <1>7, <1>9, Shifted
    <3>2. (e * M + hres - d) * M = (e * M + hres) * M - d * M
      <4>1. e * M + hres \in Int /\ d \in Int
        BY <1>7, <1>9
      <4> QED BY <1>7, <4>1, Shifted
    <3>3. (e * M) * M = e * (M * M) /\ d * M \in Int
      BY <1>7
    <3>4. PICK x \in Int, y \in Int : x = (e * M) * M /\ y = hres * M
      BY <3>1
    <3> QED BY <3>1, <3>2, <3>3, <3>4
  <2>4. hres * M \in Int /\ d * M \in Int /\ e * (M * M) \in Int
    BY <1>7
  <2>5. (a + b) * M = e * (M * M) + hres * M - d * M
    BY <1>9, <2>3
  <2>6. Double(hres, res) = hres * M + res
    BY <1>2, <1>5, DoubleWord
  <2> QED BY <1>7, <1>9, <2>1, <2>2, <2>4, <2>5, <2>6
<1>11. DoubleSigned(a, lo1) + DoubleSigned(b, lo2) = (sa + sb + d) * M + res
  <2>1. DoubleSigned(a, lo1) + DoubleSigned(b, lo2) = sa * M + lo1 + (sb * M + lo2)
    <3>1. DoubleSigned(a, lo1) = sa * M + lo1
      BY <1>8, DoubleWord
    <3>2. DoubleSigned(b, lo2) = sb * M + lo2
      BY <1>8, DoubleWord
    <3> QED BY <3>1, <3>2
  <2>2. (sa + sb) * M = sa * M + sb * M /\ sa * M \in Int /\ sb * M \in Int
    BY <1>7, Shifted
  <2>3. (sa + sb + d) * M = (sa + sb) * M + d * M /\ (sa + sb) * M \in Int /\ d * M \in Int
    <3>1. sa + sb \in Int /\ d \in Int
      BY <1>7
    <3> QED BY <1>7, <3>1, Shifted
  <2> QED BY <1>7, <1>9, <2>1, <2>2, <2>3
<1>12. Pow2[2 * W] = M * M /\ Pow2[2 * W - 1] = H * M
  BY DoubleWidths
<1>13. high.v <=> (sa + sb + d) * M + res \notin -(H * M) .. H * M - 1
  <2>1. PICK k \in Int : k = sa + sb + d
    BY <1>7
  <2>2. k * M + res \notin -(H * M) .. H * M - 1 <=> k \notin -H .. H - 1
    BY <1>7, HigherRange
  <2> QED BY <1>6, <1>8, <2>1, <2>2
<1>14. e * (M * M) = IF high.c THEN M * M ELSE 0
  <2>1. PICK n \in Nat : n = M * M
    BY <1>7
  <2>2. CASE e = 0
    <3>1. e * n = 0
      BY <2>1, <2>2
    <3>2. (e = 1) = FALSE
      BY <2>2
    <3>3. high.c = FALSE
      BY <1>5, <3>2, Zenon
    <3> QED BY <2>1, <3>1, <3>3
  <2>3. CASE e = 1
    <3>1. e * n = n
      BY <2>1, <2>3
    <3>2. high.c
      BY <1>5, <2>3
    <3> QED BY <2>1, <3>1, <3>2
  <2> QED BY <1>5, <2>2, <2>3
<1> QED BY <1>2, <1>5, <1>10, <1>11, <1>12, <1>13, <1>14

LEMMA Chained ==
    ASSUME NEW f \in Flags, NEW a \in Word, NEW b \in Word, NEW lo1 \in Word, NEW lo2 \in Word
    PROVE  ChainsCarry(f, a, b, lo1, lo2)
<1>1. PICK M \in Nat, H \in Nat : Widths(M, H)
  BY WordWidths
<1>2. PICK low, high : low = SubFlags(lo1, lo2, 1) /\ high = SubFlags(a, b, CarryIn(low))
  OBVIOUS
<1>3. PICK sumLow, sum : sumLow = AddFlags(lo1, lo2, 0) /\ sum = AddFlags(a, b, CarryIn(sumLow))
  OBVIOUS
<1>4. /\ \A cond \in {"CS", "CC", "GE", "LT"} :
            CheckCond(SetFlags(f, high), cond) <=>
                Relation(cond, Double(a, lo1) - Double(b, lo2),
                         DoubleSigned(a, lo1) - DoubleSigned(b, lo2))
      /\ Double(high.res, low.res) = (Double(a, lo1) - Double(b, lo2)) % Pow2[2 * W]
  BY <1>1, <1>2, DifferenceChain
<1>5. /\ Double(sum.res, sumLow.res) + (IF sum.c THEN Pow2[2 * W] ELSE 0)
             = Double(a, lo1) + Double(b, lo2)
      /\ sum.v <=> DoubleSigned(a, lo1) + DoubleSigned(b, lo2)
                       \notin -(Pow2[2 * W - 1]) .. Pow2[2 * W - 1] - 1
  BY <1>1, <1>3, SumChain
<1> QED BY <1>2, <1>3, <1>4, <1>5, Zenon DEF ChainsCarry

-----------------------------------------------------------------------------
(* Every set of bits is a word's *)

LEMMA BitUp ==
    ASSUME NEW v \in Nat, NEW o \in {0, 1}
    PROVE  /\ 2 * v + o \in Nat /\ Bit(2 * v + o, 0) <=> o = 1
           /\ \A k \in Nat : Bit(2 * v + o, k + 1) <=> Bit(v, k)
<1>1. PICK x \in Nat : x = 2 * v + o
  OBVIOUS
<1>2. Bit(x, 0) <=> o = 1
  <2>1. x % 2 = o
    BY <1>1, Parity
  <2> QED BY <2>1, LowestBit
<1>3. ASSUME NEW k \in Nat PROVE Bit(x, k + 1) <=> Bit(v, k)
  <2>1. PICK b, q, r : Cut(v, k, b, q, r)
    BY Cuts
  <2>2. b \in Nat /\ q \in Nat /\ r \in Nat /\ b = Pow2[k] /\ b > 0 /\ r < b /\ v = b * q + r /\ q = v \div b
    BY <2>1 DEF Cut
  <2>3. Pow2[k + 1] = 2 * b
    BY <2>2, Pow2Step
  <2>4. x = (2 * b) * q + (2 * r + o)
    <3>1. (2 * b) * q = 2 * (b * q) /\ b * q \in Nat
      BY <2>2
    <3> QED BY <1>1, <2>2, <3>1
  <2>5. PICK p \in Nat, u \in Nat : p = 2 * b /\ u = 2 * r + o /\ u < p
    BY <2>2
  <2>6. x = p * q + u
    BY <2>4, <2>5
  <2>7. x \div p = q
    <3>1. p > 0 /\ q \in Int
      BY <2>2, <2>5
    <3> QED BY <2>5, <2>6, <3>1, Quotients
  <2> QED BY <2>2, <2>3, <2>5, <2>7 DEF Bit
<1> QED BY <1>1, <1>2, <1>3

\* The numbers below 2^n hold each set of n bits.
HoldsBits(n, S, v) == v \in Nat /\ v < Pow2[n] /\ \A k \in 0 .. n - 1 : k \in S <=> Bit(v, k)

LEMMA BitsHeld == \A n \in Nat : \A S : \E v : HoldsBits(n, S, v)
<1> DEFINE T == {n \in Nat : \A S : \E v : HoldsBits(n, S, v)}
<1>1. 0 \in T
  <2>1. ASSUME NEW S PROVE HoldsBits(0, S, 0)
    BY Pow2Step DEF HoldsBits
  <2> QED BY <2>1
<1>2. ASSUME NEW n \in Nat, n \in T PROVE n + 1 \in T
  <2>1. ASSUME NEW S PROVE \E v : HoldsBits(n + 1, S, v)
    <3>1. PICK v : HoldsBits(n, {k \in 0 .. n - 1 : k + 1 \in S}, v)
      BY <1>2
    <3>2. v \in Nat /\ v < Pow2[n] /\ \A k \in 0 .. n - 1 : k + 1 \in S <=> Bit(v, k)
      BY <3>1 DEF HoldsBits
    <3>3. PICK o \in {0, 1} : o = IF 0 \in S THEN 1 ELSE 0
      OBVIOUS
    <3>4. PICK x \in Nat : x = 2 * v + o
      BY <3>2
    <3>5. x < Pow2[n + 1]
      <4>1. PICK b \in Nat : b = Pow2[n] /\ Pow2[n + 1] = 2 * b
        BY Pow2Type, Pow2Step
      <4> QED BY <3>2, <3>4, <4>1
    <3>6. (Bit(x, 0) <=> o = 1) /\ \A k \in Nat : Bit(x, k + 1) <=> Bit(v, k)
      BY <3>2, <3>4, BitUp
    <3>7. ASSUME NEW k \in 0 .. (n + 1) - 1 PROVE k \in S <=> Bit(x, k)
      <4>1. CASE k = 0
        BY <3>3, <3>6, <4>1
      <4>2. CASE k # 0
        <5>1. k - 1 \in Nat /\ k - 1 \in 0 .. n - 1 /\ (k - 1) + 1 = k
          BY <4>2
        <5>2. Bit(x, (k - 1) + 1) <=> Bit(v, k - 1)
          BY <3>6, <5>1
        <5>3. (k - 1) + 1 \in S <=> Bit(v, k - 1)
          BY <3>2, <5>1
        <5> QED BY <5>1, <5>2, <5>3
      <4> QED BY <4>1, <4>2
    <3> QED BY <3>4, <3>5, <3>7 DEF HoldsBits
  <2> QED BY <2>1
<1> HIDE DEF T
<1>3. \A n \in Nat : n \in T
  BY <1>1, <1>2, Everywhere
<1> QED BY <1>3 DEF T

LEMMA WordOfBits ==
    ASSUME NEW S \in SUBSET (0 .. W - 1)
    PROVE  WordOf(S) \in Word /\ Bits(WordOf(S)) = S
<1>1. W \in Nat /\ Pow2[W] \in Nat
  BY AluAssumption, Pow2Type
<1>2. PICK v : HoldsBits(W, S, v)
  BY <1>1, BitsHeld
<1>3. v \in Word
  BY <1>1, <1>2 DEF HoldsBits, Word
<1>4. Bits(v) = S
  BY <1>2 DEF HoldsBits, Bits
<1> QED BY <1>3, <1>4 DEF WordOf

LEMMA LogicType == \A a, b : And(a, b) \in Word /\ Or(a, b) \in Word /\ Xor(a, b) \in Word
<1> TAKE a, b
<1>1. Bits(a) \subseteq 0 .. W - 1 /\ Bits(b) \subseteq 0 .. W - 1
  BY DEF Bits
<1>2. And(a, b) \in Word
  <2>1. Bits(a) \cap Bits(b) \in SUBSET (0 .. W - 1)
    BY <1>1
  <2> QED BY <2>1, WordOfBits DEF And
<1>3. Or(a, b) \in Word
  <2>1. Bits(a) \cup Bits(b) \in SUBSET (0 .. W - 1)
    BY <1>1
  <2> QED BY <2>1, WordOfBits DEF Or
<1>4. Xor(a, b) \in Word
  <2>1. (Bits(a) \cup Bits(b)) \ (Bits(a) \cap Bits(b)) \in SUBSET (0 .. W - 1)
    BY <1>1
  <2> QED BY <2>1, WordOfBits DEF Xor
<1> QED BY <1>2, <1>3, <1>4

-----------------------------------------------------------------------------
(* The results of shifts and sums are words *)

IsOut(out) == out.res \in Word /\ out.c \in BOOLEAN

LEMMA OutIs == \A res \in Word, c \in BOOLEAN : IsOut(Out(res, c))
BY DEF IsOut, Out

LEMMA Booleans == \A v, k : Bit(v, k) \in BOOLEAN /\ Negative(v) \in BOOLEAN
BY DEF Bit, Negative

LEMMA SomeWords == 0 \in Word /\ 1 \in Word /\ Pow2[W] - 1 \in Word
<1>1. PICK M \in Nat, H \in Nat : Widths(M, H)
  BY WordWidths
<1> QED BY <1>1, Words DEF Widths

LEMMA QuotientWord == \A v \in Word, n \in Nat : v \div Pow2[n] \in Word
<1> TAKE v \in Word, n \in Nat
<1>1. PICK M \in Nat, H \in Nat : Widths(M, H)
  BY WordWidths
<1>2. v \in Nat /\ v < M
  BY <1>1, Words
<1>3. PICK b, q, r : Cut(v, n, b, q, r)
  BY <1>2, Cuts
<1>4. b \in Nat /\ b > 0 /\ q \in Nat /\ r \in Nat /\ v = b * q + r /\ q = v \div Pow2[n]
  BY <1>3 DEF Cut
<1>5. q <= b * q /\ b * q \in Nat
  BY <1>4, AtLeast
<1>6. q < M
  BY <1>1, <1>2, <1>4, <1>5
<1> QED BY <1>1, <1>4, <1>6, Words

LEMMA LslType ==
    ASSUME NEW v \in Word, NEW amt \in Nat, NEW carry \in BOOLEAN
    PROVE  IsOut(Lsl(v, amt, carry))
<1>1. CASE amt = 0
  <2>1. Lsl(v, amt, carry) = Out(v, carry)
    BY <1>1, LslCases
  <2> QED BY <2>1, OutIs
<1>2. CASE amt \in 1 .. W - 1
  <2>1. Lsl(v, amt, carry) = Out(Wrap(v * Pow2[amt]), Bit(v, W - amt))
    BY <1>2, LslCases
  <2>2. v * Pow2[amt] \in Int
    BY Pow2Type, WrapWord
  <2> QED BY <2>1, <2>2, WrapType, Booleans, OutIs
<1>3. CASE amt = W
  <2>1. Lsl(v, amt, carry) = Out(0, Bit(v, 0))
    BY <1>3, LslCases
  <2> QED BY <2>1, SomeWords, Booleans, OutIs
<1>4. CASE amt > W
  <2>1. Lsl(v, amt, carry) = Out(0, FALSE)
    BY <1>4, LslCases
  <2> QED BY <2>1, SomeWords, OutIs
<1> QED BY <1>1, <1>2, <1>3, <1>4, AluAssumption

LEMMA LsrType ==
    ASSUME NEW v \in Word, NEW amt \in Nat, NEW carry \in BOOLEAN, NEW imm \in BOOLEAN
    PROVE  IsOut(Lsr(v, amt, carry, imm))
<1>1. CASE amt = 0 /\ ~imm
  <2>1. Lsr(v, amt, carry, imm) = Out(v, carry)
    BY <1>1, LsrNone
  <2> QED BY <2>1, OutIs
<1>2. CASE amt = 0 /\ imm
  <2>1. Lsr(v, amt, carry, imm) = Out(0, Negative(v))
    BY <1>2, LsrEncodedZero
  <2> QED BY <2>1, SomeWords, Booleans, OutIs
<1>3. CASE amt \in 1 .. W - 1
  <2>1. Lsr(v, amt, carry, imm) = Out(v \div Pow2[amt], Bit(v, amt - 1))
    BY <1>3, LsrWithin
  <2> QED BY <2>1, QuotientWord, Booleans, OutIs
<1>4. CASE amt = W
  <2>1. Lsr(v, amt, carry, imm) = Out(0, Negative(v))
    BY <1>4, LsrWidth
  <2> QED BY <2>1, SomeWords, Booleans, OutIs
<1>5. CASE amt > W
  <2>1. Lsr(v, amt, carry, imm) = Out(0, FALSE)
    BY <1>5, LsrBeyond
  <2> QED BY <2>1, SomeWords, OutIs
<1> QED BY <1>1, <1>2, <1>3, <1>4, <1>5, AluAssumption

LEMMA AsrType ==
    ASSUME NEW v \in Word, NEW amt \in Nat, NEW carry \in BOOLEAN, NEW imm \in BOOLEAN
    PROVE  IsOut(Asr(v, amt, carry, imm))
<1>1. PICK fill : fill = IF Negative(v) THEN Pow2[W] - 1 ELSE 0
  OBVIOUS
<1>2. fill \in Word
  BY <1>1, SomeWords
<1>3. CASE amt = 0 /\ ~imm
  <2>1. Asr(v, amt, carry, imm) = Out(v, carry)
    BY <1>3, AsrNone
  <2> QED BY <2>1, OutIs
<1>4. CASE amt = 0 /\ imm
  <2>1. Asr(v, amt, carry, imm) = Out(fill, Negative(v))
    BY <1>1, <1>4, AsrEncodedZero
  <2> QED BY <1>2, <2>1, Booleans, OutIs
<1>5. CASE amt \in 1 .. W - 1
  <2>1. Asr(v, amt, carry, imm) = Out(Wrap(AsSigned(v) \div Pow2[amt]), Bit(v, amt - 1))
    BY <1>5, AsrWithin
  <2>2. AsSigned(v) \in Int
    BY WordWidths, Signs
  <2>3. AsSigned(v) \div Pow2[amt] \in Int
    <3>1. PICK p \in Nat : p = Pow2[amt] /\ p > 0
      BY Pow2Type
    <3>2. PICK q \in Int : q = AsSigned(v) \div p
      BY <2>2, <3>1, IntDivision
    <3> QED BY <3>1, <3>2
  <2> QED BY <2>1, <2>3, WrapType, Booleans, OutIs
<1>6. CASE amt >= W
  <2>1. Asr(v, amt, carry, imm) = Out(fill, Negative(v))
    BY <1>1, <1>6, AsrBeyond
  <2> QED BY <1>2, <2>1, Booleans, OutIs
<1> QED BY <1>3, <1>4, <1>5, <1>6, AluAssumption

LEMMA RorType ==
    ASSUME NEW v \in Word, NEW amt \in Nat, NEW carry \in BOOLEAN, NEW imm \in BOOLEAN
    PROVE  IsOut(Ror(v, amt, carry, imm))
<1>1. CASE amt = 0 /\ ~imm
  <2>1. Ror(v, amt, carry, imm) = Out(v, carry)
    BY <1>1, RorNone
  <2> QED BY <2>1, OutIs
<1>2. CASE amt = 0 /\ imm
  <2>1. PICK M \in Nat, H \in Nat : Widths(M, H)
    BY WordWidths
  <2>2. v \in Nat /\ v < M /\ M = 2 * H /\ H \in Nat /\ M = Pow2[W] /\ H = Pow2[W - 1]
    BY <2>1, Words DEF Widths
  <2>3. Ror(v, amt, carry, imm) = Out(v \div 2 + (IF carry THEN H ELSE 0), Bit(v, 0))
    BY <1>2, <2>2, Zenon DEF Ror
  <2>4. PICK x : x = v \div 2 + (IF carry THEN H ELSE 0)
    OBVIOUS
  <2>5. x \in Nat /\ x < M
    BY <2>2, <2>4
  <2>6. x \in Word
    BY <2>1, <2>5, Words
  <2> QED BY <2>3, <2>4, <2>6, Booleans, OutIs
<1>3. CASE amt # 0
  <2>1. Ror(v, amt, carry, imm) = Out(RotateRight(v, amt % W), Negative(RotateRight(v, amt % W)))
    BY <1>3, RorSome
  <2>2. amt % W \in 0 .. W
    BY AluAssumption
  <2>3. RotateRight(v, amt % W) \in Word
    BY <2>2, RotateType
  <2> QED BY <2>1, <2>3, Booleans, OutIs
<1> QED BY <1>1, <1>2, <1>3

LEMMA ShiftType ==
    ASSUME NEW kind \in ThumbShifts, NEW v \in Word, NEW amt \in Nat, NEW carry \in BOOLEAN,
           NEW imm \in BOOLEAN
    PROVE  IsOut(Shift(kind, v, amt, carry, imm))
<1>1. CASE kind = "LSL"
  BY <1>1, LslType DEF Shift
<1>2. CASE kind = "LSR"
  BY <1>2, LsrType DEF Shift
<1>3. CASE kind = "ASR"
  BY <1>3, AsrType DEF Shift
<1>4. CASE kind = "ROR"
  BY <1>4, RorType DEF Shift
<1> QED BY <1>1, <1>2, <1>3, <1>4 DEF ThumbShifts

IsSum(sum) == sum.res \in Word /\ sum.c \in BOOLEAN /\ sum.v \in BOOLEAN

LEMMA SumType ==
    ASSUME NEW x \in Word, NEW y \in Word, NEW ci \in {0, 1}
    PROVE  IsSum(AddFlags(x, y, ci)) /\ IsSum(SubFlags(x, y, ci))
<1>1. PICK M \in Nat, H \in Nat : Widths(M, H)
  BY WordWidths
<1>2. ASSUME NEW z \in Word PROVE IsSum(AddFlags(x, z, ci))
  <2>1. PICK c, res : SumIs(M, H, x, z, ci, c, res)
    BY <1>1, Sums
  <2> QED BY <2>1 DEF SumIs, IsSum
<1> QED BY <1>2, ComplementWord DEF SubFlags

LEMMA FlagTypes ==
    ASSUME NEW f \in Flags, NEW v, NEW carry \in BOOLEAN
    PROVE  SetNz(f, v) \in Flags /\ SetNzc(f, v, carry) \in Flags
BY Booleans DEF Flags, SetNz, SetNzc

LEMMA SumFlagTypes ==
    ASSUME NEW f \in Flags, NEW sum, IsSum(sum)
    PROVE  SetFlags(f, sum) \in Flags
BY Booleans DEF Flags, SetNz, SetNzc, SetFlags, IsSum

LEMMA CarryInType == \A f : CarryIn(f) \in {0, 1}
BY DEF CarryIn

-----------------------------------------------------------------------------
(* Memory *)

ByteWidths(M, B) ==
    /\ B \in Nat /\ B >= 2 /\ B = BYTE /\ M \in Nat /\ M = Pow2[W]
    /\ HALFWORD = B * B /\ M = (B * B) * (B * B)

LEMMA BytesOfWord == \E M, B : ByteWidths(M, B)
<1>1. W \in Nat /\ W > 1 /\ W % 4 = 0
  BY AluAssumption, ThumbAssumption
<1>2. PICK k \in Nat : k = W \div 4 /\ W = 4 * k /\ k > 0
  <2>1. W \div 4 \in Nat /\ W = 4 * (W \div 4)
    BY <1>1
  <2>2. W \div 4 > 0
    BY <1>1
  <2> QED BY <2>1, <2>2, Zenon
<1>3. PICK B \in Nat : B = Pow2[k] /\ B = BYTE
  BY <1>2, Pow2Type DEF BYTE, ByteBits
<1>4. B >= 2
  <2>1. k - 1 \in Nat /\ (k - 1) + 1 = k
    BY <1>2
  <2>2. PICK b \in Nat : b = Pow2[k - 1] /\ b > 0
    BY <2>1, Pow2Type
  <2>3. B = 2 * b
    BY <1>3, <2>1, <2>2, Pow2Step
  <2> QED BY <2>2, <2>3
<1>5. Pow2[k + k] = B * B
  BY <1>2, <1>3, Pow2Sum
<1>6. k + k \in Nat /\ 2 * k = k + k /\ (k + k) + (k + k) = W
  BY <1>2
<1>7. HALFWORD = B * B
  BY <1>2, <1>5, <1>6 DEF HALFWORD, ByteBits
<1>8. Pow2[(k + k) + (k + k)] = Pow2[k + k] * Pow2[k + k]
  BY <1>6, Pow2Sum
<1>9. Pow2[W] = (B * B) * (B * B)
  BY <1>5, <1>6, <1>8
<1>10. Pow2[W] \in Nat
  BY <1>1, Pow2Type
<1> QED BY <1>3, <1>4, <1>7, <1>9, <1>10 DEF ByteWidths

\* Two digits.
LEMMA Digits ==
    ASSUME NEW P \in Nat, NEW Q \in Nat, NEW lo \in Nat, NEW hi \in Nat, lo < P, hi < Q
    PROVE  hi * P \in Nat /\ lo + hi * P \in Nat /\ lo + hi * P < P * Q
<1>1. PICK e \in Nat : Q = hi + 1 + e
  <2>1. Q - (hi + 1) \in Nat /\ Q = hi + 1 + (Q - (hi + 1))
    OBVIOUS
  <2> QED BY <2>1
<1>2. P * (hi + 1 + e) = P * hi + P + P * e /\ P * e \in Nat
  BY Spread
<1>3. P * hi = hi * P /\ hi * P \in Nat
  OBVIOUS
<1>4. P * Q = hi * P + P + P * e
  BY <1>1, <1>2, <1>3
<1> QED BY <1>2, <1>3, <1>4

LEMMA SmallerSize ==
    ASSUME NEW M, NEW B, ByteWidths(M, B)
    PROVE  B \in Nat /\ B > 0 /\ B * B \in Nat /\ B <= B * B /\ B * B <= M /\ M \in Nat
<1>1. B \in Nat /\ B > 0 /\ M \in Nat
  BY DEF ByteWidths
<1>2. PICK h \in Nat : h = B * B
  BY <1>1
<1>3. B <= h
  BY <1>1, <1>2, AtLeast
<1>4. h <= h * h
  BY <1>1, <1>3, AtLeast
<1>5. M = h * h
  BY <1>2 DEF ByteWidths
<1> QED BY <1>1, <1>2, <1>3, <1>4, <1>5

\* Addresses of a word or a halfword lie within memory.
LEMMA AlignedWords ==
    ASSUME NEW addr \in Word
    PROVE  /\ Aligned(addr, 4) \in Word /\ Aligned(addr, 4) + 1 \in Word
           /\ Aligned(addr, 4) + 2 \in Word /\ Aligned(addr, 4) + 3 \in Word
           /\ Aligned(addr, 2) \in Word /\ Aligned(addr, 2) + 1 \in Word
<1>1. PICK M \in Nat, H \in Nat : Widths(M, H)
  BY WordWidths
<1>2. addr \in Nat /\ addr < M
  BY <1>1, Words
<1>3. PICK g \in Nat : M = 4 * g
  <2>1. W \in Nat /\ W - 2 \in Nat /\ (W - 2) + 1 = W - 1 /\ W - 1 \in Nat /\ (W - 1) + 1 = W
    BY AluAssumption
  <2>2. PICK g \in Nat : g = Pow2[W - 2]
    BY <2>1, Pow2Type
  <2>3. Pow2[W - 1] = 2 * g
    BY <2>1, <2>2, Pow2Step
  <2>4. Pow2[W] = 2 * Pow2[W - 1]
    BY <2>1, Pow2Step
  <2>5. M = 2 * (2 * g)
    BY <1>1, <2>3, <2>4 DEF Widths
  <2> QED BY <2>5
<1>4. PICK w \in Nat : w = Aligned(addr, 4) /\ w + 3 < M
  BY <1>2, <1>3 DEF Aligned
<1>5. PICK h \in Nat : h = Aligned(addr, 2) /\ h + 1 < M
  BY <1>2, <1>3 DEF Aligned
<1>6. w \in Word /\ w + 1 \in Word /\ w + 2 \in Word /\ w + 3 \in Word
  <2>1. w + 1 \in Nat /\ w + 2 \in Nat /\ w + 3 \in Nat
    OBVIOUS
  <2>2. w < M /\ w + 1 < M /\ w + 2 < M /\ w + 3 < M
    BY <1>1, <1>4 DEF Widths
  <2> QED BY <1>1, <2>1, <2>2, Words
<1>7. h \in Word /\ h + 1 \in Word
  <2>1. h + 1 \in Nat /\ h < M /\ h + 1 < M
    BY <1>1, <1>5 DEF Widths
  <2> QED BY <1>1, <2>1, Words
<1> QED BY <1>4, <1>5, <1>6, <1>7

Memory == [Word -> 0 .. BYTE - 1]

LEMMA ReadTypes ==
    ASSUME NEW mem \in Memory, NEW addr \in Word
    PROVE  Read8(mem, addr) \in Word /\ Read16(mem, addr) \in Word /\ Read32(mem, addr) \in Word
<1>1. PICK M, B : ByteWidths(M, B)
  BY BytesOfWord
<1>2. B \in Nat /\ B > 0 /\ B * B \in Nat /\ B <= B * B /\ B * B <= M /\ M \in Nat /\ M = Pow2[W]
      /\ BYTE = B /\ HALFWORD = B * B /\ M = (B * B) * (B * B)
  BY <1>1, SmallerSize DEF ByteWidths
<1>3. \A x : x \in Nat /\ x < M => x \in Word
  BY <1>2 DEF Word
<1>4. \A a \in Word : mem[a] \in Nat /\ mem[a] < B
  BY <1>2 DEF Memory
<1>5. \A a, b \in Word : mem[a] + mem[b] * B \in Nat /\ mem[a] + mem[b] * B < B * B
  <2> TAKE a, b \in Word
  <2>1. PICK x \in Nat, y \in Nat : x = mem[a] /\ y = mem[b] /\ x < B /\ y < B
    BY <1>4
  <2> QED BY <1>2, <2>1, Digits
<1>6. Read8(mem, addr) \in Word
  BY <1>2, <1>3, <1>4 DEF Read8
<1>7. Read16(mem, addr) \in Word
  <2>1. PICK h : h = Aligned(addr, 2) /\ h \in Word /\ h + 1 \in Word
    BY AlignedWords
  <2>2. Read16(mem, addr) = mem[h] + mem[h + 1] * B
    BY <1>2, <2>1 DEF Read16
  <2>3. PICK x \in Nat : x = mem[h] + mem[h + 1] * B /\ x < B * B
    BY <1>5, <2>1
  <2>4. x < M
    <3>1. PICK z \in Nat : z = B * B
      BY <1>2
    <3> QED BY <1>2, <2>3, <3>1
  <2> QED BY <1>3, <2>2, <2>3, <2>4
<1>8. Read32(mem, addr) \in Word
  <2>1. PICK w : w = Aligned(addr, 4) /\ w \in Word /\ w + 1 \in Word /\ w + 2 \in Word /\ w + 3 \in Word
    BY AlignedWords
  <2>2. PICK d0 \in Nat, d1 \in Nat, d2 \in Nat, d3 \in Nat :
           d0 = mem[w] /\ d1 = mem[w + 1] /\ d2 = mem[w + 2] /\ d3 = mem[w + 3]
    BY <1>4, <2>1
  <2>3. Read32(mem, addr) = d0 + d1 * B + d2 * (B * B) + d3 * ((B * B) * B)
    BY <1>2, <2>1, <2>2 DEF Read32
  <2>4. PICK lo \in Nat : lo = d0 + d1 * B /\ lo < B * B
    BY <1>5, <2>1, <2>2
  <2>5. PICK hi \in Nat : hi = d2 + d3 * B /\ hi < B * B
    BY <1>5, <2>1, <2>2
  <2>6. hi * (B * B) = d2 * (B * B) + d3 * ((B * B) * B)
    <3>1. PICK h \in Nat : h = B * B
      BY <1>2
    <3>2. (d2 + d3 * B) * h = d2 * h + (d3 * B) * h
      <4>1. d3 * B \in Int
        BY <1>2
      <4> QED BY <4>1, Shifted
    <3>3. (d3 * B) * h = d3 * (h * B)
      BY <1>2
    <3> QED BY <2>5, <3>1, <3>2, <3>3
  <2>7. lo + hi * (B * B) \in Nat /\ lo + hi * (B * B) < (B * B) * (B * B)
    <3>1. PICK h \in Nat : h = B * B
      BY <1>2
    <3>2. lo < h /\ hi < h
      BY <2>4, <2>5, <3>1
    <3>3. lo + hi * h \in Nat /\ lo + hi * h < h * h
      BY <3>2, Digits
    <3> QED BY <3>1, <3>3
  <2>8. Read32(mem, addr) = lo + hi * (B * B)
    <3>1. d1 * B \in Nat /\ d2 * (B * B) \in Nat /\ d3 * ((B * B) * B) \in Nat
      BY <1>2
    <3> QED BY <2>3, <2>4, <2>6, <3>1
  <2> QED BY <1>2, <1>3, <2>7, <2>8
<1> QED BY <1>6, <1>7, <1>8

LEMMA RotatedType ==
    ASSUME NEW mem \in Memory, NEW addr \in Word
    PROVE  ReadRotated(mem, addr) \in Word
<1>1. (addr % 4) * ByteBits \in 0 .. W
  <2>1. W \in Nat /\ addr \in Nat
    BY AluAssumption, WrapWord
  <2>2. PICK k \in Nat : k = W \div 4 /\ 4 * k <= W
    BY <2>1
  <2>3. PICK r \in 0 .. 3 : r = addr % 4
    BY <2>1
  <2>4. r * k \in 0 .. W
    <3>1. r = 0 \/ r = 1 \/ r = 2 \/ r = 3
      OBVIOUS
    <3> QED BY <2>1, <2>2, <3>1
  <2> QED BY <2>2, <2>3, <2>4 DEF ByteBits
<1> QED BY <1>1, ReadTypes, RotateType DEF ReadRotated

\* A load from a word's own address does not rotate.
LEMMA AlignedRead ==
    ASSUME NEW mem \in Memory, NEW addr \in Word, addr % 4 = 0
    PROVE  ReadRotated(mem, addr) = Read32(mem, addr)
<1>1. (addr % 4) * ByteBits = 0
  <2>1. PICK k \in Int : k = ByteBits
    BY AluAssumption DEF ByteBits
  <2> QED BY <2>1
<1> QED BY <1>1, ReadTypes, RotateRound DEF ReadRotated

LEMMA ExtendedType == \A v \in Word : SignExtend(v, BYTE) \in Word /\ SignExtend(v, HALFWORD) \in Word
<1> TAKE v \in Word
<1>1. PICK M, B : ByteWidths(M, B)
  BY BytesOfWord
<1>2. BYTE \in Int /\ HALFWORD \in Int /\ v \in Int
  BY <1>1, SmallerSize, WrapWord DEF ByteWidths
<1> QED BY <1>2, WrapType DEF SignExtend

LEMMA LaneType == \A v \in Word, k \in Nat : Lane(v, k) \in 0 .. BYTE - 1
<1> TAKE v \in Word, k \in Nat
<1>1. PICK M, B : ByteWidths(M, B)
  BY BytesOfWord
<1>2. B \in Nat /\ B > 0 /\ B = BYTE
  BY <1>1, SmallerSize DEF ByteWidths
<1>3. k * ByteBits \in Nat
  <2>1. ByteBits \in Nat
    BY AluAssumption DEF ByteBits
  <2> QED BY <2>1
<1>4. PICK x \in Nat : x = v \div Pow2[k * ByteBits]
  BY <1>3, QuotientWord, WrapWord
<1>5. x % B \in 0 .. B - 1
  BY <1>2
<1> QED BY <1>2, <1>4, <1>5 DEF Lane

LEMMA WriteTypes ==
    ASSUME NEW mem \in Memory, NEW addr \in Word, NEW val \in Word
    PROVE  /\ Write8(mem, addr, val) \in Memory /\ Write16(mem, addr, val) \in Memory
           /\ Write32(mem, addr, val) \in Memory
<1>1. DOMAIN mem = Word /\ \A x \in Word : mem[x] \in 0 .. BYTE - 1
  BY DEF Memory
<1>2. \A k \in Nat : Lane(val, k) \in 0 .. BYTE - 1
  BY LaneType
<1>3. \A x \in Word : x % 2 \in Nat /\ x % 4 \in Nat
  BY WrapWord
<1>4. Write8(mem, addr, val) \in Memory
  BY <1>1, <1>2 DEF Write8, Memory
<1>5. Write16(mem, addr, val) \in Memory
  BY <1>1, <1>2, <1>3 DEF Write16, Memory
<1>6. Write32(mem, addr, val) \in Memory
  BY <1>1, <1>2, <1>3 DEF Write32, Memory
<1> QED BY <1>4, <1>5, <1>6

-----------------------------------------------------------------------------
(* Register lists *)

Registers == Regs \cup {SP, LR, PC}

LEMMA RegisterNumbers ==
    /\ Low \subseteq Registers /\ Regs \subseteq Registers
    /\ SP \in Registers /\ LR \in Registers /\ PC \in Registers
    /\ PC \notin Regs /\ PC \notin Low /\ SP # PC /\ LR # PC /\ SP \notin Low
    /\ Registers \subseteq 0 .. 15 /\ 0 \in Low /\ 1 \in Low
BY ThumbAssumption DEF Registers, Regs, SP, LR, PC

LEMMA ListSize ==
    ASSUME NEW list \in SUBSET Registers
    PROVE  /\ Cardinality(list) \in Nat /\ (list # {} => Cardinality(list) > 0)
           /\ \A reg : Below(list, reg) \in Nat
<1>1. IsFiniteSet(0 .. 15)
  <2>1. 0 \in Int /\ 15 \in Int
    OBVIOUS
  <2> QED BY <2>1, FS_Interval, Zenon
<1>2. IsFiniteSet(list)
  BY <1>1, RegisterNumbers, FS_Subset
<1>3. ASSUME NEW reg PROVE Below(list, reg) \in Nat
  <2>1. IsFiniteSet({x \in list : x < reg})
    BY <1>2, FS_Subset
  <2> QED BY <2>1, FS_CardinalityType DEF Below
<1>4. Cardinality(list) \in Nat
  BY <1>2, FS_CardinalityType
<1>5. ASSUME list # {} PROVE Cardinality(list) > 0
  <2>1. Cardinality(list) # 0
    BY <1>2, <1>5, FS_EmptySet
  <2> QED BY <1>4, <2>1
<1> QED BY <1>3, <1>4, <1>5

LEMMA SlotType ==
    ASSUME NEW list \in SUBSET Registers, NEW start \in Int, NEW reg
    PROVE  Slot(start, list, reg) \in Word
<1>1. start + 4 * Below(list, reg) \in Int
  BY ListSize
<1> QED BY <1>1, WrapType DEF Slot

LEMMA StateParts ==
    ASSUME NEW o \in ThumbState
    PROVE  /\ o.r \in [Registers -> Word] /\ o.f \in Flags /\ o.mem \in Memory /\ o.cycles \in Nat
           /\ DOMAIN o.r = Registers /\ DOMAIN o.mem = Word
           /\ \A reg \in Registers : o.r[reg] \in Word /\ o.r[reg] \in Nat
BY WrapWord DEF ThumbState, Registers, Flags, Memory

LEMMA LoadedList ==
    ASSUME NEW o \in ThumbState, NEW list \in SUBSET Registers, NEW start \in Int
    PROVE  LoadList(o, list, start) \in [Registers -> Word]
<1>1. ASSUME NEW x \in Registers
      PROVE  (IF x \in list THEN Read32(o.mem, Slot(start, list, x)) ELSE o.r[x]) \in Word
  BY StateParts, SlotType, ReadTypes
<1> QED BY <1>1, StateParts DEF LoadList

LEMMA StoredList ==
    ASSUME NEW o \in ThumbState, NEW list \in SUBSET Registers, NEW start \in Int
    PROVE  StoreList(o, list, start) \in Memory
<1> DEFINE hit(x) == {reg \in list : Slot(start, list, reg) \div 4 = x \div 4}
           byte(x) == IF hit(x) = {} THEN o.mem[x] ELSE Lane(o.r[CHOOSE reg \in hit(x) : TRUE], x % 4)
<1>1. ASSUME NEW x \in Word PROVE byte(x) \in 0 .. BYTE - 1
  <2>1. CASE hit(x) = {}
    BY <2>1, StateParts DEF Memory
  <2>2. CASE hit(x) # {}
    <3>1. PICK reg : reg = CHOOSE r \in hit(x) : TRUE
      OBVIOUS
    <3>2. reg \in hit(x)
      BY <2>2, <3>1
    <3>3. reg \in Registers
      BY <3>2
    <3>4. o.r[reg] \in Word /\ x % 4 \in Nat
      BY <3>3, StateParts, WrapWord
    <3>5. Lane(o.r[reg], x % 4) \in 0 .. BYTE - 1
      BY <3>4, LaneType
    <3>6. byte(x) = Lane(o.r[reg], x % 4)
      BY <2>2, <3>1
    <3> HIDE DEF byte, hit
    <3> QED BY <3>5, <3>6
  <2> QED BY <2>1, <2>2
<1>2. StoreList(o, list, start) = [x \in Word |-> byte(x)]
  BY StateParts DEF StoreList
<1> HIDE DEF byte
<1> QED BY <1>1, <1>2 DEF Memory

-----------------------------------------------------------------------------
(* The multiplier *)

LEMMA Least ==
    ASSUME NEW m \in SUBSET (1 .. 3), m # {}
    PROVE  (CHOOSE k \in m : \A j \in m : k <= j) \in 1 .. 3
<1>1. \E k \in m : \A j \in m : k <= j
  <2>1. CASE 1 \in m
    BY <2>1
  <2>2. CASE 1 \notin m /\ 2 \in m
    <3>1. \A j \in m : 2 <= j
      BY <2>2
    <3> QED BY <2>2, <3>1
  <2>3. CASE 1 \notin m /\ 2 \notin m
    <3>1. \A j \in m : j = 3
      BY <2>3
    <3>2. PICK k \in m : k = 3
      BY <3>1
    <3>3. \A j \in m : k <= j
      BY <3>1, <3>2
    <3> QED BY <3>3
  <2> QED BY <2>1, <2>2, <2>3
<1> QED BY <1>1

LEMMA MultiplyCyclesType == \A v : MultiplyCycles(v) \in 1 .. 4
<1> TAKE v
<1> DEFINE above(k) == v \div Pow2[k * ByteBits]
           m == {k \in 1 .. 3 : above(k) \in {0, Pow2[(4 - k) * ByteBits] - 1}}
<1>1. MultiplyCycles(v) = IF m = {} THEN 4 ELSE CHOOSE k \in m : \A j \in m : k <= j
  BY DEF MultiplyCycles
<1>2. m \in SUBSET (1 .. 3)
  OBVIOUS
<1> HIDE DEF m
<1>3. m # {} => (CHOOSE k \in m : \A j \in m : k <= j) \in 1 .. 3
  BY <1>2, Least
<1> QED BY <1>1, <1>3

-----------------------------------------------------------------------------
(* The state in which ARM's counterpart runs *)

ArmOf(a) ==
    /\ s \in ThumbState /\ a \in ThumbState /\ a.f = s.f /\ a.mem = s.mem
    /\ \A reg \in Registers \ {PC} : a.r[reg] = s.r[reg]
    /\ a.r[PC] = Aligned(s.r[PC], 4)

LEMMA AsArmIs == s \in ThumbState => ArmOf(AsArm)
<1> HAVE s \in ThumbState
<1>1. Aligned(s.r[PC], 4) \in Word
  BY StateParts, RegisterNumbers, AlignedWords
<1>2. /\ AsArm.r = [s.r EXCEPT ![PC] = Aligned(s.r[PC], 4)] /\ AsArm.f = s.f
      /\ AsArm.mem = s.mem /\ AsArm \in ThumbState
  BY <1>1 DEF AsArm, ThumbState
<1> QED BY <1>2, StateParts, RegisterNumbers DEF ArmOf

\* What a state after Thumb's instruction i has to be.
AgreesWith(o, u) ==
    /\ \A reg \in Registers \ {PC} : o.r[reg] = u.r[reg]
    /\ o.f = u.f /\ o.mem = u.mem

Right(i, o) ==
    /\ o \in ThumbState /\ o.cycles > 0
    /\ AgreesWith(o, ArmExec(AsArm, Equivalent(i)))
    /\ Equivalent(i).class # "multiply" => o.cycles = ArmExec(AsArm, Equivalent(i)).cycles

\* A state with one register and the flags replaced.
Written(a, rd, x, f, n) == [a EXCEPT !.r[rd] = x, !.f = f, !.cycles = n]

LEMMA WrittenState ==
    ASSUME NEW a \in ThumbState, NEW rd \in Registers, NEW x \in Word, NEW f \in Flags, NEW n \in Nat
    PROVE  /\ Written(a, rd, x, f, n) \in ThumbState
           /\ Written(a, rd, x, f, n).r = [a.r EXCEPT ![rd] = x]
           /\ Written(a, rd, x, f, n).f = f
           /\ Written(a, rd, x, f, n).mem = a.mem
           /\ Written(a, rd, x, f, n).cycles = n
BY DEF Written, ThumbState, Registers, Flags

\* ARM's instruction writes a register and the flags, or only the flags.
ArmLeaves(i, r, f, n) ==
    LET u == ArmExec(AsArm, Equivalent(i))
    IN  /\ u.r = r /\ u.f = f /\ u.mem = AsArm.mem
        /\ Equivalent(i).class # "multiply" => u.cycles = n

LEMMA RightWhenLeft ==
    ASSUME s \in ThumbState,
           NEW i, NEW rd \in Registers, NEW x \in Word, NEW f \in Flags, NEW n \in Nat, n > 0,
           NEW r, ArmLeaves(i, r, f, n), \A reg \in Registers \ {PC} : r[reg] = IF reg = rd THEN x ELSE AsArm.r[reg]
    PROVE  Right(i, Written(s, rd, x, f, n))
<1>1. PICK a : a = AsArm /\ ArmOf(a)
  BY AsArmIs
<1>2. a.mem = s.mem /\ a \in ThumbState /\ \A reg \in Registers \ {PC} : a.r[reg] = s.r[reg]
  BY <1>1 DEF ArmOf
<1>3. PICK u : u = ArmExec(a, Equivalent(i))
  OBVIOUS
<1>4. u.r = r /\ u.f = f /\ u.mem = a.mem /\ (Equivalent(i).class # "multiply" => u.cycles = n)
  BY <1>1, <1>3, Zenon DEF ArmLeaves
<1>5. PICK o : o = Written(s, rd, x, f, n)
  OBVIOUS
<1>6. o \in ThumbState /\ o.r = [s.r EXCEPT ![rd] = x] /\ o.f = f /\ o.mem = s.mem /\ o.cycles = n
  BY <1>5, WrittenState
<1>7. DOMAIN s.r = Registers
  BY StateParts
<1>8. ASSUME NEW reg \in Registers \ {PC} PROVE o.r[reg] = u.r[reg]
  BY <1>1, <1>2, <1>4, <1>6, <1>7
<1>9. AgreesWith(o, u)
  BY <1>2, <1>4, <1>6, <1>8 DEF AgreesWith
<1> QED BY <1>1, <1>3, <1>4, <1>5, <1>6, <1>9 DEF Right

LEMMA RightWhenWritten ==
    ASSUME s \in ThumbState,
           NEW i, NEW rd \in Registers, NEW x \in Word, NEW f \in Flags, NEW n \in Nat, n > 0,
           ArmLeaves(i, [AsArm.r EXCEPT ![rd] = x], f, n)
    PROVE  Right(i, Written(s, rd, x, f, n))
<1>1. PICK r : r = [AsArm.r EXCEPT ![rd] = x]
  OBVIOUS
<1>2. DOMAIN AsArm.r = Registers
  BY AsArmIs, StateParts DEF ArmOf
<1>3. \A reg \in Registers \ {PC} : r[reg] = IF reg = rd THEN x ELSE AsArm.r[reg]
  BY <1>1, <1>2
<1> QED BY <1>1, <1>3, RightWhenLeft

LEMMA RightWhenKept ==
    ASSUME s \in ThumbState, NEW i, NEW rd \in Registers \ {PC}, NEW f \in Flags, NEW n \in Nat, n > 0,
           ArmLeaves(i, AsArm.r, f, n)
    PROVE  Right(i, Written(s, rd, s.r[rd], f, n))
<1>1. PICK x, r : x = s.r[rd] /\ r = AsArm.r
  OBVIOUS
<1>2. r[rd] = x /\ x \in Word
  BY <1>1, AsArmIs, StateParts DEF ArmOf
<1>3. \A reg \in Registers \ {PC} : r[reg] = IF reg = rd THEN x ELSE AsArm.r[reg]
  BY <1>1, <1>2
<1> QED BY <1>1, <1>2, <1>3, RightWhenLeft

-----------------------------------------------------------------------------
(* Operands *)

LEMMA PlainOperand ==
    ASSUME NEW a, ArmOf(a), NEW rm \in Registers \ {PC}
    PROVE  Operand2(a, Plain(rm)) = Out(s.r[rm], s.f.c)
<1>1. s \in ThumbState /\ a.f = s.f /\ a.r[rm] = s.r[rm]
  BY DEF ArmOf
<1>2. s.f.c \in BOOLEAN
  BY <1>1, StateParts DEF Flags
<1>3. Lsl(s.r[rm], 0, s.f.c) = Out(s.r[rm], s.f.c)
  BY <1>2, LslCases
<1>4. Operand2(a, Plain(rm)) = Shift("LSL", s.r[rm], 0, s.f.c, TRUE)
  BY <1>1 DEF Operand2, Plain
<1> QED BY <1>3, <1>4 DEF Shift

LEMMA ImmOperand ==
    ASSUME NEW a, ArmOf(a), NEW n
    PROVE  Operand2(a, Imm(n)) = Out(n, s.f.c)
BY DEF Operand2, Imm, ArmOf

LEMMA FourTimes ==
    ASSUME NEW offset \in Offsets
    PROVE  /\ offset \in Word /\ offset \in Nat /\ 4 * offset \in Word /\ offset * 4 = 4 * offset
           /\ offset * 2 \in Word /\ offset * 2 \in Nat /\ offset * 4 \in Nat
           /\ RotateRight(offset, W - 2) = offset * 4
<1>1. PICK M \in Nat, H \in Nat : Widths(M, H)
  BY WordWidths
<1>2. W \in Nat /\ W - 2 \in Nat /\ (W - 2) + 1 = W - 1 /\ W - 1 \in Nat /\ (W - 1) + 1 = W /\ W - (W - 2) = 2
  BY AluAssumption
<1>3. PICK g \in Nat : g = Pow2[W - 2] /\ g > 0
  BY <1>2, Pow2Type
<1>4. M = 4 * g
  <2>1. Pow2[W - 1] = 2 * g
    BY <1>2, <1>3, Pow2Step
  <2>2. Pow2[W] = 2 * Pow2[W - 1]
    BY <1>2, Pow2Step
  <2>3. M = 2 * (2 * g)
    BY <1>1, <2>1, <2>2 DEF Widths
  <2> QED BY <2>3
<1>5. offset \in Nat /\ offset < g
  BY <1>3, ThumbAssumption
<1>6. offset < M /\ 4 * offset \in Nat /\ 4 * offset < M /\ offset * 4 = 4 * offset
      /\ offset * 2 < M /\ offset * 2 \in Nat
  BY <1>4, <1>5
<1>7. offset \in Word /\ 4 * offset \in Word /\ offset * 2 \in Word
  BY <1>1, <1>5, <1>6, Words
<1>8. Pow2[2] = 4
  <2>1. Pow2[0 + 1] = 2 /\ Pow2[1 + 1] = 2 * Pow2[1]
    BY Pow2Step
  <2> QED BY <2>1
<1>9. offset \div g = 0
  <2>1. PICK q \in Int : q = 0
    OBVIOUS
  <2>2. offset = g * q + offset
    BY <1>5, <2>1
  <2>3. offset \div g = q
    BY <1>3, <1>5, <2>1, <2>2, Quotients
  <2> QED BY <2>1, <2>3
<1>10. Wrap(offset * 4) = offset * 4
  BY <1>6, <1>7, WrapWord
<1>11. RotateRight(offset, W - 2) = 0 + offset * 4
  BY <1>2, <1>3, <1>8, <1>9, <1>10 DEF RotateRight
<1> QED BY <1>5, <1>6, <1>7, <1>11

LEMMA RotatedOperand ==
    ASSUME NEW a, NEW offset \in Offsets
    PROVE  Operand2(a, [kind |-> "imm", imm |-> offset, rot |-> W - 2]).res = offset * 4
<1>1. W - 2 # 0
  BY AluAssumption, ThumbAssumption
<1>2. RotateRight(offset, W - 2) = offset * 4
  BY FourTimes
<1>3. Operand2(a, [kind |-> "imm", imm |-> offset, rot |-> W - 2])
         = Out(RotateRight(offset, W - 2), Negative(RotateRight(offset, W - 2)))
  BY <1>1 DEF Operand2
<1> QED BY <1>2, <1>3 DEF Out

\* ARM's data processing: what it computes, and what it does with it.
DataSum(a, j) == ArithmeticResult(j.op, a.r[j.rn], Operand2(a, j.op2).res, a.f)
DataResult(a, j) ==
    IF j.op \in Logical THEN LogicalResult(j.op, a.r[j.rn], Operand2(a, j.op2).res) ELSE DataSum(a, j).res

LEMMA DataRegisters ==
    ASSUME NEW a \in ThumbState, NEW j, j.class = "data", j.op \notin Tests
    PROVE  ArmExec(a, j).r = [a.r EXCEPT ![j.rd] = DataResult(a, j)]
<1>1. PICK u : u = ArmExec(a, j) /\ u = ArmDataProcessing(a, j)
  BY DEF ArmExec
<1>2. PICK x, c, sum : x = DataResult(a, j) /\ c = Operand2(a, j.op2).c /\ sum = DataSum(a, j)
  OBVIOUS
<1>3. u = [a EXCEPT
              !.r = IF j.op \in Tests THEN @ ELSE [@ EXCEPT ![j.rd] = x],
              !.f = CASE j.op \in Logical /\ j.s -> SetNzc(@, x, c)
                      [] j.op \notin Logical /\ (j.s \/ j.op \in {"CMP", "CMN"}) -> SetFlags(@, sum)
                      [] OTHER -> @,
              !.cycles = IF j.op2.kind = "by_reg" THEN 2 ELSE 1]
  BY <1>1, <1>2, Zenon DEF ArmDataProcessing, DataResult, DataSum
<1> QED BY <1>1, <1>2, <1>3 DEF ThumbState

LEMMA DataTests ==
    ASSUME NEW a \in ThumbState, NEW j, j.class = "data", j.op \in Tests
    PROVE  ArmExec(a, j).r = a.r
<1>1. PICK u : u = ArmExec(a, j) /\ u = ArmDataProcessing(a, j)
  BY DEF ArmExec
<1>2. PICK x, c, sum : x = DataResult(a, j) /\ c = Operand2(a, j.op2).c /\ sum = DataSum(a, j)
  OBVIOUS
<1>3. u = [a EXCEPT
              !.r = IF j.op \in Tests THEN @ ELSE [@ EXCEPT ![j.rd] = x],
              !.f = CASE j.op \in Logical /\ j.s -> SetNzc(@, x, c)
                      [] j.op \notin Logical /\ (j.s \/ j.op \in {"CMP", "CMN"}) -> SetFlags(@, sum)
                      [] OTHER -> @,
              !.cycles = IF j.op2.kind = "by_reg" THEN 2 ELSE 1]
  BY <1>1, <1>2, Zenon DEF ArmDataProcessing, DataResult, DataSum
<1> QED BY <1>1, <1>2, <1>3 DEF ThumbState

LEMMA DataLogical ==
    ASSUME NEW a \in ThumbState, NEW j, j.class = "data", j.op \in Logical, j.s
    PROVE  ArmExec(a, j).f = SetNzc(a.f, DataResult(a, j), Operand2(a, j.op2).c)
<1>1. PICK u : u = ArmExec(a, j) /\ u = ArmDataProcessing(a, j)
  BY DEF ArmExec
<1>2. PICK x, c, sum : x = DataResult(a, j) /\ c = Operand2(a, j.op2).c /\ sum = DataSum(a, j)
  OBVIOUS
<1>3. u = [a EXCEPT
              !.r = IF j.op \in Tests THEN @ ELSE [@ EXCEPT ![j.rd] = x],
              !.f = CASE j.op \in Logical /\ j.s -> SetNzc(@, x, c)
                      [] j.op \notin Logical /\ (j.s \/ j.op \in {"CMP", "CMN"}) -> SetFlags(@, sum)
                      [] OTHER -> @,
              !.cycles = IF j.op2.kind = "by_reg" THEN 2 ELSE 1]
  BY <1>1, <1>2, Zenon DEF ArmDataProcessing, DataResult, DataSum
<1> QED BY <1>1, <1>2, <1>3 DEF ThumbState

LEMMA DataSums ==
    ASSUME NEW a \in ThumbState, NEW j, j.class = "data", j.op \notin Logical, j.s
    PROVE  ArmExec(a, j).f = SetFlags(a.f, DataSum(a, j))
<1>1. PICK u : u = ArmExec(a, j) /\ u = ArmDataProcessing(a, j)
  BY DEF ArmExec
<1>2. PICK x, c, sum : x = DataResult(a, j) /\ c = Operand2(a, j.op2).c /\ sum = DataSum(a, j)
  OBVIOUS
<1>3. u = [a EXCEPT
              !.r = IF j.op \in Tests THEN @ ELSE [@ EXCEPT ![j.rd] = x],
              !.f = CASE j.op \in Logical /\ j.s -> SetNzc(@, x, c)
                      [] j.op \notin Logical /\ (j.s \/ j.op \in {"CMP", "CMN"}) -> SetFlags(@, sum)
                      [] OTHER -> @,
              !.cycles = IF j.op2.kind = "by_reg" THEN 2 ELSE 1]
  BY <1>1, <1>2, Zenon DEF ArmDataProcessing, DataResult, DataSum
<1> QED BY <1>1, <1>2, <1>3 DEF ThumbState

LEMMA DataUnset ==
    ASSUME NEW a \in ThumbState, NEW j, j.class = "data", j.op \notin {"CMP", "CMN"}, ~j.s
    PROVE  ArmExec(a, j).f = a.f
<1>1. PICK u : u = ArmExec(a, j) /\ u = ArmDataProcessing(a, j)
  BY DEF ArmExec
<1>2. PICK x, c, sum : x = DataResult(a, j) /\ c = Operand2(a, j.op2).c /\ sum = DataSum(a, j)
  OBVIOUS
<1>3. u = [a EXCEPT
              !.r = IF j.op \in Tests THEN @ ELSE [@ EXCEPT ![j.rd] = x],
              !.f = CASE j.op \in Logical /\ j.s -> SetNzc(@, x, c)
                      [] j.op \notin Logical /\ (j.s \/ j.op \in {"CMP", "CMN"}) -> SetFlags(@, sum)
                      [] OTHER -> @,
              !.cycles = IF j.op2.kind = "by_reg" THEN 2 ELSE 1]
  BY <1>1, <1>2, Zenon DEF ArmDataProcessing, DataResult, DataSum
<1> QED BY <1>1, <1>2, <1>3 DEF ThumbState

LEMMA DataMemory ==
    ASSUME NEW a \in ThumbState, NEW j, j.class = "data"
    PROVE  ArmExec(a, j).mem = a.mem
<1>1. PICK u : u = ArmExec(a, j) /\ u = ArmDataProcessing(a, j)
  BY DEF ArmExec
<1>2. PICK x, c, sum : x = DataResult(a, j) /\ c = Operand2(a, j.op2).c /\ sum = DataSum(a, j)
  OBVIOUS
<1>3. u = [a EXCEPT
              !.r = IF j.op \in Tests THEN @ ELSE [@ EXCEPT ![j.rd] = x],
              !.f = CASE j.op \in Logical /\ j.s -> SetNzc(@, x, c)
                      [] j.op \notin Logical /\ (j.s \/ j.op \in {"CMP", "CMN"}) -> SetFlags(@, sum)
                      [] OTHER -> @,
              !.cycles = IF j.op2.kind = "by_reg" THEN 2 ELSE 1]
  BY <1>1, <1>2, Zenon DEF ArmDataProcessing, DataResult, DataSum
<1> QED BY <1>1, <1>2, <1>3 DEF ThumbState

LEMMA DataCycles ==
    ASSUME NEW a \in ThumbState, NEW j, j.class = "data"
    PROVE  ArmExec(a, j).cycles = IF j.op2.kind = "by_reg" THEN 2 ELSE 1
<1>1. PICK u : u = ArmExec(a, j) /\ u = ArmDataProcessing(a, j)
  BY DEF ArmExec
<1>2. PICK x, c, sum : x = DataResult(a, j) /\ c = Operand2(a, j.op2).c /\ sum = DataSum(a, j)
  OBVIOUS
<1>3. u = [a EXCEPT
              !.r = IF j.op \in Tests THEN @ ELSE [@ EXCEPT ![j.rd] = x],
              !.f = CASE j.op \in Logical /\ j.s -> SetNzc(@, x, c)
                      [] j.op \notin Logical /\ (j.s \/ j.op \in {"CMP", "CMN"}) -> SetFlags(@, sum)
                      [] OTHER -> @,
              !.cycles = IF j.op2.kind = "by_reg" THEN 2 ELSE 1]
  BY <1>1, <1>2, Zenon DEF ArmDataProcessing, DataResult, DataSum
<1> QED BY <1>1, <1>2, <1>3 DEF ThumbState

-----------------------------------------------------------------------------
(* Formats 1 to 5 *)

\* What data processing leaves, by its kind.
LEMMA LogicalLeaves ==
    ASSUME s \in ThumbState, NEW i, NEW j, Equivalent(i) = j, j.class = "data",
           j.op \in Logical, j.op \notin Tests, j.s
    PROVE  ArmLeaves(i, [AsArm.r EXCEPT ![j.rd] = DataResult(AsArm, j)],
                     SetNzc(s.f, DataResult(AsArm, j), Operand2(AsArm, j.op2).c),
                     IF j.op2.kind = "by_reg" THEN 2 ELSE 1)
<1>1. PICK a : a = AsArm /\ a \in ThumbState /\ a.f = s.f
  BY AsArmIs DEF ArmOf
<1>2. PICK u : u = ArmExec(a, j)
  OBVIOUS
<1>3. u.r = [a.r EXCEPT ![j.rd] = DataResult(a, j)]
  BY <1>1, <1>2, DataRegisters
<1>4. u.f = SetNzc(a.f, DataResult(a, j), Operand2(a, j.op2).c)
  BY <1>1, <1>2, DataLogical
<1>5. u.mem = a.mem /\ u.cycles = IF j.op2.kind = "by_reg" THEN 2 ELSE 1
  BY <1>1, <1>2, DataMemory, DataCycles
<1> QED BY <1>1, <1>2, <1>3, <1>4, <1>5 DEF ArmLeaves

LEMMA SumLeaves ==
    ASSUME s \in ThumbState, NEW i, NEW j, Equivalent(i) = j, j.class = "data",
           j.op \notin Logical, j.op \notin Tests, j.s
    PROVE  ArmLeaves(i, [AsArm.r EXCEPT ![j.rd] = DataResult(AsArm, j)], SetFlags(s.f, DataSum(AsArm, j)),
                     IF j.op2.kind = "by_reg" THEN 2 ELSE 1)
<1>1. PICK a : a = AsArm /\ a \in ThumbState /\ a.f = s.f
  BY AsArmIs DEF ArmOf
<1>2. PICK u : u = ArmExec(a, j)
  OBVIOUS
<1>3. u.r = [a.r EXCEPT ![j.rd] = DataResult(a, j)]
  BY <1>1, <1>2, DataRegisters
<1>4. u.f = SetFlags(a.f, DataSum(a, j))
  BY <1>1, <1>2, DataSums
<1>5. u.mem = a.mem /\ u.cycles = IF j.op2.kind = "by_reg" THEN 2 ELSE 1
  BY <1>1, <1>2, DataMemory, DataCycles
<1> QED BY <1>1, <1>2, <1>3, <1>4, <1>5 DEF ArmLeaves

LEMMA CompareLeaves ==
    ASSUME s \in ThumbState, NEW i, NEW j, Equivalent(i) = j, j.class = "data",
           j.op \notin Logical, j.op \in Tests, j.s
    PROVE  ArmLeaves(i, AsArm.r, SetFlags(s.f, DataSum(AsArm, j)), IF j.op2.kind = "by_reg" THEN 2 ELSE 1)
<1>1. PICK a : a = AsArm /\ a \in ThumbState /\ a.f = s.f
  BY AsArmIs DEF ArmOf
<1>2. PICK u : u = ArmExec(a, j)
  OBVIOUS
<1>3. u.r = a.r
  BY <1>1, <1>2, DataTests
<1>4. u.f = SetFlags(a.f, DataSum(a, j))
  BY <1>1, <1>2, DataSums
<1>5. u.mem = a.mem /\ u.cycles = IF j.op2.kind = "by_reg" THEN 2 ELSE 1
  BY <1>1, <1>2, DataMemory, DataCycles
<1> QED BY <1>1, <1>2, <1>3, <1>4, <1>5 DEF ArmLeaves

LEMMA TestLeaves ==
    ASSUME s \in ThumbState, NEW i, NEW j, Equivalent(i) = j, j.class = "data",
           j.op \in Logical, j.op \in Tests, j.s
    PROVE  ArmLeaves(i, AsArm.r, SetNzc(s.f, DataResult(AsArm, j), Operand2(AsArm, j.op2).c),
                     IF j.op2.kind = "by_reg" THEN 2 ELSE 1)
<1>1. PICK a : a = AsArm /\ a \in ThumbState /\ a.f = s.f
  BY AsArmIs DEF ArmOf
<1>2. PICK u : u = ArmExec(a, j)
  OBVIOUS
<1>3. u.r = a.r
  BY <1>1, <1>2, DataTests
<1>4. u.f = SetNzc(a.f, DataResult(a, j), Operand2(a, j.op2).c)
  BY <1>1, <1>2, DataLogical
<1>5. u.mem = a.mem /\ u.cycles = IF j.op2.kind = "by_reg" THEN 2 ELSE 1
  BY <1>1, <1>2, DataMemory, DataCycles
<1> QED BY <1>1, <1>2, <1>3, <1>4, <1>5 DEF ArmLeaves

LEMMA UnsetLeaves ==
    ASSUME s \in ThumbState, NEW i, NEW j, Equivalent(i) = j, j.class = "data", j.op \notin Tests, ~j.s
    PROVE  ArmLeaves(i, [AsArm.r EXCEPT ![j.rd] = DataResult(AsArm, j)], s.f,
                     IF j.op2.kind = "by_reg" THEN 2 ELSE 1)
<1>1. PICK a : a = AsArm /\ a \in ThumbState /\ a.f = s.f
  BY AsArmIs DEF ArmOf
<1>2. PICK u : u = ArmExec(a, j)
  OBVIOUS
<1>3. u.r = [a.r EXCEPT ![j.rd] = DataResult(a, j)]
  BY <1>1, <1>2, DataRegisters
<1>4. u.f = a.f
  <2>1. j.op \notin {"CMP", "CMN"}
    BY DEF Tests
  <2> QED BY <1>1, <1>2, <2>1, DataUnset
<1>5. u.mem = a.mem /\ u.cycles = IF j.op2.kind = "by_reg" THEN 2 ELSE 1
  BY <1>1, <1>2, DataMemory, DataCycles
<1> QED BY <1>1, <1>2, <1>3, <1>4, <1>5 DEF ArmLeaves

LEMMA MoveShiftedRight ==
    ASSUME s \in ThumbState,
           NEW i \in [fmt : {"move_shifted"}, shift : {"LSL", "LSR", "ASR"}, offset : Amounts, rs : Low, rd : Low]
    PROVE  Right(i, ThumbMoveShifted(i))
<1>1. PICK a : a = AsArm /\ ArmOf(a)
  BY AsArmIs
<1>2. /\ i.fmt = "move_shifted" /\ i.shift \in {"LSL", "LSR", "ASR"}
      /\ i.offset \in 0 .. W - 1 /\ i.rs \in Low /\ i.rd \in Low
  BY DEF Amounts
<1>3. i.offset \in Nat /\ i.rs \in Registers \ {PC} /\ i.rd \in Registers
  <2>1. i.offset \in Nat
    BY <1>2, AluAssumption
  <2>2. i.rs \in Registers \ {PC} /\ i.rd \in Registers
    BY <1>2, RegisterNumbers
  <2> QED BY <2>1, <2>2
<1>4. /\ a.f = s.f /\ a.r[i.rs] = s.r[i.rs] /\ s.r[i.rs] \in Word /\ s.f \in Flags /\ s.f.c \in BOOLEAN
  BY <1>1, <1>3, StateParts DEF ArmOf, Flags
<1>5. PICK out : out = Shift(i.shift, s.r[i.rs], i.offset, s.f.c, TRUE)
  OBVIOUS
<1>6. out.res \in Word /\ out.c \in BOOLEAN
  BY <1>2, <1>3, <1>4, <1>5, ShiftType DEF IsOut, ThumbShifts
<1>7. PICK f : f = SetNzc(s.f, out.res, out.c)
  OBVIOUS
<1>8. f \in Flags
  BY <1>4, <1>6, <1>7, FlagTypes
<1>9. ThumbMoveShifted(i) = Written(s, i.rd, out.res, f, 1)
  BY <1>5, <1>7 DEF ThumbMoveShifted, Written
<1>10. PICK op2 : op2 = [kind |-> "shifted", shift |-> i.shift, rm |-> i.rs, amount |-> i.offset]
  OBVIOUS
<1>11. PICK j : j = Data("MOV", TRUE, i.rd, i.rd, op2)
  OBVIOUS
<1>12. Equivalent(i) = j
  BY <1>2, <1>10, <1>11 DEF Equivalent
<1>13. j.class = "data" /\ j.op = "MOV" /\ j.s /\ j.rd = i.rd /\ j.op2 = op2
  BY <1>11 DEF Data
<1>14. Operand2(a, op2) = out /\ op2.kind # "by_reg"
  BY <1>4, <1>5, <1>10 DEF Operand2
<1>15. DataResult(a, j) = out.res
  BY <1>13, <1>14 DEF DataResult, LogicalResult, Logical
<1>16. ArmLeaves(i, [AsArm.r EXCEPT ![i.rd] = out.res], f, 1)
  <2>1. "MOV" \in Logical /\ "MOV" \notin Tests
    BY DEF Logical, Tests
  <2> QED BY <1>1, <1>7, <1>12, <1>13, <1>14, <1>15, <2>1, LogicalLeaves
<1> QED BY <1>3, <1>6, <1>8, <1>9, <1>16, RightWhenWritten

LEMMA AddSubRight ==
    ASSUME s \in ThumbState, NEW i, i.fmt = "add_sub", i.imm \in BOOLEAN, i.sub \in BOOLEAN,
           i.imm => i.rn \in Imms, ~i.imm => i.rn \in Low, i.rs \in Low, i.rd \in Low
    PROVE  Right(i, ThumbAddSub(i))
<1>1. PICK a : a = AsArm /\ ArmOf(a)
  BY AsArmIs
<1>2. i.rs \in Registers \ {PC} /\ i.rd \in Registers /\ (~i.imm => i.rn \in Registers \ {PC})
  BY RegisterNumbers
<1>3. /\ a.f = s.f /\ a.r[i.rs] = s.r[i.rs] /\ s.r[i.rs] \in Word /\ s.f \in Flags /\ s.f.c \in BOOLEAN
      /\ (~i.imm => s.r[i.rn] \in Word)
  BY <1>1, <1>2, StateParts DEF ArmOf, Flags
<1>4. PICK operand : operand = IF i.imm THEN i.rn ELSE s.r[i.rn]
  OBVIOUS
<1>5. operand \in Word
  BY <1>3, <1>4, ThumbAssumption
<1>6. PICK sum : sum = IF i.sub THEN SubFlags(s.r[i.rs], operand, 1) ELSE AddFlags(s.r[i.rs], operand, 0)
  OBVIOUS
<1>7. IsSum(sum)
  BY <1>3, <1>5, <1>6, SumType
<1>8. PICK f : f = SetFlags(s.f, sum)
  OBVIOUS
<1>9. f \in Flags /\ sum.res \in Word
  BY <1>3, <1>7, <1>8, SumFlagTypes DEF IsSum
<1>10. ThumbAddSub(i) = Written(s, i.rd, sum.res, f, 1)
  BY <1>4, <1>6, <1>8 DEF ThumbAddSub, Written
<1>11. PICK op2 : op2 = IF i.imm THEN Imm(i.rn) ELSE Plain(i.rn)
  OBVIOUS
<1>12. PICK op : op = IF i.sub THEN "SUB" ELSE "ADD"
  OBVIOUS
<1>13. PICK j : j = Data(op, TRUE, i.rd, i.rs, op2)
  OBVIOUS
<1>14. Equivalent(i) = j
  BY <1>11, <1>12, <1>13 DEF Equivalent
<1>15. j.class = "data" /\ j.op = op /\ j.s /\ j.rd = i.rd /\ j.rn = i.rs /\ j.op2 = op2
  BY <1>13 DEF Data
<1>16. Operand2(a, op2).res = operand
  <2>1. CASE i.imm
    BY <2>1, <1>1, <1>4, <1>11, ImmOperand DEF Out
  <2>2. CASE ~i.imm
    BY <2>2, <1>1, <1>2, <1>4, <1>11, PlainOperand DEF Out
  <2> QED BY <2>1, <2>2
<1>17. op2.kind # "by_reg"
  BY <1>11 DEF Imm, Plain
<1>18. op \notin Logical /\ op \notin Tests
  BY <1>12 DEF Logical, Tests
<1>19. DataSum(a, j) = sum
  <2>1. CASE i.sub
    BY <2>1, <1>3, <1>6, <1>12, <1>15, <1>16 DEF DataSum, ArithmeticResult
  <2>2. CASE ~i.sub
    BY <2>2, <1>3, <1>6, <1>12, <1>15, <1>16 DEF DataSum, ArithmeticResult
  <2> QED BY <2>1, <2>2
<1>20. DataResult(a, j) = sum.res
  BY <1>15, <1>18, <1>19 DEF DataResult
<1>21. ArmLeaves(i, [AsArm.r EXCEPT ![i.rd] = sum.res], f, 1)
  BY <1>1, <1>8, <1>14, <1>15, <1>17, <1>18, <1>19, <1>20, SumLeaves
<1> QED BY <1>2, <1>9, <1>10, <1>21, RightWhenWritten

LEMMA ImmOpRight ==
    ASSUME s \in ThumbState, NEW i, i.fmt = "imm_op", i.op \in {"MOV", "CMP", "ADD", "SUB"},
           i.rd \in Low, i.imm \in Imms
    PROVE  Right(i, ThumbImmOp(i))
<1>1. PICK a : a = AsArm /\ ArmOf(a)
  BY AsArmIs
<1>2. i.rd \in Registers \ {PC} /\ i.rd \in Registers /\ i.imm \in Word
  BY RegisterNumbers, ThumbAssumption
<1>3. /\ a.f = s.f /\ a.r[i.rd] = s.r[i.rd] /\ s.r[i.rd] \in Word /\ s.f \in Flags /\ s.f.c \in BOOLEAN
  BY <1>1, <1>2, StateParts DEF ArmOf, Flags
<1>4. PICK sum : sum = IF i.op = "ADD" THEN AddFlags(s.r[i.rd], i.imm, 0) ELSE SubFlags(s.r[i.rd], i.imm, 1)
  OBVIOUS
<1>5. IsSum(sum) /\ sum.res \in Word
  BY <1>2, <1>3, <1>4, SumType DEF IsSum
<1>6. PICK j : j = Data(i.op, TRUE, i.rd, i.rd, Imm(i.imm))
  OBVIOUS
<1>7. Equivalent(i) = j
  BY <1>6 DEF Equivalent
<1>8. j.class = "data" /\ j.op = i.op /\ j.s /\ j.rd = i.rd /\ j.rn = i.rd /\ j.op2 = Imm(i.imm)
  BY <1>6 DEF Data
<1>9. Operand2(a, j.op2).res = i.imm /\ Operand2(a, j.op2).c = s.f.c /\ j.op2.kind # "by_reg"
  <2>1. Operand2(a, j.op2) = Out(i.imm, s.f.c)
    BY <1>1, <1>8, ImmOperand
  <2> QED BY <1>8, <2>1 DEF Out, Imm
<1>10. CASE i.op = "MOV"
  <2>1. PICK f : f = SetNz(s.f, i.imm)
    OBVIOUS
  <2>2. f \in Flags /\ f = SetNzc(s.f, i.imm, s.f.c)
    <3>1. f \in Flags
      BY <1>3, <2>1, FlagTypes
    <3>2. f.c = s.f.c
      BY <1>3, <2>1 DEF SetNz, Flags
    <3>3. SetNzc(s.f, i.imm, s.f.c) = [f EXCEPT !.c = s.f.c]
      BY <2>1 DEF SetNzc
    <3> QED BY <3>1, <3>2, <3>3 DEF Flags
  <2>3. ThumbImmOp(i) = Written(s, i.rd, i.imm, f, 1)
    BY <1>10, <2>1 DEF ThumbImmOp, Written
  <2>4. "MOV" \in Logical /\ "MOV" \notin Tests
    BY DEF Logical, Tests
  <2>5. DataResult(a, j) = i.imm
    BY <1>8, <1>9, <1>10, <2>4 DEF DataResult, LogicalResult
  <2>6. ArmLeaves(i, [AsArm.r EXCEPT ![i.rd] = i.imm], f, 1)
    BY <1>1, <1>7, <1>8, <1>9, <1>10, <2>2, <2>4, <2>5, LogicalLeaves
  <2> QED BY <1>2, <2>2, <2>3, <2>6, RightWhenWritten
<1>11. CASE i.op # "MOV"
  <2>1. i.op \notin Logical
    BY <1>11 DEF Logical
  <2>2. PICK f : f = SetFlags(s.f, sum)
    OBVIOUS
  <2>3. f \in Flags
    BY <1>3, <1>5, <2>2, SumFlagTypes
  <2>4. DataSum(a, j) = sum
    <3>1. DataSum(a, j) = ArithmeticResult(i.op, s.r[i.rd], i.imm, s.f)
      BY <1>3, <1>8, <1>9 DEF DataSum
    <3>2. CASE i.op = "ADD"
      BY <3>1, <3>2, <1>4 DEF ArithmeticResult
    <3>3. CASE i.op \in {"CMP", "SUB"}
      BY <3>1, <3>3, <1>4 DEF ArithmeticResult
    <3> QED BY <3>2, <3>3, <1>11
  <2>5. CASE i.op = "CMP"
    <3>1. ThumbImmOp(i) = Written(s, i.rd, s.r[i.rd], f, 1)
      BY <2>5, <1>4, <2>2 DEF ThumbImmOp, Written
    <3>2. i.op \in Tests
      BY <2>5 DEF Tests
    <3>3. ArmLeaves(i, AsArm.r, f, 1)
      BY <1>1, <1>7, <1>8, <1>9, <2>1, <2>2, <2>4, <3>2, CompareLeaves
    <3> QED BY <1>2, <2>3, <3>1, <3>3, RightWhenKept
  <2>6. CASE i.op # "CMP"
    <3>1. ThumbImmOp(i) = Written(s, i.rd, sum.res, f, 1)
      BY <2>6, <1>4, <1>11, <2>2 DEF ThumbImmOp, Written
    <3>2. i.op \notin Tests
      BY <2>6 DEF Tests
    <3>3. DataResult(a, j) = sum.res
      BY <1>8, <2>1, <2>4 DEF DataResult
    <3>4. ArmLeaves(i, [AsArm.r EXCEPT ![i.rd] = sum.res], f, 1)
      BY <1>1, <1>7, <1>8, <1>9, <2>1, <2>2, <2>4, <3>2, <3>3, SumLeaves
    <3> QED BY <1>2, <1>5, <2>3, <3>1, <3>4, RightWhenWritten
  <2> QED BY <2>5, <2>6
<1> QED BY <1>10, <1>11

LEMMA HiregRight ==
    ASSUME s \in ThumbState, NEW i, i.fmt = "hireg", i.op \in {"ADD", "CMP", "MOV"},
           i.rs \in Regs, i.rd \in Regs
    PROVE  Right(i, ThumbHireg(i))
<1>1. PICK a : a = AsArm /\ ArmOf(a)
  BY AsArmIs
<1>2. i.rd \in Registers \ {PC} /\ i.rd \in Registers /\ i.rs \in Registers \ {PC}
  BY RegisterNumbers
<1>3. /\ a.f = s.f /\ a.r[i.rd] = s.r[i.rd] /\ s.r[i.rd] \in Word /\ s.r[i.rs] \in Word
      /\ s.f \in Flags /\ s.f.c \in BOOLEAN
  BY <1>1, <1>2, StateParts DEF ArmOf, Flags
<1>4. PICK j : j = Data(i.op, i.op = "CMP", i.rd, i.rd, Plain(i.rs))
  OBVIOUS
<1>5. Equivalent(i) = j
  BY <1>4 DEF Equivalent
<1>6. j.class = "data" /\ j.op = i.op /\ j.rd = i.rd /\ j.rn = i.rd /\ j.op2 = Plain(i.rs)
  BY <1>4 DEF Data
<1>7. (i.op = "CMP" => j.s) /\ (i.op # "CMP" => ~j.s)
  BY <1>4 DEF Data
<1>8. Operand2(a, j.op2).res = s.r[i.rs] /\ j.op2.kind # "by_reg"
  <2>1. Operand2(a, j.op2) = Out(s.r[i.rs], s.f.c)
    BY <1>1, <1>2, <1>6, PlainOperand
  <2> QED BY <1>6, <2>1 DEF Out, Plain
<1>9. CASE i.op = "CMP"
  <2>1. PICK sum, f : sum = SubFlags(s.r[i.rd], s.r[i.rs], 1) /\ f = SetFlags(s.f, sum)
    OBVIOUS
  <2>2. f \in Flags
    BY <1>3, <2>1, SumType, SumFlagTypes
  <2>3. ThumbHireg(i) = Written(s, i.rd, s.r[i.rd], f, 1)
    BY <1>9, <2>1 DEF ThumbHireg, Written
  <2>4. DataSum(a, j) = sum
    BY <1>3, <1>6, <1>8, <1>9, <2>1 DEF DataSum, ArithmeticResult
  <2>5. i.op \in Tests /\ i.op \notin Logical
    BY <1>9 DEF Tests, Logical
  <2>6. ArmLeaves(i, AsArm.r, f, 1)
    BY <1>1, <1>5, <1>6, <1>7, <1>8, <1>9, <2>1, <2>4, <2>5, CompareLeaves
  <2> QED BY <1>2, <2>2, <2>3, <2>6, RightWhenKept
<1>10. CASE i.op # "CMP"
  <2>1. PICK x : x = IF i.op = "ADD" THEN Wrap(s.r[i.rd] + s.r[i.rs]) ELSE s.r[i.rs]
    OBVIOUS
  <2>2. x \in Word
    <3>1. s.r[i.rd] + s.r[i.rs] \in Int
      BY <1>3, WrapWord
    <3> QED BY <1>3, <2>1, <3>1, WrapType
  <2>3. ThumbHireg(i) = Written(s, i.rd, x, s.f, 1)
    <3>1. ThumbHireg(i) = [s EXCEPT !.r[i.rd] = x, !.f = s.f, !.cycles = 1]
      <4>1. CASE i.op = "ADD"
        BY <4>1, <2>1 DEF ThumbHireg
      <4>2. CASE i.op = "MOV"
        BY <4>2, <2>1 DEF ThumbHireg
      <4> QED BY <1>10, <4>1, <4>2
    <3> QED BY <3>1 DEF Written
  <2>4. i.op \notin Tests
    BY <1>10 DEF Tests
  <2>5. DataResult(a, j) = x
    <3>1. CASE i.op = "ADD"
      <4>1. "ADD" \notin Logical
        BY DEF Logical
      <4>2. DataSum(a, j) = AddFlags(s.r[i.rd], s.r[i.rs], 0)
        BY <1>3, <1>6, <1>8, <3>1 DEF DataSum, ArithmeticResult
      <4>3. AddFlags(s.r[i.rd], s.r[i.rs], 0).res = x
        <5>1. s.r[i.rd] + s.r[i.rs] + 0 = s.r[i.rd] + s.r[i.rs]
          BY <1>3, WrapWord
        <5> QED BY <5>1, <2>1, <3>1 DEF AddFlags
      <4> QED BY <1>6, <3>1, <4>1, <4>2, <4>3 DEF DataResult
    <3>2. CASE i.op = "MOV"
      <4>1. "MOV" \in Logical
        BY DEF Logical
      <4> QED BY <1>6, <1>8, <2>1, <3>2, <4>1 DEF DataResult, LogicalResult
    <3> QED BY <1>10, <3>1, <3>2
  <2>6. ArmLeaves(i, [AsArm.r EXCEPT ![i.rd] = x], s.f, 1)
    BY <1>1, <1>5, <1>6, <1>7, <1>8, <1>10, <2>4, <2>5, UnsetLeaves
  <2> QED BY <1>2, <1>3, <2>2, <2>3, <2>6, RightWhenWritten
<1> QED BY <1>9, <1>10

\* Format 4.
IsAlu(i, a, j) ==
    /\ s \in ThumbState /\ i.fmt = "alu" /\ i.op \in ThumbShifts \cup ThumbSums \cup ThumbLogic
    /\ i.rs \in Low /\ i.rd \in Low /\ a = AsArm /\ ArmOf(a) /\ j = EquivalentAlu(i)

LEMMA AluParts ==
    ASSUME NEW i, NEW a, NEW j, IsAlu(i, a, j)
    PROVE  /\ i.rd \in Registers \ {PC} /\ i.rd \in Registers /\ i.rs \in Registers \ {PC}
           /\ a.f = s.f /\ a.r[i.rd] = s.r[i.rd] /\ s.r[i.rd] \in Word /\ s.r[i.rs] \in Word
           /\ a.r[i.rs] = s.r[i.rs] /\ s.f \in Flags /\ s.f.c \in BOOLEAN
           /\ s \in ThumbState /\ a = AsArm /\ ArmOf(a) /\ Equivalent(i) = j
<1>1. s \in ThumbState /\ i.fmt = "alu" /\ i.rs \in Low /\ i.rd \in Low /\ a = AsArm /\ ArmOf(a) /\ j = EquivalentAlu(i)
  BY DEF IsAlu
<1>2. i.rd \in Registers \ {PC} /\ i.rd \in Registers /\ i.rs \in Registers \ {PC}
  BY <1>1, RegisterNumbers
<1>3. Equivalent(i) = j
  BY <1>1 DEF Equivalent
<1> QED BY <1>1, <1>2, <1>3, StateParts DEF ArmOf, Flags

LEMMA AluShift ==
    ASSUME NEW i, NEW a, NEW j, IsAlu(i, a, j), i.op \in ThumbShifts
    PROVE  Right(i, ThumbAlu(i))
<1>1. /\ i.rd \in Registers \ {PC} /\ i.rd \in Registers /\ i.rs \in Registers \ {PC}
      /\ a.f = s.f /\ a.r[i.rd] = s.r[i.rd] /\ s.r[i.rd] \in Word /\ s.r[i.rs] \in Word
      /\ a.r[i.rs] = s.r[i.rs] /\ s.f \in Flags /\ s.f.c \in BOOLEAN
      /\ s \in ThumbState /\ a = AsArm /\ ArmOf(a) /\ Equivalent(i) = j
  BY AluParts
<1>2. PICK amt \in Nat : amt = s.r[i.rs] % 256
  <2>1. s.r[i.rs] \in Nat
    BY <1>1, WrapWord
  <2>2. s.r[i.rs] % 256 \in Nat
    BY <2>1
  <2> QED BY <2>2
<1>3. PICK out : out = Shift(i.op, s.r[i.rd], amt, s.f.c, FALSE)
  OBVIOUS
<1>4. out.res \in Word /\ out.c \in BOOLEAN
  BY <1>1, <1>3, ShiftType DEF IsOut
<1>5. PICK f : f = SetNzc(s.f, out.res, out.c)
  OBVIOUS
<1>6. f \in Flags
  BY <1>1, <1>4, <1>5, FlagTypes
<1>7. ThumbAlu(i) = Written(s, i.rd, out.res, f, 2)
  <2>1. i.op \notin {"TST", "CMP", "CMN"} /\ i.op # "MUL"
    BY DEF ThumbShifts
  <2>2. i.op \notin ThumbSums
    BY DEF ThumbShifts, ThumbSums
  <2>3. PICK sum, logic : sum = ThumbSum(i.op, s.r[i.rd], s.r[i.rs])
                          /\ logic = ThumbLogicResult(i.op, s.r[i.rd], s.r[i.rs])
    OBVIOUS
  <2> QED BY <1>2, <1>3, <1>5, <2>1, <2>2, <2>3 DEF ThumbAlu, Written
<1>8. PICK op2 : op2 = [kind |-> "by_reg", shift |-> i.op, rm |-> i.rd, rs |-> i.rs]
  OBVIOUS
<1>9. j = Data("MOV", TRUE, i.rd, i.rd, op2)
  BY <1>8 DEF IsAlu, EquivalentAlu, ThumbShifts
<1>10. j.class = "data" /\ j.op = "MOV" /\ j.s /\ j.rd = i.rd /\ j.op2 = op2
  BY <1>9 DEF Data
<1>11. Operand2(a, op2) = out /\ op2.kind = "by_reg"
  BY <1>1, <1>2, <1>3, <1>8 DEF Operand2
<1>12. "MOV" \in Logical /\ "MOV" \notin Tests
  BY DEF Logical, Tests
<1>13. DataResult(a, j) = out.res
  BY <1>10, <1>11, <1>12 DEF DataResult, LogicalResult
<1>14. ArmLeaves(i, [AsArm.r EXCEPT ![i.rd] = out.res], f, 2)
  BY <1>1, <1>5, <1>10, <1>11, <1>12, <1>13, LogicalLeaves
<1> QED BY <1>1, <1>4, <1>6, <1>7, <1>14, RightWhenWritten

\* The sum of format 4, and what ARM computes for it.
LEMMA AluSumIs ==
    ASSUME NEW i, NEW a, NEW j, IsAlu(i, a, j), i.op \in ThumbSums
    PROVE  /\ IsSum(ThumbSum(i.op, s.r[i.rd], s.r[i.rs]))
           /\ j.class = "data" /\ j.s /\ j.rd = i.rd /\ j.op2.kind # "by_reg" /\ j.op \notin Logical
           /\ j.op = (IF i.op = "NEG" THEN "RSB" ELSE i.op)
           /\ DataSum(a, j) = ThumbSum(i.op, s.r[i.rd], s.r[i.rs])
<1>1. /\ i.rd \in Registers \ {PC} /\ i.rd \in Registers /\ i.rs \in Registers \ {PC}
      /\ a.f = s.f /\ a.r[i.rd] = s.r[i.rd] /\ s.r[i.rd] \in Word /\ s.r[i.rs] \in Word
      /\ a.r[i.rs] = s.r[i.rs] /\ s.f \in Flags /\ s.f.c \in BOOLEAN
      /\ s \in ThumbState /\ a = AsArm /\ ArmOf(a) /\ Equivalent(i) = j
  BY AluParts
<1>2. PICK x, y : x = s.r[i.rd] /\ y = s.r[i.rs]
  OBVIOUS
<1>3. x \in Word /\ y \in Word /\ 0 \in Word /\ CarryIn(s.f) \in {0, 1}
  BY <1>1, <1>2, SomeWords, CarryInType
<1>4. i.op \in {"ADC", "SBC", "NEG", "CMP", "CMN"}
  BY DEF ThumbSums
<1>5. IsSum(ThumbSum(i.op, x, y))
  <2>1. CASE i.op = "ADC"
    BY <1>3, <2>1, SumType DEF ThumbSum
  <2>2. CASE i.op = "SBC"
    BY <1>3, <2>2, SumType DEF ThumbSum
  <2>3. CASE i.op = "NEG"
    BY <1>3, <2>3, SumType DEF ThumbSum
  <2>4. CASE i.op = "CMP"
    BY <1>3, <2>4, SumType DEF ThumbSum
  <2>5. CASE i.op = "CMN"
    BY <1>3, <2>5, SumType DEF ThumbSum
  <2> QED BY <1>4, <2>1, <2>2, <2>3, <2>4, <2>5
<1>6. CASE i.op = "NEG"
  <2>1. j = Data("RSB", TRUE, i.rd, i.rs, Imm(0))
    BY <1>6 DEF IsAlu, EquivalentAlu, ThumbShifts
  <2>2. j.class = "data" /\ j.s /\ j.rd = i.rd /\ j.rn = i.rs /\ j.op = "RSB" /\ j.op2 = Imm(0)
    BY <2>1 DEF Data
  <2>3. j.op2.kind # "by_reg" /\ j.op \notin Logical
    BY <2>2 DEF Imm, Logical
  <2>4. Operand2(a, j.op2) = Out(0, s.f.c)
    BY <1>1, <2>2, ImmOperand
  <2>5. DataSum(a, j) = ArithmeticResult("RSB", y, 0, s.f)
    BY <1>1, <1>2, <2>2, <2>4 DEF DataSum, Out
  <2>6. DataSum(a, j) = ThumbSum(i.op, x, y)
    BY <1>6, <2>5 DEF ArithmeticResult, ThumbSum
  <2> QED BY <1>2, <1>5, <1>6, <2>2, <2>3, <2>6
<1>7. CASE i.op # "NEG"
  <2>1. j = Data(i.op, TRUE, i.rd, i.rd, Plain(i.rs))
    BY <1>4, <1>7 DEF IsAlu, EquivalentAlu, ThumbShifts
  <2>2. j.class = "data" /\ j.s /\ j.rd = i.rd /\ j.rn = i.rd /\ j.op = i.op /\ j.op2 = Plain(i.rs)
    BY <2>1 DEF Data
  <2>3. j.op2.kind # "by_reg" /\ j.op \notin Logical
    BY <1>4, <2>2 DEF Plain, Logical
  <2>4. Operand2(a, j.op2) = Out(y, s.f.c)
    BY <1>1, <1>2, <2>2, PlainOperand
  <2>5. DataSum(a, j) = ArithmeticResult(i.op, x, y, s.f)
    BY <1>1, <1>2, <2>2, <2>4 DEF DataSum, Out
  <2>6. DataSum(a, j) = ThumbSum(i.op, x, y)
    <3>1. CASE i.op = "ADC"
      BY <2>5, <3>1 DEF ArithmeticResult, ThumbSum
    <3>2. CASE i.op = "SBC"
      BY <2>5, <3>2 DEF ArithmeticResult, ThumbSum
    <3>3. CASE i.op = "CMP"
      BY <2>5, <3>3 DEF ArithmeticResult, ThumbSum
    <3>4. CASE i.op = "CMN"
      BY <2>5, <3>4 DEF ArithmeticResult, ThumbSum
    <3> QED BY <1>4, <1>7, <3>1, <3>2, <3>3, <3>4
  <2> QED BY <1>2, <1>5, <1>7, <2>2, <2>3, <2>6
<1> QED BY <1>6, <1>7

LEMMA AluSum ==
    ASSUME NEW i, NEW a, NEW j, IsAlu(i, a, j), i.op \in ThumbSums
    PROVE  Right(i, ThumbAlu(i))
<1>1. /\ i.rd \in Registers \ {PC} /\ i.rd \in Registers
      /\ s \in ThumbState /\ a = AsArm /\ Equivalent(i) = j /\ s.f \in Flags
  BY AluParts
<1>2. PICK sum : sum = ThumbSum(i.op, s.r[i.rd], s.r[i.rs])
  OBVIOUS
<1>3. /\ IsSum(sum)
      /\ j.class = "data" /\ j.s /\ j.rd = i.rd /\ j.op2.kind # "by_reg" /\ j.op \notin Logical
      /\ j.op = (IF i.op = "NEG" THEN "RSB" ELSE i.op) /\ DataSum(a, j) = sum
  BY <1>2, AluSumIs
<1>4. PICK f : f = SetFlags(s.f, sum)
  OBVIOUS
<1>5. f \in Flags /\ sum.res \in Word
  BY <1>1, <1>3, <1>4, SumFlagTypes DEF IsSum
<1>6. i.op \in {"ADC", "SBC", "NEG", "CMP", "CMN"} /\ i.op \notin ThumbShifts
  BY DEF ThumbSums, ThumbShifts
<1>7. CASE i.op \in {"CMP", "CMN"}
  <2>1. ThumbAlu(i) = Written(s, i.rd, s.r[i.rd], f, 1)
    BY <1>2, <1>4, <1>6, <1>7 DEF ThumbAlu, Written
  <2>2. j.op \in Tests
    BY <1>3, <1>7 DEF Tests
  <2>3. ArmLeaves(i, AsArm.r, f, 1)
    BY <1>1, <1>3, <1>4, <2>2, CompareLeaves
  <2> QED BY <1>1, <1>5, <2>1, <2>3, RightWhenKept
<1>8. CASE i.op \notin {"CMP", "CMN"}
  <2>1. ThumbAlu(i) = Written(s, i.rd, sum.res, f, 1)
    BY <1>2, <1>4, <1>6, <1>8 DEF ThumbAlu, Written
  <2>2. j.op \notin Tests
    BY <1>3, <1>6, <1>8 DEF Tests
  <2>3. DataResult(a, j) = sum.res
    BY <1>3 DEF DataResult
  <2>4. ArmLeaves(i, [AsArm.r EXCEPT ![i.rd] = sum.res], f, 1)
    BY <1>1, <1>3, <1>4, <2>2, <2>3, SumLeaves
  <2> QED BY <1>1, <1>5, <2>1, <2>4, RightWhenWritten
<1> QED BY <1>7, <1>8

\* Setting N and Z keeps the carry.
LEMMA CarryKept == \A f \in Flags : \A v : SetNzc(f, v, f.c) = SetNz(f, v)
<1> TAKE f \in Flags
<1> TAKE v
<1>1. PICK g : g = SetNz(f, v)
  OBVIOUS
<1>2. g.c = f.c
  BY <1>1 DEF SetNz, Flags
<1>3. g \in Flags
  BY <1>1, Booleans DEF SetNz, Flags
<1>4. SetNzc(f, v, f.c) = [g EXCEPT !.c = f.c]
  BY <1>1 DEF SetNzc
<1> QED BY <1>1, <1>2, <1>3, <1>4 DEF Flags

LEMMA AluLogic ==
    ASSUME NEW i, NEW a, NEW j, IsAlu(i, a, j), i.op \in ThumbLogic \ {"MUL"}
    PROVE  Right(i, ThumbAlu(i))
<1>1. /\ i.rd \in Registers \ {PC} /\ i.rd \in Registers /\ i.rs \in Registers \ {PC}
      /\ a.f = s.f /\ a.r[i.rd] = s.r[i.rd] /\ s.r[i.rd] \in Word /\ s.r[i.rs] \in Word
      /\ a.r[i.rs] = s.r[i.rs] /\ s.f \in Flags /\ s.f.c \in BOOLEAN
      /\ s \in ThumbState /\ a = AsArm /\ ArmOf(a) /\ Equivalent(i) = j
  BY AluParts
<1>2. PICK x, y : x = s.r[i.rd] /\ y = s.r[i.rs]
  OBVIOUS
<1>3. i.op \in {"AND", "EOR", "TST", "ORR", "BIC", "MVN"} /\ i.op \notin ThumbShifts /\ i.op \notin ThumbSums
  BY DEF ThumbLogic, ThumbShifts, ThumbSums
<1>4. i.op \in Logical /\ (i.op = "TST" <=> i.op \in Tests)
  BY <1>3 DEF Logical, Tests
<1>5. PICK v : v = ThumbLogicResult(i.op, x, y)
  OBVIOUS
<1>6. v \in Word
  <2>1. x \in Word /\ y \in Word
    BY <1>1, <1>2
  <2>2. CASE i.op \in {"AND", "TST"}
    BY <1>5, <2>2, LogicType DEF ThumbLogicResult
  <2>3. CASE i.op = "EOR"
    BY <1>5, <2>3, LogicType DEF ThumbLogicResult
  <2>4. CASE i.op = "ORR"
    BY <1>5, <2>4, LogicType DEF ThumbLogicResult
  <2>5. CASE i.op = "BIC"
    BY <1>5, <2>5, LogicType DEF ThumbLogicResult
  <2>6. CASE i.op = "MVN"
    BY <1>5, <2>1, <2>6, ComplementWord DEF ThumbLogicResult
  <2> QED BY <1>3, <2>2, <2>3, <2>4, <2>5, <2>6
<1>7. j = Data(i.op, TRUE, i.rd, i.rd, Plain(i.rs))
  BY <1>3 DEF IsAlu, EquivalentAlu
<1>8. j.class = "data" /\ j.s /\ j.rd = i.rd /\ j.rn = i.rd /\ j.op = i.op /\ j.op2 = Plain(i.rs)
  BY <1>7 DEF Data
<1>9. Operand2(a, j.op2) = Out(y, s.f.c)
  BY <1>1, <1>2, <1>8, PlainOperand
<1>10. Operand2(a, j.op2).c = s.f.c /\ Operand2(a, j.op2).res = y /\ j.op2.kind # "by_reg"
  BY <1>8, <1>9 DEF Out, Plain
<1>11. DataResult(a, j) = LogicalResult(i.op, x, y)
  BY <1>1, <1>2, <1>4, <1>8, <1>10 DEF DataResult
<1>12. LogicalResult(i.op, x, y) = v
  <2>2. CASE i.op \in {"AND", "TST"}
    BY <1>5, <2>2 DEF ThumbLogicResult, LogicalResult
  <2>3. CASE i.op = "EOR"
    BY <1>5, <2>3 DEF ThumbLogicResult, LogicalResult
  <2>4. CASE i.op = "ORR"
    BY <1>5, <2>4 DEF ThumbLogicResult, LogicalResult
  <2>5. CASE i.op = "BIC"
    BY <1>5, <2>5 DEF ThumbLogicResult, LogicalResult
  <2>6. CASE i.op = "MVN"
    BY <1>5, <2>6 DEF ThumbLogicResult, LogicalResult
  <2> QED BY <1>3, <2>2, <2>3, <2>4, <2>5, <2>6
<1>13. PICK f : f = SetNz(s.f, v)
  OBVIOUS
<1>14. f \in Flags /\ SetNzc(s.f, v, s.f.c) = f
  BY <1>1, <1>13, FlagTypes, CarryKept
<1>15. CASE i.op = "TST"
  <2>1. ThumbAlu(i) = Written(s, i.rd, s.r[i.rd], f, 1)
    BY <1>2, <1>3, <1>5, <1>13, <1>15 DEF ThumbAlu, Written
  <2>2. ArmLeaves(i, AsArm.r, f, 1)
    BY <1>1, <1>4, <1>8, <1>10, <1>11, <1>12, <1>14, <1>15, TestLeaves
  <2> QED BY <1>1, <1>14, <2>1, <2>2, RightWhenKept
<1>16. CASE i.op # "TST"
  <2>1. ThumbAlu(i) = Written(s, i.rd, v, f, 1)
    BY <1>2, <1>3, <1>5, <1>13, <1>16 DEF ThumbAlu, Written
  <2>2. ArmLeaves(i, [AsArm.r EXCEPT ![i.rd] = v], f, 1)
    BY <1>1, <1>4, <1>8, <1>10, <1>11, <1>12, <1>14, <1>16, LogicalLeaves
  <2> QED BY <1>1, <1>6, <1>14, <2>1, <2>2, RightWhenWritten
<1> QED BY <1>15, <1>16

LEMMA AluMultiply ==
    ASSUME NEW i, NEW a, NEW j, IsAlu(i, a, j), i.op = "MUL"
    PROVE  Right(i, ThumbAlu(i))
<1>1. /\ i.rd \in Registers \ {PC} /\ i.rd \in Registers /\ i.rs \in Registers \ {PC}
      /\ a.f = s.f /\ a.r[i.rd] = s.r[i.rd] /\ s.r[i.rd] \in Word /\ s.r[i.rs] \in Word
      /\ a.r[i.rs] = s.r[i.rs] /\ s.f \in Flags /\ a \in ThumbState
      /\ s \in ThumbState /\ a = AsArm /\ ArmOf(a) /\ Equivalent(i) = j
  BY AluParts DEF ArmOf
<1>2. PICK x \in Nat, y \in Nat : x = s.r[i.rd] /\ y = s.r[i.rs]
  BY <1>1, WrapWord
<1>3. PICK v : v = Wrap(x * y)
  OBVIOUS
<1>4. v \in Word /\ Wrap(y * x + 0) = v
  <2>1. x * y \in Int /\ y * x + 0 = x * y
    OBVIOUS
  <2> QED BY <1>3, <2>1, WrapType
<1>5. PICK f, n : f = SetNz(s.f, v) /\ n = MultiplyCycles(x)
  OBVIOUS
<1>6. f \in Flags /\ n \in Nat /\ n > 0
  <2>1. n \in 1 .. 4
    BY <1>5, MultiplyCyclesType
  <2>2. f \in Flags
    BY <1>1, <1>5, Booleans DEF Flags, SetNz
  <2> QED BY <2>1, <2>2
<1>7. ThumbAlu(i) = Written(s, i.rd, v, f, n)
  <2>1. "MUL" \notin ThumbShifts /\ "MUL" \notin ThumbSums
    BY DEF ThumbShifts, ThumbSums
  <2>2. ThumbLogicResult("MUL", x, y) = v
    BY <1>3 DEF ThumbLogicResult
  <2> QED BY <1>2, <1>5, <2>1, <2>2 DEF ThumbAlu, Written
<1>8. j = [class |-> "multiply", accumulate |-> FALSE, s |-> TRUE,
           rd |-> i.rd, rn |-> 0, rs |-> i.rd, rm |-> i.rs]
  BY DEF IsAlu, EquivalentAlu, ThumbShifts
<1>9. j.class = "multiply" /\ ~j.accumulate /\ j.s /\ j.rd = i.rd /\ j.rs = i.rd /\ j.rm = i.rs
  BY <1>8
<1>10. PICK u : u = ArmExec(a, j) /\ u = ArmMultiply(a, j)
  BY <1>9 DEF ArmExec
<1>11. Wrap(a.r[j.rm] * a.r[j.rs] + (IF j.accumulate THEN a.r[j.rn] ELSE 0)) = v
  BY <1>1, <1>2, <1>4, <1>9
<1>12. u.r = [a.r EXCEPT ![i.rd] = v] /\ u.f = f /\ u.mem = a.mem
  <2>1. PICK m : m = MultiplyCycles([a.r EXCEPT ![j.rd] = v][j.rs]) + (IF j.accumulate THEN 1 ELSE 0)
    OBVIOUS
  <2>2. u = [a EXCEPT !.r = [a.r EXCEPT ![j.rd] = v], !.f = IF j.s THEN SetNz(@, v) ELSE @, !.cycles = m]
    BY <1>10, <1>11, <2>1, Zenon DEF ArmMultiply
  <2> QED BY <1>1, <1>5, <1>9, <2>2 DEF ThumbState
<1>13. ArmLeaves(i, [AsArm.r EXCEPT ![i.rd] = v], f, n)
  BY <1>1, <1>9, <1>10, <1>12 DEF ArmLeaves
<1> QED BY <1>1, <1>4, <1>6, <1>7, <1>13, RightWhenWritten

LEMMA AluRight ==
    ASSUME s \in ThumbState, NEW i, i.fmt = "alu", i.op \in ThumbShifts \cup ThumbSums \cup ThumbLogic,
           i.rs \in Low, i.rd \in Low
    PROVE  Right(i, ThumbAlu(i))
<1>1. PICK a, j : a = AsArm /\ j = EquivalentAlu(i)
  OBVIOUS
<1>2. IsAlu(i, a, j)
  BY <1>1, AsArmIs DEF IsAlu
<1>3. i.op \in ThumbShifts \/ i.op \in ThumbSums \/ i.op = "MUL" \/ i.op \in ThumbLogic \ {"MUL"}
  OBVIOUS
<1> QED BY <1>2, <1>3, AluShift, AluSum, AluLogic, AluMultiply

-----------------------------------------------------------------------------
(* Formats 6 to 11: a load or a store *)

LEMMA LoadRight ==
    ASSUME s \in ThumbState, NEW i, NEW rd \in Registers, NEW x \in Word,
           ArmLeaves(i, [AsArm.r EXCEPT ![rd] = x], s.f, 3)
    PROVE  Right(i, Loaded(rd, x))
<1>1. s.f \in Flags
  BY StateParts
<1>2. Loaded(rd, x) = Written(s, rd, x, s.f, 3)
  BY DEF Loaded, Written, ThumbState
<1> QED BY <1>1, <1>2, RightWhenWritten

LEMMA StoreRight ==
    ASSUME s \in ThumbState, NEW i, NEW mem \in Memory, NEW a, a = AsArm, NEW u, u = ArmExec(a, Equivalent(i)),
           u.r = a.r, u.f = a.f, u.mem = mem, u.cycles = 2
    PROVE  Right(i, Stored(mem))
<1>1. ArmOf(a)
  BY AsArmIs
<1>2. PICK o : o = Stored(mem)
  OBVIOUS
<1>3. o \in ThumbState /\ o.r = s.r /\ o.f = s.f /\ o.mem = mem /\ o.cycles = 2
  BY <1>2 DEF Stored, ThumbState, Memory
<1>4. AgreesWith(o, u)
  BY <1>1, <1>3 DEF ArmOf, AgreesWith
<1> QED BY <1>2, <1>3, <1>4 DEF Right

\* [base, offset] without writeback.
InPlace(j) == j.pre /\ j.up /\ ~j.writeback

LEMMA Transferred ==
    ASSUME NEW a \in ThumbState, NEW j, InPlace(j), NEW addr, NEW loaded, NEW stored
    PROVE  /\ Transfer(a, j, addr, loaded, stored).r
                  = IF j.load THEN [a.r EXCEPT ![j.rd] = loaded] ELSE a.r
           /\ Transfer(a, j, addr, loaded, stored).mem = IF j.load THEN a.mem ELSE stored
           /\ Transfer(a, j, addr, loaded, stored).cycles = IF j.load THEN 3 ELSE 2
           /\ Transfer(a, j, addr, loaded, stored).f = a.f
<1>1. \A r : WriteBack(r, j, addr) = r
  BY DEF WriteBack, InPlace
<1>2. PICK r : r = IF j.load THEN [a.r EXCEPT ![j.rd] = loaded] ELSE a.r
  OBVIOUS
<1>3. PICK u : u = Transfer(a, j, addr, loaded, stored)
  OBVIOUS
<1>4. u = [a EXCEPT !.r = WriteBack(r, j, addr), !.mem = IF j.load THEN @ ELSE stored,
                    !.cycles = IF j.load THEN 3 ELSE 2]
  BY <1>2, <1>3 DEF Transfer
<1>5. u = [a EXCEPT !.r = r, !.mem = IF j.load THEN @ ELSE stored, !.cycles = IF j.load THEN 3 ELSE 2]
  BY <1>1, <1>4
<1> QED BY <1>2, <1>3, <1>5 DEF ThumbState

LEMMA TransferRight ==
    ASSUME s \in ThumbState, NEW i, NEW j, Equivalent(i) = j, InPlace(j), j.rd \in Registers,
           NEW addr, NEW loaded, NEW stored,
           ArmExec(AsArm, j) = Transfer(AsArm, j, addr, loaded, stored)
    PROVE  /\ j.load /\ loaded \in Word => Right(i, Loaded(j.rd, loaded))
           /\ ~j.load /\ stored \in Memory => Right(i, Stored(stored))
<1>1. PICK a : a = AsArm /\ ArmOf(a)
  BY AsArmIs
<1>2. a \in ThumbState /\ a.f = s.f
  BY <1>1 DEF ArmOf
<1>3. PICK u : u = ArmExec(a, j) /\ u = Transfer(a, j, addr, loaded, stored)
  BY <1>1
<1>4. /\ u.r = IF j.load THEN [a.r EXCEPT ![j.rd] = loaded] ELSE a.r
      /\ u.mem = IF j.load THEN a.mem ELSE stored
      /\ u.cycles = IF j.load THEN 3 ELSE 2
      /\ u.f = a.f
  BY <1>2, <1>3, Transferred
<1>5. ASSUME j.load, loaded \in Word PROVE Right(i, Loaded(j.rd, loaded))
  <2>1. PICK rd, r : rd = j.rd /\ r = [a.r EXCEPT ![rd] = loaded]
    OBVIOUS
  <2>2. ArmLeaves(i, r, s.f, 3)
    BY <1>1, <1>2, <1>3, <1>4, <1>5, <2>1 DEF ArmLeaves
  <2>3. ArmLeaves(i, [AsArm.r EXCEPT ![rd] = loaded], s.f, 3)
    BY <1>1, <2>1, <2>2
  <2> QED BY <1>5, <2>1, <2>3, LoadRight
<1>6. ASSUME ~j.load, stored \in Memory PROVE Right(i, Stored(stored))
  BY <1>1, <1>3, <1>4, <1>6, StoreRight
<1> QED BY <1>5, <1>6

\* The address of ARM's access.
ReadsAt(j, addr) == Wrap(AsArm.r[j.rn] + Operand2(AsArm, j.op2).res) = addr

LEMMA SingleIs ==
    ASSUME NEW j, j.class = "single", InPlace(j), NEW addr, ReadsAt(j, addr)
    PROVE  ArmExec(AsArm, j) =
               Transfer(AsArm, j, addr,
                        IF j.byte THEN Read8(AsArm.mem, addr) ELSE ReadRotated(AsArm.mem, addr),
                        IF j.byte THEN Write8(AsArm.mem, addr, AsArm.r[j.rd])
                                  ELSE Write32(AsArm.mem, addr, AsArm.r[j.rd]))
<1>1. PICK a : a = AsArm
  OBVIOUS
<1>2. ArmExec(a, j) = ArmSingleTransfer(a, j)
  BY DEF ArmExec
<1>3. Displaced(a.r[j.rn], Operand2(a, j.op2).res, j.up) = addr
  BY <1>1 DEF ReadsAt, Displaced, InPlace
<1>4. PICK at : at = IF j.pre THEN addr ELSE a.r[j.rn]
  OBVIOUS
<1>5. ArmSingleTransfer(a, j) =
          Transfer(a, j, addr, IF j.byte THEN Read8(a.mem, at) ELSE ReadRotated(a.mem, at),
                   IF j.byte THEN Write8(a.mem, at, a.r[j.rd]) ELSE Write32(a.mem, at, a.r[j.rd]))
  BY <1>3, <1>4 DEF ArmSingleTransfer
<1>6. at = addr
  BY <1>4 DEF InPlace
<1> QED BY <1>1, <1>2, <1>5, <1>6

LEMMA SingleRight ==
    ASSUME s \in ThumbState, NEW i, NEW j, Equivalent(i) = j, j.class = "single", InPlace(j),
           j.rd \in Registers \ {PC}, NEW addr \in Word, ReadsAt(j, addr)
    PROVE  /\ j.load /\ j.byte => Right(i, Loaded(j.rd, Read8(s.mem, addr)))
           /\ j.load /\ ~j.byte => Right(i, Loaded(j.rd, ReadRotated(s.mem, addr)))
           /\ ~j.load /\ j.byte => Right(i, Stored(Write8(s.mem, addr, s.r[j.rd])))
           /\ ~j.load /\ ~j.byte => Right(i, Stored(Write32(s.mem, addr, s.r[j.rd])))
<1>1. PICK a : a = AsArm /\ ArmOf(a)
  BY AsArmIs
<1>2. a.mem = s.mem /\ a.r[j.rd] = s.r[j.rd] /\ s.mem \in Memory /\ s.r[j.rd] \in Word
  BY <1>1, StateParts DEF ArmOf
<1>3. PICK loaded, stored :
          /\ loaded = IF j.byte THEN Read8(s.mem, addr) ELSE ReadRotated(s.mem, addr)
          /\ stored = IF j.byte THEN Write8(s.mem, addr, s.r[j.rd]) ELSE Write32(s.mem, addr, s.r[j.rd])
  OBVIOUS
<1>4. loaded \in Word /\ stored \in Memory
  BY <1>2, <1>3, ReadTypes, RotatedType, WriteTypes
<1>5. ArmExec(AsArm, j) = Transfer(AsArm, j, addr, loaded, stored)
  BY <1>1, <1>2, <1>3, SingleIs
<1>6. /\ j.load => Right(i, Loaded(j.rd, loaded))
      /\ ~j.load => Right(i, Stored(stored))
  BY <1>4, <1>5, TransferRight
<1> QED BY <1>3, <1>6

\* What a load of a halfword or of a signed byte or halfword reads.
HalfwordRead(sh, mem, addr) ==
    CASE sh = "H" -> Read16(mem, addr)
      [] sh = "SB" -> SignExtend(Read8(mem, addr), BYTE)
      [] sh = "SH" -> SignExtend(Read16(mem, addr), HALFWORD)

LEMMA HalfwordReadType ==
    ASSUME NEW sh \in {"H", "SB", "SH"}, NEW mem \in Memory, NEW addr \in Word
    PROVE  HalfwordRead(sh, mem, addr) \in Word
<1>1. CASE sh = "H"
  BY <1>1, ReadTypes DEF HalfwordRead
<1>2. CASE sh = "SB"
  BY <1>2, ReadTypes, ExtendedType DEF HalfwordRead
<1>3. CASE sh = "SH"
  BY <1>3, ReadTypes, ExtendedType DEF HalfwordRead
<1> QED BY <1>1, <1>2, <1>3

LEMMA HalfwordIs ==
    ASSUME NEW j, j.class = "halfword", InPlace(j), NEW addr, ReadsAt(j, addr)
    PROVE  ArmExec(AsArm, j) =
               Transfer(AsArm, j, addr, HalfwordRead(j.sh, AsArm.mem, addr),
                        Write16(AsArm.mem, addr, AsArm.r[j.rd]))
<1>1. PICK a : a = AsArm
  OBVIOUS
<1>2. ArmExec(a, j) = ArmHalfwordTransfer(a, j)
  BY DEF ArmExec
<1>3. Displaced(a.r[j.rn], Operand2(a, j.op2).res, j.up) = addr
  BY <1>1 DEF ReadsAt, Displaced, InPlace
<1>4. PICK at : at = IF j.pre THEN addr ELSE a.r[j.rn]
  OBVIOUS
<1>5. ArmHalfwordTransfer(a, j) =
          Transfer(a, j, addr, HalfwordRead(j.sh, a.mem, at), Write16(a.mem, at, a.r[j.rd]))
  BY <1>3, <1>4, Zenon DEF ArmHalfwordTransfer, HalfwordRead
<1>6. at = addr
  BY <1>4 DEF InPlace
<1> QED BY <1>1, <1>2, <1>5, <1>6

LEMMA HalfwordRight ==
    ASSUME s \in ThumbState, NEW i, NEW j, Equivalent(i) = j, j.class = "halfword", InPlace(j),
           j.sh \in {"H", "SB", "SH"}, j.rd \in Registers \ {PC}, NEW addr \in Word, ReadsAt(j, addr)
    PROVE  /\ j.load => Right(i, Loaded(j.rd, HalfwordRead(j.sh, s.mem, addr)))
           /\ ~j.load => Right(i, Stored(Write16(s.mem, addr, s.r[j.rd])))
<1>1. PICK a : a = AsArm /\ ArmOf(a)
  BY AsArmIs
<1>2. a.mem = s.mem /\ a.r[j.rd] = s.r[j.rd] /\ s.mem \in Memory /\ s.r[j.rd] \in Word
  BY <1>1, StateParts DEF ArmOf
<1>3. PICK loaded, stored :
          loaded = HalfwordRead(j.sh, s.mem, addr) /\ stored = Write16(s.mem, addr, s.r[j.rd])
  OBVIOUS
<1>4. loaded \in Word /\ stored \in Memory
  BY <1>2, <1>3, HalfwordReadType, WriteTypes
<1>5. ArmExec(AsArm, j) = Transfer(AsArm, j, addr, loaded, stored)
  BY <1>1, <1>2, <1>3, HalfwordIs
<1> QED BY <1>3, <1>4, <1>5, TransferRight

\* The multiples of four among the words.
LEMMA QuartersOfWord == \E g \in Nat : Pow2[W] = 4 * g
<1>1. W \in Nat /\ W - 2 \in Nat /\ (W - 2) + 1 = W - 1 /\ W - 1 \in Nat /\ (W - 1) + 1 = W
  BY AluAssumption
<1>2. PICK g \in Nat : g = Pow2[W - 2]
  BY <1>1, Pow2Type
<1>3. Pow2[W - 1] = 2 * g
  BY <1>1, <1>2, Pow2Step
<1>4. Pow2[W] = 2 * Pow2[W - 1]
  BY <1>1, Pow2Step
<1>5. Pow2[W] = 4 * g
  BY <1>3, <1>4
<1> QED BY <1>5

LEMMA WrapAligned == \A x \in Int : x % 4 = 0 => Wrap(x) % 4 = 0
<1> TAKE x \in Int
<1> HAVE x % 4 = 0
<1>1. PICK M \in Nat, H \in Nat : Widths(M, H)
  BY WordWidths
<1>2. PICK g \in Nat : M = 4 * g
  BY <1>1, QuartersOfWord DEF Widths
<1>3. PICK q \in Int, r \in Nat : r = Wrap(x) /\ r < M /\ x = M * q + r
  BY <1>1, Wrapping
<1>4. PICK z \in Int : M * q = 4 * z
  <2>1. g * q \in Int /\ (4 * g) * q = 4 * (g * q)
    OBVIOUS
  <2> QED BY <1>2, <2>1
<1>5. PICK n \in Int : n = 4 * z
  OBVIOUS
<1>6. r = x - n
  BY <1>3, <1>4, <1>5
<1>7. r % 4 = 0
  BY <1>5, <1>6
<1> QED BY <1>3, <1>7

LEMMA AlignedFour == \A v \in Word : Aligned(v, 4) % 4 = 0 /\ Aligned(v, 4) \in Nat
<1> TAKE v \in Word
<1>1. v \in Nat
  BY WrapWord
<1>2. v % 4 \in 0 .. 3 /\ (v - (v % 4)) % 4 = 0 /\ v - (v % 4) \in Nat
  BY <1>1
<1> QED BY <1>2 DEF Aligned

LEMMA WordOrByteRight ==
    ASSUME s \in ThumbState, NEW i, i.load \in BOOLEAN, i.byte \in BOOLEAN, i.rd \in Low,
           NEW op2, NEW rb, Equivalent(i) = Single(i.load, i.byte, i.rd, rb, op2),
           NEW addr \in Word, Wrap(AsArm.r[rb] + Operand2(AsArm, op2).res) = addr
    PROVE  Right(i, WordOrByte(i, addr))
<1>1. PICK j : j = Single(i.load, i.byte, i.rd, rb, op2)
  OBVIOUS
<1>2. /\ j.class = "single" /\ InPlace(j) /\ j.rd = i.rd /\ j.rn = rb /\ j.op2 = op2
      /\ (j.load <=> i.load) /\ (j.byte <=> i.byte)
  BY <1>1 DEF Single, InPlace
<1>3. ReadsAt(j, addr)
  BY <1>2 DEF ReadsAt
<1>4. j.rd \in Registers \ {PC} /\ Equivalent(i) = j
  BY <1>1, <1>2, RegisterNumbers
<1>5. /\ j.load /\ j.byte => Right(i, Loaded(j.rd, Read8(s.mem, addr)))
      /\ j.load /\ ~j.byte => Right(i, Loaded(j.rd, ReadRotated(s.mem, addr)))
      /\ ~j.load /\ j.byte => Right(i, Stored(Write8(s.mem, addr, s.r[j.rd])))
      /\ ~j.load /\ ~j.byte => Right(i, Stored(Write32(s.mem, addr, s.r[j.rd])))
  BY <1>2, <1>3, <1>4, SingleRight
<1>6. CASE i.load /\ i.byte
  BY <1>2, <1>5, <1>6 DEF WordOrByte
<1>7. CASE i.load /\ ~i.byte
  BY <1>2, <1>5, <1>7 DEF WordOrByte
<1>8. CASE ~i.load /\ i.byte
  BY <1>2, <1>5, <1>8 DEF WordOrByte
<1>9. CASE ~i.load /\ ~i.byte
  BY <1>2, <1>5, <1>9 DEF WordOrByte
<1> QED BY <1>6, <1>7, <1>8, <1>9

\* The sum of two registers as ARM reads them, and of a register and a number.
LEMMA RegisterAddress ==
    ASSUME s \in ThumbState, NEW rb \in Registers \ {PC}, NEW ro \in Registers \ {PC}
    PROVE  /\ Wrap(AsArm.r[rb] + Operand2(AsArm, Plain(ro)).res) = Wrap(s.r[rb] + s.r[ro])
           /\ Wrap(s.r[rb] + s.r[ro]) \in Word
<1>1. PICK a : a = AsArm /\ ArmOf(a)
  BY AsArmIs
<1>2. a.r[rb] = s.r[rb]
  BY <1>1 DEF ArmOf
<1>3. Operand2(a, Plain(ro)) = Out(s.r[ro], s.f.c)
  BY <1>1, PlainOperand
<1>4. Operand2(a, Plain(ro)).res = s.r[ro]
  BY <1>3 DEF Out
<1>5. s.r[rb] \in Nat /\ s.r[ro] \in Nat
  BY StateParts
<1>6. s.r[rb] + s.r[ro] \in Int
  BY <1>5
<1> QED BY <1>1, <1>2, <1>4, <1>6, WrapType

LEMMA OffsetAddress ==
    ASSUME s \in ThumbState, NEW rb \in Registers, NEW n \in Nat
    PROVE  /\ Wrap(AsArm.r[rb] + Operand2(AsArm, Imm(n)).res) = Wrap(AsArm.r[rb] + n)
           /\ Wrap(AsArm.r[rb] + n) \in Word
           /\ rb # PC => AsArm.r[rb] = s.r[rb]
<1>1. PICK a : a = AsArm /\ ArmOf(a)
  BY AsArmIs
<1>2. a \in ThumbState /\ (rb # PC => a.r[rb] = s.r[rb])
  BY <1>1 DEF ArmOf
<1>3. Operand2(a, Imm(n)) = Out(n, s.f.c)
  BY <1>1, ImmOperand
<1>4. Operand2(a, Imm(n)).res = n
  BY <1>3 DEF Out
<1>5. a.r[rb] \in Nat
  BY <1>2, StateParts
<1>6. a.r[rb] + n \in Int
  BY <1>5
<1> QED BY <1>1, <1>2, <1>4, <1>6, WrapType

LEMMA LoadStoreRegRight ==
    ASSUME s \in ThumbState, NEW i, i.fmt = "load_store_reg", i.load \in BOOLEAN, i.byte \in BOOLEAN,
           i.ro \in Low, i.rb \in Low, i.rd \in Low
    PROVE  Right(i, ThumbLoadStoreReg(i))
<1>1. i.rb \in Registers \ {PC} /\ i.ro \in Registers \ {PC}
  BY RegisterNumbers
<1>2. PICK addr, op2, rb : addr = Wrap(s.r[i.rb] + s.r[i.ro]) /\ op2 = Plain(i.ro) /\ rb = i.rb
  OBVIOUS
<1>3. addr \in Word /\ Wrap(AsArm.r[rb] + Operand2(AsArm, op2).res) = addr
  BY <1>1, <1>2, RegisterAddress
<1>4. Equivalent(i) = Single(i.load, i.byte, i.rd, rb, op2)
  BY <1>2 DEF Equivalent
<1>5. Right(i, WordOrByte(i, addr))
  BY <1>3, <1>4, WordOrByteRight
<1> QED BY <1>2, <1>5 DEF ThumbLoadStoreReg

LEMMA LoadStoreImmRight ==
    ASSUME s \in ThumbState, NEW i, i.fmt = "load_store_imm", i.load \in BOOLEAN, i.byte \in BOOLEAN,
           i.offset \in Offsets, i.rb \in Low, i.rd \in Low
    PROVE  Right(i, ThumbLoadStoreImm(i))
<1>1. i.rb \in Registers /\ i.rb # PC
  BY RegisterNumbers
<1>2. PICK n : n = IF i.byte THEN i.offset ELSE i.offset * 4
  OBVIOUS
<1>3. n \in Nat
  BY <1>2, FourTimes
<1>4. PICK addr, op2, rb : addr = Wrap(s.r[i.rb] + n) /\ op2 = Imm(n) /\ rb = i.rb
  OBVIOUS
<1>5. addr \in Word /\ Wrap(AsArm.r[rb] + Operand2(AsArm, op2).res) = addr
  BY <1>1, <1>3, <1>4, OffsetAddress
<1>6. Equivalent(i) = Single(i.load, i.byte, i.rd, rb, op2)
  BY <1>2, <1>4 DEF Equivalent
<1>7. Right(i, WordOrByte(i, addr))
  BY <1>5, <1>6, WordOrByteRight
<1> QED BY <1>2, <1>4, <1>7 DEF ThumbLoadStoreImm

LEMMA PcRelativeLoadRight ==
    ASSUME s \in ThumbState, NEW i, i.fmt = "pc_relative_load", i.offset \in Offsets, i.rd \in Low
    PROVE  Right(i, ThumbPcRelativeLoad(i))
<1>1. PICK n : n = i.offset * 4
  OBVIOUS
<1>2. n \in Nat /\ i.offset \in Nat
  BY <1>1, FourTimes
<1>3. PICK addr, op2 : addr = Wrap(Aligned(s.r[PC], 4) + n) /\ op2 = Imm(n)
  OBVIOUS
<1>4. AsArm.r[PC] = Aligned(s.r[PC], 4) /\ s.r[PC] \in Word /\ s.mem \in Memory
  BY AsArmIs, StateParts, RegisterNumbers DEF ArmOf
<1>5. addr \in Word /\ Wrap(AsArm.r[PC] + Operand2(AsArm, op2).res) = addr
  BY <1>2, <1>3, <1>4, RegisterNumbers, OffsetAddress
<1>6. addr % 4 = 0
  <2>1. Aligned(s.r[PC], 4) % 4 = 0 /\ Aligned(s.r[PC], 4) \in Nat
    BY <1>4, AlignedFour
  <2>2. (Aligned(s.r[PC], 4) + n) % 4 = 0 /\ Aligned(s.r[PC], 4) + n \in Int
    BY <1>1, <1>2, <2>1
  <2> QED BY <1>3, <2>2, WrapAligned
<1>7. PICK j : j = Single(TRUE, FALSE, i.rd, PC, op2)
  OBVIOUS
<1>8. /\ j.class = "single" /\ InPlace(j) /\ j.rd = i.rd /\ j.rn = PC /\ j.op2 = op2
      /\ j.load /\ ~j.byte
  BY <1>7 DEF Single, InPlace
<1>9. Equivalent(i) = j
  BY <1>1, <1>3, <1>7 DEF Equivalent
<1>10. ReadsAt(j, addr)
  BY <1>5, <1>8 DEF ReadsAt
<1>11. j.rd \in Registers \ {PC}
  BY <1>8, RegisterNumbers
<1>12. Right(i, Loaded(j.rd, ReadRotated(s.mem, addr)))
  BY <1>5, <1>8, <1>9, <1>10, <1>11, SingleRight
<1>13. ReadRotated(s.mem, addr) = Read32(s.mem, addr)
  BY <1>4, <1>5, <1>6, AlignedRead
<1> QED BY <1>1, <1>3, <1>8, <1>12, <1>13 DEF ThumbPcRelativeLoad

LEMMA SpRelativeRight ==
    ASSUME s \in ThumbState, s.r[SP] % 4 = 0,
           NEW i, i.fmt = "sp_relative", i.load \in BOOLEAN, i.offset \in Offsets, i.rd \in Low
    PROVE  Right(i, ThumbSpRelative(i))
<1>1. PICK n : n = i.offset * 4
  OBVIOUS
<1>2. n \in Nat /\ i.offset \in Nat
  BY <1>1, FourTimes
<1>3. PICK addr, op2 : addr = Wrap(s.r[SP] + n) /\ op2 = Imm(n)
  OBVIOUS
<1>4. s.r[SP] \in Nat /\ s.mem \in Memory
  BY StateParts, RegisterNumbers
<1>5. addr \in Word /\ Wrap(AsArm.r[SP] + Operand2(AsArm, op2).res) = addr
  BY <1>2, <1>3, RegisterNumbers, OffsetAddress
<1>6. addr % 4 = 0
  <2>1. (s.r[SP] + n) % 4 = 0 /\ s.r[SP] + n \in Int
    BY <1>1, <1>2, <1>4
  <2> QED BY <1>3, <2>1, WrapAligned
<1>7. PICK j : j = Single(i.load, FALSE, i.rd, SP, op2)
  OBVIOUS
<1>8. /\ j.class = "single" /\ InPlace(j) /\ j.rd = i.rd /\ j.rn = SP /\ j.op2 = op2
      /\ (j.load <=> i.load) /\ ~j.byte
  BY <1>7 DEF Single, InPlace
<1>9. Equivalent(i) = j
  BY <1>1, <1>3, <1>7 DEF Equivalent
<1>10. ReadsAt(j, addr)
  BY <1>5, <1>8 DEF ReadsAt
<1>11. j.rd \in Registers \ {PC}
  BY <1>8, RegisterNumbers
<1>12. /\ j.load => Right(i, Loaded(j.rd, ReadRotated(s.mem, addr)))
       /\ ~j.load => Right(i, Stored(Write32(s.mem, addr, s.r[j.rd])))
  BY <1>5, <1>8, <1>9, <1>10, <1>11, SingleRight
<1>13. ReadRotated(s.mem, addr) = Read32(s.mem, addr)
  BY <1>4, <1>5, <1>6, AlignedRead
<1> QED BY <1>1, <1>3, <1>8, <1>12, <1>13 DEF ThumbSpRelative

LEMMA LoadStoreHalfwordRight ==
    ASSUME s \in ThumbState, NEW i, i.fmt = "load_store_halfword", i.load \in BOOLEAN, i.offset \in Offsets,
           i.rb \in Low, i.rd \in Low
    PROVE  Right(i, ThumbLoadStoreHalfword(i))
<1>1. PICK n : n = i.offset * 2
  OBVIOUS
<1>2. n \in Nat /\ i.rb \in Registers /\ i.rb # PC
  BY <1>1, FourTimes, RegisterNumbers
<1>3. PICK addr, op2 : addr = Wrap(s.r[i.rb] + n) /\ op2 = Imm(n)
  OBVIOUS
<1>4. addr \in Word /\ Wrap(AsArm.r[i.rb] + Operand2(AsArm, op2).res) = addr
  BY <1>2, <1>3, OffsetAddress
<1>5. PICK j : j = Halfword(i.load, "H", i.rd, i.rb, op2)
  OBVIOUS
<1>6. /\ j.class = "halfword" /\ InPlace(j) /\ j.rd = i.rd /\ j.rn = i.rb /\ j.op2 = op2
      /\ (j.load <=> i.load) /\ j.sh = "H"
  BY <1>5 DEF Halfword, InPlace
<1>7. Equivalent(i) = j
  BY <1>1, <1>3, <1>5 DEF Equivalent
<1>8. ReadsAt(j, addr)
  BY <1>4, <1>6 DEF ReadsAt
<1>9. j.rd \in Registers \ {PC}
  BY <1>6, RegisterNumbers
<1>10. /\ j.load => Right(i, Loaded(j.rd, HalfwordRead(j.sh, s.mem, addr)))
       /\ ~j.load => Right(i, Stored(Write16(s.mem, addr, s.r[j.rd])))
  BY <1>4, <1>6, <1>7, <1>8, <1>9, HalfwordRight
<1>11. HalfwordRead(j.sh, s.mem, addr) = Read16(s.mem, addr)
  BY <1>6 DEF HalfwordRead
<1> QED BY <1>1, <1>3, <1>6, <1>10, <1>11 DEF ThumbLoadStoreHalfword

LEMMA LoadStoreSignRight ==
    ASSUME s \in ThumbState, NEW i, i.fmt = "load_store_sign", i.op \in {"STRH", "LDRH", "LDRSB", "LDRSH"},
           i.ro \in Low, i.rb \in Low, i.rd \in Low
    PROVE  Right(i, ThumbLoadStoreSign(i))
<1>1. i.rb \in Registers \ {PC} /\ i.ro \in Registers \ {PC}
  BY RegisterNumbers
<1>2. PICK addr, op2 : addr = Wrap(s.r[i.rb] + s.r[i.ro]) /\ op2 = Plain(i.ro)
  OBVIOUS
<1>3. addr \in Word /\ Wrap(AsArm.r[i.rb] + Operand2(AsArm, op2).res) = addr
  BY <1>1, <1>2, RegisterAddress
<1>4. PICK sh : sh = CASE i.op = "LDRSB" -> "SB" [] i.op = "LDRSH" -> "SH" [] OTHER -> "H"
  OBVIOUS
<1>5. PICK j : j = Halfword(i.op # "STRH", sh, i.rd, i.rb, op2)
  OBVIOUS
<1>6. /\ j.class = "halfword" /\ InPlace(j) /\ j.rd = i.rd /\ j.rn = i.rb /\ j.op2 = op2 /\ j.sh = sh
      /\ (i.op = "STRH" => ~j.load) /\ (i.op # "STRH" => j.load)
  BY <1>5 DEF Halfword, InPlace
<1>7. Equivalent(i) = j
  BY <1>2, <1>4, <1>5 DEF Equivalent
<1>8. ReadsAt(j, addr)
  BY <1>3, <1>6 DEF ReadsAt
<1>9. j.rd \in Registers \ {PC} /\ j.sh \in {"H", "SB", "SH"}
  BY <1>4, <1>6, RegisterNumbers
<1>10. /\ j.load => Right(i, Loaded(j.rd, HalfwordRead(j.sh, s.mem, addr)))
       /\ ~j.load => Right(i, Stored(Write16(s.mem, addr, s.r[j.rd])))
  BY <1>3, <1>6, <1>7, <1>8, <1>9, HalfwordRight
<1>11. CASE i.op = "STRH"
  BY <1>2, <1>6, <1>10, <1>11 DEF ThumbLoadStoreSign
<1>12. CASE i.op = "LDRH"
  BY <1>2, <1>4, <1>6, <1>10, <1>12 DEF ThumbLoadStoreSign, HalfwordRead
<1>13. CASE i.op = "LDRSB"
  BY <1>2, <1>4, <1>6, <1>10, <1>13 DEF ThumbLoadStoreSign, HalfwordRead
<1>14. CASE i.op = "LDRSH"
  BY <1>2, <1>4, <1>6, <1>10, <1>14 DEF ThumbLoadStoreSign, HalfwordRead
<1> QED BY <1>11, <1>12, <1>13, <1>14

-----------------------------------------------------------------------------
(* Formats 12 and 13: an address, and the stack pointer *)

\* What the two have in common: ARM adds or subtracts a rotated constant.
LEMMA ConstantLeaves ==
    ASSUME s \in ThumbState, NEW i, NEW j, Equivalent(i) = j, NEW offset \in Offsets,
           j.class = "data", j.op \in {"ADD", "SUB"}, ~j.s,
           j.op2 = [kind |-> "imm", imm |-> offset, rot |-> W - 2], j.rn \in Registers,
           NEW x, x = Wrap(IF j.op = "ADD" THEN AsArm.r[j.rn] + offset * 4 ELSE AsArm.r[j.rn] - offset * 4)
    PROVE  ArmLeaves(i, [AsArm.r EXCEPT ![j.rd] = x], s.f, 1) /\ x \in Word
<1>1. PICK a : a = AsArm /\ a \in ThumbState
  BY AsArmIs DEF ArmOf
<1>2. PICK base \in Nat : base = a.r[j.rn]
  BY <1>1, StateParts
<1>3. PICK n \in Nat : n = offset * 4 /\ n \in Word
  BY FourTimes
<1>4. Operand2(a, j.op2).res = n
  BY <1>3, RotatedOperand
<1>5. j.op2.kind # "by_reg" /\ j.op \notin Tests /\ j.op \notin Logical
  BY DEF Tests, Logical
<1>6. DataResult(a, j) = ArithmeticResult(j.op, base, n, a.f).res
  BY <1>2, <1>4, <1>5 DEF DataResult, DataSum
<1>7. CASE j.op = "ADD"
  <2>1. base + n + 0 = base + n /\ base + n \in Int
    OBVIOUS
  <2>2. DataResult(a, j) = AddFlags(base, n, 0).res
    BY <1>6, <1>7 DEF ArithmeticResult
  <2>3. DataResult(a, j) = Wrap(base + n)
    BY <2>1, <2>2 DEF AddFlags
  <2>4. x = Wrap(base + n)
    BY <1>1, <1>2, <1>3, <1>7
  <2>5. x \in Word
    BY <2>1, <2>4, WrapType
  <2> QED BY <1>1, <1>5, <2>3, <2>4, <2>5, UnsetLeaves
<1>8. CASE j.op = "SUB"
  <2>1. PICK M \in Nat, H \in Nat : Widths(M, H)
    BY WordWidths
  <2>2. Complement(n) = M - 1 - n /\ M = Pow2[W]
    BY <2>1 DEF Complement, Widths
  <2>3. base + Complement(n) + 1 = (base - n) + M /\ base - n \in Int
    BY <2>2
  <2>4. DataResult(a, j) = SubFlags(base, n, 1).res
    BY <1>6, <1>8 DEF ArithmeticResult
  <2>5. DataResult(a, j) = Wrap((base - n) + M)
    BY <2>3, <2>4 DEF SubFlags, AddFlags
  <2>6. Wrap((base - n) + M) = Wrap(base - n)
    BY <2>2, <2>3, WrapTurn
  <2>7. x = Wrap(base - n)
    BY <1>1, <1>2, <1>3, <1>8
  <2>8. x \in Word
    BY <2>3, <2>7, WrapType
  <2> QED BY <1>1, <1>5, <2>5, <2>6, <2>7, <2>8, UnsetLeaves
<1> QED BY <1>7, <1>8

LEMMA LoadAddressRight ==
    ASSUME s \in ThumbState, NEW i, i.fmt = "load_address", i.sp \in BOOLEAN, i.offset \in Offsets, i.rd \in Low
    PROVE  Right(i, ThumbLoadAddress(i))
<1>1. PICK rn : rn = IF i.sp THEN SP ELSE PC
  OBVIOUS
<1>2. PICK j : j = Data("ADD", FALSE, i.rd, rn, [kind |-> "imm", imm |-> i.offset, rot |-> W - 2])
  OBVIOUS
<1>3. /\ j.class = "data" /\ j.op = "ADD" /\ ~j.s /\ j.rd = i.rd /\ j.rn = rn
      /\ j.op2 = [kind |-> "imm", imm |-> i.offset, rot |-> W - 2]
  BY <1>2 DEF Data
<1>4. Equivalent(i) = j
  BY <1>1, <1>2 DEF Equivalent
<1>5. AsArm.r[rn] = IF i.sp THEN s.r[SP] ELSE Aligned(s.r[PC], 4)
  BY <1>1, AsArmIs, RegisterNumbers DEF ArmOf
<1>6. PICK x : x = Wrap(AsArm.r[rn] + i.offset * 4)
  OBVIOUS
<1>7. rn \in Registers /\ i.rd \in Registers
  BY <1>1, RegisterNumbers
<1>8. ArmLeaves(i, [AsArm.r EXCEPT ![i.rd] = x], s.f, 1) /\ x \in Word
  BY <1>3, <1>4, <1>6, <1>7, ConstantLeaves
<1>9. ThumbLoadAddress(i) = Written(s, i.rd, x, s.f, 1)
  BY <1>5, <1>6 DEF ThumbLoadAddress, Written, ThumbState
<1>10. s.f \in Flags
  BY StateParts
<1> QED BY <1>7, <1>8, <1>9, <1>10, RightWhenWritten

LEMMA AdjustSpRight ==
    ASSUME s \in ThumbState, NEW i, i.fmt = "adjust_sp", i.sub \in BOOLEAN, i.offset \in Offsets
    PROVE  Right(i, ThumbAdjustSp(i))
<1>1. PICK op : op = IF i.sub THEN "SUB" ELSE "ADD"
  OBVIOUS
<1>2. PICK j : j = Data(op, FALSE, SP, SP, [kind |-> "imm", imm |-> i.offset, rot |-> W - 2])
  OBVIOUS
<1>3. /\ j.class = "data" /\ j.op = op /\ ~j.s /\ j.rd = SP /\ j.rn = SP
      /\ j.op2 = [kind |-> "imm", imm |-> i.offset, rot |-> W - 2]
  BY <1>2 DEF Data
<1>4. Equivalent(i) = j
  BY <1>1, <1>2 DEF Equivalent
<1>5. AsArm.r[SP] = s.r[SP]
  BY AsArmIs, RegisterNumbers DEF ArmOf
<1>6. PICK x : x = Wrap(IF op = "ADD" THEN AsArm.r[SP] + i.offset * 4 ELSE AsArm.r[SP] - i.offset * 4)
  OBVIOUS
<1>7. SP \in Registers /\ op \in {"ADD", "SUB"}
  BY <1>1, RegisterNumbers
<1>8. ArmLeaves(i, [AsArm.r EXCEPT ![SP] = x], s.f, 1) /\ x \in Word
  <2>1. x = Wrap(IF j.op = "ADD" THEN AsArm.r[j.rn] + i.offset * 4 ELSE AsArm.r[j.rn] - i.offset * 4)
    BY <1>3, <1>6
  <2>2. j.op \in {"ADD", "SUB"} /\ j.rn \in Registers
    BY <1>3, <1>7
  <2>3. ArmLeaves(i, [AsArm.r EXCEPT ![j.rd] = x], s.f, 1) /\ x \in Word
    BY <1>3, <1>4, <2>1, <2>2, ConstantLeaves
  <2> QED BY <1>3, <2>3
<1>9. x = Wrap(IF i.sub THEN s.r[SP] - i.offset * 4 ELSE s.r[SP] + i.offset * 4)
  BY <1>1, <1>5, <1>6
<1>10. ThumbAdjustSp(i) = Written(s, SP, x, s.f, 1)
  BY <1>9 DEF ThumbAdjustSp, Written, ThumbState
<1>11. s.f \in Flags
  BY StateParts
<1> QED BY <1>7, <1>8, <1>10, <1>11, RightWhenWritten

-----------------------------------------------------------------------------
(* Formats 14 and 15: several registers *)

\* A block transfer with writeback, without r15, from start on; afterwards the
\* base is final.
IsBlock(j, start, final) ==
    /\ j.class = "block" /\ j.writeback /\ j.load \in BOOLEAN
    /\ j.list \in SUBSET (Registers \ {PC}) /\ j.list # {} /\ j.rn \in Registers \ {PC}
    /\ start \in Word /\ final \in Word
    /\ start = Wrap(IF j.up THEN s.r[j.rn] + (IF j.pre THEN 4 ELSE 0)
                            ELSE s.r[j.rn] - 4 * Cardinality(j.list) + (IF j.pre THEN 0 ELSE 4))
    /\ final = Displaced(s.r[j.rn], 4 * Cardinality(j.list), j.up)

\* The registers and the memory that it leaves, if it runs in state a.
BlockRegisters(a, j, start, final) ==
    IF j.load THEN IF j.rn \in j.list THEN LoadList(a, j.list, start)
                                      ELSE [LoadList(a, j.list, start) EXCEPT ![j.rn] = final]
              ELSE [a.r EXCEPT ![j.rn] = final]
BlockMemory(a, j, start) == IF j.load THEN a.mem ELSE StoreList(a, j.list, start)
BlockCycles(j) == Cardinality(j.list) + (IF j.load THEN 2 ELSE 1)

LEMMA BlockExec ==
    ASSUME NEW a, ArmOf(a), NEW j, NEW start, NEW final, IsBlock(j, start, final)
    PROVE  /\ ArmExec(a, j).r = BlockRegisters(a, j, start, final) /\ ArmExec(a, j).f = a.f
           /\ ArmExec(a, j).mem = BlockMemory(a, j, start) /\ ArmExec(a, j).cycles = BlockCycles(j)
<1>1. PICK u : u = ArmExec(a, j)
  OBVIOUS
<1>2. u = ArmBlockTransfer(a, j)
  BY <1>1 DEF ArmExec, IsBlock
<1>3. PICK base, size : base = s.r[j.rn] /\ size = 4 * Cardinality(j.list)
  OBVIOUS
<1>4. a.r[j.rn] = base
  BY <1>3 DEF ArmOf, IsBlock
<1>5. /\ start = Wrap(IF j.up THEN base + (IF j.pre THEN 4 ELSE 0)
                              ELSE base - size + (IF j.pre THEN 0 ELSE 4))
      /\ final = Displaced(base, size, j.up)
  BY <1>3 DEF IsBlock
<1>6. PICK taken : taken = IF j.load THEN LoadList(a, j.list, start) ELSE a.r
  OBVIOUS
<1>7. u = [a EXCEPT
              !.r = IF j.writeback /\ ~(j.load /\ j.rn \in j.list)
                    THEN [taken EXCEPT ![j.rn] = final] ELSE taken,
              !.mem = IF j.load THEN @ ELSE StoreList(a, j.list, start),
              !.cycles = Cardinality(j.list) + (IF j.load THEN 2 ELSE 1)]
  <2>1. j.list # {}
    BY DEF IsBlock
  <2> QED BY <1>2, <1>3, <1>4, <1>5, <1>6, <2>1 DEF ArmBlockTransfer
<1>8. a \in ThumbState /\ j.writeback
  BY DEF ArmOf, IsBlock
<1>9. u.f = a.f /\ u.mem = BlockMemory(a, j, start) /\ u.cycles = BlockCycles(j)
  BY <1>7, <1>8 DEF ThumbState, BlockMemory, BlockCycles
<1>10. u.r = IF ~(j.load /\ j.rn \in j.list) THEN [taken EXCEPT ![j.rn] = final] ELSE taken
  BY <1>7, <1>8 DEF ThumbState
<1>11. u.r = BlockRegisters(a, j, start, final)
  BY <1>6, <1>10 DEF BlockRegisters
<1> QED BY <1>1, <1>9, <1>11

LEMMA SameLoads ==
    ASSUME NEW a, ArmOf(a), NEW list, NEW start, NEW reg \in Registers \ {PC}
    PROVE  LoadList(a, list, start)[reg] = LoadList(s, list, start)[reg]
<1>1. /\ s \in ThumbState /\ a \in ThumbState /\ a.mem = s.mem /\ a.r[reg] = s.r[reg]
  BY DEF ArmOf
<1>2. DOMAIN s.r = Registers /\ DOMAIN a.r = Registers
  BY <1>1, StateParts
<1> QED BY <1>1, <1>2 DEF LoadList

LEMMA SameStores ==
    ASSUME NEW a, ArmOf(a), NEW list \in SUBSET (Registers \ {PC}), NEW start
    PROVE  StoreList(a, list, start) = StoreList(s, list, start)
<1>1. /\ a.mem = s.mem /\ \A reg \in Registers \ {PC} : a.r[reg] = s.r[reg]
  BY DEF ArmOf
<1> DEFINE hit(x) == {reg \in list : Slot(start, list, reg) \div 4 = x \div 4}
           byte(x, o) == IF hit(x) = {} THEN s.mem[x] ELSE Lane(o.r[CHOOSE reg \in hit(x) : TRUE], x % 4)
<1>2. ASSUME NEW x PROVE byte(x, a) = byte(x, s)
  <2>1. CASE hit(x) = {}
    BY <2>1
  <2>2. CASE hit(x) # {}
    <3>1. PICK reg : reg = CHOOSE r \in hit(x) : TRUE
      OBVIOUS
    <3>2. reg \in hit(x)
      BY <2>2, <3>1
    <3>3. a.r[reg] = s.r[reg]
      BY <1>1, <3>2
    <3>4. byte(x, a) = Lane(a.r[reg], x % 4) /\ byte(x, s) = Lane(s.r[reg], x % 4)
      BY <2>2, <3>1
    <3> QED BY <3>3, <3>4
  <2> QED BY <2>1, <2>2
<1>3. StoreList(a, list, start) = [x \in DOMAIN s.mem |-> byte(x, a)]
  BY <1>1 DEF StoreList
<1>4. StoreList(s, list, start) = [x \in DOMAIN s.mem |-> byte(x, s)]
  BY DEF StoreList
<1> HIDE DEF byte
<1> QED BY <1>2, <1>3, <1>4

LEMMA BlockTypes ==
    ASSUME s \in ThumbState, NEW j, NEW start, NEW final, IsBlock(j, start, final)
    PROVE  /\ BlockRegisters(s, j, start, final) \in [Registers -> Word]
           /\ BlockMemory(s, j, start) \in Memory
           /\ BlockCycles(j) \in Nat /\ BlockCycles(j) > 0
<1>1. /\ j.list \in SUBSET Registers /\ start \in Word /\ final \in Word /\ start \in Int /\ j.rn \in Registers
  BY WrapWord DEF IsBlock
<1>2. LoadList(s, j.list, start) \in [Registers -> Word]
  BY <1>1, LoadedList
<1>3. StoreList(s, j.list, start) \in Memory
  BY <1>1, StoredList
<1>4. s.r \in [Registers -> Word] /\ s.mem \in Memory
  BY StateParts
<1>5. BlockRegisters(s, j, start, final) \in [Registers -> Word]
  BY <1>1, <1>2, <1>4 DEF BlockRegisters
<1>6. BlockMemory(s, j, start) \in Memory
  BY <1>3, <1>4 DEF BlockMemory
<1>7. Cardinality(j.list) \in Nat
  BY <1>1, ListSize
<1>8. BlockCycles(j) \in Nat /\ BlockCycles(j) > 0
  BY <1>7 DEF BlockCycles
<1> QED BY <1>5, <1>6, <1>8

\* The state that Thumb's instruction has to leave.
Moved(j, start, final) ==
    [s EXCEPT !.r = BlockRegisters(s, j, start, final), !.mem = BlockMemory(s, j, start), !.cycles = BlockCycles(j)]

LEMMA BlockRight ==
    ASSUME s \in ThumbState, NEW i, NEW j, Equivalent(i) = j, NEW start, NEW final, IsBlock(j, start, final)
    PROVE  Right(i, Moved(j, start, final))
<1>1. PICK a : a = AsArm /\ ArmOf(a)
  BY AsArmIs
<1>2. PICK o, u : o = Moved(j, start, final) /\ u = ArmExec(a, j)
  OBVIOUS
<1>3. PICK r, mem, n : /\ r = BlockRegisters(s, j, start, final) /\ mem = BlockMemory(s, j, start)
                       /\ n = BlockCycles(j)
  OBVIOUS
<1>4. r \in [Registers -> Word] /\ mem \in Memory /\ n \in Nat /\ n > 0
  BY <1>3, BlockTypes
<1>5. o \in ThumbState /\ o.r = r /\ o.f = s.f /\ o.mem = mem /\ o.cycles = n
  <2>1. o = [s EXCEPT !.r = r, !.mem = mem, !.cycles = n]
    BY <1>2, <1>3 DEF Moved
  <2> QED BY <1>4, <2>1 DEF ThumbState, Memory, Registers
<1>6. u.r = BlockRegisters(a, j, start, final) /\ u.f = a.f /\ u.mem = BlockMemory(a, j, start) /\ u.cycles = n
  BY <1>1, <1>2, <1>3, BlockExec
<1>7. u.mem = mem
  <2>1. StoreList(a, j.list, start) = StoreList(s, j.list, start)
    BY <1>1, SameStores DEF IsBlock
  <2>2. a.mem = s.mem
    BY <1>1 DEF ArmOf
  <2> QED BY <1>3, <1>6, <2>1, <2>2 DEF BlockMemory
<1>8. ASSUME NEW reg \in Registers \ {PC} PROVE o.r[reg] = u.r[reg]
  <2>1. a \in ThumbState /\ a.r[reg] = s.r[reg]
    BY <1>1 DEF ArmOf
  <2>2. DOMAIN s.r = Registers /\ DOMAIN a.r = Registers
    BY <2>1, StateParts
  <2>3. PICK l, m : l = LoadList(s, j.list, start) /\ m = LoadList(a, j.list, start)
    OBVIOUS
  <2>4. l[reg] = m[reg] /\ DOMAIN l = Registers /\ DOMAIN m = Registers
    BY <1>1, <2>2, <2>3, SameLoads DEF LoadList
  <2>5. o.r = IF j.load THEN IF j.rn \in j.list THEN l ELSE [l EXCEPT ![j.rn] = final]
                        ELSE [s.r EXCEPT ![j.rn] = final]
    BY <1>3, <1>5, <2>3 DEF BlockRegisters
  <2>6. u.r = IF j.load THEN IF j.rn \in j.list THEN m ELSE [m EXCEPT ![j.rn] = final]
                        ELSE [a.r EXCEPT ![j.rn] = final]
    BY <1>6, <2>3 DEF BlockRegisters
  <2> QED BY <2>1, <2>2, <2>4, <2>5, <2>6
<1>9. AgreesWith(o, u)
  <2>1. a.f = s.f
    BY <1>1 DEF ArmOf
  <2> QED BY <1>5, <1>6, <1>7, <1>8, <2>1 DEF AgreesWith
<1> QED BY <1>1, <1>2, <1>5, <1>4, <1>6, <1>9 DEF Right

LEMMA PushPopRight ==
    ASSUME s \in ThumbState, NEW i, i.fmt = "push_pop", i.load \in BOOLEAN, i.lr \in BOOLEAN,
           i.list \in SUBSET Low, i.list # {}
    PROVE  Right(i, ThumbPushPop(i))
<1>1. PICK list : list = i.list \cup (IF i.lr THEN {LR} ELSE {})
  OBVIOUS
<1>2. list \in SUBSET (Registers \ {PC}) /\ list # {} /\ SP \notin list /\ SP \in Registers \ {PC}
  <2>1. LR # SP
    BY DEF LR, SP
  <2> QED BY <1>1, <2>1, RegisterNumbers
<1>3. PICK size \in Nat : size = 4 * Cardinality(list)
  BY <1>2, ListSize
<1>4. PICK sp \in Nat : sp = s.r[SP] /\ sp \in Word /\ Wrap(sp) = sp
  BY <1>2, StateParts, WrapWord
<1>5. PICK j : j = Block(i.load, ~i.load, i.load, SP, list)
  OBVIOUS
<1>6. /\ j.class = "block" /\ j.writeback /\ j.rn = SP /\ j.list = list /\ j.load \in BOOLEAN
      /\ (j.load <=> i.load) /\ (j.pre <=> ~i.load) /\ (j.up <=> i.load)
  BY <1>5 DEF Block
<1>7. Equivalent(i) = j
  BY <1>1, <1>5 DEF Equivalent
<1>8. PICK start, final : /\ start = IF i.load THEN sp ELSE Wrap(sp - size)
                          /\ final = IF i.load THEN Wrap(sp + size) ELSE Wrap(sp - size)
  OBVIOUS
<1>9. start \in Word /\ final \in Word
  <2>1. sp - size \in Int /\ sp + size \in Int
    OBVIOUS
  <2> QED BY <1>4, <1>8, <2>1, WrapType
<1>10. IsBlock(j, start, final)
  <2>1. final = Displaced(sp, size, j.up)
    BY <1>6, <1>8 DEF Displaced
  <2>2. sp + 0 = sp /\ sp - size + 0 = sp - size
    OBVIOUS
  <2>3. start = Wrap(IF j.up THEN sp + (IF j.pre THEN 4 ELSE 0)
                             ELSE sp - size + (IF j.pre THEN 0 ELSE 4))
    <3>1. CASE i.load
      BY <1>4, <1>6, <1>8, <2>2, <3>1
    <3>2. CASE ~i.load
      BY <1>6, <1>8, <2>2, <3>2
    <3> QED BY <3>1, <3>2
  <2> QED BY <1>2, <1>3, <1>4, <1>6, <1>9, <2>1, <2>3 DEF IsBlock
<1>11. Right(i, Moved(j, start, final))
  BY <1>7, <1>10, BlockRight
<1>12. ThumbPushPop(i) = Moved(j, start, final)
  <2>1. CASE i.load
    <3>1. Moved(j, start, final) = [s EXCEPT !.r = [LoadList(s, list, sp) EXCEPT ![SP] = final],
                                             !.mem = s.mem, !.cycles = Cardinality(list) + 2]
      BY <1>2, <1>6, <1>8, <2>1 DEF Moved, BlockRegisters, BlockMemory, BlockCycles
    <3>2. ThumbPushPop(i) = [s EXCEPT !.r = [LoadList(s, list, sp) EXCEPT ![SP] = final],
                                      !.cycles = Cardinality(list) + 2]
      BY <1>1, <1>3, <1>4, <1>8, <2>1 DEF ThumbPushPop
    <3> QED BY <3>1, <3>2 DEF ThumbState
  <2>2. CASE ~i.load
    <3>1. Moved(j, start, final) = [s EXCEPT !.r = [s.r EXCEPT ![SP] = final],
                                             !.mem = StoreList(s, list, start), !.cycles = Cardinality(list) + 1]
      BY <1>2, <1>6, <1>8, <2>2 DEF Moved, BlockRegisters, BlockMemory, BlockCycles
    <3>2. ThumbPushPop(i) = [s EXCEPT !.mem = StoreList(s, list, start), !.r[SP] = final,
                                      !.cycles = Cardinality(list) + 1]
      BY <1>1, <1>3, <1>4, <1>8, <2>2 DEF ThumbPushPop
    <3> QED BY <3>1, <3>2 DEF ThumbState
  <2> QED BY <2>1, <2>2
<1> QED BY <1>11, <1>12

LEMMA MultipleRight ==
    ASSUME s \in ThumbState, NEW i, i.fmt = "multiple", i.load \in BOOLEAN, i.rb \in Low,
           i.list \in SUBSET Low, i.list # {}
    PROVE  Right(i, ThumbMultiple(i))
<1>1. PICK list, rb : list = i.list /\ rb = i.rb
  OBVIOUS
<1>2. list \in SUBSET (Registers \ {PC}) /\ list # {} /\ rb \in Registers \ {PC}
  BY <1>1, RegisterNumbers
<1>3. PICK size \in Nat : size = 4 * Cardinality(list)
  BY <1>2, ListSize
<1>4. PICK base \in Nat : base = s.r[rb] /\ base \in Word /\ Wrap(base) = base
  BY <1>2, StateParts, WrapWord
<1>5. PICK j : j = Block(i.load, FALSE, TRUE, rb, list)
  OBVIOUS
<1>6. /\ j.class = "block" /\ j.writeback /\ j.rn = rb /\ j.list = list /\ j.load \in BOOLEAN
      /\ (j.load <=> i.load) /\ ~j.pre /\ j.up
  BY <1>5 DEF Block
<1>7. Equivalent(i) = j
  BY <1>1, <1>5 DEF Equivalent
<1>8. PICK final : final = Wrap(base + size)
  OBVIOUS
<1>9. final \in Word
  <2>1. base + size \in Int
    OBVIOUS
  <2> QED BY <1>8, <2>1, WrapType
<1>10. IsBlock(j, base, final)
  <2>1. final = Displaced(base, size, j.up)
    BY <1>6, <1>8 DEF Displaced
  <2>2. base = Wrap(IF j.up THEN base + (IF j.pre THEN 4 ELSE 0)
                            ELSE base - size + (IF j.pre THEN 0 ELSE 4))
    <3>1. base + 0 = base
      OBVIOUS
    <3> QED BY <1>4, <1>6, <3>1
  <2> QED BY <1>2, <1>3, <1>4, <1>6, <1>9, <2>1, <2>2 DEF IsBlock
<1>11. Right(i, Moved(j, base, final))
  BY <1>7, <1>10, BlockRight
<1>12. ThumbMultiple(i) = Moved(j, base, final)
  <2>1. CASE i.load
    <3>1. PICK r : r = IF rb \in list THEN LoadList(s, list, base) ELSE [LoadList(s, list, base) EXCEPT ![rb] = final]
      OBVIOUS
    <3>2. Moved(j, base, final) = [s EXCEPT !.r = r, !.mem = s.mem, !.cycles = Cardinality(list) + 2]
      BY <1>6, <2>1, <3>1 DEF Moved, BlockRegisters, BlockMemory, BlockCycles
    <3>3. ThumbMultiple(i) = [s EXCEPT !.r = r, !.cycles = Cardinality(list) + 2]
      BY <1>1, <1>3, <1>4, <1>8, <2>1, <3>1 DEF ThumbMultiple
    <3> QED BY <3>2, <3>3 DEF ThumbState
  <2>2. CASE ~i.load
    <3>1. Moved(j, base, final) = [s EXCEPT !.r = [s.r EXCEPT ![rb] = final],
                                            !.mem = StoreList(s, list, base), !.cycles = Cardinality(list) + 1]
      BY <1>2, <1>6, <2>2 DEF Moved, BlockRegisters, BlockMemory, BlockCycles
    <3>2. ThumbMultiple(i) = [s EXCEPT !.mem = StoreList(s, list, base), !.r[rb] = final,
                                       !.cycles = Cardinality(list) + 1]
      BY <1>1, <1>3, <1>4, <1>8, <2>2 DEF ThumbMultiple
    <3> QED BY <3>1, <3>2 DEF ThumbState
  <2> QED BY <2>1, <2>2
<1> QED BY <1>11, <1>12

-----------------------------------------------------------------------------
(* Every step is right, and what follows for the specification *)

\* The stack is aligned before the instruction is executed.
ThumbInv == ThumbTypeOK /\ (last = NoInstruction => s.r[SP] % 4 = 0)

LEMMA StepRight ==
    ASSUME ThumbInv, ThumbNext
    PROVE  last = NoInstruction /\ last' # NoInstruction /\ Right(last', s')
<1>0. ASSUME last = NoInstruction PROVE s \in ThumbState /\ s.r[SP] % 4 = 0
  BY <1>0 DEF ThumbInv, ThumbTypeOK
<1>1. CASE MoveShifted
  <2>1. PICK i \in [fmt : {"move_shifted"}, shift : {"LSL", "LSR", "ASR"}, offset : Amounts, rs : Low, rd : Low] :
            Execute(i, ThumbMoveShifted(i))
    BY <1>1 DEF MoveShifted
  <2> QED BY <1>0, <2>1, MoveShiftedRight DEF Execute, NoInstruction
<1>2. CASE AddSub
  <2>1. PICK imm \in BOOLEAN :
            \E i \in [fmt : {"add_sub"}, imm : {imm}, sub : BOOLEAN,
                      rn : IF imm THEN Imms ELSE Low, rs : Low, rd : Low] :
                Execute(i, ThumbAddSub(i))
    BY <1>2 DEF AddSub
  <2>2. PICK i \in [fmt : {"add_sub"}, imm : {imm}, sub : BOOLEAN,
                    rn : IF imm THEN Imms ELSE Low, rs : Low, rd : Low] :
            Execute(i, ThumbAddSub(i))
    BY <2>1
  <2>3. /\ i.fmt = "add_sub" /\ i.imm \in BOOLEAN /\ i.sub \in BOOLEAN /\ i.rs \in Low /\ i.rd \in Low
        /\ i.imm => i.rn \in Imms
        /\ ~i.imm => i.rn \in Low
    BY <2>2
  <2> QED BY <1>0, <2>2, <2>3, AddSubRight DEF Execute, NoInstruction
<1>3. CASE ImmOp
  <2>1. PICK i \in [fmt : {"imm_op"}, op : {"MOV", "CMP", "ADD", "SUB"}, rd : Low, imm : Imms] :
            Execute(i, ThumbImmOp(i))
    BY <1>3 DEF ImmOp
  <2> QED BY <1>0, <2>1, ImmOpRight DEF Execute, NoInstruction
<1>4. CASE AluOp
  <2>1. PICK i \in [fmt : {"alu"}, op : ThumbShifts \cup ThumbSums \cup ThumbLogic, rs : Low, rd : Low] :
            Execute(i, ThumbAlu(i))
    BY <1>4 DEF AluOp
  <2> QED BY <1>0, <2>1, AluRight DEF Execute, NoInstruction
<1>5. CASE Hireg
  <2>1. PICK i \in [fmt : {"hireg"}, op : {"ADD", "CMP", "MOV"}, rs : Regs, rd : Regs] :
            Execute(i, ThumbHireg(i))
    BY <1>5 DEF Hireg
  <2> QED BY <1>0, <2>1, HiregRight DEF Execute, NoInstruction
<1>6. CASE PcRelativeLoad
  <2>1. PICK i \in [fmt : {"pc_relative_load"}, rd : Low, offset : Offsets] :
            Execute(i, ThumbPcRelativeLoad(i))
    BY <1>6 DEF PcRelativeLoad
  <2> QED BY <1>0, <2>1, PcRelativeLoadRight DEF Execute, NoInstruction
<1>7. CASE LoadStoreReg
  <2>1. PICK i \in [fmt : {"load_store_reg"}, load : BOOLEAN, byte : BOOLEAN, ro : Low, rb : Low, rd : Low] :
            Execute(i, ThumbLoadStoreReg(i))
    BY <1>7 DEF LoadStoreReg
  <2> QED BY <1>0, <2>1, LoadStoreRegRight DEF Execute, NoInstruction
<1>8. CASE LoadStoreSign
  <2>1. PICK i \in [fmt : {"load_store_sign"}, op : {"STRH", "LDRH", "LDRSB", "LDRSH"},
                    ro : Low, rb : Low, rd : Low] :
            Execute(i, ThumbLoadStoreSign(i))
    BY <1>8 DEF LoadStoreSign
  <2> QED BY <1>0, <2>1, LoadStoreSignRight DEF Execute, NoInstruction
<1>9. CASE LoadStoreImm
  <2>1. PICK i \in [fmt : {"load_store_imm"}, load : BOOLEAN, byte : BOOLEAN, offset : Offsets, rb : Low, rd : Low] :
            Execute(i, ThumbLoadStoreImm(i))
    BY <1>9 DEF LoadStoreImm
  <2> QED BY <1>0, <2>1, LoadStoreImmRight DEF Execute, NoInstruction
<1>10. CASE LoadStoreHalfword
  <2>1. PICK i \in [fmt : {"load_store_halfword"}, load : BOOLEAN, offset : Offsets, rb : Low, rd : Low] :
            Execute(i, ThumbLoadStoreHalfword(i))
    BY <1>10 DEF LoadStoreHalfword
  <2> QED BY <1>0, <2>1, LoadStoreHalfwordRight DEF Execute, NoInstruction
<1>11. CASE SpRelative
  <2>1. PICK i \in [fmt : {"sp_relative"}, load : BOOLEAN, offset : Offsets, rd : Low] :
            Execute(i, ThumbSpRelative(i))
    BY <1>11 DEF SpRelative
  <2> QED BY <1>0, <2>1, SpRelativeRight DEF Execute, NoInstruction
<1>12. CASE LoadAddress
  <2>1. PICK i \in [fmt : {"load_address"}, sp : BOOLEAN, offset : Offsets, rd : Low] :
            Execute(i, ThumbLoadAddress(i))
    BY <1>12 DEF LoadAddress
  <2> QED BY <1>0, <2>1, LoadAddressRight DEF Execute, NoInstruction
<1>13. CASE AdjustSp
  <2>1. PICK i \in [fmt : {"adjust_sp"}, sub : BOOLEAN, offset : Offsets] : Execute(i, ThumbAdjustSp(i))
    BY <1>13 DEF AdjustSp
  <2> QED BY <1>0, <2>1, AdjustSpRight DEF Execute, NoInstruction
<1>14. CASE PushPop
  <2>1. PICK i \in [fmt : {"push_pop"}, load : BOOLEAN, lr : BOOLEAN, list : Lists] :
            Execute(i, ThumbPushPop(i))
    BY <1>14 DEF PushPop
  <2>2. i.list \in SUBSET Low /\ i.list # {}
    BY <2>1 DEF Lists
  <2> QED BY <1>0, <2>1, <2>2, PushPopRight DEF Execute, NoInstruction
<1>15. CASE Multiple
  <2>1. PICK i \in [fmt : {"multiple"}, load : BOOLEAN, rb : Low, list : Lists] :
            Execute(i, ThumbMultiple(i))
    BY <1>15 DEF Multiple
  <2>2. i.list \in SUBSET Low /\ i.list # {}
    BY <2>1 DEF Lists
  <2> QED BY <1>0, <2>1, <2>2, MultipleRight DEF Execute, NoInstruction
<1> QED BY <1>1, <1>2, <1>3, <1>4, <1>5, <1>6, <1>7, <1>8, <1>9, <1>10, <1>11, <1>12, <1>13, <1>14, <1>15
        DEF ThumbNext

LEMMA ThumbInitInv == ThumbInit => ThumbInv
BY ThumbAssumption DEF ThumbInit, ThumbInv, ThumbTypeOK

LEMMA ThumbStepInv == ThumbInv /\ [ThumbNext]_thumbVars => ThumbInv'
<1> SUFFICES ASSUME ThumbInv, [ThumbNext]_thumbVars PROVE ThumbInv'
  OBVIOUS
<1>1. CASE ThumbNext
  <2>1. last' # NoInstruction /\ Right(last', s')
    BY <1>1, StepRight
  <2> QED BY <2>1 DEF Right, ThumbInv, ThumbTypeOK
<1>2. CASE UNCHANGED thumbVars
  BY <1>2 DEF thumbVars, ThumbInv, ThumbTypeOK
<1> QED BY <1>1, <1>2

\* No register, flag or byte of memory leaves its range, whatever is executed.
THEOREM ThumbTyped == ThumbSpec => []ThumbTypeOK
<1>1. ThumbInv => ThumbTypeOK
  BY DEF ThumbInv
<1> QED BY <1>1, ThumbInitInv, ThumbStepInv, PTL DEF ThumbSpec

\* Each Thumb instruction does what its ARM counterpart does.
THEOREM ThumbExecutesAsArm == ThumbSpec => ThumbIsArm
<1> DEFINE Same ==
        last' # last =>
          LET arm == ArmExec(AsArm, Equivalent(last'))
          IN  /\ \A reg \in DOMAIN s.r \ {PC} : s'.r[reg] = arm.r[reg]
              /\ s'.f = arm.f
              /\ s'.mem = arm.mem
              /\ Equivalent(last').class # "multiply" => s'.cycles = arm.cycles
<1>1. ThumbInv /\ [ThumbNext]_thumbVars => [Same]_thumbVars
  <2> SUFFICES ASSUME ThumbInv, ThumbNext PROVE Same
    BY DEF thumbVars
  <2>1. Right(last', s')
    BY StepRight
  <2>2. DOMAIN s.r = Registers
    BY StateParts DEF ThumbInv, ThumbTypeOK
  <2> QED BY <2>1, <2>2 DEF Right, AgreesWith
<1> QED BY <1>1, ThumbInitInv, ThumbStepInv, PTL DEF ThumbSpec, ThumbIsArm

\* A shift moves one bit at a time, through every amount.
THEOREM ThumbShiftsMoveBits == ThumbSpec => []ShiftsMoveBits
<1>1. ThumbInv => ShiftsMoveBits
  <2> SUFFICES ASSUME ThumbInv PROVE ShiftsMoveBits
    OBVIOUS
  <2>1. s.r[0] \in Word /\ s.r[1] \in Nat /\ s.f.c \in BOOLEAN
    BY StateParts, RegisterNumbers DEF ThumbInv, ThumbTypeOK, Flags
  <2> QED BY <2>1, ShiftMoves DEF ShiftsMoveBits
<1> QED BY <1>1, ThumbInitInv, ThumbStepInv, PTL DEF ThumbSpec

\* The conditions order what has been compared, and carries chain words.
THEOREM ThumbCarriesAndConditions == ThumbSpec => []CarriesAndConditions
<1>1. ThumbInv => CarriesAndConditions
  <2> SUFFICES ASSUME ThumbInv PROVE CarriesAndConditions
    OBVIOUS
  <2>1. s.r[0] \in Word /\ s.r[1] \in Word /\ s.f \in Flags
    BY StateParts, RegisterNumbers DEF ThumbInv, ThumbTypeOK
  <2>2. ASSUME NEW lo \in {0, Pow2[W] - 1} PROVE ChainsCarry(s.f, s.r[0], s.r[1], lo, 1)
    BY <2>1, SomeWords, Chained
  <2> QED BY <2>1, <2>2, Ordered DEF CarriesAndConditions
<1> QED BY <1>1, ThumbInitInv, ThumbStepInv, PTL DEF ThumbSpec
=============================================================================
