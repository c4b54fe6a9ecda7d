-------------------------------- MODULE Alu --------------------------------
(***************************************************************************)
(* The barrel shifter, the adder and the condition codes that the ARM and  *)
(* the Thumb interpreter share (cpu/alu.rs, cpu/mod.rs), on words of W     *)
(* bits.  A word is a number; the flags are a record of Booleans.          *)
(***************************************************************************)
EXTENDS Integers

CONSTANT W      \* 32

ASSUME AluAssumption == W \in Nat \ {0, 1}

Pow2[n \in Nat] == IF n = 0 THEN 1 ELSE 2 * Pow2[n - 1]

Word == 0 .. Pow2[W] - 1
Wrap(x) == x % Pow2[W]
Negative(v) == v >= Pow2[W - 1]
Complement(v) == Pow2[W] - 1 - v
Bit(v, k) == (v \div Pow2[k]) % 2 = 1
AsSigned(v) == IF Negative(v) THEN v - Pow2[W] ELSE v

Out(res, c) == [res |-> res, c |-> c]

\* A word as the set of its bits, and the logical operations on such sets.
Bits(v) == {k \in 0 .. W - 1 : Bit(v, k)}
WordOf(bits) == CHOOSE v \in Word : Bits(v) = bits

And(a, b) == WordOf(Bits(a) \cap Bits(b))
Or(a, b) == WordOf(Bits(a) \cup Bits(b))
Xor(a, b) == WordOf((Bits(a) \cup Bits(b)) \ (Bits(a) \cap Bits(b)))

-----------------------------------------------------------------------------
(* Shifts.  imm says that the amount comes from the instruction, where the  *)
(* encoding of 0 stands for W, or for a rotation through the carry.         *)

Lsl(v, amt, carry) ==
    CASE amt = 0 -> Out(v, carry)
      [] amt \in 1 .. W - 1 -> Out(Wrap(v * Pow2[amt]), Bit(v, W - amt))
      [] amt = W -> Out(0, Bit(v, 0))
      [] OTHER -> Out(0, FALSE)

EncodedAmount(amt, imm) == IF imm /\ amt = 0 THEN W ELSE amt

\* Seeded fault: a shift by the whole width is taken for a longer one.
Lsr_WidthLost(v, amount, carry, imm) ==
    LET amt == EncodedAmount(amount, imm)
    IN  CASE amt = 0 -> Out(v, carry)
          [] amt \in 1 .. W - 1 -> Out(v \div Pow2[amt], Bit(v, amt - 1))
          [] OTHER -> Out(0, FALSE)

Lsr(v, amount, carry, imm) ==
    LET amt == EncodedAmount(amount, imm)
    IN  CASE amt = 0 -> Out(v, carry)
          [] amt \in 1 .. W - 1 -> Out(v \div Pow2[amt], Bit(v, amt - 1))
          [] amt = W -> Out(0, Negative(v))
          [] OTHER -> Out(0, FALSE)

Asr(v, amount, carry, imm) ==
    LET amt == EncodedAmount(amount, imm)
    IN  CASE amt = 0 -> Out(v, carry)
          [] amt \in 1 .. W - 1 -> Out(Wrap(AsSigned(v) \div Pow2[amt]), Bit(v, amt - 1))
          [] OTHER -> Out(IF Negative(v) THEN Pow2[W] - 1 ELSE 0, Negative(v))

RotateRight(v, k) == v \div Pow2[k] + Wrap(v * Pow2[W - k])

Ror(v, amt, carry, imm) ==
    LET k == amt % W
        rotated == IF k = 0 THEN v ELSE RotateRight(v, k)
    IN  CASE imm /\ amt = 0 ->
                 Out(v \div 2 + (IF carry THEN Pow2[W - 1] ELSE 0), Bit(v, 0))
          [] ~imm /\ amt = 0 -> Out(v, carry)
          [] OTHER -> Out(rotated, Negative(rotated))

Shift(kind, v, amt, carry, imm) ==
    CASE kind = "LSL" -> Lsl(v, amt, carry)
      [] kind = "LSR" -> Lsr(v, amt, carry, imm)
      [] kind = "ASR" -> Asr(v, amt, carry, imm)
      [] kind = "ROR" -> Ror(v, amt, carry, imm)

-----------------------------------------------------------------------------
(* Sums, with carry and overflow *)

AddFlags(a, b, carry_in) ==
    LET r == a + b + carry_in
        res == Wrap(r)
    IN  [res |-> res, c |-> r > Pow2[W] - 1,
         v |-> Negative(a) # Negative(res) /\ Negative(b) # Negative(res)]

\* Seeded fault: a difference with borrow forgets the borrow.
SubFlags_NoBorrow(a, b, carry_in) == AddFlags(a, Complement(b), 1)

\* The carry of a difference says that nothing was borrowed.
SubFlags(a, b, carry_in) == AddFlags(a, Complement(b), carry_in)

CarryIn(f) == IF f.c THEN 1 ELSE 0

SetNz(f, v) == [f EXCEPT !.n = Negative(v), !.z = (v = 0)]
SetNzc(f, v, carry) == [SetNz(f, v) EXCEPT !.c = carry]
SetFlags(f, sum) == [SetNzc(f, sum.res, sum.c) EXCEPT !.v = sum.v]

CheckCond(f, cond) ==
    CASE cond = "EQ" -> f.z            [] cond = "NE" -> ~f.z
      [] cond = "CS" -> f.c            [] cond = "CC" -> ~f.c
      [] cond = "MI" -> f.n            [] cond = "PL" -> ~f.n
      [] cond = "VS" -> f.v            [] cond = "VC" -> ~f.v
      [] cond = "HI" -> f.c /\ ~f.z    [] cond = "LS" -> ~f.c \/ f.z
      [] cond = "GE" -> f.n = f.v      [] cond = "LT" -> f.n # f.v
      [] cond = "GT" -> ~f.z /\ f.n = f.v
      [] cond = "LE" -> f.z \/ f.n # f.v
      [] cond = "AL" -> TRUE
      [] cond = "NV" -> FALSE

-----------------------------------------------------------------------------
(* Reference: a shift moves one bit at a time, and the carry is the bit     *)
(* that left the word last.                                                 *)

OneBit(kind, v) ==
    CASE kind = "LSL" -> Out(Wrap(v * 2), Negative(v))
      [] kind = "LSR" -> Out(v \div 2, Bit(v, 0))
      [] kind = "ASR" -> Out(AsSigned(v) \div 2 + (IF Negative(v) THEN Pow2[W] ELSE 0), Bit(v, 0))
      [] kind = "ROR" -> Out(v \div 2 + Pow2[W - 1] * (v % 2), Bit(v, 0))

BitByBit(kind, v, carry, amt) ==
    LET after[n \in 0 .. amt] ==
            IF n = 0 THEN Out(v, carry) ELSE OneBit(kind, after[n - 1].res)
    IN  after[amt]

-----------------------------------------------------------------------------
(* What the properties of Thumb say of the values in its registers *)

\* A shift by a register is that many shifts by one bit.  By an instruction it
\* is the same, except that an amount of 0 means the width for LSR and ASR,
\* and one bit through the carry for ROR.
ShiftMovesBits(kind, v, amt, carry) ==
    /\ Shift(kind, v, amt, carry, FALSE) = BitByBit(kind, v, carry, amt)
    /\ amt \in 1 .. W - 1 => Shift(kind, v, amt, carry, TRUE) = BitByBit(kind, v, carry, amt)
    /\ Shift(kind, v, 0, carry, TRUE) =
           CASE kind = "LSL" -> Out(v, carry)
             [] kind = "ROR" -> Out((v + (IF carry THEN Pow2[W] ELSE 0)) \div 2, v % 2 = 1)
             [] OTHER -> BitByBit(kind, v, carry, W)

\* A number of two words, of which the lower is any word.
Double(hi, lo) == hi * Pow2[W] + lo
DoubleSigned(hi, lo) == AsSigned(hi) * Pow2[W] + lo

Relation(cond, unsigned, signed) ==
    CASE cond = "CS" -> unsigned >= 0   [] cond = "CC" -> unsigned < 0
      [] cond = "GE" -> signed >= 0     [] cond = "LT" -> signed < 0

ConditionsOrder(f, a, b) ==
    LET compared == SetFlags(f, SubFlags(a, b, 1))
    IN  /\ CheckCond(compared, "EQ") <=> a = b
        /\ CheckCond(compared, "HI") <=> a > b
        /\ CheckCond(compared, "LS") <=> a <= b
        /\ CheckCond(compared, "GT") <=> AsSigned(a) > AsSigned(b)
        /\ CheckCond(compared, "LE") <=> AsSigned(a) <= AsSigned(b)

\* CMP of the low words and SBCS of the high ones; ADDS and ADCS.
ChainsCarry(f, a, b, lo1, lo2) ==
    LET low == SubFlags(lo1, lo2, 1)
        high == SubFlags(a, b, CarryIn(low))
        sumLow == AddFlags(lo1, lo2, 0)
        sum == AddFlags(a, b, CarryIn(sumLow))
    IN  /\ \A cond \in {"CS", "CC", "GE", "LT"} :
               CheckCond(SetFlags(f, high), cond) <=>
                   Relation(cond, Double(a, lo1) - Double(b, lo2),
                            DoubleSigned(a, lo1) - DoubleSigned(b, lo2))
        /\ Double(high.res, low.res) = (Double(a, lo1) - Double(b, lo2)) % Pow2[2 * W]
        /\ Double(sum.res, sumLow.res) + (IF sum.c THEN Pow2[2 * W] ELSE 0)
               = Double(a, lo1) + Double(b, lo2)
        /\ sum.v <=> DoubleSigned(a, lo1) + DoubleSigned(b, lo2)
                         \notin -(Pow2[2 * W - 1]) .. Pow2[2 * W - 1] - 1
=============================================================================
