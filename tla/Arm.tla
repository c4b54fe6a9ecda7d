-------------------------------- MODULE Arm --------------------------------
(***************************************************************************)
(* The ARM instructions that have a Thumb counterpart (cpu/arm.rs): data   *)
(* processing, loads and stores, block transfers and MUL, as functions of  *)
(* the machine's state.  The state s holds registers, flags, memory and    *)
(* the cycles the instruction has cost; a word has four bytes of W \div 4  *)
(* bits.  A register list is a set.  Writes of r15 and the S bit of block  *)
(* transfers are in CpuModes; the pipeline is left out.                    *)
(***************************************************************************)
EXTENDS Alu, FiniteSets

SP == 13
LR == 14
PC == 15

ByteBits == W \div 4
BYTE == Pow2[ByteBits]
HALFWORD == Pow2[2 * ByteBits]
Lane(v, k) == (v \div Pow2[k * ByteBits]) % BYTE

-----------------------------------------------------------------------------
(* Memory.  Words and halfwords are aligned by dropping address bits; only   *)
(* LDR and SWP make up for it, by rotating what they read.                   *)

Aligned(addr, size) == addr - (addr % size)

Read8(mem, addr) == mem[addr]
Read16(mem, addr) == LET h == Aligned(addr, 2) IN mem[h] + mem[h + 1] * BYTE
Read32(mem, addr) ==
    LET w == Aligned(addr, 4)
    IN  mem[w] + mem[w + 1] * BYTE + mem[w + 2] * HALFWORD + mem[w + 3] * (HALFWORD * BYTE)

Write8(mem, addr, val) == [mem EXCEPT ![addr] = Lane(val, 0)]
Write16(mem, addr, val) ==
    [x \in DOMAIN mem |-> IF x \div 2 = addr \div 2 THEN Lane(val, x % 2) ELSE mem[x]]
Write32(mem, addr, val) ==
    [x \in DOMAIN mem |-> IF x \div 4 = addr \div 4 THEN Lane(val, x % 4) ELSE mem[x]]

ReadRotated(mem, addr) == RotateRight(Read32(mem, addr), (addr % 4) * ByteBits)

SignExtend(v, size) == Wrap(IF v >= size \div 2 THEN v - size ELSE v)

-----------------------------------------------------------------------------
(* Data processing *)

Logical == {"AND", "EOR", "TST", "TEQ", "ORR", "MOV", "BIC", "MVN"}
Tests == {"TST", "TEQ", "CMP", "CMN"}

\* The second operand, with the carry that the shifter puts out.
Operand2(s, op2) ==
    CASE op2.kind = "imm" ->
             IF op2.rot = 0 THEN Out(op2.imm, s.f.c)
             ELSE LET v == RotateRight(op2.imm, op2.rot) IN Out(v, Negative(v))
      [] op2.kind = "shifted" -> Shift(op2.shift, s.r[op2.rm], op2.amount, s.f.c, TRUE)
      [] op2.kind = "by_reg" -> Shift(op2.shift, s.r[op2.rm], s.r[op2.rs] % 256, s.f.c, FALSE)

LogicalResult(op, a, b) ==
    CASE op \in {"AND", "TST"} -> And(a, b)
      [] op \in {"EOR", "TEQ"} -> Xor(a, b)
      [] op = "ORR" -> Or(a, b)
      [] op = "MOV" -> b
      [] op = "BIC" -> And(a, Complement(b))
      [] op = "MVN" -> Complement(b)

ArithmeticResult(op, a, b, f) ==
    CASE op \in {"SUB", "CMP"} -> SubFlags(a, b, 1)
      [] op = "RSB" -> SubFlags(b, a, 1)
      [] op \in {"ADD", "CMN"} -> AddFlags(a, b, 0)
      [] op = "ADC" -> AddFlags(a, b, CarryIn(f))
      [] op = "SBC" -> SubFlags(a, b, CarryIn(f))
      [] op = "RSC" -> SubFlags(b, a, CarryIn(f))

\* CMP and CMN set the flags in any case.
ArmDataProcessing(s, i) ==
    LET op2 == Operand2(s, i.op2)
        a == s.r[i.rn]
        sum == ArithmeticResult(i.op, a, op2.res, s.f)
        res == IF i.op \in Logical THEN LogicalResult(i.op, a, op2.res) ELSE sum.res
    IN  [s EXCEPT
            !.r = IF i.op \in Tests THEN @ ELSE [@ EXCEPT ![i.rd] = res],
            !.f = CASE i.op \in Logical /\ i.s -> SetNzc(@, res, op2.c)
                    [] i.op \notin Logical /\ (i.s \/ i.op \in {"CMP", "CMN"}) -> SetFlags(@, sum)
                    [] OTHER -> @,
            !.cycles = IF i.op2.kind = "by_reg" THEN 2 ELSE 1]

-----------------------------------------------------------------------------
(* Loads and stores *)

Displaced(base, offset, up) == Wrap(IF up THEN base + offset ELSE base - offset)

\* After the transfer: the base takes the new address, unless the load has
\* just filled it.
WriteBack(r, i, addr) ==
    IF (~i.pre \/ i.writeback) /\ (i.rn # i.rd \/ ~i.load) THEN [r EXCEPT ![i.rn] = addr] ELSE r

Transfer(s, i, addr, loaded, stored) ==
    [s EXCEPT
        !.r = WriteBack(IF i.load THEN [@ EXCEPT ![i.rd] = loaded] ELSE @, i, addr),
        !.mem = IF i.load THEN @ ELSE stored,
        !.cycles = IF i.load THEN 3 ELSE 2]

ArmSingleTransfer(s, i) ==
    LET addr == Displaced(s.r[i.rn], Operand2(s, i.op2).res, i.up)
        at == IF i.pre THEN addr ELSE s.r[i.rn]
    IN  Transfer(s, i, addr,
                 IF i.byte THEN Read8(s.mem, at) ELSE ReadRotated(s.mem, at),
                 IF i.byte THEN Write8(s.mem, at, s.r[i.rd]) ELSE Write32(s.mem, at, s.r[i.rd]))

ArmHalfwordTransfer(s, i) ==
    LET addr == Displaced(s.r[i.rn], Operand2(s, i.op2).res, i.up)
        at == IF i.pre THEN addr ELSE s.r[i.rn]
    IN  Transfer(s, i, addr,
                 CASE i.sh = "H" -> Read16(s.mem, at)
                   [] i.sh = "SB" -> SignExtend(Read8(s.mem, at), BYTE)
                   [] i.sh = "SH" -> SignExtend(Read16(s.mem, at), HALFWORD),
                 Write16(s.mem, at, s.r[i.rd]))

-----------------------------------------------------------------------------
(* Block transfers, without the S bit.  Registers go in ascending order to   *)
(* ascending addresses whatever the direction.                               *)

Below(list, reg) == Cardinality({x \in list : x < reg})

\* Four bytes each, from start upwards.
Slot(start, list, reg) == Wrap(start + 4 * Below(list, reg))

LoadList(s, list, start) ==
    [x \in DOMAIN s.r |->
        IF x \in list THEN Read32(s.mem, Slot(start, list, x)) ELSE s.r[x]]

\* No two slots of a list share a word.
StoreList(s, list, start) ==
    [x \in DOMAIN s.mem |->
        LET hit == {reg \in list : Slot(start, list, reg) \div 4 = x \div 4}
        IN  IF hit = {} THEN s.mem[x] ELSE Lane(s.r[CHOOSE reg \in hit : TRUE], x % 4)]

ArmBlockTransfer(s, i) ==
    LET size == 4 * Cardinality(i.list)
        addr == s.r[i.rn]
        start == Wrap(IF i.up THEN addr + (IF i.pre THEN 4 ELSE 0)
                              ELSE addr - size + (IF i.pre THEN 0 ELSE 4))
        final == Displaced(addr, size, i.up)
        moved == IF i.load THEN LoadList(s, i.list, start) ELSE s.r
    IN  IF i.list = {} THEN [s EXCEPT !.cycles = 1]
        ELSE [s EXCEPT
                 !.r = IF i.writeback /\ ~(i.load /\ i.rn \in i.list)
                       THEN [moved EXCEPT ![i.rn] = final] ELSE moved,
                 !.mem = IF i.load THEN @ ELSE StoreList(s, i.list, start),
                 !.cycles = Cardinality(i.list) + (IF i.load THEN 2 ELSE 1)]

-----------------------------------------------------------------------------
(* MUL and MLA *)

\* The multiplier stops at the first byte above which all bits are equal.
MultiplyCycles(v) ==
    LET above(k) == v \div Pow2[k * ByteBits]
        m == {k \in 1 .. 3 : above(k) \in {0, Pow2[(4 - k) * ByteBits] - 1}}
    IN  IF m = {} THEN 4 ELSE CHOOSE k \in m : \A j \in m : k <= j

\* The cycles are counted from rs after rd has been written, which may be rs.
ArmMultiply(s, i) ==
    LET res == Wrap(s.r[i.rm] * s.r[i.rs] + (IF i.accumulate THEN s.r[i.rn] ELSE 0))
        r == [s.r EXCEPT ![i.rd] = res]
    IN  [s EXCEPT !.r = r,
                  !.f = IF i.s THEN SetNz(@, res) ELSE @,
                  !.cycles = MultiplyCycles(r[i.rs]) + (IF i.accumulate THEN 1 ELSE 0)]

ArmExec(s, i) ==
    CASE i.class = "data" -> ArmDataProcessing(s, i)
      [] i.class = "single" -> ArmSingleTransfer(s, i)
      [] i.class = "halfword" -> ArmHalfwordTransfer(s, i)
      [] i.class = "block" -> ArmBlockTransfer(s, i)
      [] i.class = "multiply" -> ArmMultiply(s, i)
=============================================================================
