------------------------------- MODULE Thumb -------------------------------
(***************************************************************************)
(* The Thumb instructions on registers and memory (cpu/thumb.rs, formats 1 *)
(* to 15): the interpreter is written out a second time beside ARM's.  The *)
(* architecture defines each of them as an ARM instruction; Equivalent     *)
(* says which.  The module runs one instruction from each state of Starts. *)
(***************************************************************************)
EXTENDS Arm

CONSTANTS
    Low,        \* the low registers, 0 .. 7
    High,       \* the others an instruction of format 5 names, without r15
    Imms,       \* immediate operands
    Offsets,    \* immediate offsets of loads, stores and SP, in units
    Starts      \* the states before the instruction

Regs == Low \cup High

ThumbState ==
    [r : [Regs \cup {SP, LR, PC} -> Word], f : [n : BOOLEAN, z : BOOLEAN, c : BOOLEAN, v : BOOLEAN],
     mem : [Word -> 0 .. BYTE - 1], cycles : Nat]

ASSUME ThumbAssumption ==
    /\ W % 4 = 0
    /\ {0, 1} \subseteq Low /\ Low \subseteq 0 .. 7 /\ High \subseteq (8 .. 14)
    /\ Imms \subseteq Word
    /\ Offsets \subseteq 0 .. Pow2[W - 2] - 1        \* a word's offset is an address
    /\ Starts \subseteq ThumbState
    /\ \A start \in Starts : start.r[SP] % 4 = 0    \* no stack is misaligned

VARIABLES
    s,      \* registers, flags, memory, cycles
    last    \* history: the instruction that has been executed

thumbVars == <<s, last>>
NoInstruction == [fmt |-> "none"]

ThumbInit == s \in Starts /\ last = NoInstruction

-----------------------------------------------------------------------------
(* Formats 1 to 5: registers and flags *)

ThumbMoveShifted(i) ==
    LET out == Shift(i.shift, s.r[i.rs], i.offset, s.f.c, TRUE)
    IN  [s EXCEPT !.r[i.rd] = out.res, !.f = SetNzc(@, out.res, out.c), !.cycles = 1]

ThumbAddSub(i) ==
    LET operand == IF i.imm THEN i.rn ELSE s.r[i.rn]
        sum == IF i.sub THEN SubFlags(s.r[i.rs], operand, 1) ELSE AddFlags(s.r[i.rs], operand, 0)
    IN  [s EXCEPT !.r[i.rd] = sum.res, !.f = SetFlags(@, sum), !.cycles = 1]

ThumbImmOp(i) ==
    LET sum == IF i.op = "ADD" THEN AddFlags(s.r[i.rd], i.imm, 0) ELSE SubFlags(s.r[i.rd], i.imm, 1)
    IN  [s EXCEPT
            !.r[i.rd] = CASE i.op = "MOV" -> i.imm [] i.op = "CMP" -> @ [] OTHER -> sum.res,
            !.f = IF i.op = "MOV" THEN SetNz(@, i.imm) ELSE SetFlags(@, sum),
            !.cycles = 1]

ThumbShifts == {"LSL", "LSR", "ASR", "ROR"}
ThumbSums == {"ADC", "SBC", "NEG", "CMP", "CMN"}
ThumbLogic == {"AND", "EOR", "TST", "ORR", "MUL", "BIC", "MVN"}

ThumbSum(op, a, b) ==
    CASE op = "ADC" -> AddFlags(a, b, CarryIn(s.f))
      [] op = "SBC" -> SubFlags(a, b, CarryIn(s.f))
      [] op = "NEG" -> SubFlags(0, b, 1)
      [] op = "CMP" -> SubFlags(a, b, 1)
      [] op = "CMN" -> AddFlags(a, b, 0)

ThumbLogicResult(op, a, b) ==
    CASE op \in {"AND", "TST"} -> And(a, b)
      [] op = "EOR" -> Xor(a, b)
      [] op = "ORR" -> Or(a, b)
      [] op = "MUL" -> Wrap(a * b)
      [] op = "BIC" -> And(a, Complement(b))
      [] op = "MVN" -> Complement(b)

ThumbAlu(i) ==
    LET a == s.r[i.rd]
        b == s.r[i.rs]
        out == Shift(i.op, a, b % 256, s.f.c, FALSE)
        sum == ThumbSum(i.op, a, b)
        res == CASE i.op \in ThumbShifts -> out.res
                 [] i.op \in ThumbSums -> sum.res
                 [] OTHER -> ThumbLogicResult(i.op, a, b)
    IN  [s EXCEPT
            !.r[i.rd] = IF i.op \in {"TST", "CMP", "CMN"} THEN @ ELSE res,
            !.f = CASE i.op \in ThumbShifts -> SetNzc(@, res, out.c)
                    [] i.op \in ThumbSums -> SetFlags(@, sum)
                    [] OTHER -> SetNz(@, res),
            !.cycles = CASE i.op = "MUL" -> MultiplyCycles(a)
                         [] i.op \in ThumbShifts -> 2
                         [] OTHER -> 1]

\* Without BX and writes of r15.
ThumbHireg(i) ==
    LET cmp == SubFlags(s.r[i.rd], s.r[i.rs], 1)
    IN  [s EXCEPT
            !.r[i.rd] = CASE i.op = "ADD" -> Wrap(@ + s.r[i.rs])
                          [] i.op = "MOV" -> s.r[i.rs]
                          [] i.op = "CMP" -> @,
            !.f = IF i.op = "CMP" THEN SetFlags(@, cmp) ELSE @,
            !.cycles = 1]

-----------------------------------------------------------------------------
(* Formats 6 to 13: one load, store or address *)

Loaded(rd, val) == [s EXCEPT !.r[rd] = val, !.cycles = 3]
Stored(mem) == [s EXCEPT !.mem = mem, !.cycles = 2]

ThumbPcRelativeLoad(i) == Loaded(i.rd, Read32(s.mem, Wrap(Aligned(s.r[PC], 4) + i.offset * 4)))

\* A word or a byte at addr, in formats 7 and 9.
WordOrByte(i, addr) ==
    CASE i.load /\ i.byte -> Loaded(i.rd, Read8(s.mem, addr))
      [] i.load /\ ~i.byte -> Loaded(i.rd, ReadRotated(s.mem, addr))
      [] ~i.load /\ i.byte -> Stored(Write8(s.mem, addr, s.r[i.rd]))
      [] ~i.load /\ ~i.byte -> Stored(Write32(s.mem, addr, s.r[i.rd]))

ThumbLoadStoreReg(i) == WordOrByte(i, Wrap(s.r[i.rb] + s.r[i.ro]))

ThumbLoadStoreImm(i) ==
    WordOrByte(i, Wrap(s.r[i.rb] + (IF i.byte THEN i.offset ELSE i.offset * 4)))

ThumbLoadStoreSign(i) ==
    LET addr == Wrap(s.r[i.rb] + s.r[i.ro])
    IN  CASE i.op = "STRH" -> Stored(Write16(s.mem, addr, s.r[i.rd]))
          [] i.op = "LDRH" -> Loaded(i.rd, Read16(s.mem, addr))
          [] i.op = "LDRSB" -> Loaded(i.rd, SignExtend(Read8(s.mem, addr), BYTE))
          [] i.op = "LDRSH" -> Loaded(i.rd, SignExtend(Read16(s.mem, addr), HALFWORD))

ThumbLoadStoreHalfword(i) ==
    LET addr == Wrap(s.r[i.rb] + i.offset * 2)
    IN  IF i.load THEN Loaded(i.rd, Read16(s.mem, addr))
                  ELSE Stored(Write16(s.mem, addr, s.r[i.rd]))

\* Unlike the others this load does not rotate.
ThumbSpRelative(i) ==
    LET addr == Wrap(s.r[SP] + i.offset * 4)
    IN  IF i.load THEN Loaded(i.rd, Read32(s.mem, addr))
                  ELSE Stored(Write32(s.mem, addr, s.r[i.rd]))

ThumbLoadAddress(i) ==
    [s EXCEPT !.r[i.rd] = Wrap((IF i.sp THEN s.r[SP] ELSE Aligned(s.r[PC], 4)) + i.offset * 4),
              !.cycles = 1]

ThumbAdjustSp(i) ==
    [s EXCEPT !.r[SP] = Wrap(IF i.sub THEN @ - i.offset * 4 ELSE @ + i.offset * 4),
              !.cycles = 1]

-----------------------------------------------------------------------------
(* Formats 14 and 15: several registers, r15 excepted *)

ThumbPushPop(i) ==
    LET list == i.list \cup (IF i.lr THEN {LR} ELSE {})
        size == 4 * Cardinality(list)
        addr == Wrap(s.r[SP] - size)
    IN  IF i.load
        THEN [s EXCEPT !.r = [LoadList(s, list, s.r[SP]) EXCEPT ![SP] = Wrap(s.r[SP] + size)],
                       !.cycles = Cardinality(list) + 2]
        ELSE [s EXCEPT !.mem = StoreList(s, list, addr),
                       !.r[SP] = addr,
                       !.cycles = Cardinality(list) + 1]

\* Seeded fault: the base is written back also when it has been loaded.
ThumbMultiple_BaseLost(i) ==
    LET next == Wrap(s.r[i.rb] + 4 * Cardinality(i.list))
    IN  [s EXCEPT !.r = [IF i.load THEN LoadList(s, i.list, s.r[i.rb]) ELSE @ EXCEPT ![i.rb] = next],
                  !.mem = IF i.load THEN @ ELSE StoreList(s, i.list, s.r[i.rb]),
                  !.cycles = Cardinality(i.list) + (IF i.load THEN 2 ELSE 1)]

\* A base that is in the list is stored as it was, and kept as it is loaded.
ThumbMultiple(i) ==
    LET next == Wrap(s.r[i.rb] + 4 * Cardinality(i.list))
        loaded == LoadList(s, i.list, s.r[i.rb])
    IN  IF i.load
        THEN [s EXCEPT !.r = IF i.rb \in i.list THEN loaded ELSE [loaded EXCEPT ![i.rb] = next],
                       !.cycles = Cardinality(i.list) + 2]
        ELSE [s EXCEPT !.mem = StoreList(s, i.list, s.r[i.rb]),
                       !.r[i.rb] = next,
                       !.cycles = Cardinality(i.list) + 1]

-----------------------------------------------------------------------------
(* The decoder: every instruction there is, one action per format *)

Execute(i, after) == last = NoInstruction /\ last' = i /\ s' = after

Amounts == 0 .. W - 1
Lists == (SUBSET Low) \ {{}}

MoveShifted ==
    \E i \in [fmt : {"move_shifted"}, shift : {"LSL", "LSR", "ASR"}, offset : Amounts, rs : Low, rd : Low] :
        Execute(i, ThumbMoveShifted(i))

AddSub ==
    \E imm \in BOOLEAN : \E i \in [fmt : {"add_sub"}, imm : {imm}, sub : BOOLEAN,
                                   rn : IF imm THEN Imms ELSE Low, rs : Low, rd : Low] :
        Execute(i, ThumbAddSub(i))

ImmOp ==
    \E i \in [fmt : {"imm_op"}, op : {"MOV", "CMP", "ADD", "SUB"}, rd : Low, imm : Imms] :
        Execute(i, ThumbImmOp(i))

AluOp ==
    \E i \in [fmt : {"alu"}, op : ThumbShifts \cup ThumbSums \cup ThumbLogic, rs : Low, rd : Low] :
        Execute(i, ThumbAlu(i))

Hireg ==
    \E i \in [fmt : {"hireg"}, op : {"ADD", "CMP", "MOV"}, rs : Regs, rd : Regs] :
        Execute(i, ThumbHireg(i))

PcRelativeLoad ==
    \E i \in [fmt : {"pc_relative_load"}, rd : Low, offset : Offsets] :
        Execute(i, ThumbPcRelativeLoad(i))

LoadStoreReg ==
    \E i \in [fmt : {"load_store_reg"}, load : BOOLEAN, byte : BOOLEAN, ro : Low, rb : Low, rd : Low] :
        Execute(i, ThumbLoadStoreReg(i))

LoadStoreSign ==
    \E i \in [fmt : {"load_store_sign"}, op : {"STRH", "LDRH", "LDRSB", "LDRSH"},
              ro : Low, rb : Low, rd : Low] :
        Execute(i, ThumbLoadStoreSign(i))

LoadStoreImm ==
    \E i \in [fmt : {"load_store_imm"}, load : BOOLEAN, byte : BOOLEAN, offset : Offsets, rb : Low, rd : Low] :
        Execute(i, ThumbLoadStoreImm(i))

LoadStoreHalfword ==
    \E i \in [fmt : {"load_store_halfword"}, load : BOOLEAN, offset : Offsets, rb : Low, rd : Low] :
        Execute(i, ThumbLoadStoreHalfword(i))

SpRelative ==
    \E i \in [fmt : {"sp_relative"}, load : BOOLEAN, offset : Offsets, rd : Low] :
        Execute(i, ThumbSpRelative(i))

LoadAddress ==
    \E i \in [fmt : {"load_address"}, sp : BOOLEAN, offset : Offsets, rd : Low] :
        Execute(i, ThumbLoadAddress(i))

AdjustSp ==
    \E i \in [fmt : {"adjust_sp"}, sub : BOOLEAN, offset : Offsets] : Execute(i, ThumbAdjustSp(i))

PushPop ==
    \E i \in [fmt : {"push_pop"}, load : BOOLEAN, lr : BOOLEAN, list : Lists] :
        /\ i.load => ~i.lr      \* POP with r15 is a return
        /\ Execute(i, ThumbPushPop(i))

Multiple ==
    \E i \in [fmt : {"multiple"}, load : BOOLEAN, rb : Low, list : Lists] :
        Execute(i, ThumbMultiple(i))

ThumbNext ==
    \/ MoveShifted \/ AddSub \/ ImmOp \/ AluOp \/ Hireg
    \/ PcRelativeLoad \/ LoadStoreReg \/ LoadStoreSign \/ LoadStoreImm
    \/ LoadStoreHalfword \/ SpRelative \/ LoadAddress \/ AdjustSp
    \/ PushPop \/ Multiple

ThumbSpec == ThumbInit /\ [][ThumbNext]_thumbVars

-----------------------------------------------------------------------------
(* The ARM instruction for each Thumb instruction *)

Imm(n) == [kind |-> "imm", imm |-> n, rot |-> 0]
Plain(rm) == [kind |-> "shifted", shift |-> "LSL", rm |-> rm, amount |-> 0]
Data(op, sets, rd, rn, op2) ==
    [class |-> "data", op |-> op, s |-> sets, rd |-> rd, rn |-> rn, op2 |-> op2]
\* [base, #offset] or [base, register], without writeback.
Single(load, byte, rd, rn, op2) ==
    [class |-> "single", load |-> load, byte |-> byte, pre |-> TRUE, up |-> TRUE,
     writeback |-> FALSE, rd |-> rd, rn |-> rn, op2 |-> op2]
Halfword(load, sh, rd, rn, op2) ==
    [class |-> "halfword", load |-> load, sh |-> sh, pre |-> TRUE, up |-> TRUE,
     writeback |-> FALSE, rd |-> rd, rn |-> rn, op2 |-> op2]
Block(load, pre, up, rn, list) ==
    [class |-> "block", load |-> load, pre |-> pre, up |-> up, writeback |-> TRUE,
     rn |-> rn, list |-> list]

EquivalentAlu(i) ==
    CASE i.op \in ThumbShifts ->
             Data("MOV", TRUE, i.rd, i.rd, [kind |-> "by_reg", shift |-> i.op, rm |-> i.rd, rs |-> i.rs])
      [] i.op = "NEG" -> Data("RSB", TRUE, i.rd, i.rs, Imm(0))
      [] i.op = "MUL" -> [class |-> "multiply", accumulate |-> FALSE, s |-> TRUE,
                          rd |-> i.rd, rn |-> 0, rs |-> i.rd, rm |-> i.rs]
      [] OTHER -> Data(i.op, TRUE, i.rd, i.rd, Plain(i.rs))

Equivalent(i) ==
    CASE i.fmt = "move_shifted" ->
             Data("MOV", TRUE, i.rd, i.rd,
                  [kind |-> "shifted", shift |-> i.shift, rm |-> i.rs, amount |-> i.offset])
      [] i.fmt = "add_sub" ->
             Data(IF i.sub THEN "SUB" ELSE "ADD", TRUE, i.rd, i.rs,
                  IF i.imm THEN Imm(i.rn) ELSE Plain(i.rn))
      [] i.fmt = "imm_op" -> Data(i.op, TRUE, i.rd, i.rd, Imm(i.imm))
      [] i.fmt = "alu" -> EquivalentAlu(i)
      [] i.fmt = "hireg" -> Data(i.op, i.op = "CMP", i.rd, i.rd, Plain(i.rs))
      [] i.fmt = "pc_relative_load" -> Single(TRUE, FALSE, i.rd, PC, Imm(i.offset * 4))
      [] i.fmt = "load_store_reg" -> Single(i.load, i.byte, i.rd, i.rb, Plain(i.ro))
      [] i.fmt = "load_store_sign" ->
             Halfword(i.op # "STRH",
                      CASE i.op = "LDRSB" -> "SB" [] i.op = "LDRSH" -> "SH" [] OTHER -> "H",
                      i.rd, i.rb, Plain(i.ro))
      [] i.fmt = "load_store_imm" ->
             Single(i.load, i.byte, i.rd, i.rb, Imm(IF i.byte THEN i.offset ELSE i.offset * 4))
      [] i.fmt = "load_store_halfword" -> Halfword(i.load, "H", i.rd, i.rb, Imm(i.offset * 2))
      [] i.fmt = "sp_relative" -> Single(i.load, FALSE, i.rd, SP, Imm(i.offset * 4))
      [] i.fmt = "load_address" ->
             Data("ADD", FALSE, i.rd, IF i.sp THEN SP ELSE PC,
                  [kind |-> "imm", imm |-> i.offset, rot |-> W - 2])
      [] i.fmt = "adjust_sp" ->
             Data(IF i.sub THEN "SUB" ELSE "ADD", FALSE, SP, SP,
                  [kind |-> "imm", imm |-> i.offset, rot |-> W - 2])
      [] i.fmt = "push_pop" ->
             Block(i.load, ~i.load, i.load, SP, i.list \cup (IF i.lr THEN {LR} ELSE {}))
      [] i.fmt = "multiple" -> Block(i.load, FALSE, TRUE, i.rb, i.list)

\* Where Thumb reads r15 it drops bit 1.
AsArm == [s EXCEPT !.r[PC] = Aligned(@, 4)]

-----------------------------------------------------------------------------
(* Properties *)

\* No result is wider than a word, no register or byte of memory is lost, and
\* every instruction costs cycles (thumb.rs, each format).
ThumbTypeOK == s \in ThumbState /\ (last # NoInstruction => s.cycles > 0)

\* Whatever r0 and r1 hold (they stand for any two registers), each of the
\* four shifts of one by the other is that many shifts by one bit, up to more
\* than twice the width of a word, and so is a shift by an instruction, with
\* its encodings of amount 0.
ShiftsMoveBits ==
    \A kind \in ThumbShifts : ShiftMovesBits(kind, s.r[0], s.r[1], s.f.c)

\* After a comparison of r0 with r1 the conditions order them, as unsigned
\* and as signed numbers; and a carry chain through the flags computes and
\* orders numbers of two words, with any carry or borrow out of the low words.
CarriesAndConditions ==
    /\ ConditionsOrder(s.f, s.r[0], s.r[1])
    /\ \A lo \in {0, Pow2[W] - 1} : ChainsCarry(s.f, s.r[0], s.r[1], lo, 1)

\* Each Thumb instruction does to registers, flags and memory what its ARM
\* counterpart does, and costs as much.  The cycles of MUL are left out: ARM's
\* are counted from the product, as ArmMultiply says.
ThumbIsArm ==
    [][last' # last =>
          LET arm == ArmExec(AsArm, Equivalent(last'))
          IN  /\ \A reg \in DOMAIN s.r \ {PC} : s'.r[reg] = arm.r[reg]
              /\ s'.f = arm.f
              /\ s'.mem = arm.mem
              /\ Equivalent(last').class # "multiply" => s'.cycles = arm.cycles]_thumbVars
=============================================================================
