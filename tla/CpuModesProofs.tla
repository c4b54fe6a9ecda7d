--------------------------- MODULE CpuModesProofs ---------------------------
(***************************************************************************)
(* Proofs about modes and banks: types, and that the banked arrays         *)
(* implement a register file, for any values and any program.              *)
(***************************************************************************)
EXTENDS CpuModes, TLAPS

LEMMA RegNumbers ==
    /\ \A x \in Reg : x \in Banked \/ x \in FiqBanked \/ x \in Unbanked
    /\ \A x \in Banked : x \notin FiqBanked /\ x \notin Unbanked
    /\ \A x \in FiqBanked : x \notin Unbanked
    /\ Link \in Reg
BY RegistersAssumption DEF Reg, Link

LEMMA BankType ==
    ASSUME NEW m \in Mode
    PROVE  BankOf(m) \in Bank /\ \A x \in Reg : Holder(m, x) \in Bank
BY DEF BankOf, Bank, Mode, Holder

\* Which cells there are.
LEMMA CellShape ==
    ASSUME NEW cell \in Cells
    PROVE  \E b \in Bank, x \in Reg :
               /\ cell = <<b, x>> /\ cell[1] = b /\ cell[2] = x
               /\ x \in FiqBanked => b \in {"User", "Fiq"}
               /\ x \in Unbanked => b = "User"
<1>1. PICK m \in Mode, x \in Reg : cell = <<Holder(m, x), x>>
  BY DEF Cells
<1>2. cell[1] = Holder(m, x) /\ cell[2] = x /\ Holder(m, x) \in Bank
  BY <1>1, BankType
<1>3. /\ x \in FiqBanked => Holder(m, x) \in {"User", "Fiq"}
      /\ x \in Unbanked => Holder(m, x) = "User"
  BY RegNumbers DEF Holder
<1> QED BY <1>1, <1>2, <1>3

LEMMA CellOf ==
    ASSUME NEW m \in Mode, NEW x \in Reg
    PROVE  <<Holder(m, x), x>> \in Cells
BY DEF Cells

-----------------------------------------------------------------------------
(* switch_mode *)

LEMMA ArrayFields ==
    ASSUME NEW c \in RegisterArrays
    PROVE  /\ c.r \in [Reg -> Value] /\ c.mode \in Mode
           /\ c.banked \in [Bank -> [Banked -> Value]]
           /\ c.fiq \in [FiqBanked -> Value] /\ c.usr \in [FiqBanked -> Value]
BY DEF RegisterArrays

LEMMA SwitchFields ==
    ASSUME NEW c \in RegisterArrays, NEW new \in Mode
    PROVE  LET s == SwitchMode(c, new)
               old == BankOf(c.mode)
               other == BankOf(new)
               leave == c.mode = "Fiq" /\ new # "Fiq"
               enter == c.mode # "Fiq" /\ new = "Fiq"
           IN  /\ s.mode = new
               /\ \A x \in Banked :
                      s.r[x] = IF old # other THEN c.banked[other][x] ELSE c.r[x]
               /\ \A x \in FiqBanked :
                      s.r[x] = IF enter THEN c.fiq[x] ELSE IF leave THEN c.usr[x] ELSE c.r[x]
               /\ \A x \in Unbanked : s.r[x] = c.r[x]
               /\ \A b \in Bank, x \in Banked :
                      s.banked[b][x] = IF b = old /\ old # other THEN c.r[x]
                                                                 ELSE c.banked[b][x]
               /\ \A x \in FiqBanked : s.fiq[x] = IF leave THEN c.r[x] ELSE c.fiq[x]
               /\ \A x \in FiqBanked : s.usr[x] = IF enter THEN c.r[x] ELSE c.usr[x]
BY RegNumbers DEF SwitchMode, Reg

LEMMA SwitchType ==
    ASSUME NEW c \in RegisterArrays, NEW new \in Mode
    PROVE  SwitchMode(c, new) \in RegisterArrays
<1> DEFINE s == SwitchMode(c, new)
<1>1. s.r \in [Reg -> Value]
  <2>1. \A x \in Reg : s.r[x] \in Value
    <3>1. /\ c.r \in [Reg -> Value] /\ c.banked[BankOf(new)] \in [Banked -> Value]
          /\ c.fiq \in [FiqBanked -> Value] /\ c.usr \in [FiqBanked -> Value]
      BY ArrayFields, BankType
    <3>2. \A x \in Banked : s.r[x] \in {c.banked[BankOf(new)][x], c.r[x]}
      BY SwitchFields
    <3>3. \A x \in FiqBanked : s.r[x] \in {c.fiq[x], c.usr[x], c.r[x]}
      BY SwitchFields
    <3>4. \A x \in Unbanked : s.r[x] = c.r[x]
      BY SwitchFields
    <3> HIDE DEF s
    <3> QED BY <3>1, <3>2, <3>3, <3>4, RegNumbers DEF Reg
  <2>2. s.r = [x \in Reg |-> s.r[x]]
    BY DEF SwitchMode
  <2> HIDE DEF s
  <2> QED BY <2>1, <2>2
<1>2. s.banked \in [Bank -> [Banked -> Value]]
  <2>1. c.r \in [Reg -> Value] /\ Banked \subseteq Reg /\ c.banked \in [Bank -> [Banked -> Value]]
    BY ArrayFields DEF Reg
  <2>2. [x \in Banked |-> c.r[x]] \in [Banked -> Value]
    BY <2>1
  <2> QED BY <2>1, <2>2 DEF SwitchMode
<1>3. s.fiq \in [FiqBanked -> Value] /\ s.usr \in [FiqBanked -> Value]
  <2>1. c.r \in [Reg -> Value] /\ FiqBanked \subseteq Reg
    BY ArrayFields DEF Reg
  <2>2. [x \in FiqBanked |-> c.r[x]] \in [FiqBanked -> Value]
    BY <2>1
  <2> QED BY <2>2, ArrayFields DEF SwitchMode
<1>4. s = [r |-> s.r, mode |-> new, banked |-> s.banked, fiq |-> s.fiq, usr |-> s.usr]
  BY DEF SwitchMode
<1> HIDE DEF s
<1>5. s \in RegisterArrays
  BY <1>1, <1>2, <1>3, <1>4 DEF RegisterArrays
<1> QED BY <1>5 DEF s

\* A mode change moves values between the arrays, but every cell keeps its own.
LEMMA SwitchKeepsFile ==
    ASSUME NEW c \in RegisterArrays, NEW new \in Mode
    PROVE  FileOf(SwitchMode(c, new)) = FileOf(c)
<1> DEFINE s == SwitchMode(c, new)
           Cell(f, b, x) == IF b = Holder(f.mode, x) THEN f.r[x]
                            ELSE IF x \in Banked THEN f.banked[b][x]
                            ELSE IF b = "Fiq" THEN f.fiq[x] ELSE f.usr[x]
<1> SUFFICES ASSUME NEW b \in Bank, NEW x \in Reg,
                    x \in FiqBanked => b \in {"User", "Fiq"}, x \in Unbanked => b = "User"
             PROVE  Cell(s, b, x) = Cell(c, b, x)
  BY CellShape DEF FileOf
<1>1. c.mode \in Mode
  BY ArrayFields
<1>2. CASE x \in Banked
  BY <1>1, <1>2, SwitchFields DEF Holder
<1>3. CASE x \in FiqBanked
  BY <1>1, <1>3, SwitchFields, RegNumbers DEF Holder
<1>4. CASE x \in Unbanked
  BY <1>1, <1>4, SwitchFields, RegNumbers DEF Holder
<1> QED BY <1>2, <1>3, <1>4, RegNumbers

-----------------------------------------------------------------------------
(* Writing visible registers *)

LEMMA LoadFields ==
    ASSUME NEW c \in RegisterArrays, NEW vals \in Writes
    PROVE  /\ Load(c, vals).mode = c.mode /\ Load(c, vals).banked = c.banked
           /\ Load(c, vals).fiq = c.fiq /\ Load(c, vals).usr = c.usr
           /\ Load(c, vals).r = [x \in Reg |-> IF x \in DOMAIN vals THEN vals[x] ELSE c.r[x]]
           /\ Load(c, vals) \in RegisterArrays
<1>1. PICK list \in SUBSET Reg : vals \in [list -> Value]
  BY DEF Writes
<1>2. [x \in Reg |-> IF x \in DOMAIN vals THEN vals[x] ELSE c.r[x]] \in [Reg -> Value]
  BY <1>1, ArrayFields
<1> QED BY <1>2 DEF Load, RegisterArrays

\* Writing the visible registers writes the cells of the mode.
LEMMA LoadPuts ==
    ASSUME NEW c \in RegisterArrays, NEW vals \in Writes
    PROVE  FileOf(Load(c, vals)) = Put(FileOf(c), c.mode, vals)
<1> DEFINE s == Load(c, vals)
           Cell(f, b, x) == IF b = Holder(f.mode, x) THEN f.r[x]
                            ELSE IF x \in Banked THEN f.banked[b][x]
                            ELSE IF b = "Fiq" THEN f.fiq[x] ELSE f.usr[x]
<1>1. ASSUME NEW cell \in Cells
      PROVE  FileOf(s)[cell] = Put(FileOf(c), c.mode, vals)[cell]
  <2>1. PICK b \in Bank, x \in Reg : cell = <<b, x>> /\ cell[1] = b /\ cell[2] = x
    BY CellShape
  <2>2. FileOf(s)[cell] = Cell(s, b, x) /\ FileOf(c)[cell] = Cell(c, b, x)
    BY <2>1 DEF FileOf
  <2>3. Put(FileOf(c), c.mode, vals)[cell] =
            IF x \in DOMAIN vals /\ b = Holder(c.mode, x) THEN vals[x] ELSE FileOf(c)[cell]
    BY <2>1 DEF Put
  <2>4. Cell(s, b, x) = IF x \in DOMAIN vals /\ b = Holder(c.mode, x)
                        THEN vals[x] ELSE Cell(c, b, x)
    <3>1. s.mode = c.mode /\ s.banked = c.banked /\ s.fiq = c.fiq /\ s.usr = c.usr
      BY LoadFields
    <3>2. s.r[x] = IF x \in DOMAIN vals THEN vals[x] ELSE c.r[x]
      <4>1. s.r = [y \in Reg |-> IF y \in DOMAIN vals THEN vals[y] ELSE c.r[y]]
        BY LoadFields
      <4> HIDE DEF s
      <4> QED BY <4>1
    <3> HIDE DEF s
    <3> QED BY <3>1, <3>2
  <2> QED BY <2>2, <2>3, <2>4
<1>2. /\ FileOf(s) = [cell \in Cells |-> FileOf(s)[cell]]
      /\ Put(FileOf(c), c.mode, vals) = [cell \in Cells |-> Put(FileOf(c), c.mode, vals)[cell]]
  BY DEF FileOf, Put
<1> QED BY <1>1, <1>2

\* r of a mode without privilege is the file's view of User mode.
LEMMA UserReads ==
    ASSUME NEW c \in RegisterArrays, c.mode \in {"User", "System"}, NEW x \in Reg
    PROVE  c.r[x] = FileOf(c)[<<Holder("User", x), x>>]
<1>1. <<Holder("User", x), x>> \in Cells
  BY CellOf DEF Mode
<1>2. Holder(c.mode, x) = Holder("User", x)
  BY DEF Holder, BankOf
<1> QED BY <1>1, <1>2 DEF FileOf

\* The detour of LDM and STM through User mode.
LEMMA UserDetour ==
    ASSUME NEW c \in RegisterArrays
    PROVE  /\ UserView(c) \in RegisterArrays
           /\ UserView(c).mode \in {"User", "System"}
           /\ FileOf(UserView(c)) = FileOf(c)
           /\ \A s \in RegisterArrays : s.mode = UserView(c).mode =>
                  /\ BackFromUser(s, c.mode) \in RegisterArrays
                  /\ BackFromUser(s, c.mode).mode = c.mode
                  /\ FileOf(BackFromUser(s, c.mode)) = FileOf(s)
<1>1. c.mode \in Mode /\ "User" \in Mode
  BY ArrayFields DEF Mode
<1>2. CASE Privileged(c.mode)
  BY <1>1, <1>2, SwitchType, SwitchFields, SwitchKeepsFile DEF UserView, BackFromUser
<1>3. CASE ~Privileged(c.mode)
  BY <1>1, <1>3 DEF UserView, BackFromUser, Privileged
<1> QED BY <1>2, <1>3

\* System has no cells of its own.
LEMMA PutUser ==
    ASSUME NEW f, NEW vals, NEW m \in {"User", "System"}
    PROVE  Put(f, m, vals) = Put(f, "User", vals)
<1>1. \A x : Holder(m, x) = Holder("User", x)
  BY DEF Holder, BankOf
<1> QED BY <1>1 DEF Put

-----------------------------------------------------------------------------
(* Types *)

LEMMA FromBitsType ==
    ASSUME NEW field PROVE FromBits(field) \in Mode
BY DEF FromBits, Mode

\* What an instruction loads and writes back.
LEMMA LoadsAreWrites ==
    /\ Loads \subseteq Writes /\ None \in Writes /\ None \in Updates
    /\ Updates \subseteq Writes
    /\ \A list : Writebacks(list) \subseteq Updates
    /\ \A ret \in Value : [x \in {Link} |-> ret] \in Writes
<1>1. Loads \subseteq Writes
  BY CpuModesAssumption DEF Loads, Writes
<1>2. None \in Writes
  <2>1. {} \in SUBSET Reg /\ None \in [{} -> Value]
    BY DEF None
  <2> QED BY <2>1 DEF Writes
<1>3. Updates \subseteq Writes
  <2>1. \A base \in Reg : {base} \in SUBSET Reg
    OBVIOUS
  <2> QED BY <1>2, <2>1 DEF Updates, Writes
<1>4. None \in Updates /\ \A list : Writebacks(list) \subseteq Updates
  BY DEF Updates, Writebacks
<1>5. ASSUME NEW ret \in Value PROVE [x \in {Link} |-> ret] \in Writes
  <2>1. {Link} \in SUBSET Reg /\ [x \in {Link} |-> ret] \in [{Link} -> Value]
    BY RegNumbers
  <2> QED BY <2>1 DEF Writes
<1> QED BY <1>1, <1>2, <1>3, <1>4, <1>5

\* What an instruction may do.
LEMMA EffectType ==
    ASSUME NEW op \in {"own", "load", "store", "exception"},
           NEW own \in Writes, NEW user \in Writes
    PROVE  Effect(op, own, user) \in Effects
BY DEF Effect, Effects

LEMMA NoEffectType == NoEffect \in Effects
BY EffectType, LoadsAreWrites DEF NoEffect

\* What an exception return leaves.
LEMMA RestoreType ==
    ASSUME ModesTypeOK, NEW c \in RegisterArrays, RestoreCpsr(c)
    PROVE  /\ regs' \in RegisterArrays /\ masked' \in BOOLEAN /\ stale' \in BOOLEAN
           /\ spsr' = spsr
           /\ regs'.mode \in Mode /\ FileOf(regs') = FileOf(c)
<1> DEFINE p == spsr[BankOf(c.mode)]
           new == FromBits(p.mode)
<1>1. p \in Psr
  BY ArrayFields, BankType DEF ModesTypeOK
<1>2. new \in Mode
  BY FromBitsType
<1>3. regs' = SwitchMode(c, new) /\ masked' = p.I /\ stale' = FALSE /\ spsr' = spsr
  BY DEF RestoreCpsr
<1>4. p.I \in BOOLEAN
  BY <1>1 DEF Psr
<1> HIDE DEF p, new
<1> QED BY <1>2, <1>3, <1>4, SwitchType, SwitchFields, SwitchKeepsFile

\* What an exception entry leaves.
LEMMA ExceptionType ==
    ASSUME ModesTypeOK, NEW new \in {"Irq", "Supervisor"}, Exception(new)
    PROVE  /\ regs' \in RegisterArrays /\ masked' \in BOOLEAN
           /\ spsr' \in [Bank -> Psr] /\ regs'.mode = new
           /\ irq_delay' = 0
           /\ \E ret \in Value :
                  /\ FileOf(regs') = Put(FileOf(regs), new, [x \in {Link} |-> ret])
                  /\ did' = Effect("exception", [x \in {Link} |-> ret], None)
<1>1. new \in Mode /\ new \in Bank /\ regs \in RegisterArrays
  BY DEF Mode, Bank, ModesTypeOK
<1>2. CpsrBits \in Psr
  BY <1>1, ArrayFields DEF CpsrBits, Psr, ModesTypeOK, Mode
<1>3. PICK ret \in Value :
          /\ regs' = Load(SwitchMode(regs, new), [x \in {Link} |-> ret])
          /\ irq_delay' = 0 /\ did' = Effect("exception", [x \in {Link} |-> ret], None)
  BY DEF Exception, Does
<1> DEFINE c == SwitchMode(regs, new)
           vals == [x \in {Link} |-> ret]
<1>4. c \in RegisterArrays /\ c.mode = new /\ FileOf(c) = FileOf(regs) /\ vals \in Writes
  BY <1>1, SwitchType, SwitchFields, SwitchKeepsFile, LoadsAreWrites
<1>5. regs' = Load(c, vals)
  BY <1>3
<1>6. FileOf(regs') = Put(FileOf(regs), new, [x \in {Link} |-> ret])
  <2>1. FileOf(regs') = Put(FileOf(c), c.mode, vals)
    <3> HIDE DEF c, vals
    <3> QED BY <1>4, <1>5, LoadPuts
  <2> QED BY <1>4, <2>1
<1>7. regs' \in RegisterArrays /\ regs'.mode = new
  <2> HIDE DEF c, vals
  <2> QED BY <1>4, <1>5, LoadFields
<1>8. spsr' \in [Bank -> Psr]
  BY <1>1, <1>2 DEF Exception, ModesTypeOK
<1> QED BY <1>3, <1>6, <1>7, <1>8 DEF Exception

\* The reset state is one the type allows.
LEMMA InitType == ModesInit => ModesTypeOK
<1> SUFFICES ASSUME ModesInit PROVE ModesTypeOK
  OBVIOUS
<1>1. Zero \in Value /\ \A b \in Bank : Reset[b] \in Value
  BY CpuModesAssumption
<1>2. "User" \in Bank /\ "System" \in Mode
  BY DEF Bank, Mode
<1>3. regs \in RegisterArrays
  BY <1>1, <1>2 DEF ModesInit, RegisterArrays
<1>4. spsr \in [Bank -> Psr]
  BY DEF ModesInit, Psr
<1>5. masked \in BOOLEAN /\ stale \in BOOLEAN
  BY DEF ModesInit
<1>7. irq_delay \in 0 .. 1
  BY DEF ModesInit
<1>6. did \in Effects
  BY NoEffectType DEF ModesInit
<1> QED BY <1>3, <1>4, <1>5, <1>6, <1>7 DEF ModesTypeOK

\* One instruction or exception: the types, and the step of the register file.
StepFacts ==
    /\ ModesTypeOK'
    /\ \/ FileOf(regs') = FileOf(regs) /\ regs'.mode = regs.mode /\ did' = did
       \/ /\ \E vals \in Writes : /\ FileOf(regs') = Put(FileOf(regs), regs.mode, vals)
                                 /\ did' = Effect("own", vals, None)
          /\ regs'.mode \in Mode
       \/ /\ regs'.mode \in {"Irq", "Supervisor"}
          /\ \E ret \in Value :
                 /\ FileOf(regs') = Put(FileOf(regs), regs'.mode, [x \in {Link} |-> ret])
                 /\ did' = Effect("exception", [x \in {Link} |-> ret], None)
       \/ /\ regs'.mode = regs.mode
          /\ \E vals \in Writes, back \in Updates :
                 /\ FileOf(regs') = Put(Put(FileOf(regs), "User", vals), regs.mode, back)
                 /\ did' = Effect("load", back, vals)
       \/ /\ regs'.mode = regs.mode
          /\ \E list \in SUBSET Reg, back \in Updates :
                 /\ did' = Effect("store", back,
                               [x \in list |-> FileOf(regs)[<<Holder("User", x), x>>]])
                 /\ FileOf(regs') = Put(FileOf(regs), regs.mode, back)

\* Writing no register writes no cell.
LEMMA PutNone ==
    ASSUME NEW c, NEW m
    PROVE  Put(FileOf(c), m, None) = FileOf(c)
BY DEF Put, None, FileOf

LEMMA BothIsWrite ==
    ASSUME NEW vals \in Writes, NEW back \in Writes PROVE Both(vals, back) \in Writes
<1>1. PICK l1 \in SUBSET Reg : vals \in [l1 -> Value]
  BY DEF Writes
<1>2. PICK l2 \in SUBSET Reg : back \in [l2 -> Value]
  BY DEF Writes
<1>3. Both(vals, back) \in [l1 \cup l2 -> Value] /\ l1 \cup l2 \in SUBSET Reg
  BY <1>1, <1>2 DEF Both
<1> QED BY <1>3 DEF Writes

\* The types after a step, variable by variable.
LEMMA TypeParts ==
    ASSUME regs' \in RegisterArrays, masked' \in BOOLEAN, stale' \in BOOLEAN,
           spsr' \in [Bank -> Psr], irq_delay' \in {0, 1}, did' \in Effects
    PROVE  ModesTypeOK'
BY DEF ModesTypeOK

LEMMA InstructionStep == ModesTypeOK /\ Instruction => StepFacts
<1> SUFFICES ASSUME ModesTypeOK, Instruction PROVE StepFacts
  OBVIOUS
<1>1. PICK vals \in Writes : /\ regs' = Load(regs, vals) /\ irq_delay' = 0
                            /\ did' = Effect("own", vals, None)
  BY LoadsAreWrites DEF Instruction, Does
<1>2. regs \in RegisterArrays
  BY DEF ModesTypeOK
<1>3. /\ regs' \in RegisterArrays /\ regs'.mode = regs.mode
      /\ FileOf(regs') = Put(FileOf(regs), regs.mode, vals)
  BY <1>1, <1>2, LoadFields, LoadPuts
<1>4. masked' = masked /\ stale' = stale /\ spsr' = spsr
  BY DEF Instruction
<1>5. ModesTypeOK'
  <2>1. masked' \in BOOLEAN /\ stale' \in BOOLEAN /\ spsr' \in [Bank -> Psr]
    BY <1>4 DEF ModesTypeOK
  <2>2. irq_delay' \in {0, 1} /\ did' \in Effects
    BY <1>1, EffectType, LoadsAreWrites
  <2> QED BY <1>3, <2>1, <2>2, TypeParts
<1>6. regs'.mode \in Mode
  BY <1>3, ArrayFields
<1> QED BY <1>1, <1>3, <1>5, <1>6 DEF StepFacts

LEMMA ExceptionStep ==
    ModesTypeOK /\ (\E new \in {"Irq", "Supervisor"} : Exception(new)) => StepFacts
<1> SUFFICES ASSUME ModesTypeOK, NEW new \in {"Irq", "Supervisor"}, Exception(new) PROVE StepFacts
  OBVIOUS
<1>1. /\ regs' \in RegisterArrays /\ masked' \in BOOLEAN
      /\ spsr' \in [Bank -> Psr] /\ regs'.mode = new
      /\ irq_delay' = 0
  BY ExceptionType
<1>3. PICK ret \in Value :
          /\ FileOf(regs') = Put(FileOf(regs), new, [x \in {Link} |-> ret])
          /\ did' = Effect("exception", [x \in {Link} |-> ret], None)
  BY ExceptionType
<1>2. ModesTypeOK'
  <2>1. stale' \in BOOLEAN
    BY DEF Exception, ModesTypeOK
  <2>2. irq_delay' \in {0, 1} /\ did' \in Effects
    BY <1>1, <1>3, EffectType, LoadsAreWrites
  <2> QED BY <1>1, <2>1, <2>2, TypeParts
<1> QED BY <1>1, <1>2, <1>3 DEF StepFacts

LEMMA ReturnAluStep == ModesTypeOK /\ ReturnAlu => StepFacts
<1> SUFFICES ASSUME ModesTypeOK, ReturnAlu PROVE StepFacts
  OBVIOUS
<1>1. regs \in RegisterArrays
  BY DEF ModesTypeOK
<1>2. /\ regs' \in RegisterArrays /\ masked' \in BOOLEAN /\ stale' \in BOOLEAN
      /\ spsr' = spsr /\ regs'.mode \in Mode /\ FileOf(regs') = FileOf(regs)
  BY <1>1, RestoreType DEF ReturnAlu
<1>3. irq_delay' = 1 /\ did' = Effect("own", None, None)
  BY DEF ReturnAlu, NoEffect
<1>4. ModesTypeOK'
  <2>1. spsr' \in [Bank -> Psr]
    BY <1>2 DEF ModesTypeOK
  <2>2. irq_delay' \in {0, 1} /\ did' \in Effects
    BY <1>3, EffectType, LoadsAreWrites
  <2> QED BY <1>2, <2>1, <2>2, TypeParts
<1>5. FileOf(regs') = Put(FileOf(regs), regs.mode, None)
  BY <1>2, PutNone
<1> QED BY <1>2, <1>3, <1>4, <1>5, LoadsAreWrites DEF StepFacts

LEMMA ReturnLdmStep == ModesTypeOK /\ ReturnLdm => StepFacts
<1> SUFFICES ASSUME ModesTypeOK, ReturnLdm PROVE StepFacts
  OBVIOUS
<1>1. PICK vals \in Writes, back \in Writes :
          /\ RestoreCpsr(Load(regs, Both(vals, back)))
          /\ Does(Effect("own", Both(vals, back), None))
  BY LoadsAreWrites DEF ReturnLdm
<1> DEFINE both == Both(vals, back)
           one == Load(regs, both)
<1>2. regs \in RegisterArrays /\ both \in Writes
  BY BothIsWrite DEF ModesTypeOK
<1>3. one \in RegisterArrays /\ FileOf(one) = Put(FileOf(regs), regs.mode, both)
  BY <1>2, LoadFields, LoadPuts
<1>4. RestoreCpsr(one) /\ irq_delay' = 0 /\ did' = Effect("own", both, None)
  BY <1>1 DEF Does
<1> HIDE DEF one, both
<1>5. /\ regs' \in RegisterArrays /\ masked' \in BOOLEAN /\ stale' \in BOOLEAN
      /\ spsr' = spsr /\ regs'.mode \in Mode /\ FileOf(regs') = FileOf(one)
  BY <1>3, <1>4, RestoreType
<1>6. ModesTypeOK'
  <2>1. spsr' \in [Bank -> Psr]
    BY <1>5 DEF ModesTypeOK
  <2>2. irq_delay' \in {0, 1} /\ did' \in Effects
    BY <1>2, <1>4, EffectType, LoadsAreWrites
  <2> QED BY <1>5, <2>1, <2>2, TypeParts
<1> QED BY <1>2, <1>3, <1>4, <1>5, <1>6 DEF StepFacts

LEMMA LdmUserStep == ModesTypeOK /\ LdmUser => StepFacts
<1> SUFFICES ASSUME ModesTypeOK, LdmUser PROVE StepFacts
  OBVIOUS
<1>1. PICK vals \in Writes, back \in Updates :
          /\ regs' = Load(BackFromUser(Load(UserView(regs), vals), regs.mode), back)
          /\ Does(Effect("load", back, vals))
  BY LoadsAreWrites DEF LdmUser
<1> DEFINE user == UserView(regs)
           one == Load(user, vals)
           two == BackFromUser(one, regs.mode)
<1>2. regs \in RegisterArrays /\ back \in Writes
  BY LoadsAreWrites DEF ModesTypeOK
<1>3. /\ user \in RegisterArrays /\ user.mode \in {"User", "System"}
      /\ FileOf(user) = FileOf(regs)
      /\ \A s \in RegisterArrays : s.mode = user.mode =>
             /\ BackFromUser(s, regs.mode) \in RegisterArrays
             /\ BackFromUser(s, regs.mode).mode = regs.mode
             /\ FileOf(BackFromUser(s, regs.mode)) = FileOf(s)
  BY <1>2, UserDetour
<1>4. /\ one \in RegisterArrays /\ one.mode = user.mode
      /\ FileOf(one) = Put(FileOf(regs), "User", vals)
  <2> HIDE DEF user
  <2>1. FileOf(one) = Put(FileOf(regs), user.mode, vals)
    BY <1>3, LoadPuts
  <2>2. one \in RegisterArrays /\ one.mode = user.mode
    BY <1>3, LoadFields
  <2> QED BY <1>3, <2>1, <2>2, PutUser
<1>5. /\ two \in RegisterArrays /\ two.mode = regs.mode
      /\ FileOf(two) = Put(FileOf(regs), "User", vals)
  <2> HIDE DEF user, one
  <2> QED BY <1>3, <1>4
<1>6. /\ regs' \in RegisterArrays /\ regs'.mode = regs.mode
      /\ FileOf(regs') = Put(Put(FileOf(regs), "User", vals), regs.mode, back)
  <2>1. regs' = Load(two, back)
    BY <1>1
  <2> HIDE DEF user, one, two
  <2>2. FileOf(regs') = Put(FileOf(two), two.mode, back)
    BY <1>2, <1>5, <2>1, LoadPuts
  <2>3. regs' \in RegisterArrays /\ regs'.mode = two.mode
    BY <1>2, <1>5, <2>1, LoadFields
  <2> QED BY <1>5, <2>2, <2>3
<1>7. /\ masked' = masked /\ stale' = stale /\ spsr' = spsr
      /\ irq_delay' = 0 /\ did' = Effect("load", back, vals)
  BY <1>1 DEF LdmUser, Does
<1>8. ModesTypeOK'
  <2>1. masked' \in BOOLEAN /\ stale' \in BOOLEAN /\ spsr' \in [Bank -> Psr]
    BY <1>7 DEF ModesTypeOK
  <2>2. irq_delay' \in {0, 1} /\ did' \in Effects
    BY <1>2, <1>7, EffectType
  <2> QED BY <1>6, <2>1, <2>2, TypeParts
<1> QED BY <1>6, <1>7, <1>8 DEF StepFacts

LEMMA StmUserStep == ModesTypeOK /\ StmUser => StepFacts
<1> SUFFICES ASSUME ModesTypeOK, StmUser PROVE StepFacts
  OBVIOUS
<1>1. PICK list \in SUBSET Reg, back \in Updates :
          /\ regs' = Load(BackFromUser(UserView(regs), regs.mode), back)
          /\ Does(Effect("store", back, [x \in list |-> UserView(regs).r[x]]))
  BY CpuModesAssumption, LoadsAreWrites DEF StmUser
<1> DEFINE user == UserView(regs)
           two == BackFromUser(user, regs.mode)
           stored == [x \in list |-> user.r[x]]
<1>2. regs \in RegisterArrays /\ back \in Writes
  BY LoadsAreWrites DEF ModesTypeOK
<1>3. /\ user \in RegisterArrays /\ user.mode \in {"User", "System"}
      /\ FileOf(user) = FileOf(regs)
      /\ two \in RegisterArrays /\ two.mode = regs.mode /\ FileOf(two) = FileOf(user)
  BY <1>2, UserDetour
<1>4. stored = [x \in list |-> FileOf(regs)[<<Holder("User", x), x>>]]
  <2> HIDE DEF user, two
  <2>1. \A x \in list : user.r[x] = FileOf(user)[<<Holder("User", x), x>>]
    BY <1>3, UserReads
  <2> QED BY <1>3, <2>1
<1>5. stored \in Writes
  <2> HIDE DEF user, two
  <2>1. user.r \in [Reg -> Value]
    BY <1>3, ArrayFields
  <2>2. stored \in [list -> Value]
    BY <2>1
  <2> QED BY <2>2 DEF Writes
<1>6. /\ regs' \in RegisterArrays /\ regs'.mode = regs.mode
      /\ FileOf(regs') = Put(FileOf(regs), regs.mode, back)
  <2>1. regs' = Load(two, back)
    BY <1>1
  <2> HIDE DEF user, two
  <2>2. FileOf(regs') = Put(FileOf(two), two.mode, back)
    BY <1>2, <1>3, <2>1, LoadPuts
  <2>3. regs' \in RegisterArrays /\ regs'.mode = two.mode
    BY <1>2, <1>3, <2>1, LoadFields
  <2> QED BY <1>3, <2>2, <2>3
<1>7. irq_delay' = 0 /\ did' = Effect("store", back, stored)
  BY <1>1 DEF Does
<1>8. ModesTypeOK'
  <2>1. masked' \in BOOLEAN /\ stale' \in BOOLEAN /\ spsr' \in [Bank -> Psr]
    BY DEF StmUser, ModesTypeOK
  <2>2. irq_delay' \in {0, 1} /\ did' \in Effects
    BY <1>2, <1>5, <1>7, EffectType
  <2> QED BY <1>6, <2>1, <2>2, TypeParts
<1>9. PICK l \in SUBSET Reg :
          stored = [x \in l |-> FileOf(regs)[<<Holder("User", x), x>>]]
  BY <1>4
<1> HIDE DEF stored
<1> QED BY <1>6, <1>8, <1>7, <1>9 DEF StepFacts

LEMMA MsrCpsrStep == ModesTypeOK /\ MsrCpsr => StepFacts
<1> SUFFICES ASSUME ModesTypeOK, MsrCpsr PROVE StepFacts
  OBVIOUS
<1>1. regs \in RegisterArrays
  BY DEF ModesTypeOK
<1>2. /\ regs' \in RegisterArrays /\ regs'.mode \in Mode /\ masked' \in BOOLEAN
      /\ FileOf(regs') = FileOf(regs)
  <2>1. CASE \E p \in PsrWrites : /\ regs' = SwitchMode(regs, FromBits(p.mode))
                                  /\ masked' = p.I
    <3>1. PICK p \in PsrWrites : regs' = SwitchMode(regs, FromBits(p.mode)) /\ masked' = p.I
      BY <2>1
    <3>2. p.I \in BOOLEAN /\ FromBits(p.mode) \in Mode
      BY CpuModesAssumption, FromBitsType DEF Psr
    <3> QED BY <1>1, <3>1, <3>2, SwitchType, SwitchFields, SwitchKeepsFile
  <2>2. CASE UNCHANGED <<regs, masked>>
    BY <1>1, <2>2, ArrayFields DEF ModesTypeOK
  <2> QED BY <2>1, <2>2 DEF MsrCpsr
<1>3. /\ stale' = FALSE /\ spsr' = spsr /\ irq_delay' = 0
      /\ did' = Effect("own", None, None)
  BY DEF MsrCpsr, Does, NoEffect
<1>4. ModesTypeOK'
  <2>1. spsr' \in [Bank -> Psr] /\ stale' \in BOOLEAN
    BY <1>3 DEF ModesTypeOK
  <2>2. irq_delay' \in {0, 1} /\ did' \in Effects
    BY <1>3, EffectType, LoadsAreWrites
  <2> QED BY <1>2, <2>1, <2>2, TypeParts
<1>5. FileOf(regs') = Put(FileOf(regs), regs.mode, None)
  BY <1>2, PutNone
<1> QED BY <1>2, <1>3, <1>4, <1>5, LoadsAreWrites DEF StepFacts

LEMMA MsrSpsrStep == ModesTypeOK /\ MsrSpsr => StepFacts
<1> SUFFICES ASSUME ModesTypeOK, MsrSpsr PROVE StepFacts
  OBVIOUS
<1>1. /\ regs' = regs /\ masked' = masked /\ stale' = stale
      /\ irq_delay' = 0 /\ did' = Effect("own", None, None)
  BY DEF MsrSpsr, Does, NoEffect
<1>2. regs \in RegisterArrays /\ regs.mode \in Mode
  BY ArrayFields DEF ModesTypeOK
<1>3. spsr' \in [Bank -> Psr]
  <2>1. spsr \in [Bank -> Psr] /\ PsrWrites \subseteq Psr
    BY CpuModesAssumption DEF ModesTypeOK
  <2>2. spsr' = spsr \/ \E p \in PsrWrites : spsr' = [spsr EXCEPT ![regs.mode] = p]
    BY DEF MsrSpsr
  <2> QED BY <2>1, <2>2
<1>4. ModesTypeOK'
  <2>1. masked' \in BOOLEAN /\ stale' \in BOOLEAN
    BY <1>1 DEF ModesTypeOK
  <2>2. irq_delay' \in {0, 1} /\ did' \in Effects /\ regs' \in RegisterArrays
    BY <1>1, <1>2, EffectType, LoadsAreWrites
  <2> QED BY <1>3, <2>1, <2>2, TypeParts
<1>5. FileOf(regs') = Put(FileOf(regs), regs.mode, None) /\ regs'.mode \in Mode
  BY <1>1, <1>2, PutNone
<1> QED BY <1>1, <1>4, <1>5, LoadsAreWrites DEF StepFacts

LEMMA StepLemma == ModesTypeOK /\ [ModesNext]_modesVars => StepFacts
<1> SUFFICES ASSUME ModesTypeOK, [ModesNext]_modesVars PROVE StepFacts
  OBVIOUS
<1>1. CASE UNCHANGED modesVars
  BY <1>1 DEF modesVars, ModesTypeOK, StepFacts
<1>2. CASE TakeIrq \/ Swi
  BY <1>2, ExceptionStep DEF TakeIrq, Swi
<1> QED BY <1>1, <1>2, InstructionStep, ReturnAluStep, ReturnLdmStep, LdmUserStep,
           StmUserStep, MsrCpsrStep, MsrSpsrStep DEF ModesNext

\* The instance of RegisterFile speaks of the same registers.
LEMMA SameNotions ==
    /\ RF!Mode = Mode /\ RF!Reg = Reg /\ RF!Link = Link
    /\ RF!None = None /\ RF!Writes = Writes /\ RF!Updates = Updates
    /\ \A op, own, user : RF!Effect(op, own, user) = Effect(op, own, user)
    /\ \A m, x : RF!Holder(m, x) = Holder(m, x)
    /\ \A f, m, vals : RF!Put(f, m, vals) = Put(f, m, vals)
<1>1. RF!Mode = Mode /\ RF!Reg = Reg /\ RF!Link = Link
  BY DEF RF!Mode, Mode, RF!Reg, Reg, RF!Link, Link
<1>2. RF!None = None
  BY DEF RF!None, None
<1>3. RF!Writes = Writes
  BY <1>1 DEF RF!Writes, Writes
<1>4. RF!Updates = Updates
  BY <1>1, <1>2 DEF RF!Updates, Updates
<1>5. \A m, x : RF!Holder(m, x) = Holder(m, x)
  BY DEF RF!Holder, Holder, RF!BankOf, BankOf
<1>6. RF!Cells = Cells
  BY <1>1, <1>5 DEF RF!Cells, Cells
<1>7. \A f, m, vals : RF!Put(f, m, vals) = Put(f, m, vals)
  BY <1>5, <1>6 DEF RF!Put, Put
<1>8. \A op, own, user : RF!Effect(op, own, user) = Effect(op, own, user)
  BY DEF RF!Effect, Effect
<1> QED BY <1>1, <1>2, <1>3, <1>4, <1>5, <1>7, <1>8

\* A step with those facts is a step of the register file.
LEMMA StepRefines == StepFacts => [RF!Next]_(<<FileOf(regs), regs.mode, did>>)
<1> SUFFICES ASSUME StepFacts PROVE [RF!Next]_(<<FileOf(regs), regs.mode, did>>)
  OBVIOUS
<1>1. CASE FileOf(regs') = FileOf(regs) /\ regs'.mode = regs.mode /\ did' = did
  BY <1>1
<1>2. CASE /\ \E vals \in Writes : /\ FileOf(regs') = Put(FileOf(regs), regs.mode, vals)
                                 /\ did' = Effect("own", vals, None)
           /\ regs'.mode \in Mode
  BY <1>2, SameNotions DEF RF!Next, RF!Instruction
<1>3. CASE /\ regs'.mode \in {"Irq", "Supervisor"}
           /\ \E ret \in Value :
                  /\ FileOf(regs') = Put(FileOf(regs), regs'.mode, [x \in {Link} |-> ret])
                  /\ did' = Effect("exception", [x \in {Link} |-> ret], None)
  BY <1>3, SameNotions DEF RF!Next, RF!Exception
<1>4. CASE /\ regs'.mode = regs.mode
           /\ \E vals \in Writes, back \in Updates :
                  /\ FileOf(regs') = Put(Put(FileOf(regs), "User", vals), regs.mode, back)
                  /\ did' = Effect("load", back, vals)
  BY <1>4, SameNotions DEF RF!Next, RF!LoadUser
<1>5. CASE /\ regs'.mode = regs.mode
           /\ \E list \in SUBSET Reg, back \in Updates :
                  /\ did' = Effect("store", back,
                                [x \in list |-> FileOf(regs)[<<Holder("User", x), x>>]])
                  /\ FileOf(regs') = Put(FileOf(regs), regs.mode, back)
  BY <1>5, SameNotions DEF RF!Next, RF!StoreUser
<1> QED BY <1>1, <1>2, <1>3, <1>4, <1>5 DEF StepFacts

-----------------------------------------------------------------------------
(* The theorems *)

\* Whatever a program does, modes, status registers and banks keep their types:
\* no invalid mode field ever becomes the CPU's mode.
THEOREM CpuModesTypeOK == ModesSpec => []ModesTypeOK
<1>1. ModesTypeOK /\ [ModesNext]_modesVars => ModesTypeOK'
  BY StepLemma DEF StepFacts
<1> QED BY <1>1, InitType, PTL DEF ModesSpec

\* switch_mode and the detour of LDM and STM through User mode implement a
\* register file, for any registers, values and programs.
THEOREM BanksImplementRegisterFile == ModesSpec => ImplementsRegisterFile
<1>1. ModesInit => RF!Init
  <2> SUFFICES ASSUME ModesInit PROVE RF!Init
    OBVIOUS
  <2>1. regs \in RegisterArrays /\ regs.mode = "System" /\ did = NoEffect
    BY InitType DEF ModesTypeOK, ModesInit
  <2>2. \A cell \in Cells : FileOf(regs)[cell] \in Value
    <3>1. /\ regs.r \in [Reg -> Value] /\ regs.banked \in [Bank -> [Banked -> Value]]
          /\ regs.fiq \in [FiqBanked -> Value] /\ regs.usr \in [FiqBanked -> Value]
      BY <2>1, ArrayFields
    <3>2. ASSUME NEW cell \in Cells PROVE FileOf(regs)[cell] \in Value
      <4>1. PICK b \in Bank, x \in Reg :
                /\ cell = <<b, x>> /\ cell[1] = b /\ cell[2] = x
                /\ x \in FiqBanked => b \in {"User", "Fiq"}
                /\ x \in Unbanked => b = "User"
        BY CellShape
      <4>2. x \in Unbanked => b = Holder(regs.mode, x)
        BY <4>1, RegNumbers DEF Holder
      <4> QED BY <3>1, <4>1, <4>2, RegNumbers DEF FileOf
    <3> QED BY <3>2
  <2>3. FileOf(regs) \in [Cells -> Value]
    BY <2>2 DEF FileOf
  <2> QED BY <2>1, <2>3
          DEF RF!Init, RF!Cells, Cells, RF!Holder, Holder, RF!BankOf, BankOf,
              RF!Mode, Mode, RF!Reg, Reg, RF!None, None,
              RF!NoEffect, NoEffect, RF!Effect, Effect
<1>2. ModesTypeOK /\ StepFacts => [RF!Next]_(<<FileOf(regs), regs.mode, did>>)
  BY StepRefines
<1> QED BY <1>1, <1>2, StepLemma, CpuModesTypeOK, PTL DEF ModesSpec, ImplementsRegisterFile, RF!Spec
=============================================================================
