----------------------------- MODULE SaveProofs -----------------------------
(***************************************************************************)
(* Proofs about Cartridge: the flash invariants, that the EEPROM state     *)
(* machine implements SerialStore, and that the port implements RtcChip.   *)
(***************************************************************************)
EXTENDS Cartridge, SequenceTheorems, WellFoundedInduction, TLAPS

Writes == [local : Local, val : Byte]

\* The writes that led to a state of the command sequence, and what the flags
\* and the type of the chip say about it.
FlashInv ==
    /\ FlashTypeOK
    /\ flash_state = "Cmd1" => recent[1] = "first"
    /\ flash_state = "Cmd2" => recent[2] = "first" /\ recent[1] = "second"
    /\ flash_state = "Write" => recent[3] = "first" /\ recent[2] = "second" /\ recent[1] = "A0"
    /\ flash_erase_pending => armed
    /\ flash_state = "BankSelect" => save_type = "Flash128"
    /\ SmallChipHasOneBank

-----------------------------------------------------------------------------
(* Flash *)

LEMMA FlashInitInv == FlashInit => FlashInv
<1> SUFFICES ASSUME FlashInit PROVE FlashInv
  OBVIOUS
<1>1. data \in [Cell -> SUBSET FlashBit] /\ recent \in [1 .. 3 -> Kinds]
  BY DEF FlashInit, Kinds
<1>2. FlashTypeOK
  <2>1. flash_bank \in Banks /\ flash_state \in {"Ready"}
    BY DEF FlashInit, Banks
  <2> QED BY <1>1, <2>1 DEF FlashInit, FlashTypeOK
<1>3. SmallChipHasOneBank
  BY DEF FlashInit, SmallChipHasOneBank, Cell, Banks
<1> QED BY <1>2, <1>3 DEF FlashInit, FlashInv

LEMMA WriteParts ==
    ASSUME NEW w \in Writes
    PROVE  w.local \in Local /\ w.val \in Byte /\ w.val \in Nat
<1>1. w.local \in Local /\ w.val \in Byte
  BY DEF Writes
<1>2. \A b \in Byte : b \in Nat
  BY ByteAssumption
<1> QED BY <1>1, <1>2

LEMMA KindFacts ==
    ASSUME NEW w \in Writes
    PROVE  /\ Kind(w) \in Kinds
           /\ First(w) => Kind(w) = "first"
           /\ Second(w) => Kind(w) = "second"
           /\ w = [local |-> H5555, val |-> 160] => Kind(w) = "A0"
BY DEF Writes, Kind, Kinds, First, Second, H5555, H2AAA, HAA, H55

LEMMA RecentFacts ==
    ASSUME NEW w \in Writes, recent \in [1 .. 3 -> Kinds],
           recent' = <<Kind(w), recent[1], recent[2]>>
    PROVE  /\ recent' \in [1 .. 3 -> Kinds]
           /\ recent'[1] = Kind(w) /\ recent'[2] = recent[1] /\ recent'[3] = recent[2]
BY KindFacts

LEMMA FlashTypes ==
    ASSUME FlashTypeOK, NEW w \in Writes, FlashWrite(w)
    PROVE  FlashTypeOK'
<1> USE DEF FlashTypeOK
<1>1. recent' \in [1 .. 3 -> Kinds] /\ armed' \in BOOLEAN /\ save_type' = save_type
  BY RecentFacts DEF FlashWrite
<1>2. w.local \in Local /\ w.val \in Byte /\ w.val \in Nat
  BY WriteParts
<1>3. CASE AtReady(w) \/ AtCmd1(w)
  BY <1>1, <1>3 DEF AtReady, AtCmd1, flags
<1>4. CASE EraseCommand(w)
  BY <1>1, <1>4 DEF EraseCommand
<1>5. CASE Command(w)
  BY <1>1, <1>5 DEF Command, AfterCommand
<1>6. CASE AtErase(w)
  BY <1>1, <1>6 DEF AtErase
<1>7. CASE Program(w)
  <2>1. data' \in [Cell -> SUBSET FlashBit]
    BY <1>2, <1>7 DEF Program, Cell
  <2> QED BY <1>1, <1>7, <2>1 DEF Program, flags
<1>8. CASE SelectBank(w)
  <2>1. w.val % 2 \in Banks
    BY <1>2 DEF Banks
  <2> QED BY <1>1, <1>8, <2>1 DEF SelectBank, flags
<1> QED BY <1>3, <1>4, <1>5, <1>6, <1>7, <1>8 DEF FlashWrite

LEMMA FlashSteps ==
    ASSUME FlashInv, NEW w \in Writes, FlashWrite(w)
    PROVE  FlashInv'
<1>1. FlashTypeOK'
  BY FlashTypes DEF FlashInv
<1>2. /\ recent'[1] = Kind(w) /\ recent'[2] = recent[1] /\ recent'[3] = recent[2]
      /\ save_type' = save_type
  BY RecentFacts DEF FlashInv, FlashTypeOK, FlashWrite
<1>3. armed' = IF flash_state = "Cmd2" THEN w = [local |-> H5555, val |-> 128] ELSE armed
  BY DEF FlashWrite
<1> USE <1>1, <1>2, <1>3 DEF FlashInv
<1>4. CASE AtReady(w)
  BY <1>4, KindFacts DEF AtReady, flags, SmallChipHasOneBank
<1>5. CASE AtCmd1(w)
  BY <1>5, KindFacts DEF AtCmd1, flags, SmallChipHasOneBank
<1>6. CASE EraseCommand(w)
  <2>1. SmallChipHasOneBank'
    BY <1>6 DEF EraseCommand, SmallChipHasOneBank, Cell, Banks
  <2> QED BY <1>6, <2>1 DEF EraseCommand
<1>7. CASE Command(w)
  <2>1. AfterCommand(w) = "Write" => w = [local |-> H5555, val |-> 160]
    BY DEF AfterCommand, Writes
  <2>2. AfterCommand(w) = "Erase" => w = [local |-> H5555, val |-> 128]
    BY DEF AfterCommand, Writes
  <2>3. AfterCommand(w) = "BankSelect" => save_type = "Flash128"
    BY DEF AfterCommand
  <2>4. AfterCommand(w) \notin {"Cmd1", "Cmd2"}
    BY DEF AfterCommand
  <2>5. SmallChipHasOneBank'
    BY <1>7 DEF Command, SmallChipHasOneBank
  <2> QED BY <1>7, <2>1, <2>2, <2>3, <2>4, <2>5, KindFacts DEF Command
<1>8. CASE AtErase(w)
  BY <1>8, KindFacts DEF AtErase, SmallChipHasOneBank
<1>9. CASE Program(w)
  <2>1. SmallChipHasOneBank'
    BY <1>9 DEF Program, SmallChipHasOneBank, FlashTypeOK, Cell, Banks
  <2> QED BY <1>9, <2>1 DEF Program, flags
<1>10. CASE SelectBank(w)
  BY <1>10 DEF SelectBank, flags, SmallChipHasOneBank
<1> QED BY <1>4, <1>5, <1>6, <1>7, <1>8, <1>9, <1>10 DEF FlashWrite

LEMMA FlashNextInv == FlashInv /\ [Next]_saveVars => FlashInv'
<1> SUFFICES ASSUME FlashInv, [Next]_saveVars PROVE FlashInv'
  OBVIOUS
<1>1. CASE FlashNext
  BY <1>1, FlashSteps DEF FlashNext, Writes
<1>2. CASE UNCHANGED flashVars
  BY <1>2 DEF flashVars, FlashInv, FlashTypeOK, SmallChipHasOneBank
<1> QED BY <1>1, <1>2 DEF Next, FlashAccess, EepromAccess, saveVars

\* Every write finds a state that the last three writes explain.
THEOREM SaveFlashInvariant == Spec => []FlashInv
<1>1. Init => FlashInv
  BY FlashInitInv DEF Init
<1> QED BY <1>1, FlashNextInv, PTL DEF Spec

\* Only the write that directly follows a complete unlock sequence, or that
\* sequence and A0, changes a byte of the flash memory.
THEOREM SaveChangesNeedUnlock == Spec => ChangesNeedUnlock
<1>1. ASSUME FlashInv, [Next]_saveVars
      PROVE  [data' # data =>
                 \/ recent[2] = "first" /\ recent[1] = "second"
                 \/ /\ recent[3] = "first" /\ recent[2] = "second"
                    /\ recent[1] = "A0"]_flashVars
  <2> SUFFICES ASSUME data' # data
               PROVE  \/ recent[2] = "first" /\ recent[1] = "second"
                      \/ recent[3] = "first" /\ recent[2] = "second" /\ recent[1] = "A0"
    OBVIOUS
  <2>1. PICK w \in Writes : FlashWrite(w)
    BY <1>1 DEF Next, FlashAccess, EepromAccess, FlashNext, saveVars, flashVars, Writes
  <2>2. EraseCommand(w) \/ Program(w)
    BY <2>1 DEF FlashWrite, AtReady, AtCmd1, Command, AtErase, SelectBank
  <2> QED BY <1>1, <2>2 DEF EraseCommand, Program, FlashInv
<1> QED BY <1>1, SaveFlashInvariant, PTL DEF Spec, ChangesNeedUnlock

\* Erasing needs the erase prefix as the last completed command.
THEOREM SaveErasesNeedPrefix == Spec => ErasesNeedPrefix
<1>1. ASSUME FlashInv, [Next]_saveVars
      PROVE  [(\E c \in Cell : ~(data'[c] \subseteq data[c])) => armed]_flashVars
  <2> SUFFICES ASSUME NEW c \in Cell, ~(data'[c] \subseteq data[c]) PROVE armed
    OBVIOUS
  <2>1. data' # data
    OBVIOUS
  <2>2. PICK w \in Writes : FlashWrite(w)
    BY <1>1, <2>1 DEF Next, FlashAccess, EepromAccess, FlashNext, saveVars, flashVars, Writes
  <2>3. ~Program(w)
    <3> SUFFICES ASSUME Program(w) PROVE FALSE
      OBVIOUS
    <3> QED BY <1>1 DEF Program, FlashInv, FlashTypeOK
  <2>4. EraseCommand(w)
    BY <2>1, <2>2, <2>3 DEF FlashWrite, AtReady, AtCmd1, Command, AtErase, SelectBank
  <2> QED BY <1>1, <2>4 DEF EraseCommand, FlashInv
<1> QED BY <1>1, SaveFlashInvariant, PTL DEF Spec, ErasesNeedPrefix

\* A 64 KB chip stays in its lower half.
THEOREM SaveSmallChip == Spec => []SmallChipHasOneBank
<1>1. FlashInv => SmallChipHasOneBank
  BY DEF FlashInv
<1> QED BY <1>1, SaveFlashInvariant, PTL

-----------------------------------------------------------------------------
(* Sequences of bits *)

LEMMA BitSequences ==
    ASSUME NEW n \in Nat
    PROVE  /\ \A f \in [1 .. n -> Bit] : f \in Seq(Bit) /\ Len(f) = n
           /\ \A s \in Seq(Bit) : Len(s) = n => s \in [1 .. n -> Bit]
           /\ \A b \in Bit : Fill(n, b) \in [1 .. n -> Bit]
<1>1. \A f \in [1 .. n -> Bit] : f \in Seq(Bit) /\ Len(f) = n
  OBVIOUS
<1>2. \A s \in Seq(Bit) : Len(s) = n => s \in [1 .. n -> Bit]
  BY LenProperties
<1>3. \A b \in Bit : Fill(n, b) \in [1 .. n -> Bit]
  BY DEF Fill
<1> QED BY <1>1, <1>2, <1>3

\* A request for a write: opcode, address, the bits of the block so far.
Request(a, c) == <<1, 0>> \o a \o c

LEMMA RequestFacts ==
    ASSUME NEW a \in Address, NEW c \in Seq(Bit)
    PROVE  /\ Request(a, c) \in Seq(Bit)
           /\ Len(Request(a, c)) = 2 + AddrBits + Len(c)
           /\ Request(a, c)[1] = 1 /\ Request(a, c)[2] = 0
           /\ SubSeq(Request(a, c), 3, 2 + AddrBits) = a
           /\ SubSeq(Request(a, c), 2 + AddrBits + 1, 2 + AddrBits + Len(c)) = c
           /\ \A b \in Bit : Append(Request(a, c), b) = Request(a, Append(c, b))
<1> DEFINE op == <<1, 0>>
           h == op \o a
           r == Request(a, c)
<1>1. op \in Seq(Bit) /\ Len(op) = 2 /\ op[1] = 1 /\ op[2] = 0
  BY DEF Bit
<1>2. a \in Seq(Bit) /\ Len(a) = AddrBits /\ AddrBits \in Nat \ {0}
  BY BitSequences, EepromAssumption DEF Address
<1>3. /\ h \in Seq(Bit) /\ Len(h) = 2 + AddrBits
      /\ \A i \in 1 .. 2 + AddrBits : h[i] = IF i <= 2 THEN op[i] ELSE a[i - 2]
  BY <1>1, <1>2, ConcatProperties
<1>4. r = h \o c
  BY DEF Request
<1> HIDE DEF op, h, r
<1>5. /\ r \in Seq(Bit) /\ Len(r) = 2 + AddrBits + Len(c)
      /\ \A i \in 1 .. 2 + AddrBits + Len(c) :
             r[i] = IF i <= 2 + AddrBits THEN h[i] ELSE c[i - (2 + AddrBits)]
  <2>1. \A i \in 1 .. Len(h) + Len(c) :
            (h \o c)[i] = IF i <= Len(h) THEN h[i] ELSE c[i - Len(h)]
    BY <1>3, ConcatProperties
  <2>2. h \o c \in Seq(Bit) /\ Len(h \o c) = Len(h) + Len(c)
    BY <1>3, ConcatProperties
  <2> QED BY <1>3, <1>4, <2>1, <2>2
<1>6. r[1] = 1 /\ r[2] = 0
  BY <1>1, <1>2, <1>3, <1>5
<1>7. SubSeq(r, 3, 2 + AddrBits) = a
  <2> DEFINE t == SubSeq(r, 3, 2 + AddrBits)
  <2>1. /\ t \in Seq(Bit) /\ Len(t) = AddrBits
        /\ \A i \in 1 .. AddrBits : t[i] = r[i + 2]
    BY <1>2, <1>5, SubSeqProperties, ElementOfSeq
  <2>2. \A i \in 1 .. AddrBits : r[i + 2] = a[i]
    BY <1>2, <1>3, <1>5
  <2> HIDE DEF t
  <2>3. t = a
    BY <1>2, <2>1, <2>2, SeqEqual
  <2> QED BY <2>3 DEF t
<1>8. SubSeq(r, 2 + AddrBits + 1, 2 + AddrBits + Len(c)) = c
  <2> DEFINE t == SubSeq(r, 2 + AddrBits + 1, 2 + AddrBits + Len(c))
  <2>1. /\ t \in Seq(Bit) /\ Len(t) = Len(c)
        /\ \A i \in 1 .. Len(c) : t[i] = r[2 + AddrBits + i]
    <3>1. Len(c) \in Nat /\ 2 + AddrBits + 1 \in Int /\ 2 + AddrBits + Len(c) \in Int
      BY <1>2
    <3>2. \A i \in 2 + AddrBits + 1 .. 2 + AddrBits + Len(c) : r[i] \in Bit
      BY <1>2, <1>5, <3>1, ElementOfSeq
    <3>3. /\ t \in Seq(Bit)
          /\ Len(t) = IF 2 + AddrBits + 1 <= 2 + AddrBits + Len(c)
                       THEN (2 + AddrBits + Len(c)) - (2 + AddrBits + 1) + 1 ELSE 0
          /\ \A i \in 1 .. (2 + AddrBits + Len(c)) - (2 + AddrBits + 1) + 1 :
                 t[i] = r[(2 + AddrBits + 1) + i - 1]
      BY <3>1, <3>2, SubSeqProperties
    <3> HIDE DEF t
    <3> QED BY <1>2, <3>1, <3>3
  <2>2. \A i \in 1 .. Len(c) : r[2 + AddrBits + i] = c[i]
    BY <1>2, <1>5
  <2> HIDE DEF t
  <2>3. t = c
    BY <2>1, <2>2, SeqEqual
  <2> QED BY <2>3 DEF t
<1>9. ASSUME NEW b \in Bit PROVE Append(r, b) = h \o Append(c, b)
  BY <1>3, <1>4
<1>10. \A b \in Bit : h \o Append(c, b) = Request(a, Append(c, b))
  BY DEF Request, h, op
<1> QED BY <1>5, <1>6, <1>7, <1>8, <1>9, <1>10 DEF r

\* The burst of a block, and what reading its next bit leaves.
LEMMA BurstFacts ==
    ASSUME NEW b \in Block, NEW pos \in 0 .. Leading + DataBits - 1
    PROVE  LET all == Fill(Leading, 0) \o b
               n == Leading + DataBits
           IN  /\ all \in Seq(Bit) /\ Len(all) = n
               /\ SubSeq(all, 1, n) = all
               /\ SubSeq(all, pos + 1, n) # <<>>
               /\ Head(SubSeq(all, pos + 1, n)) =
                      IF pos < Leading THEN 0 ELSE b[pos - Leading + 1]
               /\ Tail(SubSeq(all, pos + 1, n)) =
                      IF pos + 1 = n THEN <<>> ELSE SubSeq(all, pos + 2, n)
<1> DEFINE z == Fill(Leading, 0)
           all == z \o b
           n == Leading + DataBits
<1>1. Leading \in Nat /\ DataBits \in Nat \ {0}
  BY EepromAssumption
<1>2. z \in Seq(Bit) /\ Len(z) = Leading /\ \A i \in 1 .. Leading : z[i] = 0
  BY <1>1, BitSequences DEF Fill, Bit
<1>3. b \in Seq(Bit) /\ Len(b) = DataBits
  BY <1>1, BitSequences DEF Block
<1> HIDE DEF z
<1>4. /\ all \in Seq(Bit) /\ Len(all) = n
      /\ \A i \in 1 .. n : all[i] = IF i <= Leading THEN z[i] ELSE b[i - Leading]
  BY <1>1, <1>2, <1>3, ConcatProperties
<1> HIDE DEF all
<1>5. n \in Nat /\ pos + 1 \in 1 .. n /\ n \in pos + 1 .. n
  BY <1>1
<1>6. SubSeq(all, 1, n) = all
  BY <1>4, SubSeqFull
<1>7. /\ Head(SubSeq(all, pos + 1, n)) = all[pos + 1]
      /\ Tail(SubSeq(all, pos + 1, n)) = SubSeq(all, (pos + 1) + 1, n)
  BY <1>4, <1>5, HeadTailOfSubSeq
<1>8. SubSeq(all, pos + 1, n) # <<>>
  <2>1. \A i \in pos + 1 .. n : all[i] \in Bit
    BY <1>4, <1>5, ElementOfSeq
  <2>2. Len(SubSeq(all, pos + 1, n)) = IF pos + 1 <= n THEN n - (pos + 1) + 1 ELSE 0
    BY <1>5, <2>1, SubSeqProperties
  <2>3. Len(SubSeq(all, pos + 1, n)) # 0
    BY <1>5, <2>2
  <2>4. Len(<<>>) = 0
    OBVIOUS
  <2> QED BY <2>3, <2>4, Zenon
<1>9. all[pos + 1] = IF pos < Leading THEN 0 ELSE b[pos - Leading + 1]
  BY <1>1, <1>2, <1>4, <1>5
<1>10. pos + 1 = n => SubSeq(all, (pos + 1) + 1, n) = <<>>
  BY <1>5, SubSeqEmpty
<1>11. (pos + 1) + 1 = pos + 2
  OBVIOUS
<1> QED BY <1>4, <1>6, <1>7, <1>8, <1>9, <1>10, <1>11 DEF all, z

-----------------------------------------------------------------------------
(* EEPROM *)

LEMMA EepromInitInv == EepromInit => EepromTypeOK
<1> SUFFICES ASSUME EepromInit PROVE EepromTypeOK
  OBVIOUS
<1>1. AddrBits \in Nat \ {0} /\ DataBits \in Nat \ {0} /\ Leading \in Nat
  BY EepromAssumption
<1>2. Fill(DataBits, 1) \in Block /\ Fill(DataBits, 0) \in Block /\ Fill(AddrBits, 0) \in Address
  BY <1>1, BitSequences DEF Block, Address, Bit
<1>3. blocks \in [Address -> Block]
  BY <1>2 DEF EepromInit
<1>4. eeprom_command \in Seq(Bit) /\ Len(eeprom_command) = 0
  BY DEF EepromInit
<1>5. Len(eeprom_command) < 2 + AddrBits /\ eeprom_state = "Idle"
  BY <1>1, <1>4 DEF EepromInit
<1>6. eeprom_read_pos \in 0 .. Leading + DataBits /\ out \in Bit
  <2>1. eeprom_read_pos = 0 /\ out = 1
    BY DEF EepromInit
  <2>2. 0 \in 0 .. Leading + DataBits
    BY <1>1
  <2> QED BY <2>1, <2>2 DEF Bit
<1>7. eeprom_address \in Address /\ eeprom_read_buffer \in Block /\ eeprom_command = <<>>
  BY <1>2 DEF EepromInit
<1> QED BY <1>3, <1>4, <1>5, <1>6, <1>7 DEF EepromTypeOK

\* What a full shift register holds.
LEMMA CommandFacts ==
    ASSUME NEW c \in Seq(Bit), Len(c) = 2 + AddrBits
    PROVE  /\ c[1] \in Bit /\ c[2] \in Bit
           /\ SubSeq(c, 3, 2 + AddrBits) \in Address
           /\ c[1] = 1 /\ c[2] = 0 => c = Request(SubSeq(c, 3, 2 + AddrBits), <<>>)
<1> DEFINE a == SubSeq(c, 3, 2 + AddrBits)
<1>1. AddrBits \in Nat \ {0}
  BY EepromAssumption
<1>2. \A i \in 1 .. 2 + AddrBits : c[i] \in Bit
  BY <1>1, ElementOfSeq
<1>3. a \in Seq(Bit) /\ Len(a) = AddrBits /\ \A i \in 1 .. AddrBits : a[i] = c[i + 2]
  <2>1. \A i \in 3 .. 2 + AddrBits : c[i] \in Bit
    BY <1>1, <1>2
  <2>2. 3 \in Int /\ 2 + AddrBits \in Int
    BY <1>1
  <2>3. /\ a \in Seq(Bit)
        /\ Len(a) = IF 3 <= 2 + AddrBits THEN (2 + AddrBits) - 3 + 1 ELSE 0
        /\ \A i \in 1 .. (2 + AddrBits) - 3 + 1 : a[i] = c[3 + i - 1]
    BY <2>1, <2>2, SubSeqProperties
  <2> HIDE DEF a
  <2> QED BY <1>1, <2>3
<1> HIDE DEF a
<1>4. a \in Address
  BY <1>1, <1>3, BitSequences DEF Address
<1>5. ASSUME c[1] = 1, c[2] = 0 PROVE c = Request(a, <<>>)
  <2> DEFINE op == <<1, 0>>
  <2>1. op \in Seq(Bit) /\ Len(op) = 2 /\ op[1] = 1 /\ op[2] = 0
    BY DEF Bit
  <2> HIDE DEF op
  <2>2. /\ op \o a \in Seq(Bit) /\ Len(op \o a) = 2 + AddrBits
        /\ \A i \in 1 .. 2 + AddrBits : (op \o a)[i] = IF i <= 2 THEN op[i] ELSE a[i - 2]
    <3>1. /\ op \o a \in Seq(Bit) /\ Len(op \o a) = Len(op) + Len(a)
          /\ \A i \in 1 .. Len(op) + Len(a) :
                 (op \o a)[i] = IF i <= Len(op) THEN op[i] ELSE a[i - Len(op)]
      BY <1>3, <2>1, ConcatProperties
    <3> QED BY <1>3, <2>1, <3>1
  <2>3. \A i \in 1 .. 2 + AddrBits : c[i] = (op \o a)[i]
    BY <1>1, <1>3, <1>5, <2>1, <2>2
  <2>4. c = op \o a
    BY <2>2, <2>3, SeqEqual
  <2> QED BY <2>2, <2>4, ConcatEmptySeq DEF Request, op
<1> QED BY <1>1, <1>2, <1>4, <1>5 DEF a

SerialStep == ES!Next \/ UNCHANGED <<blocks, Sent, Burst, out>>

LEMMA CommandBitStep ==
    ASSUME EepromTypeOK, NEW bit \in Bit, WriteBit(bit), CommandBit(bit)
    PROVE  EepromTypeOK' /\ SerialStep
<1> DEFINE s == Append(eeprom_command, bit)
<1>1. s \in Seq(Bit) /\ Len(s) = Len(eeprom_command) + 1 /\ s # <<>>
  BY AppendProperties DEF EepromTypeOK
<1>2. /\ eeprom_command' = s /\ Len(s) < 2 + AddrBits
      /\ eeprom_state \notin {"WritingData", "ReadingData"} /\ eeprom_state' = "ReadingCommand"
      /\ UNCHANGED <<blocks, eeprom_address, eeprom_read_buffer, eeprom_read_pos, out>>
  BY DEF CommandBit, Shifted, WriteBit
<1>4. AddrBits \in Nat \ {0} /\ DataBits \in Nat \ {0}
  BY EepromAssumption
<1> HIDE DEF s
<1>5. EepromTypeOK'
  BY <1>1, <1>2 DEF EepromTypeOK
<1>6. Sent = eeprom_command /\ Sent' = s /\ Burst = <<>> /\ Burst' = <<>>
  BY <1>2 DEF Sent, Burst
<1>7. ~ES!Read(s) /\ ~ES!Write(s) /\ ~ES!Unknown(s)
  BY <1>1, <1>2, <1>4 DEF ES!Read, ES!Write, ES!Unknown, ES!Header
<1>8. ES!Send(bit)
  BY <1>2, <1>6, <1>7 DEF ES!Send, s
<1> QED BY <1>5, <1>8 DEF SerialStep, ES!Next, ES!Bit, Bit

LEMMA LastCommandBitStep ==
    ASSUME EepromTypeOK, NEW bit \in Bit, WriteBit(bit), LastCommandBit(bit)
    PROVE  EepromTypeOK' /\ SerialStep
<1> DEFINE s == Append(eeprom_command, bit)
           a == SubSeq(s, 3, 2 + AddrBits)
<1>1. s \in Seq(Bit) /\ Len(s) = Len(eeprom_command) + 1
  BY AppendProperties DEF EepromTypeOK
<1>2. /\ Len(s) = 2 + AddrBits /\ eeprom_address' = a /\ eeprom_command' = <<>>
      /\ eeprom_state \notin {"WritingData", "ReadingData"}
      /\ UNCHANGED <<blocks, out>>
  BY DEF LastCommandBit, Shifted, WriteBit
<1>3. /\ s[1] \in Bit /\ s[2] \in Bit /\ a \in Address
      /\ s[1] = 1 /\ s[2] = 0 => s = Request(a, <<>>)
  BY <1>1, <1>2, CommandFacts
<1>4. \/ /\ s[1] = 1 /\ s[2] = 1
         /\ eeprom_read_buffer' = blocks[a] /\ eeprom_read_pos' = 0
         /\ eeprom_state' = "ReadingData"
      \/ /\ s[1] = 1 /\ s[2] = 0 /\ eeprom_state' = "WritingData"
         /\ UNCHANGED <<eeprom_read_buffer, eeprom_read_pos>>
      \/ /\ s[1] = 0 /\ eeprom_state' = "Idle"
         /\ UNCHANGED <<eeprom_read_buffer, eeprom_read_pos>>
  BY DEF LastCommandBit, Shifted
<1>6. AddrBits \in Nat \ {0} /\ DataBits \in Nat \ {0} /\ Leading \in Nat
  BY EepromAssumption
<1>7. blocks[a] \in Block
  BY <1>3 DEF EepromTypeOK
<1>8. <<>> \in Seq(Bit) /\ Len(<<>>) = 0
  OBVIOUS
<1> HIDE DEF s, a
<1>9. EepromTypeOK'
  <2>1. eeprom_read_buffer' \in Block
    BY <1>4, <1>7 DEF EepromTypeOK
  <2>2. /\ eeprom_read_pos' \in 0 .. Leading + DataBits
        /\ eeprom_state' = "ReadingData" => eeprom_read_pos' < Leading + DataBits
    BY <1>4, <1>6 DEF EepromTypeOK
  <2>3. /\ eeprom_state' \in {"Idle", "ReadingCommand", "ReadingData", "WritingData"}
        /\ eeprom_command' \in Seq(Bit)
        /\ Len(eeprom_command') <
               (IF eeprom_state' = "WritingData" THEN DataBits ELSE 2 + AddrBits)
    BY <1>2, <1>4, <1>6, <1>8
  <2> QED BY <1>2, <1>3, <2>1, <2>2, <2>3 DEF EepromTypeOK
<1>10. Sent = eeprom_command /\ Burst = <<>>
  BY <1>2 DEF Sent, Burst
<1>11. /\ ~ES!Write(s)
       /\ ES!Read(s) <=> s[1] = 1 /\ s[2] = 1
       /\ ES!Unknown(s) <=> s[1] = 0
       /\ ES!AddressIn(s) = a
  <2>1. ES!Header = 2 + AddrBits
    BY DEF ES!Header
  <2>2. ES!Opcode(s) = <<s[1], s[2]>>
    BY DEF ES!Opcode
  <2>3. ~ES!Write(s) /\ ES!AddressIn(s) = a
    BY <1>2, <1>6, <2>1 DEF ES!Write, ES!AddressIn, a
  <2>4. (s[1] = 1 \/ s[1] = 0) /\ (s[2] = 1 \/ s[2] = 0)
    BY <1>3 DEF Bit
  <2> QED BY <1>2, <2>1, <2>2, <2>3, <2>4 DEF ES!Read, ES!Unknown
<1>12. Sent' = IF s[1] = 1 /\ s[2] = 0 THEN s ELSE <<>>
  <2>1. CASE s[1] = 1 /\ s[2] = 0
    BY <1>2, <1>3, <1>4, <2>1 DEF Sent, Request
  <2>2. CASE ~(s[1] = 1 /\ s[2] = 0)
    BY <1>2, <1>4, <2>2 DEF Sent
  <2> QED BY <2>1, <2>2
<1>13. Burst' = IF s[1] = 1 /\ s[2] = 1 THEN ES!Zeros \o blocks[a] ELSE <<>>
  <2>1. CASE s[1] = 1 /\ s[2] = 1
    <3>1. eeprom_state' = "ReadingData" /\ eeprom_read_buffer' = blocks[a] /\ eeprom_read_pos' = 0
      BY <1>4, <2>1
    <3>2. SubSeq(Fill(Leading, 0) \o blocks[a], 1, Leading + DataBits) =
              Fill(Leading, 0) \o blocks[a]
      BY <1>6, <1>7, BurstFacts
    <3>3. Fill(Leading, 0) = ES!Zeros
      BY DEF Fill, ES!Zeros
    <3>4. eeprom_read_pos' + 1 = 1
      BY <3>1
    <3>5. Burst' = SubSeq(Fill(Leading, 0) \o eeprom_read_buffer', eeprom_read_pos' + 1,
                          Leading + DataBits)
      BY <3>1 DEF Burst, Fill
    <3>6. Burst' = ES!Zeros \o blocks[a]
      BY <3>1, <3>2, <3>3, <3>4, <3>5, Zenon
    <3> QED BY <2>1, <3>6
  <2>2. CASE ~(s[1] = 1 /\ s[2] = 1)
    BY <1>4, <2>2 DEF Burst
  <2> QED BY <2>1, <2>2
<1>14. ES!Send(bit)
  <2>1. Sent' = IF ES!Read(s) \/ ES!Write(s) \/ ES!Unknown(s) THEN <<>> ELSE s
    BY <1>3, <1>11, <1>12 DEF Bit
  <2>2. Burst' = IF ES!Read(s) THEN ES!Zeros \o blocks[ES!AddressIn(s)] ELSE <<>>
    BY <1>11, <1>13
  <2> QED BY <1>2, <1>10, <1>11, <2>1, <2>2 DEF ES!Send, s
<1> QED BY <1>9, <1>14 DEF SerialStep, ES!Next, ES!Bit, Bit

LEMMA DataBitStep ==
    ASSUME EepromTypeOK, NEW bit \in Bit, WriteBit(bit), DataBit(bit)
    PROVE  EepromTypeOK' /\ SerialStep
<1> DEFINE c == Append(eeprom_command, bit)
           r == Request(eeprom_address, c)
<1>1. c \in Seq(Bit) /\ Len(c) = Len(eeprom_command) + 1
  BY AppendProperties DEF EepromTypeOK
<1>2. /\ eeprom_state = "WritingData"
      /\ UNCHANGED <<eeprom_address, eeprom_read_buffer, eeprom_read_pos, out>>
      /\ \/ /\ Len(c) = DataBits /\ blocks' = [blocks EXCEPT ![eeprom_address] = c]
            /\ eeprom_state' = "Idle" /\ eeprom_command' = <<>>
         \/ Len(c) # DataBits /\ eeprom_command' = c /\ UNCHANGED <<blocks, eeprom_state>>
  BY DEF DataBit, Shifted, WriteBit
<1>4. AddrBits \in Nat \ {0} /\ DataBits \in Nat \ {0} /\ Leading \in Nat
  BY EepromAssumption
<1>5. Len(eeprom_command) \in Nat /\ Len(eeprom_command) < DataBits
  BY <1>2 DEF EepromTypeOK
<1>6. eeprom_address \in Address /\ eeprom_command \in Seq(Bit)
  BY DEF EepromTypeOK
<1> HIDE DEF c
<1>7. /\ r \in Seq(Bit) /\ Len(r) = 2 + AddrBits + Len(c)
      /\ SubSeq(r, 3, 2 + AddrBits) = eeprom_address
      /\ SubSeq(r, 2 + AddrBits + 1, 2 + AddrBits + Len(c)) = c
  BY <1>1, <1>6, RequestFacts
<1>8. Append(Sent, bit) = r
  BY <1>2, <1>6, RequestFacts DEF Sent, Request, c
<1>9. Burst = <<>> /\ Burst' = <<>>
  BY <1>2 DEF Burst
<1> HIDE DEF r
<1>10. ~ES!Read(r) /\ ~ES!Unknown(r) /\ (ES!Write(r) <=> Len(c) = DataBits)
  <2>0. \A m, l \in Nat : /\ l # 0 => 2 + m + l # 2 + m
                          /\ 2 + m + l = 2 + m + DataBits <=> l = DataBits
    BY <1>4
  <2>1. Len(c) \in Nat /\ Len(c) # 0
    BY <1>1, <1>5
  <2>2. Len(r) # 2 + AddrBits /\ (Len(r) = 2 + AddrBits + DataBits <=> Len(c) = DataBits)
    BY <1>4, <1>7, <2>0, <2>1, Zenon
  <2>3. /\ 2 + AddrBits + 0 = 2 + AddrBits
        /\ 2 + AddrBits + DataBits + 0 = 2 + AddrBits + DataBits
    BY <1>4
  <2> QED BY <2>2, <2>3 DEF ES!Read, ES!Unknown, ES!Write, ES!Header
<1>11. CASE Len(c) = DataBits
  <2>1. /\ blocks' = [blocks EXCEPT ![eeprom_address] = c]
        /\ eeprom_state' = "Idle" /\ eeprom_command' = <<>>
    BY <1>2, <1>11
  <2>2. c \in Block
    BY <1>1, <1>4, <1>11, BitSequences DEF Block
  <2>3. blocks' \in [Address -> Block]
    BY <1>6, <2>1, <2>2 DEF EepromTypeOK
  <2>4. <<>> \in Seq(Bit) /\ Len(<<>>) = 0
    OBVIOUS
  <2>5. Len(eeprom_command') < 2 + AddrBits
    BY <1>4, <2>1, <2>4
  <2>6. EepromTypeOK'
    BY <1>2, <2>1, <2>3, <2>4, <2>5 DEF EepromTypeOK
  <2>7. Sent' = <<>>
    BY <2>1 DEF Sent
  <2>8. ES!AddressIn(r) = eeprom_address /\ SubSeq(r, ES!Header + 1, ES!Header + DataBits) = c
    BY <1>7, <1>11 DEF ES!AddressIn, ES!Header
  <2>9. ES!Send(bit)
    BY <1>2, <1>8, <1>9, <1>10, <1>11, <2>1, <2>7, <2>8 DEF ES!Send
  <2> QED BY <2>6, <2>9 DEF SerialStep, ES!Next, ES!Bit, Bit
<1>12. CASE Len(c) # DataBits
  <2>1. eeprom_command' = c /\ UNCHANGED <<blocks, eeprom_state>>
    BY <1>2, <1>12
  <2>2. Len(c) < DataBits
    BY <1>1, <1>4, <1>5, <1>12
  <2>3. EepromTypeOK'
    BY <1>1, <1>2, <2>1, <2>2 DEF EepromTypeOK
  <2>4. Sent' = r
    BY <1>2, <2>1 DEF Sent, Request, r
  <2>5. ES!Send(bit)
    BY <1>2, <1>8, <1>9, <1>10, <1>12, <2>1, <2>4 DEF ES!Send
  <2> QED BY <2>3, <2>5 DEF SerialStep, ES!Next, ES!Bit, Bit
<1> QED BY <1>11, <1>12

LEMMA IgnoreBitStep ==
    ASSUME EepromTypeOK, NEW bit \in Bit, WriteBit(bit), IgnoreBit
    PROVE  EepromTypeOK' /\ SerialStep
<1>1. /\ UNCHANGED <<blocks, eeprom_state, eeprom_command, eeprom_address,
                    eeprom_read_buffer, eeprom_read_pos, out>>
  BY DEF IgnoreBit, WriteBit
<1>2. EepromTypeOK'
  BY <1>1 DEF EepromTypeOK
<1>3. Sent' = Sent /\ Burst' = Burst
  BY <1>1 DEF Sent, Burst
<1> QED BY <1>1, <1>2, <1>3 DEF SerialStep

LEMMA ReadBitStep ==
    ASSUME EepromTypeOK, ReadBit
    PROVE  EepromTypeOK' /\ SerialStep
<1>1. UNCHANGED <<blocks, eeprom_command, eeprom_address, eeprom_read_buffer>>
  BY DEF ReadBit
<1>2. AddrBits \in Nat \ {0} /\ DataBits \in Nat \ {0} /\ Leading \in Nat
  BY EepromAssumption
<1>3. CASE eeprom_state # "ReadingData"
  <2>1. out' = 1 /\ UNCHANGED <<eeprom_read_pos, eeprom_state>>
    BY <1>3 DEF ReadBit
  <2>2. EepromTypeOK'
    BY <1>1, <2>1 DEF EepromTypeOK, Bit
  <2>3. Sent' = Sent /\ Burst = <<>> /\ Burst' = <<>>
    BY <1>1, <1>3, <2>1 DEF Sent, Burst
  <2>4. ES!Receive
    BY <1>1, <2>1, <2>3 DEF ES!Receive
  <2> QED BY <2>2, <2>4 DEF SerialStep, ES!Next
<1>4. CASE eeprom_state = "ReadingData"
  <2> DEFINE b == eeprom_read_buffer
             pos == eeprom_read_pos
             n == Leading + DataBits
             all == Fill(Leading, 0) \o b
  <2>1. /\ out' = IF pos < Leading THEN 0 ELSE b[pos - Leading + 1]
        /\ eeprom_read_pos' = pos + 1
        /\ eeprom_state' = IF pos + 1 >= n THEN "Idle" ELSE "ReadingData"
    BY <1>4 DEF ReadBit
  <2>2. b \in Block /\ pos \in 0 .. n - 1 /\ pos \in Nat /\ n \in Nat
    BY <1>2, <1>4 DEF EepromTypeOK
  <2>3. /\ SubSeq(all, pos + 1, n) # <<>>
        /\ Head(SubSeq(all, pos + 1, n)) = IF pos < Leading THEN 0 ELSE b[pos - Leading + 1]
        /\ Tail(SubSeq(all, pos + 1, n)) =
               IF pos + 1 = n THEN <<>> ELSE SubSeq(all, pos + 2, n)
    <3>1. \A x \in Block, p \in 0 .. Leading + DataBits - 1 :
              /\ SubSeq(Fill(Leading, 0) \o x, p + 1, Leading + DataBits) # <<>>
              /\ Head(SubSeq(Fill(Leading, 0) \o x, p + 1, Leading + DataBits)) =
                     IF p < Leading THEN 0 ELSE x[p - Leading + 1]
              /\ Tail(SubSeq(Fill(Leading, 0) \o x, p + 1, Leading + DataBits)) =
                     IF p + 1 = Leading + DataBits THEN <<>>
                     ELSE SubSeq(Fill(Leading, 0) \o x, p + 2, Leading + DataBits)
      BY BurstFacts
    <3>2. b \in Block /\ pos \in 0 .. Leading + DataBits - 1
      BY <1>2, <2>2
    <3> QED BY <3>1, <3>2
  <2>4. Burst = SubSeq(all, pos + 1, n)
    BY <1>4 DEF Burst
  <2>5. out' = Head(Burst) /\ Burst # <<>>
    BY <2>1, <2>3, <2>4
  <2>6. Burst' = Tail(Burst)
    <3>1. CASE pos + 1 = n
      <4>1. eeprom_state' = "Idle"
        BY <2>1, <2>2, <3>1
      <4>2. Burst' = <<>>
        BY <4>1 DEF Burst
      <4> QED BY <2>3, <2>4, <3>1, <4>2, Zenon
    <3>2. CASE pos + 1 # n
      <4>1. eeprom_state' = "ReadingData"
        BY <2>1, <2>2, <3>2
      <4>2. Burst' = SubSeq(all, eeprom_read_pos' + 1, n)
        BY <1>1, <4>1 DEF Burst, Fill
      <4>3. eeprom_read_pos' + 1 = pos + 2
        BY <2>1, <2>2
      <4>4. Tail(Burst) = SubSeq(all, pos + 2, n)
        BY <2>3, <2>4, <3>2, Zenon
      <4> QED BY <4>2, <4>3, <4>4, Zenon
    <3> QED BY <3>1, <3>2
  <2>7. out' \in Bit
    <3>1. pos >= Leading => pos - Leading + 1 \in 1 .. DataBits
      BY <1>2, <2>2
    <3>2. \A i \in 1 .. DataBits : b[i] \in Bit
      BY <2>2 DEF Block
    <3>3. pos < Leading \/ pos >= Leading
      BY <1>2, <2>2
    <3> QED BY <2>1, <3>1, <3>2, <3>3 DEF Bit
  <2>8. eeprom_command = <<>>
    BY <1>4 DEF EepromTypeOK
  <2>9. Sent' = Sent
    BY <1>1, <1>4, <2>1 DEF Sent
  <2>10. EepromTypeOK'
    <3>1. /\ eeprom_state' \in {"Idle", "ReadingData"}
          /\ eeprom_read_pos' \in 0 .. n
          /\ eeprom_state' = "ReadingData" => eeprom_read_pos' < n
      BY <2>1, <2>2
    <3>2. eeprom_command' = <<>> /\ <<>> \in Seq(Bit) /\ Len(<<>>) = 0
      BY <1>1, <2>8
    <3>3. Len(eeprom_command') < 2 + AddrBits
      BY <1>2, <3>2
    <3>4. blocks' \in [Address -> Block] /\ eeprom_address' \in Address
          /\ eeprom_read_buffer' \in Block
      BY <1>1 DEF EepromTypeOK
    <3> HIDE DEF n
    <3> QED BY <2>7, <3>1, <3>2, <3>3, <3>4 DEF EepromTypeOK, n
  <2>11. ES!Receive
    BY <1>1, <2>5, <2>6, <2>9 DEF ES!Receive
  <2> QED BY <2>10, <2>11 DEF SerialStep, ES!Next
<1> QED BY <1>3, <1>4

LEMMA EepromNextStep ==
    ASSUME EepromTypeOK, [Next]_saveVars
    PROVE  EepromTypeOK' /\ SerialStep
<1>1. CASE EepromNext
  <2>1. CASE ReadBit
    BY <2>1, ReadBitStep
  <2>2. ASSUME NEW bit \in Bit, WriteBit(bit) PROVE EepromTypeOK' /\ SerialStep
    <3>1. CASE CommandBit(bit)
      BY <2>2, <3>1, CommandBitStep
    <3>2. CASE LastCommandBit(bit)
      BY <2>2, <3>2, LastCommandBitStep
    <3>3. CASE DataBit(bit)
      BY <2>2, <3>3, DataBitStep
    <3>4. CASE IgnoreBit
      BY <2>2, <3>4, IgnoreBitStep
    <3> QED BY <2>2, <3>1, <3>2, <3>3, <3>4 DEF WriteBit
  <2> QED BY <1>1, <2>1, <2>2 DEF EepromNext
<1>2. CASE UNCHANGED eepromVars
  <2>1. EepromTypeOK'
    BY <1>2 DEF EepromTypeOK, eepromVars
  <2>2. Sent' = Sent /\ Burst' = Burst /\ UNCHANGED <<blocks, out>>
    BY <1>2 DEF Sent, Burst, eepromVars
  <2> QED BY <2>1, <2>2 DEF SerialStep
<1> QED BY <1>1, <1>2 DEF Next, FlashAccess, EepromAccess, saveVars

\* The states of both machines, the shift register and the read position stay
\* within their bounds.
THEOREM SaveTypeOK == Spec => []TypeOK
<1>1. Init => EepromTypeOK
  BY EepromInitInv DEF Init
<1>2. EepromTypeOK /\ [Next]_saveVars => EepromTypeOK'
  BY EepromNextStep
<1>3. FlashInv /\ EepromTypeOK => TypeOK
  BY DEF FlashInv, TypeOK
<1> QED BY <1>1, <1>2, <1>3, SaveFlashInvariant, PTL DEF Spec

\* Every access to the EEPROM is a step of a store of blocks that takes
\* complete requests and answers with complete bursts, or changes nothing.
THEOREM SaveImplementsSerialStore == Spec => ImplementsSerialStore
<1>1. Init => ES!Init
  <2> SUFFICES ASSUME Init PROVE ES!Init
    OBVIOUS
  <2>1. /\ blocks = [a \in Address |-> Fill(DataBits, 1)]
        /\ eeprom_state = "Idle" /\ eeprom_command = <<>> /\ out = 1
    BY DEF Init, EepromInit
  <2>2. Sent = <<>> /\ Burst = <<>>
    BY <2>1 DEF Sent, Burst
  <2> QED BY <2>1, <2>2 DEF ES!Init, ES!Address, ES!Bit, Address, Bit, Fill
<1>2. TypeOK /\ [Next]_saveVars => [ES!Next]_<<blocks, Sent, Burst, out>>
  BY EepromNextStep DEF TypeOK, SerialStep
<1> QED BY <1>1, <1>2, SaveTypeOK, PTL DEF Spec, ImplementsSerialStore, ES!Spec

-----------------------------------------------------------------------------
(* Bits in bytes: division by the length of a byte *)

LEMMA LeastOf ==
    ASSUME NEW S, S \subseteq Nat, S # {}
    PROVE  \E m \in S : \A k \in S : m <= k
<1> DEFINE R == {p \in Nat \X Nat : p[1] < p[2]}
<1>1. IsWellFoundedOn(R, Nat)
  BY NatLessThanWellFounded DEF OpToRel
<1>2. \A n, k \in Nat : n < k => <<n, k>> \in R
  OBVIOUS
<1> HIDE DEF R
<1>3. PICK m \in S : \A k \in S : <<k, m>> \notin R
  BY <1>1, WFMin, Zenon
<1>4. \A k \in S : m <= k
  <2> SUFFICES ASSUME NEW k \in S, k < m PROVE FALSE
    OBVIOUS
  <2> QED BY <1>2, <1>3
<1> QED BY <1>4

LEMMA DivMod ==
    ASSUME NEW p \in Nat \ {0}, NEW x \in Nat
    PROVE  /\ x = p * (x \div p) + (x % p)
           /\ x % p \in 0 .. p - 1 /\ x \div p \in Nat
OBVIOUS

LEMMA DivModUnique ==
    ASSUME NEW p \in Nat \ {0}, NEW q \in Int, NEW r \in 0 .. p - 1
    PROVE  (p * q + r) \div p = q /\ (p * q + r) % p = r
OBVIOUS

\* Moving on by one byte.
LEMMA DivModByte ==
    ASSUME NEW p \in Nat \ {0}, NEW x \in Nat
    PROVE  (x + p) \div p = (x \div p) + 1 /\ (x + p) % p = x % p
<1> DEFINE q == x \div p
           r == x % p
<1>1. x = p * q + r /\ r \in 0 .. p - 1 /\ q \in Nat
  BY DivMod
<1> HIDE DEF q, r
<1>2. x + p = p * (q + 1) + r
  BY <1>1
<1>3. (p * (q + 1) + r) \div p = q + 1 /\ (p * (q + 1) + r) % p = r
  BY <1>1, DivModUnique
<1> QED BY <1>2, <1>3 DEF q, r

LEMMA DivModSmall ==
    ASSUME NEW p \in Nat \ {0}, NEW x \in 0 .. p - 1
    PROVE  x \div p = 0 /\ x % p = x
<1>1. x = p * 0 + x
  OBVIOUS
<1> QED BY <1>1, DivModUnique

\* The dividend is below a multiple of the divisor: so is the quotient.
LEMMA DivModBelow ==
    ASSUME NEW p \in Nat \ {0}, NEW x \in Nat, NEW n \in Nat, x < n * p
    PROVE  x \div p < n
<1> DEFINE q == x \div p
<1>1. q \in Nat /\ p * q <= x
  <2>1. x = p * q + (x % p) /\ x % p \in 0 .. p - 1 /\ q \in Nat
    BY DivMod
  <2>2. x % p \in Nat
    BY <2>1
  <2> HIDE DEF q
  <2>3. p * q \in Nat
    BY <2>1
  <2> QED BY <2>1, <2>2, <2>3
<1> HIDE DEF q
<1>2. ASSUME q >= n PROVE FALSE
  <2>1. PICK d \in Nat : q = n + d
    BY <1>1, <1>2
  <2>2. p * q = n * p + p * d /\ p * d \in Nat /\ n * p \in Nat
    BY <2>1
  <2> QED BY <1>1, <2>2
<1> QED BY <1>1, <1>2 DEF q

-----------------------------------------------------------------------------

Bytes == Seq([1 .. BYTE -> {0, 1}])

LEMMA ByteIsSeq ==
    ASSUME NEW b \in [1 .. BYTE -> {0, 1}]
    PROVE  b \in Seq({0, 1}) /\ Len(b) = BYTE
<1>1. BYTE \in Nat
  BY GpioAssumption
<1> QED BY <1>1, SeqDef, LenProperties

\* The bits of the first i bytes.
Flat(r, i) == [j \in 1 .. i * BYTE |-> r[1 + (j - 1) \div BYTE][((j - 1) % BYTE) + 1]]

LEMMA FlatIsSeq ==
    ASSUME NEW r \in Bytes, NEW i \in 0 .. Len(r)
    PROVE  Flat(r, i) \in Seq({0, 1}) /\ Len(Flat(r, i)) = i * BYTE
<1>1. BYTE \in Nat \ {0} /\ i \in Nat /\ Len(r) \in Nat
  BY GpioAssumption DEF Bytes
<1>2. i * BYTE \in Nat
  BY <1>1
<1>3. ASSUME NEW j \in 1 .. i * BYTE PROVE r[1 + (j - 1) \div BYTE][((j - 1) % BYTE) + 1] \in {0, 1}
  <2>1. PICK x \in Nat : x = j - 1
    BY <1>2
  <2>2. x < i * BYTE
    BY <1>2, <2>1
  <2>3. x \div BYTE \in Nat /\ x \div BYTE < i /\ x % BYTE \in 0 .. BYTE - 1
    BY <1>1, <2>2, DivMod, DivModBelow
  <2>4. 1 + (x \div BYTE) \in 1 .. Len(r) /\ (x % BYTE) + 1 \in 1 .. BYTE
    BY <1>1, <2>3
  <2>5. r[1 + (x \div BYTE)] \in [1 .. BYTE -> {0, 1}]
    BY <2>4 DEF Bytes
  <2> QED BY <2>1, <2>4, <2>5
<1>4. Flat(r, i) \in [1 .. i * BYTE -> {0, 1}]
  BY <1>3 DEF Flat
<1> QED BY <1>2, <1>4, SeqDef, LenProperties

LEMMA FlatStep ==
    ASSUME NEW r \in Bytes, NEW i \in 1 .. Len(r)
    PROVE  Flat(r, i) = Flat(r, i - 1) \o r[i]
<1> DEFINE left == Flat(r, i)
           right == Flat(r, i - 1) \o r[i]
<1>1. BYTE \in Nat \ {0} /\ i \in Nat /\ Len(r) \in Nat /\ i - 1 \in 0 .. Len(r) /\ i \in 0 .. Len(r)
  BY GpioAssumption DEF Bytes
<1>2. /\ left \in Seq({0, 1}) /\ Len(left) = i * BYTE
      /\ Flat(r, i - 1) \in Seq({0, 1}) /\ Len(Flat(r, i - 1)) = (i - 1) * BYTE
  BY <1>1, FlatIsSeq
<1>3. r[i] \in Seq({0, 1}) /\ Len(r[i]) = BYTE
  <2>1. r[i] \in [1 .. BYTE -> {0, 1}]
    BY DEF Bytes
  <2> QED BY <2>1, ByteIsSeq
<1>4. PICK m \in Nat : m = (i - 1) * BYTE
  BY <1>1
<1>5. i * BYTE = m + BYTE
  BY <1>1, <1>4
<1>10. PICK u \in Seq({0, 1}) : u = Flat(r, i - 1) /\ Len(u) = m
  BY <1>2, <1>4
<1>11. PICK v \in Seq({0, 1}) : v = r[i] /\ Len(v) = BYTE
  BY <1>3
<1>12. right = u \o v
  BY <1>10, <1>11
<1>6. right \in Seq({0, 1}) /\ Len(right) = m + BYTE
  <2>1. u \o v \in Seq({0, 1}) /\ Len(u \o v) = Len(u) + Len(v)
    BY ConcatProperties
  <2> HIDE DEF right
  <2> QED BY <1>10, <1>11, <1>12, <2>1
<1>13. \A j \in 1 .. Len(u) + Len(v) : right[j] = IF j <= Len(u) THEN u[j] ELSE v[j - Len(u)]
  <2> HIDE DEF right
  <2> QED BY <1>12, ConcatProperties
<1>7. ASSUME NEW j \in 1 .. m + BYTE PROVE left[j] = right[j]
  <2>0. j \in Nat /\ j >= 1 /\ j <= m + BYTE
    BY <1>1
  <2>1. left[j] = r[1 + (j - 1) \div BYTE][((j - 1) % BYTE) + 1]
    BY <1>5 DEF Flat
  <2>2. CASE j <= m
    <3>1. right[j] = u[j]
      <4> HIDE DEF right
      <4> QED BY <1>1, <1>10, <1>11, <1>13, <2>0, <2>2
    <3>2. Flat(r, i - 1)[j] = r[1 + (j - 1) \div BYTE][((j - 1) % BYTE) + 1]
      BY <1>1, <1>4, <2>0, <2>2 DEF Flat
    <3> QED BY <1>10, <2>1, <3>1, <3>2
  <2>3. CASE j > m
    <3>1. PICK x \in 0 .. BYTE - 1 : j - 1 = BYTE * (i - 1) + x
      <4>1. j - 1 - m \in 0 .. BYTE - 1 /\ j - 1 = m + (j - 1 - m)
        BY <1>1, <2>0, <2>3
      <4> QED BY <1>1, <1>4, <4>1
    <3>2. (j - 1) \div BYTE = i - 1 /\ (j - 1) % BYTE = x
      <4>1. i - 1 \in Int
        BY <1>1
      <4>2. (BYTE * (i - 1) + x) \div BYTE = i - 1 /\ (BYTE * (i - 1) + x) % BYTE = x
        BY <1>1, <4>1, DivModUnique
      <4> QED BY <3>1, <4>2
    <3>3. left[j] = r[i][x + 1]
      BY <1>1, <2>1, <3>2
    <3>4. j - m = x + 1
      BY <1>1, <1>4, <3>1
    <3>5. right[j] = v[j - m]
      <4> HIDE DEF right
      <4> QED BY <1>1, <1>10, <1>11, <1>13, <2>0, <2>3
    <3> QED BY <1>11, <3>3, <3>4, <3>5
  <2>4. j <= m \/ j > m
    BY <1>4, <2>0
  <2> HIDE DEF left, right
  <2> QED BY <2>2, <2>3, <2>4
<1> HIDE DEF left, right
<1> QED BY <1>2, <1>5, <1>6, <1>7, SeqEqual DEF left, right

\* FlattenSeq of a register's bytes is what BitsLeft counts through.
LEMMA Flattened ==
    ASSUME NEW r \in Bytes
    PROVE  Chip!FlattenSeq(r) = Flat(r, Len(r))
<1> DEFINE n == Len(r)
           Body(f, i) == IF i = 1 THEN r[i] ELSE f[i - 1] \o r[i]
           flatten == CHOOSE f : f = [i \in 1 .. n |-> Body(f, i)]
           all == [i \in 1 .. n |-> Flat(r, i)]
<1>1. n \in Nat
  BY DEF Bytes
<1>2. CASE n = 0
  <2>1. r = <<>> /\ Chip!FlattenSeq(r) = r
    BY <1>2 DEF Bytes, Chip!FlattenSeq
  <2>2. Flat(r, 0) = <<>>
    <3>1. 0 \in 0 .. Len(r) /\ 0 * BYTE = 0
      BY GpioAssumption DEF Bytes
    <3>2. Flat(r, 0) \in Seq({0, 1}) /\ Len(Flat(r, 0)) = 0
      BY <3>1, FlatIsSeq
    <3> QED BY <3>2
  <2> QED BY <1>2, <2>1, <2>2
<1>3. CASE n # 0
  <2>1. Chip!FlattenSeq(r) = flatten[n]
    BY <1>3, Zenon DEF Chip!FlattenSeq
  <2>2. Flat(r, 1) = r[1]
    <3>1. 0 \in 0 .. Len(r) /\ 1 \in 1 .. Len(r) /\ 0 * BYTE = 0 /\ 1 - 1 = 0
      BY <1>1, <1>3, GpioAssumption
    <3>2. Flat(r, 0) = <<>>
      <4>1. Flat(r, 0) \in Seq({0, 1}) /\ Len(Flat(r, 0)) = 0
        BY <3>1, FlatIsSeq
      <4> QED BY <4>1
    <3>3. Flat(r, 1) = Flat(r, 0) \o r[1]
      BY <3>1, FlatStep
    <3>4. r[1] \in Seq({0, 1})
      BY <3>1, ByteIsSeq DEF Bytes
    <3> QED BY <3>2, <3>3, <3>4, ConcatEmptySeq
  <2>3. all = [i \in 1 .. n |-> Body(all, i)]
    <3>1. ASSUME NEW i \in 1 .. n PROVE Flat(r, i) = Body(all, i)
      <4>1. CASE i = 1
        BY <2>2, <4>1
      <4>2. CASE i # 1
        <5>1. i - 1 \in 1 .. n
          BY <1>1, <4>2
        <5>2. all[i - 1] = Flat(r, i - 1)
          BY <5>1
        <5> HIDE DEF all
        <5> QED BY <4>2, <5>2, FlatStep
      <4> QED BY <4>1, <4>2
    <3> QED BY <3>1
  <2>4. flatten = [i \in 1 .. n |-> Body(flatten, i)]
    <3> HIDE DEF Body, all
    <3> QED BY <2>3
  <2>5. flatten[1] = r[1] /\ \A i \in 2 .. n : flatten[i] = flatten[i - 1] \o r[i]
    <3>1. 1 \in 1 .. n /\ \A i \in 2 .. n : i \in 1 .. n /\ i # 1
      BY <1>1, <1>3
    <3> HIDE DEF flatten, n
    <3> QED BY <2>4, <3>1
  <2> HIDE DEF flatten
  <2> DEFINE bad == {i \in 1 .. n : flatten[i] # Flat(r, i)}
  <2>6. bad = {}
    <3> SUFFICES ASSUME bad # {} PROVE FALSE
      OBVIOUS
    <3>1. PICK m \in bad : \A k \in bad : m <= k
      <4>1. bad \subseteq Nat
        BY <1>1
      <4> QED BY <4>1, LeastOf
    <3>2. m \in 1 .. n /\ flatten[m] # Flat(r, m) /\ m \in Nat
      BY <1>1, <3>1
    <3>3. m # 1
      BY <2>2, <2>5, <3>2
    <3>4. m \in 2 .. n /\ m - 1 \in 1 .. n /\ ~(m <= m - 1)
      BY <1>1, <3>2, <3>3
    <3>5. flatten[m - 1] = Flat(r, m - 1)
      <4>1. m - 1 \notin bad
        <5> HIDE DEF bad
        <5> QED BY <3>1, <3>4
      <4> QED BY <3>4, <4>1
    <3>6. flatten[m] = Flat(r, m - 1) \o r[m]
      BY <2>5, <3>4, <3>5
    <3> QED BY <3>2, <3>6, FlatStep
  <2>7. flatten[n] = Flat(r, n)
    <3>1. n \in 1 .. n
      BY <1>1, <1>3
    <3> QED BY <2>6, <3>1
  <2> QED BY <2>1, <2>7
<1> QED BY <1>2, <1>3

-----------------------------------------------------------------------------
(* The port: the inductive invariant *)

\* The chip has a session exactly while it was selected at the last store.
GpioInv == GpioTypeOK /\ (last_cs <=> state # "Idle")

LEMMA AnswerSeq ==
    ASSUME NEW ans, ans = <<>> \/ \E id \in DOMAIN Register : ans = Register[id]
    PROVE  ans \in Bytes
<1>1. \A id \in DOMAIN Register : Register[id] \in Bytes
  BY GpioAssumption, Zenon DEF Bytes
<1>2. <<>> \in Bytes
  BY DEF Bytes
<1> QED BY <1>1, <1>2

LEMMA ProcessTyped ==
    ASSUME GpioInv, NEW c, ProcessCommand(c)
    PROVE  /\ state' \in {"ReadData", "WriteData"} /\ data_bits' \in 0 .. BYTE - 1
           /\ data_out' = <<>> \/ \E id \in DOMAIN Register : data_out' = Register[id]
           /\ data_idx' \in 0 .. Len(data_out')
<1>1. 0 \in 0 .. BYTE - 1
  BY GpioAssumption
<1>2. data_out' = <<>> \/ \E id \in DOMAIN Register : data_out' = Register[id]
  <2>1. data_out' = data_out \/ data_out' = <<>> \/ \E id \in DOMAIN Register : data_out' = Register[id]
    BY DEF ProcessCommand
  <2> QED BY <2>1 DEF GpioInv, GpioTypeOK
<1>3. Len(data_out') \in Nat
  BY <1>2, AnswerSeq DEF Bytes
<1> QED BY <1>1, <1>2, <1>3 DEF ProcessCommand, GpioInv, GpioTypeOK

LEMMA ShiftDataTyped ==
    ASSUME GpioInv, ShiftData, state \in {"ReadData", "WriteData"}
    PROVE  /\ data_bits' \in 0 .. BYTE - 1 /\ data_out' = data_out
           /\ data_idx' \in 0 .. Len(data_out) /\ state' = state /\ cmd' = cmd
<1>1. BYTE \in Nat /\ BYTE >= 4 /\ data_bits \in 0 .. BYTE - 1 /\ data_idx \in 0 .. Len(data_out)
  BY GpioAssumption DEF GpioInv, GpioTypeOK
<1>2. Len(data_out) \in Nat
  BY AnswerSeq DEF GpioInv, GpioTypeOK, Bytes
<1>3. data_bits' \in 0 .. BYTE - 1
  BY <1>1 DEF ShiftData
<1>4. data_idx' \in 0 .. Len(data_out)
  BY <1>1, <1>2 DEF ShiftData
<1> QED BY <1>3, <1>4 DEF ShiftData

LEMMA ClockInv ==
    ASSUME GpioInv, NEW sck \in BOOLEAN, NEW sio \in {0, 1, Floating}, NEW cs \in BOOLEAN,
           Clock(sck, sio, cs), UNCHANGED <<direction, readable>>, pins' \subseteq Pin
    PROVE  GpioInv'
<1> DEFINE now == IF cs /\ ~last_cs THEN "Command" ELSE state
           was == IF cs /\ ~last_cs THEN <<>> ELSE cmd
<1> USE DEF GpioInv, GpioTypeOK
<1>0. BYTE \in Nat /\ BYTE >= 4
  BY GpioAssumption
<1>1. /\ was \in Seq({0, 1}) /\ Len(was) < BYTE
      /\ now \in {"Idle", "Command", "ReadData", "WriteData"} /\ (cs => now # "Idle")
  BY <1>0
<1>2. last_cs' = cs /\ last_sck' \in BOOLEAN
  BY DEF Clock
<1>3. \/ /\ ~cs
         /\ state' = IF last_cs THEN "Idle" ELSE state
         /\ UNCHANGED <<cmd, data_bits, data_out, data_idx>>
      \/ cs /\ now = "Command" /\ sio # Floating /\ ShiftCommand(was, sio)
      \/ cs /\ now \in {"ReadData", "WriteData"} /\ ShiftData
      \/ cs /\ state' = now /\ cmd' = was /\ UNCHANGED <<data_bits, data_out, data_idx>>
  BY Zenon DEF Clock
<1> HIDE DEF now, was
<1>4. CASE ~cs /\ state' = (IF last_cs THEN "Idle" ELSE state)
           /\ UNCHANGED <<cmd, data_bits, data_out, data_idx>>
  BY <1>2, <1>4
<1>5. CASE cs /\ now = "Command" /\ sio # Floating /\ ShiftCommand(was, sio)
  <2> DEFINE c == Append(was, sio)
  <2>1. c \in Seq({0, 1}) /\ Len(c) = Len(was) + 1
    BY <1>1, <1>5 DEF Floating
  <2>2. CASE Len(c) = BYTE
    <3>1. ProcessCommand(c) /\ cmd' = <<>>
      BY <1>5, <2>2 DEF ShiftCommand
    <3>2. /\ state' \in {"ReadData", "WriteData"} /\ data_bits' \in 0 .. BYTE - 1
          /\ data_out' = <<>> \/ \E id \in DOMAIN Register : data_out' = Register[id]
          /\ data_idx' \in 0 .. Len(data_out')
      BY <3>1, ProcessTyped
    <3>3. cmd' \in Seq({0, 1}) /\ Len(cmd') < BYTE
      BY <1>0, <3>1
    <3> QED BY <1>2, <1>5, <3>2, <3>3
  <2>3. CASE Len(c) # BYTE
    <3>1. state' = "Command" /\ cmd' = c /\ UNCHANGED <<data_bits, data_out, data_idx>>
      BY <1>5, <2>3 DEF ShiftCommand
    <3>2. Len(c) < BYTE
      <4>1. Len(was) \in Nat
        BY <1>1
      <4> HIDE DEF c
      <4> QED BY <1>0, <1>1, <2>1, <2>3, <4>1
    <3> HIDE DEF c
    <3> QED BY <1>2, <1>5, <2>1, <3>1, <3>2
  <2> QED BY <2>2, <2>3
<1>6. CASE cs /\ now \in {"ReadData", "WriteData"} /\ ShiftData
  <2>1. state = now
    BY <1>6 DEF now
  <2>2. /\ data_bits' \in 0 .. BYTE - 1 /\ data_out' = data_out
        /\ data_idx' \in 0 .. Len(data_out) /\ state' = state /\ cmd' = cmd
    BY <1>6, <2>1, ShiftDataTyped
  <2> QED BY <1>2, <1>6, <2>1, <2>2
<1>7. CASE cs /\ state' = now /\ cmd' = was /\ UNCHANGED <<data_bits, data_out, data_idx>>
  BY <1>1, <1>2, <1>7
<1> QED BY <1>3, <1>4, <1>5, <1>6, <1>7

LEMMA GpioInitInv == ASSUME NEW rtc \in BOOLEAN, GpioInit(rtc) PROVE GpioInv
<1>1. /\ pins = {} /\ direction = {} /\ readable \in BOOLEAN /\ state = "Idle" /\ cmd = <<>>
      /\ data_bits = 0 /\ data_out = <<>> /\ data_idx = 0 /\ last_sck = FALSE /\ last_cs = FALSE
  BY DEF GpioInit
<1>2. 0 \in 0 .. BYTE - 1 /\ 0 < BYTE
  BY GpioAssumption
<1>3. cmd \in Seq({0, 1}) /\ Len(cmd) < BYTE /\ data_idx \in 0 .. Len(data_out)
  BY <1>1, <1>2
<1> QED BY <1>1, <1>2, <1>3 DEF GpioInv, GpioTypeOK

\* What WriteData gives to the clock.
LEMMA StoreClocks ==
    ASSUME GpioInv, NEW new \in SUBSET Pin, WriteData(new)
    PROVE  /\ \E sck \in BOOLEAN, sio \in {0, 1, Floating}, cs \in BOOLEAN : Clock(sck, sio, cs)
           /\ UNCHANGED <<direction, readable>> /\ pins' \subseteq Pin
<1> DEFINE sck == "SCK" \in new \cap direction
           sio == IF "SIO" \notin direction THEN Floating ELSE IF "SIO" \in new THEN 1 ELSE 0
           cs == "CS" \in new \/ "CS" \notin direction
<1>1. Clock(sck, sio, cs)
  BY Zenon DEF WriteData
<1>2. sck \in BOOLEAN /\ sio \in {0, 1, Floating} /\ cs \in BOOLEAN
  OBVIOUS
<1>3. UNCHANGED <<direction, readable>> /\ pins' \subseteq Pin
  BY DEF WriteData
<1> HIDE DEF sck, sio, cs
<1> QED BY <1>1, <1>2, <1>3

LEMMA GpioNextInv == GpioInv /\ [GpioNext]_gpioVars => GpioInv'
<1> SUFFICES ASSUME GpioInv, [GpioNext]_gpioVars PROVE GpioInv'
  OBVIOUS
<1>1. ASSUME NEW new \in SUBSET Pin, WriteData(new) PROVE GpioInv'
  <2>1. PICK sck \in BOOLEAN, sio \in {0, 1, Floating}, cs \in BOOLEAN : Clock(sck, sio, cs)
    BY <1>1, StoreClocks
  <2>2. UNCHANGED <<direction, readable>> /\ pins' \subseteq Pin
    BY <1>1, StoreClocks
  <2> QED BY <2>1, <2>2, ClockInv
<1>2. ASSUME NEW new \in SUBSET Pin, WriteDirection(new) PROVE GpioInv'
  BY <1>2 DEF WriteDirection, rtcVars, GpioInv, GpioTypeOK
<1>3. ASSUME NEW on \in BOOLEAN, WriteControl(on) PROVE GpioInv'
  BY <1>3 DEF WriteControl, rtcVars, GpioInv, GpioTypeOK
<1>4. CASE UNCHANGED gpioVars
  BY <1>4 DEF gpioVars, rtcVars, GpioInv, GpioTypeOK
<1> QED BY <1>1, <1>2, <1>3, <1>4 DEF GpioNext

-----------------------------------------------------------------------------
(* The bits of a register still to be read *)

\* BitsLeft of a read that has come to bit k of byte idx.
RestOf(ans, idx, k) ==
    LET rest == Len(ans) - idx
    IN  [i \in 1 .. rest * BYTE - (IF rest > 0 THEN k ELSE 0) |->
            LET at == k + i - 1
            IN  ans[idx + 1 + at \div BYTE][(at % BYTE) + 1]]

LEMMA RestSeq ==
    ASSUME NEW ans \in Bytes, NEW idx \in 0 .. Len(ans), NEW k \in 0 .. BYTE - 1
    PROVE  /\ idx = Len(ans) => RestOf(ans, idx, k) = <<>>
           /\ idx < Len(ans) =>
                 /\ (Len(ans) - idx) * BYTE - k \in Nat \ {0}
                 /\ RestOf(ans, idx, k) \in Seq({0, 1})
                 /\ Len(RestOf(ans, idx, k)) = (Len(ans) - idx) * BYTE - k
                 /\ \A i \in 1 .. (Len(ans) - idx) * BYTE - k :
                       RestOf(ans, idx, k)[i] =
                           ans[idx + 1 + (k + i - 1) \div BYTE][((k + i - 1) % BYTE) + 1]
<1>1. /\ BYTE \in Nat \ {0} /\ Len(ans) \in Nat /\ idx \in Nat /\ k \in Nat
      /\ ans \in [1 .. Len(ans) -> [1 .. BYTE -> {0, 1}]]
  BY GpioAssumption, LenProperties DEF Bytes
<1>2. ASSUME idx = Len(ans) PROVE RestOf(ans, idx, k) = <<>>
  <2>1. PICK z \in Nat : z = Len(ans) - idx /\ z = 0
    BY <1>1, <1>2
  <2>2. z * BYTE - (IF z > 0 THEN k ELSE 0) = 0
    BY <1>1, <2>1
  <2>3. RestOf(ans, idx, k) =
           [i \in 1 .. 0 |-> ans[idx + 1 + (k + i - 1) \div BYTE][((k + i - 1) % BYTE) + 1]]
    BY <2>1, <2>2 DEF RestOf
  <2> QED BY <2>3
<1>3. ASSUME idx < Len(ans)
      PROVE  /\ (Len(ans) - idx) * BYTE - k \in Nat \ {0}
             /\ RestOf(ans, idx, k) \in Seq({0, 1})
             /\ Len(RestOf(ans, idx, k)) = (Len(ans) - idx) * BYTE - k
             /\ \A i \in 1 .. (Len(ans) - idx) * BYTE - k :
                   RestOf(ans, idx, k)[i] =
                       ans[idx + 1 + (k + i - 1) \div BYTE][((k + i - 1) % BYTE) + 1]
  <2>1. PICK z \in Nat : z = Len(ans) - idx /\ z >= 1
    <3>1. Len(ans) \in Nat /\ idx \in Nat
      BY <1>1
    <3>2. Len(ans) - idx \in Nat /\ Len(ans) - idx >= 1
      BY <1>3, <3>1
    <3> QED BY <3>2
  <2>2. PICK zb \in Nat : zb = z * BYTE /\ zb >= BYTE
    <3>1. PICK y \in Nat : z = y + 1
      <4>1. z - 1 \in Nat /\ z = (z - 1) + 1
        BY <2>1
      <4> QED BY <4>1
    <3>2. z * BYTE = y * BYTE + BYTE /\ y * BYTE \in Nat
      BY <1>1, <3>1
    <3> QED BY <1>1, <3>2
  <2>3. PICK n \in Nat : n = zb - k /\ n # 0
    BY <1>1, <2>2
  <2>4. (Len(ans) - idx) * BYTE - k = n
    BY <2>1, <2>2, <2>3
  <2>5. RestOf(ans, idx, k) =
           [i \in 1 .. n |-> ans[idx + 1 + (k + i - 1) \div BYTE][((k + i - 1) % BYTE) + 1]]
    <3>1. (Len(ans) - idx) * BYTE - (IF Len(ans) - idx > 0 THEN k ELSE 0) = n
      BY <1>1, <2>1, <2>4
    <3> HIDE DEF Bytes
    <3> QED BY <3>1, Zenon DEF RestOf
  <2>6. ASSUME NEW i \in 1 .. n
        PROVE  ans[idx + 1 + (k + i - 1) \div BYTE][((k + i - 1) % BYTE) + 1] \in {0, 1}
    <3>1. PICK at \in Nat : at = k + i - 1
      BY <1>1, <2>3
    <3>2. at < z * BYTE
      BY <1>1, <2>2, <2>3, <3>1
    <3>3. at \div BYTE \in Nat /\ at \div BYTE < z /\ at % BYTE \in 0 .. BYTE - 1
      BY <1>1, <2>1, <3>2, DivMod, DivModBelow
    <3>4. idx + 1 + (at \div BYTE) \in 1 .. Len(ans) /\ (at % BYTE) + 1 \in 1 .. BYTE
      BY <1>1, <2>1, <3>3
    <3> QED BY <1>1, <3>1, <3>4
  <2>7. RestOf(ans, idx, k) \in [1 .. n -> {0, 1}]
    <3> HIDE DEF RestOf
    <3> QED BY <2>5, <2>6
  <2>8. RestOf(ans, idx, k) \in Seq({0, 1}) /\ Len(RestOf(ans, idx, k)) = n
    <3> QED BY <2>7, SeqDef, LenProperties
  <2> QED BY <2>3, <2>4, <2>5, <2>8
<1> QED BY <1>2, <1>3

LEMMA RestFacts ==
    ASSUME NEW ans \in Bytes, NEW idx \in 0 .. Len(ans), NEW k \in 0 .. BYTE - 1,
           idx < Len(ans)
    PROVE  /\ RestOf(ans, idx, k) # <<>>
           /\ Head(RestOf(ans, idx, k)) = ans[idx + 1][k + 1]
           /\ Tail(RestOf(ans, idx, k)) =
                 IF k + 1 >= BYTE THEN RestOf(ans, idx + 1, 0) ELSE RestOf(ans, idx, k + 1)
<1>1. BYTE \in Nat \ {0} /\ BYTE >= 4 /\ Len(ans) \in Nat /\ idx \in Nat /\ k \in Nat
  BY GpioAssumption DEF Bytes
<1>2. PICK n \in Nat \ {0} : n = (Len(ans) - idx) * BYTE - k
  BY RestSeq
<1>3. PICK r \in Seq({0, 1}) : r = RestOf(ans, idx, k) /\ Len(r) = n
  BY <1>2, RestSeq
<1>4. \A i \in 1 .. n : r[i] = ans[idx + 1 + (k + i - 1) \div BYTE][((k + i - 1) % BYTE) + 1]
  BY <1>2, <1>3, RestSeq
<1>5. r # <<>>
  BY <1>3
<1>6. Head(r) = ans[idx + 1][k + 1]
  <2>1. Head(r) = r[1] /\ 1 \in 1 .. n
    BY <1>3, <1>5
  <2>2. k + 1 - 1 = k /\ k \div BYTE = 0 /\ k % BYTE = k
    BY <1>1, DivModSmall
  <2>3. r[1] = ans[idx + 1 + (k + 1 - 1) \div BYTE][((k + 1 - 1) % BYTE) + 1]
    BY <1>4, <2>1
  <2>4. idx + 1 + 0 = idx + 1
    BY <1>1
  <2> QED BY <2>1, <2>2, <2>3, <2>4
<1>7. PICK t \in Seq({0, 1}) : /\ t = Tail(r) /\ Len(t) = n - 1
                               /\ \A i \in 1 .. n - 1 : t[i] = r[i + 1]
  <2>1. /\ Tail(r) \in Seq({0, 1}) /\ Len(Tail(r)) = Len(r) - 1
        /\ \A i \in 1 .. Len(Tail(r)) : Tail(r)[i] = r[i + 1]
    BY <1>5, HeadTailProperties
  <2> QED BY <1>3, <2>1
<1>8. CASE k + 1 < BYTE
  <2>1. PICK u \in Seq({0, 1}) :
           /\ u = RestOf(ans, idx, k + 1) /\ Len(u) = n - 1
           /\ \A i \in 1 .. n - 1 :
                 u[i] = ans[idx + 1 + ((k + 1) + i - 1) \div BYTE][(((k + 1) + i - 1) % BYTE) + 1]
    <3>1. k + 1 \in 0 .. BYTE - 1
      BY <1>1, <1>8
    <3>2. (Len(ans) - idx) * BYTE - (k + 1) = n - 1
      <4>1. PICK zb \in Int : zb = (Len(ans) - idx) * BYTE
        BY <1>1
      <4> QED BY <1>1, <1>2, <4>1
    <3> QED BY <3>1, <3>2, RestSeq
  <2>2. ASSUME NEW i \in 1 .. n - 1 PROVE t[i] = u[i]
    <3>1. i + 1 \in 1 .. n /\ k + (i + 1) - 1 = (k + 1) + i - 1
      BY <1>1, <1>2
    <3>2. t[i] = ans[idx + 1 + (k + (i + 1) - 1) \div BYTE][((k + (i + 1) - 1) % BYTE) + 1]
      BY <1>4, <1>7, <3>1
    <3> QED BY <2>1, <3>1, <3>2
  <2>3. t = u
    BY <1>7, <2>1, <2>2, SeqEqual
  <2> QED BY <1>1, <1>3, <1>5, <1>6, <1>7, <1>8, <2>1, <2>3
<1>9. CASE ~(k + 1 < BYTE)
  <2>1. k + 1 = BYTE
    BY <1>1, <1>9
  <2>2. idx + 1 \in 0 .. Len(ans) /\ 0 \in 0 .. BYTE - 1
    BY <1>1
  <2>3. PICK z \in Nat : z = Len(ans) - (idx + 1) /\ Len(ans) - idx = z + 1
    <3>1. Len(ans) - (idx + 1) \in Nat /\ Len(ans) - idx = (Len(ans) - (idx + 1)) + 1
      BY <1>1, <2>2
    <3> QED BY <3>1
  <2>4. PICK zb \in Nat : zb = z * BYTE
    BY <1>1
  <2>5. n - 1 = zb
    <3>1. (z + 1) * BYTE = zb + BYTE
      BY <1>1, <2>4
    <3> QED BY <1>1, <1>2, <2>1, <2>3, <3>1
  <2>6. CASE idx + 1 = Len(ans)
    <3>1. z = 0 /\ zb = 0
      BY <1>1, <2>3, <2>4, <2>6
    <3>2. t = <<>>
      BY <1>7, <2>5, <3>1, EmptySeq
    <3>3. RestOf(ans, idx + 1, 0) = <<>>
      BY <2>2, <2>6, RestSeq
    <3>4. Tail(RestOf(ans, idx, k)) = RestOf(ans, idx + 1, 0)
      BY <1>3, <1>7, <3>2, <3>3
    <3>5. k + 1 >= BYTE
      BY <1>1, <2>1
    <3> QED BY <1>3, <1>5, <1>6, <3>4, <3>5
  <2>7. CASE idx + 1 # Len(ans)
    <3>1. PICK u \in Seq({0, 1}) :
             /\ u = RestOf(ans, idx + 1, 0) /\ Len(u) = n - 1
             /\ \A i \in 1 .. n - 1 :
                   u[i] = ans[(idx + 1) + 1 + (0 + i - 1) \div BYTE][((0 + i - 1) % BYTE) + 1]
      <4>1. idx + 1 < Len(ans)
        BY <1>1, <2>2, <2>7
      <4>2. (Len(ans) - (idx + 1)) * BYTE - 0 = n - 1
        BY <2>3, <2>4, <2>5
      <4>3. PICK j \in 0 .. Len(ans) : j = idx + 1
        BY <2>2
      <4>4. RestOf(ans, j, 0) \in Seq({0, 1}) /\ Len(RestOf(ans, j, 0)) = n - 1
        BY <2>2, <4>1, <4>2, <4>3, RestSeq
      <4>5. \A i \in 1 .. n - 1 :
               RestOf(ans, j, 0)[i] = ans[j + 1 + (0 + i - 1) \div BYTE][((0 + i - 1) % BYTE) + 1]
        BY <2>2, <4>1, <4>2, <4>3, RestSeq
      <4> QED BY <4>3, <4>4, <4>5
    <3>2. ASSUME NEW i \in 1 .. n - 1 PROVE t[i] = u[i]
      <4>1. PICK x \in Nat : x = i - 1
        BY <1>2
      <4>2. i + 1 \in 1 .. n /\ k + (i + 1) - 1 = x + BYTE /\ 0 + i - 1 = x
        BY <1>1, <1>2, <2>1, <4>1
      <4>3. (x + BYTE) \div BYTE = (x \div BYTE) + 1 /\ (x + BYTE) % BYTE = x % BYTE
        BY <1>1, DivModByte
      <4>4. x \div BYTE \in Nat
        BY <1>1, DivMod
      <4>5. idx + 1 + ((x \div BYTE) + 1) = (idx + 1) + 1 + (x \div BYTE)
        <5>1. PICK d \in Nat : d = x \div BYTE
          BY <4>4
        <5>2. idx \in Nat
          BY <1>1
        <5>3. idx + 1 + (d + 1) = (idx + 1) + 1 + d
          BY <5>2
        <5> QED BY <5>1, <5>3, Zenon
      <4>6. t[i] = ans[idx + 1 + (x + BYTE) \div BYTE][((x + BYTE) % BYTE) + 1]
        BY <1>4, <1>7, <4>2
      <4>7. u[i] = ans[(idx + 1) + 1 + x \div BYTE][(x % BYTE) + 1]
        BY <3>1, <4>2
      <4> QED BY <4>3, <4>5, <4>6, <4>7
    <3>3. t = u
      BY <1>7, <3>1, <3>2, SeqEqual
    <3>4. Tail(RestOf(ans, idx, k)) = RestOf(ans, idx + 1, 0)
      BY <1>3, <1>7, <3>1, <3>3
    <3>5. k + 1 >= BYTE
      BY <1>1, <2>1
    <3> QED BY <1>3, <1>5, <1>6, <3>4, <3>5
  <2> QED BY <2>6, <2>7
<1> QED BY <1>8, <1>9

\* A read starts with all the bits of its register.
LEMMA AnswerRest ==
    ASSUME NEW ans \in Bytes PROVE RestOf(ans, 0, 0) = Flat(ans, Len(ans))
<1>1. BYTE \in Nat /\ Len(ans) \in Nat
  BY GpioAssumption DEF Bytes
<1>2. PICK n \in Nat : n = Len(ans) * BYTE
  BY <1>1
<1>3. (Len(ans) - 0) * BYTE - (IF Len(ans) - 0 > 0 THEN 0 ELSE 0) = n
  BY <1>1, <1>2
<1>4. RestOf(ans, 0, 0) =
         [i \in 1 .. n |-> ans[0 + 1 + (0 + i - 1) \div BYTE][((0 + i - 1) % BYTE) + 1]]
  BY <1>3, Zenon DEF RestOf
<1>5. ASSUME NEW i \in 1 .. n
      PROVE  ans[0 + 1 + (0 + i - 1) \div BYTE][((0 + i - 1) % BYTE) + 1] =
             ans[1 + (i - 1) \div BYTE][((i - 1) % BYTE) + 1]
  <2>1. 0 + i - 1 = i - 1 /\ 0 + 1 = 1
    OBVIOUS
  <2> QED BY <2>1
<1>6. Flat(ans, Len(ans)) = [i \in 1 .. n |-> ans[1 + (i - 1) \div BYTE][((i - 1) % BYTE) + 1]]
  BY <1>2 DEF Flat
<1> QED BY <1>4, <1>5, <1>6

-----------------------------------------------------------------------------
(* Each move of the clock is a move of the chip *)

\* BitsLeft as a function of the state it reads.
LeftOf(st, ans, idx, k) == IF st # "ReadData" THEN <<>> ELSE RestOf(ans, idx, k)

LEMMA LeftIs ==
    /\ BitsLeft = LeftOf(state, data_out, data_idx, data_bits)
    /\ BitsLeft' = LeftOf(state', data_out', data_idx', data_bits')
BY Zenon DEF BitsLeft, LeftOf, RestOf

WireRight == ReadSio <=> (BitsLeft # <<>> /\ Head(BitsLeft) = 1)

LEMMA WireFollows == GpioInv => WireRight
<1> SUFFICES ASSUME GpioInv PROVE ReadSio <=> (BitsLeft # <<>> /\ Head(BitsLeft) = 1)
  BY DEF WireRight
<1>1. /\ data_out \in Bytes /\ data_idx \in 0 .. Len(data_out) /\ data_bits \in 0 .. BYTE - 1
  BY AnswerSeq DEF GpioInv, GpioTypeOK
<1>2. Len(data_out) \in Nat
  BY <1>1 DEF Bytes
<1>3. CASE state # "ReadData"
  BY <1>3, LeftIs DEF ReadSio, LeftOf
<1>4. CASE state = "ReadData" /\ data_idx < Len(data_out)
  BY <1>1, <1>4, LeftIs, RestFacts DEF ReadSio, LeftOf
<1>5. CASE state = "ReadData" /\ ~(data_idx < Len(data_out))
  <2>1. data_idx = Len(data_out)
    BY <1>1, <1>2, <1>5
  <2>2. RestOf(data_out, data_idx, data_bits) = <<>>
    BY <1>1, <2>1, RestSeq
  <2> QED BY <1>5, <2>2, LeftIs DEF ReadSio, LeftOf
<1> QED BY <1>3, <1>4, <1>5

LEMMA WireStep == GpioInv' => WireRight'
BY WireFollows, PTL

\* The facts about a state that the steps below need.
LEMMA PortFacts ==
    ASSUME GpioInv
    PROVE  /\ data_out \in Bytes /\ data_idx \in 0 .. Len(data_out)
           /\ data_bits \in 0 .. BYTE - 1 /\ Len(data_out) \in Nat
           /\ cmd \in Seq({0, 1}) /\ Len(cmd) < BYTE /\ BYTE \in Nat /\ BYTE >= 4
           /\ state \in {"Idle", "Command", "ReadData", "WriteData"}
<1>1. data_out \in Bytes
  BY AnswerSeq DEF GpioInv, GpioTypeOK
<1>2. Len(data_out) \in Nat
  BY <1>1 DEF Bytes
<1>3. BYTE \in Nat /\ BYTE >= 4
  BY GpioAssumption
<1> QED BY <1>1, <1>2, <1>3 DEF GpioInv, GpioTypeOK

LEMMA DeselectStep ==
    ASSUME GpioInv, GpioInv', NEW sck, NEW sio, Clock(sck, sio, FALSE)
    PROVE  Chip!Deselect
<1>1. last_cs' = FALSE /\ UNCHANGED last_sck
  BY DEF Clock
<1>2. state' = "Idle"
  BY <1>1 DEF GpioInv
<1>3. BitsLeft' = <<>>
  BY <1>2, LeftIs DEF LeftOf
<1> QED BY <1>1, <1>2, <1>3 DEF Chip!Deselect

LEMMA SelectStep ==
    ASSUME GpioInv, GpioInv', NEW sck \in BOOLEAN, NEW sio \in {0, 1, Floating},
           ~last_cs, Clock(sck, sio, TRUE)
    PROVE  Chip!Select(sck, sio)
<1>1. state = "Idle" /\ last_sck' = sck
  BY DEF GpioInv, Clock
<1>2. /\ state' = "Command"
      /\ cmd' = IF sck /\ ~last_sck /\ sio # Floating THEN <<sio>> ELSE <<>>
  <2>1. CASE sck /\ ~last_sck /\ sio # Floating
    <3>1. ShiftCommand(<<>>, sio)
      BY <2>1 DEF Clock
    <3>2. Append(<<>>, sio) = <<sio>> /\ Len(<<sio>>) = 1 /\ BYTE # 1
      BY PortFacts
    <3> QED BY <2>1, <3>1, <3>2 DEF ShiftCommand
  <2>2. CASE ~(sck /\ ~last_sck /\ sio # Floating)
    BY <2>2 DEF Clock
  <2> QED BY <2>1, <2>2
<1>3. BitsLeft' = <<>>
  BY <1>2, LeftIs DEF LeftOf
<1> QED BY <1>1, <1>2, <1>3 DEF Chip!Select, Chip!Floating, Floating

LEMMA CommandNumber == <<2, 3, 4>>[1] = 2 /\ <<2, 3, 4>>[2] = 3 /\ <<2, 3, 4>>[3] = 4
OBVIOUS

LEMMA CommandStep ==
    ASSUME GpioInv, GpioInv', NEW sio \in {0, 1}, state = "Command", ShiftCommand(cmd, sio)
    PROVE  Chip!Clock(sio)
<1> DEFINE c == Append(cmd, sio)
           id == 4 * c[2] + 2 * c[3] + c[4]
<1>1. BitsLeft = <<>>
  BY LeftIs DEF LeftOf
<1>2. c \in Seq({0, 1}) /\ Len(c) <= BYTE
  <2>1. Len(cmd) \in Nat
    BY PortFacts
  <2> QED BY <2>1, PortFacts
<1>3. CASE Len(c) = BYTE
  <2>1. ProcessCommand(c)
    BY <1>3 DEF ShiftCommand
  <2>2. /\ state' = IF c[1] = 1 THEN "ReadData" ELSE "WriteData"
        /\ c[1] = 1 => /\ data_idx' = 0 /\ data_bits' = 0
                       /\ data_out' = IF id \in DOMAIN Register THEN Register[id] ELSE <<>>
    BY <2>1 DEF ProcessCommand
  <2>3. BitsLeft' = IF c[1] = 1 THEN Chip!Answer(c) ELSE <<>>
    <3>1. CASE c[1] # 1
      BY <2>2, <3>1, LeftIs DEF LeftOf
    <3>2. CASE c[1] = 1 /\ id \in DOMAIN Register
      <4>1. Register[id] \in Bytes
        BY <3>2, AnswerSeq
      <4>2. BitsLeft' = RestOf(Register[id], 0, 0)
        <5> HIDE DEF c, id
        <5> QED BY <2>2, <3>2, LeftIs DEF LeftOf
      <4>3. Chip!Answer(c) = Chip!FlattenSeq(Register[id])
        BY <3>2, CommandNumber, Zenon DEF Chip!Answer
      <4> HIDE DEF c, id
      <4> QED BY <3>2, <4>1, <4>2, <4>3, AnswerRest, Flattened
    <3>3. CASE c[1] = 1 /\ id \notin DOMAIN Register
      <4>1. BitsLeft' = RestOf(<<>>, 0, 0)
        <5> HIDE DEF c, id
        <5> QED BY <2>2, <3>3, LeftIs DEF LeftOf
      <4>2. RestOf(<<>>, 0, 0) = <<>>
        <5>1. <<>> \in Bytes /\ Len(<<>>) = 0 /\ 0 \in 0 .. 0 /\ 0 \in 0 .. BYTE - 1
          BY PortFacts DEF Bytes
        <5> QED BY <5>1, RestSeq
      <4>3. Chip!Answer(c) = <<>>
        BY <3>3, CommandNumber, Zenon DEF Chip!Answer
      <4> HIDE DEF c, id
      <4> QED BY <3>3, <4>1, <4>2, <4>3
    <3> QED BY <3>1, <3>2, <3>3
  <2> HIDE DEF id
  <2>4. c[1] = 1 \/ c[1] # 1
    OBVIOUS
  <2> QED BY <1>1, <1>3, <2>2, <2>3 DEF Chip!Clock, Chip!IsRead, Chip!Floating
<1>4. CASE Len(c) # BYTE
  <2>1. state' = "Command" /\ cmd' = c
    BY <1>4 DEF ShiftCommand
  <2>2. Len(c) < BYTE
    <3>1. Len(c) \in Nat
      BY <1>2
    <3> HIDE DEF c
    <3> QED BY <1>2, <1>4, <3>1, PortFacts
  <2>3. BitsLeft' = <<>>
    BY <2>1, LeftIs DEF LeftOf
  <2> QED BY <1>1, <2>1, <2>2, <2>3 DEF Chip!Clock, Chip!Floating
<1> QED BY <1>3, <1>4

LEMMA ReadStep ==
    ASSUME GpioInv, NEW sio, state = "ReadData", ShiftData
    PROVE  Chip!Clock(sio)
<1>1. /\ state' = state /\ data_out' = data_out
      /\ data_bits' = (IF data_bits + 1 >= BYTE THEN 0 ELSE data_bits + 1)
      /\ data_idx' = IF data_bits + 1 >= BYTE /\ data_idx < Len(data_out)
                     THEN data_idx + 1 ELSE data_idx
  BY DEF ShiftData
<1>2. BitsLeft = RestOf(data_out, data_idx, data_bits)
      /\ BitsLeft' = RestOf(data_out, data_idx', data_bits')
  BY <1>1, LeftIs DEF LeftOf
<1>3. BitsLeft' = IF BitsLeft = <<>> THEN <<>> ELSE Tail(BitsLeft)
  <2>1. CASE data_idx < Len(data_out)
    <3>1. /\ BitsLeft # <<>>
          /\ Tail(BitsLeft) = IF data_bits + 1 >= BYTE THEN RestOf(data_out, data_idx + 1, 0)
                              ELSE RestOf(data_out, data_idx, data_bits + 1)
      BY <1>2, <2>1, PortFacts, RestFacts
    <3>2. CASE data_bits + 1 >= BYTE
      BY <1>1, <1>2, <2>1, <3>1, <3>2
    <3>3. CASE ~(data_bits + 1 >= BYTE)
      BY <1>1, <1>2, <2>1, <3>1, <3>3
    <3> QED BY <3>2, <3>3
  <2>2. CASE ~(data_idx < Len(data_out))
    <3>1. data_idx = Len(data_out) /\ data_idx' = data_idx
      BY <1>1, <2>2, PortFacts
    <3>2. data_bits' \in 0 .. BYTE - 1
      BY <1>1, PortFacts
    <3>3. BitsLeft = <<>> /\ BitsLeft' = <<>>
      BY <1>2, <3>1, <3>2, PortFacts, RestSeq
    <3> QED BY <3>3
  <2> QED BY <2>1, <2>2
<1> QED BY <1>1, <1>3 DEF Chip!Clock

LEMMA SelectedStep ==
    ASSUME GpioInv, GpioInv', NEW sck \in BOOLEAN, NEW sio \in {0, 1, Floating},
           last_cs, Clock(sck, sio, TRUE)
    PROVE  Chip!Selected(sck, sio)
<1>1. state \in {"Command", "ReadData", "WriteData"} /\ last_sck' = sck
  BY DEF GpioInv, GpioTypeOK, Clock
<1>2. \/ sck /\ ~last_sck /\ state = "Command" /\ sio # Floating /\ ShiftCommand(cmd, sio)
      \/ /\ sck /\ ~last_sck
         /\ state = "ReadData" \/ (state = "WriteData" /\ sio # Floating)
         /\ ShiftData
      \/ /\ \/ ~sck \/ last_sck
            \/ state \in {"Command", "WriteData"} /\ sio = Floating
         /\ state' = state /\ cmd' = cmd /\ UNCHANGED <<data_bits, data_out, data_idx>>
  BY <1>1 DEF Clock
<1>3. (sck /\ ~last_sck) \/ ~(sck /\ ~last_sck)
  OBVIOUS
<1>4. ASSUME sck, ~last_sck PROVE Chip!Clock(sio)
  <2>1. CASE state = "Command" /\ sio # Floating /\ ShiftCommand(cmd, sio)
    <3>1. sio \in {0, 1}
      BY <2>1
    <3> QED BY <2>1, <3>1, CommandStep
  <2>2. CASE state = "ReadData" /\ ShiftData
    BY <2>2, ReadStep
  <2>3. CASE state = "WriteData" /\ sio # Floating /\ ShiftData
    <3>1. state' = state /\ cmd' = cmd
      BY <2>3 DEF ShiftData
    <3>2. BitsLeft = <<>> /\ BitsLeft' = <<>>
      BY <2>3, <3>1, LeftIs DEF LeftOf
    <3> QED BY <2>3, <3>1, <3>2 DEF Chip!Clock
  <2>4. CASE /\ state \in {"Command", "WriteData"} /\ sio = Floating
             /\ state' = state /\ cmd' = cmd /\ UNCHANGED <<data_bits, data_out, data_idx>>
    <3>1. BitsLeft = <<>> /\ BitsLeft' = <<>>
      BY <2>4, LeftIs DEF LeftOf
    <3> QED BY <2>4, <3>1 DEF Chip!Clock, Chip!Floating, Floating
  <2> QED BY <1>2, <1>4, <2>1, <2>2, <2>3, <2>4
<1>5. ASSUME ~(sck /\ ~last_sck)
      PROVE  state' = state /\ cmd' = cmd /\ BitsLeft' = BitsLeft
  <2>1. state' = state /\ cmd' = cmd /\ UNCHANGED <<data_bits, data_out, data_idx>>
    BY <1>2, <1>5
  <2> QED BY <2>1, LeftIs
<1>6. CASE sck /\ ~last_sck
  BY <1>1, <1>4, <1>6 DEF Chip!Selected
<1>7. CASE ~(sck /\ ~last_sck)
  BY <1>1, <1>5, <1>7 DEF Chip!Selected
<1> QED BY <1>6, <1>7

-----------------------------------------------------------------------------
(* The theorems about the port *)

\* The rest of the mapping.
PortSession ==
    CASE state = "Idle" -> "idle" [] state = "Command" -> "command"
      [] state = "ReadData" -> "read" [] OTHER -> "write"
PortBits == IF state = "Command" THEN cmd ELSE <<>>
portMapped == <<PortSession, PortBits, BitsLeft, ReadSio, last_sck>>

LEMMA StoreStep ==
    ASSUME GpioInv, GpioInv', NEW new \in SUBSET Pin, WriteData(new) PROVE Chip!Next
<1>1. PICK sck \in BOOLEAN, sio \in {0, 1, Floating}, cs \in BOOLEAN : Clock(sck, sio, cs)
  BY StoreClocks
<1>2. ReadSio' = (BitsLeft' # <<>> /\ Head(BitsLeft') = 1)
  <2>1. ReadSio' <=> (BitsLeft' # <<>> /\ Head(BitsLeft') = 1)
    BY WireStep DEF WireRight
  <2>2. ReadSio' \in BOOLEAN
    BY DEF ReadSio
  <2> QED BY <2>1, <2>2
<1>3. sio \in {0, 1, Chip!Floating}
  BY DEF Floating, Chip!Floating
<1>4. CASE ~cs
  BY <1>1, <1>2, <1>4, DeselectStep DEF Chip!Next
<1>5. CASE cs /\ ~last_cs
  <2>1. Chip!Select(sck, sio)
    BY <1>1, <1>5, SelectStep
  <2> QED BY <1>2, <1>3, <2>1 DEF Chip!Next
<1>6. CASE cs /\ last_cs
  <2>1. Chip!Selected(sck, sio)
    BY <1>1, <1>6, SelectedStep
  <2> QED BY <1>2, <1>3, <2>1 DEF Chip!Next
<1> QED BY <1>4, <1>5, <1>6

LEMMA PortSame == UNCHANGED rtcVars => UNCHANGED portMapped
BY DEF rtcVars, portMapped, PortSession, PortBits, BitsLeft, ReadSio

LEMMA GpioNextStep ==
    GpioInv /\ GpioInv' /\ [GpioNext]_gpioVars => [Chip!Next]_portMapped
<1> SUFFICES ASSUME GpioInv, GpioInv', [GpioNext]_gpioVars
             PROVE  Chip!Next \/ UNCHANGED portMapped
  OBVIOUS
<1>1. ASSUME NEW new \in SUBSET Pin, WriteData(new) PROVE Chip!Next
  BY <1>1, StoreStep
<1>2. ASSUME NEW new \in SUBSET Pin, WriteDirection(new) PROVE UNCHANGED portMapped
  BY <1>2, PortSame DEF WriteDirection
<1>3. ASSUME NEW on \in BOOLEAN, WriteControl(on) PROVE UNCHANGED portMapped
  BY <1>3, PortSame DEF WriteControl
<1>4. CASE UNCHANGED gpioVars
  BY <1>4, PortSame DEF gpioVars
<1> QED BY <1>1, <1>2, <1>3, <1>4, Zenon DEF GpioNext

LEMMA ChipInit ==
    ASSUME NEW rtc \in BOOLEAN, GpioInit(rtc) PROVE Chip!Init
<1>1. state = "Idle" /\ last_sck = FALSE
  BY DEF GpioInit
<1>2. BitsLeft = <<>> /\ ReadSio = FALSE
  BY <1>1 DEF BitsLeft, ReadSio
<1> QED BY <1>1, <1>2 DEF Chip!Init

LEMMA PortMoves == [CartridgeNext]_<<saveVars, gpioVars>> => [GpioNext]_gpioVars
BY Zenon DEF CartridgeNext

\* Whatever order a program drives and releases the pins in, the state of the
\* port and of the clock keeps its type: a command is never longer than a byte,
\* the read position stays within the register (gpio.rs, clock).
THEOREM CartridgePortTyped == CartridgeSpec => []GpioTypeOK
<1>1. CartridgeInit => GpioInv
  BY GpioInitInv DEF CartridgeInit
<1>2. GpioInv /\ [CartridgeNext]_<<saveVars, gpioVars>> => GpioInv'
  BY GpioNextInv, PortMoves
<1>3. GpioInv => GpioTypeOK
  BY DEF GpioInv
<1> QED BY <1>1, <1>2, <1>3, PTL DEF CartridgeSpec

\* Every store to the port is a step of a serial clock chip, which shifts the
\* command of its session in and the bits of one register out, or changes
\* nothing (gpio.rs, clock and process_command).
THEOREM CartridgeImplementsRtcChip == CartridgeSpec => ImplementsRtcChip
<1>1. CartridgeInit => GpioInv
  BY GpioInitInv DEF CartridgeInit
<1>2. GpioInv /\ [CartridgeNext]_<<saveVars, gpioVars>> => GpioInv'
  BY GpioNextInv, PortMoves
<1>3. CartridgeInit => Chip!Init
  BY ChipInit DEF CartridgeInit
<1>4. GpioInv /\ GpioInv' /\ [CartridgeNext]_<<saveVars, gpioVars>> => [Chip!Next]_portMapped
  BY GpioNextStep, PortMoves
<1> QED BY <1>1, <1>2, <1>3, <1>4, PTL
       DEF CartridgeSpec, ImplementsRtcChip, Chip!Spec, portMapped, PortSession, PortBits
=============================================================================
