----------------------------- MODULE DmaProofs ------------------------------
(***************************************************************************)
(* Proofs about the DMA controller, for any channels, counts, addresses    *)
(* and control words.                                                      *)
(***************************************************************************)
EXTENDS Dma, TLAPS

SrcAdj == {"inc", "dec", "fixed"}
DstAdj == {"inc", "dec", "fixed", "reload"}
Transfer == [active : {TRUE}, left : Nat, src : Addr, dst : Addr,
             src_adj : SrcAdj, dst_adj : DstAdj]

LEMMA UnitsPositive ==
    ASSUME NEW c \in Channels, NEW n \in Nat PROVE Units(c, n) \in Nat /\ Units(c, n) > 0
BY DmaRegistersAssumption DEF Units

LEMMA AdvanceType ==
    ASSUME NEW a \in Addr, NEW adj PROVE Advance(a, adj) \in Addr
<1>1. Step(adj) \in Int /\ a \in Int
  BY DmaRegistersAssumption DEF Step, Addr
<1>2. \A i \in Int, n \in Nat \ {0} : i % n \in 0 .. n - 1
  OBVIOUS
<1> DEFINE i == a + Step(adj)
<1>3. i \in Int
  BY <1>1
<1>4. i % AddrSpace \in 0 .. AddrSpace - 1
  <2> HIDE DEF i
  <2> QED BY <1>2, <1>3, DmaRegistersAssumption
<1> QED BY <1>4 DEF Advance, Addr

LEMMA ResetTypes == 0 \in Addr /\ ResetControl \in Control
BY DmaRegistersAssumption DEF Addr, ResetControl, Control, Timing

\* A channel's fields.
LEMMA ChannelFields ==
    ASSUME NEW r \in Channel
    PROVE  /\ r.src \in Addr /\ r.dst \in Addr /\ r.count \in Nat /\ r.control \in Control
           /\ r.internal_src \in Addr /\ r.internal_dst \in Addr /\ r.internal_count \in Nat
           /\ r.control.enable \in BOOLEAN /\ r.control.repeat \in BOOLEAN
           /\ r.control.src_adj \in SrcAdj /\ r.control.dst_adj \in DstAdj
BY DEF Channel, Control, SrcAdj, DstAdj

-----------------------------------------------------------------------------
(* Register writes *)

\* What a register write leaves of a channel.
Rewritten(r, new) ==
    /\ new.control = r.control
    /\ new.internal_src = r.internal_src
    /\ new.internal_dst = r.internal_dst
    /\ new.internal_count = r.internal_count

\* A control write that turns the channel on latches, any other does not.
Reprogrammed(c, r, new) ==
    IF ~r.control.enable /\ new.control.enable
    THEN /\ new.internal_src = new.src /\ new.internal_dst = new.dst
         /\ new.internal_count = Units(c, new.count)
    ELSE /\ new.internal_src = r.internal_src
         /\ new.internal_dst = r.internal_dst
         /\ new.internal_count = r.internal_count

LEMMA WriteRegisterFacts ==
    ASSUME TypeOK, NEW c \in Channels, WriteRegister(c)
    PROVE  \E new \in Channel : /\ chan' = [chan EXCEPT ![c] = new]
                                /\ Rewritten(chan[c], new)
<1> DEFINE r == chan[c]
<1>1. r \in Channel /\ chan \in [Channels -> Channel]
  BY DEF TypeOK
<1>2. CASE \E a \in Addresses : chan' = [chan EXCEPT ![c].src = a]
  <2>1. PICK a \in Addresses : chan' = [chan EXCEPT ![c] = [r EXCEPT !.src = a]]
    BY <1>1, <1>2
  <2>2. [r EXCEPT !.src = a] \in Channel /\ Rewritten(r, [r EXCEPT !.src = a])
    BY <1>1, DmaRegistersAssumption DEF Channel, Rewritten
  <2> QED BY <2>1, <2>2
<1>3. CASE \E a \in Addresses : chan' = [chan EXCEPT ![c].dst = a]
  <2>1. PICK a \in Addresses : chan' = [chan EXCEPT ![c] = [r EXCEPT !.dst = a]]
    BY <1>1, <1>3
  <2>2. [r EXCEPT !.dst = a] \in Channel /\ Rewritten(r, [r EXCEPT !.dst = a])
    BY <1>1, DmaRegistersAssumption DEF Channel, Rewritten
  <2> QED BY <2>1, <2>2
<1>4. CASE \E n \in Counts : chan' = [chan EXCEPT ![c].count = n]
  <2>1. PICK n \in Counts : chan' = [chan EXCEPT ![c] = [r EXCEPT !.count = n]]
    BY <1>1, <1>4
  <2>2. [r EXCEPT !.count = n] \in Channel /\ Rewritten(r, [r EXCEPT !.count = n])
    BY <1>1, DmaRegistersAssumption DEF Channel, Rewritten
  <2> QED BY <2>1, <2>2
<1> QED BY <1>2, <1>3, <1>4 DEF WriteRegister

LEMMA WriteControlFacts ==
    ASSUME TypeOK, NEW c \in Channels, WriteControl(c)
    PROVE  \E new \in Channel : /\ chan' = [chan EXCEPT ![c] = new]
                                /\ Reprogrammed(c, chan[c], new)
<1> DEFINE r == chan[c]
<1>1. r \in Channel /\ chan \in [Channels -> Channel]
  BY DEF TypeOK
<1>2. PICK n \in Counts \cup {r.count}, control \in Controls :
          chan' = [chan EXCEPT ![c] = Controlled(c, r, n, control)]
  BY <1>1 DEF WriteControl
<1>3. n \in Nat /\ control \in Control
  BY <1>1, ChannelFields, DmaRegistersAssumption
<1> DEFINE new == Controlled(c, r, n, control)
<1>4. new \in Channel
  <2>1. Units(c, n) \in Nat
    BY <1>3, UnitsPositive
  <2> QED BY <1>1, <1>3, <2>1, ChannelFields DEF Controlled, Channel
<1>5. Reprogrammed(c, r, new)
  BY DEF Reprogrammed, Controlled
<1> QED BY <1>2, <1>4, <1>5

\* Both in one: some channel is written.
LEMMA WriteFacts ==
    ASSUME TypeOK, NEW c \in Channels, WriteRegister(c) \/ WriteControl(c)
    PROVE  \E new \in Channel : /\ chan' = [chan EXCEPT ![c] = new]
                                /\ Reprogrammed(c, chan[c], new)
<1>1. CASE WriteRegister(c)
  <2>1. PICK new \in Channel : /\ chan' = [chan EXCEPT ![c] = new]
                               /\ Rewritten(chan[c], new)
    BY <1>1, WriteRegisterFacts
  <2>2. Reprogrammed(c, chan[c], new)
    BY <2>1 DEF Rewritten, Reprogrammed
  <2> QED BY <2>1, <2>2
<1> QED BY <1>1, WriteControlFacts

-----------------------------------------------------------------------------
(* The invariant *)

IInv == TypeOK /\ NothingPending /\ EnabledHasUnits

LEMMA IdleFields == Idle.active = FALSE
BY DEF Idle

LEMMA InitInvariant == Init => IInv
<1> SUFFICES ASSUME Init PROVE IInv
  OBVIOUS
<1>1. \A c \in Channels : /\ chan[c] \in Channel /\ ~chan[c].control.enable
  BY ResetTypes DEF Init, Channel, ResetControl
<1>2. chan \in [Channels -> Channel]
  BY <1>1 DEF Init
<1>3. TypeOK
  BY <1>2, IdleFields DEF Init, TypeOK
<1>4. NothingPending /\ EnabledHasUnits
  BY <1>1 DEF NothingPending, EnabledHasUnits, Immediate
<1> QED BY <1>3, <1>4 DEF IInv

\* A write of a channel keeps types and unit counts.
LEMMA WriteKeeps ==
    ASSUME TypeOK, EnabledHasUnits, NEW c \in Channels, NEW new \in Channel,
           chan' = [chan EXCEPT ![c] = new], Reprogrammed(c, chan[c], new)
    PROVE  chan' \in [Channels -> Channel] /\ EnabledHasUnits'
<1>1. chan \in [Channels -> Channel]
  BY DEF TypeOK
<1>2. new.control.enable => new.internal_count > 0
  <2>1. Units(c, new.count) > 0
    BY ChannelFields, UnitsPositive
  <2> QED BY <2>1 DEF Reprogrammed, EnabledHasUnits
<1> QED BY <1>1, <1>2 DEF EnabledHasUnits

LEMMA ProgramInvariant == IInv /\ Program => IInv'
<1> SUFFICES ASSUME IInv, Program PROVE IInv'
  OBVIOUS
<1> USE DEF IInv
<1>1. PICK c \in Channels :
          \/ WriteRegister(c) /\ UNCHANGED <<timing, ch>>
          \/ /\ WriteControl(c)
             /\ IF Immediate(chan'[c]) THEN Pass("Immediate") ELSE UNCHANGED <<timing, ch>>
  BY DEF Program
<1>2. PICK new \in Channel : /\ chan' = [chan EXCEPT ![c] = new]
                             /\ Reprogrammed(c, chan[c], new)
  BY <1>1, WriteFacts
<1>3. chan' \in [Channels -> Channel] /\ EnabledHasUnits'
  BY <1>2, WriteKeeps
<1>4. transfer' = transfer /\ if_' = if_ /\ ~transfer.active
  BY DEF Program, Rest, TypeOK
<1>5. timing' \in Timing \cup {"none"} /\ ch' \in 0 .. 4
  BY <1>1 DEF Pass, TypeOK, Timing
<1>6. TypeOK'
  BY <1>3, <1>4, <1>5 DEF TypeOK
<1>7. NothingPending'
  <2> SUFFICES ASSUME Rest', NEW d \in Channels PROVE ~Immediate(chan'[d])
    BY DEF NothingPending
  <2>1. Rest /\ ~Immediate(chan[d]) /\ ~Immediate(chan[c])
    BY DEF Program, NothingPending
  <2>2. CASE d # c
    BY <1>2, <2>1, <2>2 DEF TypeOK
  <2>3. CASE d = c /\ WriteRegister(c)
    <3>1. PICK new2 \in Channel : /\ chan' = [chan EXCEPT ![c] = new2]
                                 /\ Rewritten(chan[c], new2)
      BY <2>3, WriteRegisterFacts
    <3> QED BY <2>1, <2>3, <3>1 DEF Rewritten, Immediate, TypeOK
  <2>4. CASE d = c /\ ~WriteRegister(c)
    BY <1>1, <2>4 DEF Pass, Rest
  <2> QED BY <2>2, <2>3, <2>4
<1> QED BY <1>3, <1>6, <1>7

LEMMA StartInvariant == IInv /\ Start => IInv'
<1> SUFFICES ASSUME IInv, Start PROVE IInv'
  OBVIOUS
<1> USE DEF IInv
<1>1. PICK c \in Channels :
          /\ ch' = c
          /\ transfer' = [active |-> TRUE, left |-> chan[c].internal_count,
                          src |-> chan[c].internal_src, dst |-> chan[c].internal_dst,
                          src_adj |-> chan[c].control.src_adj,
                          dst_adj |-> chan[c].control.dst_adj]
  BY DEF Start
<1>2. chan' = chan /\ timing' = timing /\ if_' = if_ /\ timing # "none"
  BY DEF Start, Rest
<1>3. transfer' \in Transfer
  BY <1>1, ChannelFields DEF Transfer, TypeOK
<1>4. TypeOK'
  BY <1>1, <1>2, <1>3, DmaRegistersAssumption DEF TypeOK, Transfer, SrcAdj, DstAdj
<1> QED BY <1>2, <1>4 DEF NothingPending, EnabledHasUnits, Rest

LEMMA TransferFields ==
    ASSUME TypeOK, transfer.active
    PROVE  /\ transfer \in Transfer /\ timing # "none" /\ ch \in Channels
           /\ transfer.left \in Nat /\ transfer.src \in Addr /\ transfer.dst \in Addr
BY DEF TypeOK, Transfer, SrcAdj, DstAdj

\* The copied state after a unit.
LEMMA UnitTransfer ==
    ASSUME TypeOK, Unit
    PROVE  transfer' = [active |-> TRUE, left |-> transfer.left - 1,
                        src |-> Advance(transfer.src, transfer.src_adj),
                        dst |-> Advance(transfer.dst, transfer.dst_adj),
                        src_adj |-> transfer.src_adj, dst_adj |-> transfer.dst_adj]
<1>1. transfer \in Transfer
  BY TransferFields DEF Unit
<1> QED BY <1>1 DEF Unit, Transfer

LEMMA UnitInvariant == IInv /\ Unit => IInv'
<1> SUFFICES ASSUME IInv, Unit PROVE IInv'
  OBVIOUS
<1> USE DEF IInv
<1>1. /\ transfer \in Transfer /\ timing # "none" /\ ch \in Channels
      /\ transfer.left \in Nat /\ transfer.src \in Addr /\ transfer.dst \in Addr
      /\ transfer.left > 0
  BY TransferFields DEF Unit
<1>2. transfer' \in Transfer
  <2>1. /\ Advance(transfer.src, transfer.src_adj) \in Addr
        /\ Advance(transfer.dst, transfer.dst_adj) \in Addr
        /\ transfer.left - 1 \in Nat
    BY <1>1, AdvanceType
  <2>2. transfer.src_adj \in SrcAdj /\ transfer.dst_adj \in DstAdj
    BY <1>1 DEF Transfer
  <2> DEFINE a == Advance(transfer.src, transfer.src_adj)
             b == Advance(transfer.dst, transfer.dst_adj)
             n == transfer.left - 1
  <2>3. transfer' = [active |-> TRUE, left |-> n, src |-> a, dst |-> b,
                     src_adj |-> transfer.src_adj, dst_adj |-> transfer.dst_adj]
    BY UnitTransfer
  <2>4. a \in Addr /\ b \in Addr /\ n \in Nat
    BY <2>1
  <2> HIDE DEF a, b, n
  <2> QED BY <2>2, <2>3, <2>4 DEF Transfer
<1>3. chan' \in [Channels -> Channel] /\ EnabledHasUnits'
  <2>1. CASE UNCHANGED chan
    BY <2>1 DEF TypeOK, EnabledHasUnits
  <2>2. CASE \E c \in Channels : WriteRegister(c) \/ WriteControl(c)
    BY <2>2, WriteFacts, WriteKeeps
  <2> QED BY <2>1, <2>2 DEF Unit
<1>4. timing' = timing /\ ch' = ch /\ if_' = if_
  BY DEF Unit
<1>5. TypeOK'
  BY <1>1, <1>2, <1>3, <1>4 DEF TypeOK, Transfer, SrcAdj, DstAdj
<1> QED BY <1>1, <1>3, <1>4, <1>5 DEF NothingPending, Rest

LEMMA FinishedType ==
    ASSUME TypeOK, transfer.active
    PROVE  /\ Finished(ch, chan[ch]) \in Channel
           /\ Finished(ch, chan[ch]).control.enable =
                  (chan[ch].control.enable /\ chan[ch].control.repeat)
           /\ chan[ch].control.repeat =>
                  Finished(ch, chan[ch]).internal_count = Units(ch, chan[ch].count)
<1> DEFINE r == chan[ch]
           control == [r.control EXCEPT !.enable = @ /\ r.control.repeat]
<1>1. r \in Channel /\ ch \in Channels /\ transfer.src \in Addr /\ transfer.dst \in Addr
  BY TransferFields DEF TypeOK
<1>2. control \in Control /\ control.enable = (r.control.enable /\ r.control.repeat)
  BY <1>1, ChannelFields DEF Control
<1>3. Units(ch, r.count) \in Nat
  BY <1>1, ChannelFields, UnitsPositive
<1>4. Finished(ch, r) =
          [src |-> r.src, dst |-> r.dst, count |-> r.count, control |-> control,
           internal_src |-> transfer.src,
           internal_dst |-> IF r.control.dst_adj = "reload" THEN r.dst ELSE transfer.dst,
           internal_count |-> IF r.control.repeat THEN Units(ch, r.count)
                                                  ELSE r.internal_count]
  BY DEF Finished
<1>5. /\ r.src \in Addr /\ r.dst \in Addr /\ r.count \in Nat /\ r.internal_count \in Nat
  BY <1>1, ChannelFields
<1> HIDE DEF r, control
<1>6. Finished(ch, r) \in Channel
  BY <1>1, <1>2, <1>3, <1>4, <1>5 DEF Channel
<1>7. Finished(ch, r).control = control
  BY <1>4
<1>8. r.control.repeat => Finished(ch, r).internal_count = Units(ch, r.count)
  BY <1>4
<1> QED BY <1>2, <1>6, <1>7, <1>8 DEF r

LEMMA FinishInvariant == IInv /\ Finish => IInv'
<1> SUFFICES ASSUME IInv, Finish PROVE IInv'
  OBVIOUS
<1> USE DEF IInv
<1>1. /\ transfer.active /\ ch \in Channels /\ timing # "none"
      /\ chan \in [Channels -> Channel]
  BY TransferFields DEF Finish, TypeOK
<1>2. /\ chan' = [chan EXCEPT ![ch] = Finished(ch, chan[ch])]
      /\ transfer' = Idle /\ ch' = ch + 1 /\ timing' = timing
      /\ if_' = IF chan[ch].control.irq THEN if_ \cup {ch} ELSE if_
  BY <1>1 DEF Finish
<1>3. chan' \in [Channels -> Channel]
  BY <1>1, <1>2, FinishedType
<1>4. TypeOK'
  <2>1. ch' \in 0 .. 4
    BY <1>1, <1>2, DmaRegistersAssumption
  <2>2. if_' \subseteq Channels
    BY <1>1, <1>2 DEF TypeOK
  <2> QED BY <1>2, <1>3, <2>1, <2>2, IdleFields DEF TypeOK
<1>5. EnabledHasUnits'
  <2> SUFFICES ASSUME NEW c \in Channels, chan'[c].control.enable
               PROVE  chan'[c].internal_count > 0
    BY DEF EnabledHasUnits
  <2>1. CASE c = ch
    BY <1>1, <1>2, <2>1, FinishedType, ChannelFields, UnitsPositive
  <2>2. CASE c # ch
    BY <1>1, <1>2, <2>2 DEF EnabledHasUnits
  <2> QED BY <2>1, <2>2
<1> QED BY <1>1, <1>2, <1>4, <1>5 DEF NothingPending, Rest

LEMMA OtherInvariant == IInv /\ (Acknowledge \/ Trigger \/ EndPass) => IInv'
<1> SUFFICES ASSUME IInv, Acknowledge \/ Trigger \/ EndPass PROVE IInv'
  OBVIOUS
<1> USE DEF IInv
<1>1. chan' = chan /\ transfer' = transfer /\ if_' \subseteq Channels
  BY DEF Acknowledge, Trigger, EndPass, TypeOK
<1>2. ~transfer.active
  BY DEF Acknowledge, Trigger, EndPass, Done, Rest, TypeOK
<1>6. timing' \in Timing \cup {"none"} /\ ch' \in 0 .. 4
  <2>1. CASE Acknowledge
    BY <2>1 DEF Acknowledge, TypeOK
  <2>2. CASE Trigger
    BY <2>2 DEF Trigger, Pass, Timing
  <2>3. CASE EndPass
    BY <2>3 DEF EndPass, Pass, Timing
  <2> QED BY <2>1, <2>2, <2>3
<1>3. TypeOK'
  BY <1>1, <1>2, <1>6 DEF TypeOK
<1>4. EnabledHasUnits'
  BY <1>1 DEF EnabledHasUnits
<1>5. NothingPending'
  BY <1>1 DEF NothingPending, Acknowledge, Trigger, EndPass, Rest, Pass
<1> QED BY <1>3, <1>4, <1>5

LEMMA StepInvariant == IInv /\ [Next]_vars => IInv'
<1> SUFFICES ASSUME IInv, [Next]_vars PROVE IInv'
  OBVIOUS
<1>1. CASE UNCHANGED vars
  BY <1>1 DEF vars, IInv, TypeOK, NothingPending, EnabledHasUnits, Rest
<1> QED BY <1>1, ProgramInvariant, StartInvariant, UnitInvariant, FinishInvariant,
           OtherInvariant DEF Next, Machine

-----------------------------------------------------------------------------
(* Refinement of DmaChannels *)

\* The instance speaks of the same operators.
LEMMA SameOperators ==
    /\ \A c, n : DC!Units(c, n) = Units(c, n)
    /\ \A a, adj : DC!Advance(a, adj) = Advance(a, adj)
    /\ DC!Addr = Addr /\ DC!Control = Control /\ DC!ResetControl = ResetControl
<1>1. \A c, n : DC!Units(c, n) = Units(c, n)
  BY DEF DC!Units, Units
<1>2. \A a, adj : DC!Advance(a, adj) = Advance(a, adj)
  BY DEF DC!Advance, Advance, DC!Step, Step
<1>3. DC!Addr = Addr /\ DC!ResetControl = ResetControl
  BY DEF DC!Addr, Addr, DC!ResetControl, ResetControl
<1>4. DC!Control = Control
  BY DEF DC!Control, Control, DC!Timing, Timing
<1> QED BY <1>1, <1>2, <1>3, <1>4

RegsOf(r) == [src |-> r.src, dst |-> r.dst, count |-> r.count, control |-> r.control]

LEMMA RegsType ==
    ASSUME NEW cs \in [Channels -> Channel], NEW c \in Channels
    PROVE  RegsOf(cs[c]) \in DC!Registers
BY ChannelFields, SameOperators DEF RegsOf, DC!Registers

LEMMA RegsFields ==
    /\ Regs = [c \in Channels |-> RegsOf(chan[c])]
    /\ Regs' = [c \in Channels |-> RegsOf(chan'[c])]
    /\ \A r : /\ RegsOf(r).src = r.src /\ RegsOf(r).dst = r.dst
              /\ RegsOf(r).count = r.count /\ RegsOf(r).control = r.control
BY DEF Regs, RegsOf

\* The pointers of channel c, when t is the copied state of channel i.
PtrOf(c, i, t, r) ==
    IF t.active /\ i = c THEN [src |-> t.src, dst |-> t.dst, left |-> t.left]
    ELSE IF r.control.enable
    THEN [src |-> r.internal_src, dst |-> r.internal_dst, left |-> r.internal_count]
    ELSE DC!NoPtr

LEMMA PointersFields ==
    /\ Pointers = [c \in Channels |-> PtrOf(c, ch, transfer, chan[c])]
    /\ Pointers' = [c \in Channels |-> PtrOf(c, ch', transfer', chan'[c])]
BY DEF Pointers, PtrOf, DC!NoPtr, Running

LEMMA RefinesInit == Init => DC!Init
<1> SUFFICES ASSUME Init PROVE DC!Init
  OBVIOUS
<1>1. Regs = [c \in Channels |-> [src |-> 0, dst |-> 0, count |-> 0,
                                  control |-> DC!ResetControl]]
  BY SameOperators DEF Init, Regs
<1>2. Pointers = [c \in Channels |-> DC!NoPtr]
  BY IdleFields DEF Init, Pointers, Running, ResetControl, DC!NoPtr
<1>3. Moving = DC!NoMove
  BY IdleFields DEF Init, Moving, DC!NoMove
<1> QED BY <1>1, <1>2, <1>3 DEF DC!Init

\* What DC!Write asks of a written channel; p are the pointers before it.
LEMMA RefinesWrite ==
    ASSUME TypeOK, NEW c \in Channels, NEW new \in Channel, NEW p,
           chan' = [chan EXCEPT ![c] = new], Reprogrammed(c, chan[c], new),
           ch' = ch \/ ~transfer.active, transfer'.active = transfer.active,
           p = [d \in Channels |-> PtrOf(d, ch, transfer', chan[d])]
    PROVE  DC!Write(p)
<1>1. chan \in [Channels -> Channel] /\ chan' \in [Channels -> Channel]
  BY DEF TypeOK
<1>2. Regs' \in [Channels -> DC!Registers]
  BY <1>1, RegsType, RegsFields
<1>3. \A d \in Channels \ {c} : Regs'[d] = Regs[d]
  BY <1>1, RegsFields
<1>4. Regs'[c].control = new.control /\ Regs[c].control = chan[c].control
      /\ DC!Latch(c, Regs'[c]) =
             [src |-> new.src, dst |-> new.dst, left |-> Units(c, new.count)]
  BY <1>1, RegsFields, SameOperators DEF DC!Latch
<1>5. Moving.ch = c <=> transfer.active /\ ch = c
  BY DmaRegistersAssumption DEF Moving
<1>6. Pointers'[c] = IF Moving.ch = c THEN p[c]
                     ELSE IF ~Regs'[c].control.enable THEN DC!NoPtr
                     ELSE IF Regs[c].control.enable THEN p[c]
                     ELSE DC!Latch(c, Regs'[c])
  <2>1. Pointers'[c] = PtrOf(c, ch', transfer', new)
    BY <1>1, PointersFields
  <2>2. p[c] = PtrOf(c, ch, transfer', chan[c])
    OBVIOUS
  <2>3. CASE transfer.active /\ ch = c
    BY <1>5, <2>1, <2>2, <2>3 DEF PtrOf
  <2>4. CASE ~(transfer.active /\ ch = c)
    BY <1>4, <1>5, <2>1, <2>2, <2>4 DEF PtrOf, Reprogrammed
  <2> QED BY <2>3, <2>4
<1>7. \A d \in Channels \ {c} : Pointers'[d] = p[d]
  BY <1>1, PointersFields DEF PtrOf
<1>8. Pointers' = [p EXCEPT ![c] = Pointers'[c]]
  <2>1. Pointers' = [d \in Channels |-> Pointers'[d]]
    BY PointersFields
  <2> QED BY <1>7, <2>1
<1> QED BY <1>2, <1>3, <1>6, <1>8 DEF DC!Write

LEMMA RefinesProgram == TypeOK /\ Program => DC!Program
<1> SUFFICES ASSUME TypeOK, Program PROVE DC!Program
  OBVIOUS
<1>1. PICK c \in Channels : WriteRegister(c) \/ WriteControl(c)
  BY DEF Program
<1>2. PICK new \in Channel : /\ chan' = [chan EXCEPT ![c] = new]
                             /\ Reprogrammed(c, chan[c], new)
  BY <1>1, WriteFacts
<1>3. transfer' = transfer /\ ~transfer.active
  BY DEF Program, Rest, TypeOK
<1>4. DC!Write(Pointers)
  BY <1>2, <1>3, RefinesWrite, PointersFields
<1>5. Moving = DC!NoMove /\ Moving' = Moving
  BY <1>3 DEF Moving, DC!NoMove
<1> QED BY <1>4, <1>5 DEF DC!Program

LEMMA RefinesStart == TypeOK /\ Start => DC!Begin
<1> SUFFICES ASSUME TypeOK, Start PROVE DC!Begin
  OBVIOUS
<1>1. PICK c \in Channels :
          /\ Found(c) /\ ch' = c
          /\ transfer' = [active |-> TRUE, left |-> chan[c].internal_count,
                          src |-> chan[c].internal_src, dst |-> chan[c].internal_dst,
                          src_adj |-> chan[c].control.src_adj,
                          dst_adj |-> chan[c].control.dst_adj]
  BY DEF Start
<1>2. chan' = chan /\ ~transfer.active
  BY DEF Start
<1>3. chan[c].control.enable /\ Regs[c].control = chan[c].control
  BY <1>1, RegsFields DEF Found, Matches
<1>4. Regs' = Regs
  BY <1>2, RegsFields
<1>5. Pointers' = Pointers
  <2>1. \A d \in Channels : PtrOf(d, ch', transfer', chan'[d]) = PtrOf(d, ch, transfer, chan[d])
    BY <1>1, <1>2, <1>3 DEF PtrOf
  <2> QED BY <2>1, PointersFields
<1>6. /\ Moving = DC!NoMove
      /\ Moving' = [ch |-> c, src_adj |-> Regs[c].control.src_adj,
                    dst_adj |-> Regs[c].control.dst_adj]
  BY <1>1, <1>2, <1>3 DEF Moving, DC!NoMove
<1> QED BY <1>3, <1>4, <1>5, <1>6 DEF DC!Begin

\* While a channel moves, its number is not that of DC!NoMove.
LEMMA MovingFields ==
    ASSUME TypeOK, transfer.active
    PROVE  /\ Moving = [ch |-> ch, src_adj |-> transfer.src_adj, dst_adj |-> transfer.dst_adj]
           /\ Moving.ch = ch /\ Moving # DC!NoMove
           /\ Pointers[ch] = [src |-> transfer.src, dst |-> transfer.dst, left |-> transfer.left]
<1>1. ch \in Channels /\ ch # -1
  BY TransferFields, DmaRegistersAssumption
<1>2. Moving = [ch |-> ch, src_adj |-> transfer.src_adj, dst_adj |-> transfer.dst_adj]
  BY DEF Moving
<1>3. Moving.ch = ch /\ DC!NoMove.ch = -1
  BY <1>2 DEF DC!NoMove
<1>4. Pointers[ch] = [src |-> transfer.src, dst |-> transfer.dst, left |-> transfer.left]
  BY <1>1, PointersFields DEF PtrOf
<1> QED BY <1>1, <1>2, <1>3, <1>4

LEMMA RefinesUnit == TypeOK /\ Unit => DC!Unit
<1> SUFFICES ASSUME TypeOK, Unit PROVE DC!Unit
  OBVIOUS
<1> DEFINE moved == [src |-> Advance(transfer.src, transfer.src_adj),
                     dst |-> Advance(transfer.dst, transfer.dst_adj),
                     left |-> transfer.left - 1]
           p == [Pointers EXCEPT ![ch] = moved]
<1>1. /\ transfer.active /\ transfer.left > 0 /\ ch' = ch /\ ch \in Channels
  BY TransferFields DEF Unit
<1>2. /\ transfer'.active /\ transfer'.src = moved.src /\ transfer'.dst = moved.dst
      /\ transfer'.left = moved.left /\ transfer'.src_adj = transfer.src_adj
      /\ transfer'.dst_adj = transfer.dst_adj
  BY UnitTransfer
<1>3. p = [d \in Channels |-> PtrOf(d, ch, transfer', chan[d])]
  <2>1. PtrOf(ch, ch, transfer', chan[ch]) = moved
    BY <1>2 DEF PtrOf
  <2>2. \A d \in Channels : d # ch =>
            PtrOf(d, ch, transfer', chan[d]) = PtrOf(d, ch, transfer, chan[d])
    BY DEF PtrOf
  <2> HIDE DEF moved
  <2> QED BY <2>1, <2>2, PointersFields
<1>4. /\ Moving.ch = ch /\ Moving # DC!NoMove /\ Moving' = Moving
      /\ Pointers[Moving.ch].left > 0
  BY <1>1, <1>2, MovingFields DEF Moving
<1>5. p = [Pointers EXCEPT ![Moving.ch] =
              [src |-> DC!Advance(Pointers[Moving.ch].src, Moving.src_adj),
               dst |-> DC!Advance(Pointers[Moving.ch].dst, Moving.dst_adj),
               left |-> Pointers[Moving.ch].left - 1]]
  <2>1. DC!Advance(transfer.src, transfer.src_adj) = Advance(transfer.src, transfer.src_adj)
    BY SameOperators
  <2>2. DC!Advance(transfer.dst, transfer.dst_adj) = Advance(transfer.dst, transfer.dst_adj)
    BY SameOperators
  <2>3. /\ Moving.ch = ch /\ Moving.src_adj = transfer.src_adj
        /\ Moving.dst_adj = transfer.dst_adj
    BY <1>1, MovingFields
  <2>4. /\ Pointers[ch].src = transfer.src /\ Pointers[ch].dst = transfer.dst
        /\ Pointers[ch].left = transfer.left
    BY <1>1, MovingFields
  <2> QED BY <2>1, <2>2, <2>3, <2>4
<1>6. CASE UNCHANGED chan
  <2>1. Regs' = Regs
    BY <1>6, RegsFields
  <2>2. Pointers' = p
    BY <1>1, <1>3, <1>6, PointersFields
  <2> HIDE DEF p
  <2> QED BY <1>4, <1>5, <2>1, <2>2 DEF DC!Unit
<1>7. CASE \E c \in Channels : WriteRegister(c) \/ WriteControl(c)
  <2>1. PICK c \in Channels, new \in Channel :
            /\ chan' = [chan EXCEPT ![c] = new] /\ Reprogrammed(c, chan[c], new)
    BY <1>7, WriteFacts
  <2>2. transfer'.active = transfer.active
    BY <1>1, <1>2
  <2> HIDE DEF p
  <2>3. DC!Write(p)
    BY <1>1, <1>3, <2>1, <2>2, RefinesWrite
  <2> QED BY <1>4, <1>5, <2>3 DEF DC!Unit
<1> QED BY <1>6, <1>7 DEF Unit

LEMMA RefinesFinish == TypeOK /\ Finish => DC!End
<1> SUFFICES ASSUME TypeOK, Finish PROVE DC!End
  OBVIOUS
<1> DEFINE r == chan[ch]
           on == r.control.enable /\ r.control.repeat
           new == Finished(ch, r)
<1>1. /\ transfer.active /\ transfer.left = 0 /\ ch \in Channels
      /\ chan \in [Channels -> Channel] /\ r \in Channel /\ new \in Channel
  BY TransferFields, FinishedType DEF Finish, TypeOK
<1>2. chan' = [chan EXCEPT ![ch] = new] /\ transfer' = Idle
  BY <1>1 DEF Finish
<1>3. /\ new.src = r.src /\ new.dst = r.dst /\ new.count = r.count
      /\ new.control = [r.control EXCEPT !.enable = on]
      /\ new.internal_src = transfer.src
      /\ new.internal_dst = IF r.control.dst_adj = "reload" THEN r.dst ELSE transfer.dst
      /\ r.control.repeat => new.internal_count = Units(ch, r.count)
  BY DEF Finished
<1>4. new.control.enable = on
  BY <1>1, FinishedType
<1>5. Moving # DC!NoMove /\ Moving.ch = ch /\ Moving' = DC!NoMove
  BY <1>1, <1>2, MovingFields, IdleFields DEF Moving, DC!NoMove
<1>6. Regs[ch] = RegsOf(r) /\ RegsOf(new) = [RegsOf(r) EXCEPT !.control.enable = on]
  <2>1. Regs[ch] = RegsOf(r)
    BY <1>1, RegsFields
  <2>2. RegsOf(new) = [src |-> r.src, dst |-> r.dst, count |-> r.count,
                       control |-> [r.control EXCEPT !.enable = on]]
    BY <1>3 DEF RegsOf
  <2> QED BY <2>1, <2>2 DEF RegsOf
<1>7. Regs' = [Regs EXCEPT ![ch].control.enable = on]
  <2>1. \A d \in Channels : Regs'[d] = IF d = ch THEN RegsOf(new) ELSE Regs[d]
    BY <1>1, <1>2, RegsFields
  <2>2. Regs' = [d \in Channels |-> Regs'[d]] /\ Regs = [d \in Channels |-> Regs[d]]
    BY RegsFields
  <2>3. [Regs EXCEPT ![ch].control.enable = on] =
            [d \in Channels |-> IF d = ch THEN [Regs[ch] EXCEPT !.control.enable = on]
                                          ELSE Regs[d]]
    BY <2>2
  <2> HIDE DEF on, new, r
  <2> QED BY <1>6, <2>1, <2>2, <2>3
<1> DEFINE left == IF ~on THEN DC!NoPtr
                   ELSE [src |-> Pointers[ch].src, left |-> DC!Units(ch, Regs[ch].count),
                         dst |-> IF Regs[ch].control.dst_adj = "reload"
                                 THEN Regs[ch].dst ELSE Pointers[ch].dst]
<1>8. Pointers' = [Pointers EXCEPT ![ch] = left]
  <2>1. Pointers'[ch] = PtrOf(ch, ch', Idle, new)
    BY <1>1, <1>2, PointersFields
  <2>2. PtrOf(ch, ch', Idle, new) =
            IF on THEN [src |-> new.internal_src, dst |-> new.internal_dst,
                        left |-> new.internal_count]
            ELSE DC!NoPtr
    BY <1>4, IdleFields DEF PtrOf
  <2>3. /\ Regs[ch].count = r.count /\ Regs[ch].control = r.control
        /\ Regs[ch].dst = r.dst
    BY <1>6, RegsFields
  <2>4. DC!Units(ch, r.count) = Units(ch, r.count)
    BY SameOperators
  <2>5. Pointers[ch].src = transfer.src /\ Pointers[ch].dst = transfer.dst
    BY <1>1, MovingFields
  <2>6. Pointers'[ch] = left
    BY <1>3, <2>1, <2>2, <2>3, <2>4, <2>5
  <2>7. \A d \in Channels : d # ch => Pointers'[d] = Pointers[d]
    BY <1>1, <1>2, PointersFields, IdleFields DEF PtrOf
  <2>8. /\ Pointers' = [d \in Channels |-> Pointers'[d]]
        /\ Pointers = [d \in Channels |-> Pointers[d]]
    BY PointersFields
  <2> HIDE DEF left
  <2> QED BY <2>6, <2>7, <2>8
<1>9. Pointers[ch].left = 0
  BY <1>1, MovingFields
<1>10. on = (Regs[ch].control.enable /\ Regs[ch].control.repeat)
  BY <1>6, RegsFields
<1> HIDE DEF new
<1> QED BY <1>5, <1>7, <1>8, <1>9, <1>10 DEF DC!End

LEMMA RefinesOther ==
    TypeOK /\ (Acknowledge \/ Trigger \/ EndPass \/ UNCHANGED vars)
        => UNCHANGED <<Regs, Pointers, Moving>>
<1> SUFFICES ASSUME TypeOK, Acknowledge \/ Trigger \/ EndPass \/ UNCHANGED vars
             PROVE  UNCHANGED <<Regs, Pointers, Moving>>
  OBVIOUS
<1>1. chan' = chan /\ transfer' = transfer
  BY DEF Acknowledge, Trigger, EndPass, vars
<1>2. ch' = ch \/ ~transfer.active
  BY DEF Acknowledge, Trigger, EndPass, Done, Rest, TypeOK, vars
<1>3. Regs' = Regs
  BY <1>1, RegsFields
<1>4. Pointers' = Pointers
  <2>1. \A d \in Channels : PtrOf(d, ch', transfer', chan'[d]) = PtrOf(d, ch, transfer, chan[d])
    BY <1>1, <1>2 DEF PtrOf
  <2> QED BY <2>1, PointersFields
<1>5. Moving' = Moving
  BY <1>1, <1>2 DEF Moving
<1> QED BY <1>3, <1>4, <1>5

LEMMA RefinesNext == TypeOK /\ [Next]_vars => [DC!Next]_(<<Regs, Pointers, Moving>>)
BY RefinesProgram, RefinesStart, RefinesUnit, RefinesFinish, RefinesOther
   DEF Next, Machine, DC!Next

-----------------------------------------------------------------------------
(* The theorems *)

\* The inductive invariant: types, no immediate channel left waiting outside a
\* transfer, and no channel on with nothing to move (run_dma, bus.rs).
THEOREM DmaInvariant == Spec => []IInv
BY InitInvariant, StepInvariant, PTL DEF Spec

\* Registers, pointers and the pass keep their types.
THEOREM DmaTypeOK == Spec => []TypeOK
BY DmaInvariant, PTL DEF IInv

\* run_dma never returns with a channel waiting for an immediate start.
THEOREM DmaNothingPending == Spec => []NothingPending
BY DmaInvariant, PTL DEF IInv

\* No enabled channel has a count of zero.
THEOREM DmaEnabledHasUnits == Spec => []EnabledHasUnits
BY DmaInvariant, PTL DEF IInv

\* run_dma, with its copies of a channel's state and its writes to registers
\* of other channels and its own, keeps the promise of DmaChannels.
THEOREM DmaImplementsChannels == Spec => ImplementsChannels
BY RefinesInit, RefinesNext, DmaTypeOK, PTL DEF Spec, ImplementsChannels, DC!Spec
=============================================================================
