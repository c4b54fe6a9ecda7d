-------------------------------- MODULE Dma ---------------------------------
(***************************************************************************)
(* The DMA controller: control writes (dma.rs), the passes of run_dma and  *)
(* run_immediate_dma and the triggers of a scanline (bus.rs).              *)
(*                                                                         *)
(* One step is one unit of a transfer, whose bus write may be a write to a *)
(* DMA register.  Memory is left out.  A register write may combine count  *)
(* and control, as a word store does.                                      *)
(***************************************************************************)
EXTENDS DmaRegisters

VARIABLES
    chan,       \* Dma.channels
    timing,     \* the argument of the run_dma that runs, or "none"
    ch,         \* the loop variable of run_dma
    transfer,   \* the copied state of the channel that runs, or Idle
    if_         \* the DMA bits of IF

vars == <<chan, timing, ch, transfer, if_>>

Channel ==
    [src : Addr, dst : Addr, count : Nat, control : Control,
     internal_src : Addr, internal_dst : Addr, internal_count : Nat]

Idle == [active |-> FALSE, left |-> 0, src |-> 0, dst |-> 0,
         src_adj |-> "fixed", dst_adj |-> "fixed"]

TypeOK ==
    /\ chan \in [Channels -> Channel]
    /\ timing \in Timing \cup {"none"}
    /\ ch \in 0 .. 4
    /\ transfer.active => /\ timing # "none" /\ ch \in Channels
                          /\ transfer \in [active : {TRUE}, left : Nat, src : Addr, dst : Addr,
                                           src_adj : {"inc", "dec", "fixed"},
                                           dst_adj : {"inc", "dec", "fixed", "reload"}]
    /\ ~transfer.active => transfer = Idle
    /\ if_ \subseteq Channels

Init ==
    /\ chan = [c \in Channels |->
                  [src |-> 0, dst |-> 0, count |-> 0, control |-> ResetControl,
                   internal_src |-> 0, internal_dst |-> 0, internal_count |-> 0]]
    /\ timing = "none" /\ ch = 0 /\ transfer = Idle
    /\ if_ = {}

-----------------------------------------------------------------------------
(* Register writes *)

\* write_control, after a write of count.
\* Seeded fault: every write to an enabled channel's control latches again.
Controlled_Relatches(c, r, n, control) ==
    LET latch == control.enable
    IN  [src |-> r.src, dst |-> r.dst, count |-> n, control |-> control,
         internal_src |-> IF latch THEN r.src ELSE r.internal_src,
         internal_dst |-> IF latch THEN r.dst ELSE r.internal_dst,
         internal_count |-> IF latch THEN Units(c, n) ELSE r.internal_count]

Controlled(c, r, n, control) ==
    LET latch == ~r.control.enable /\ control.enable
    IN  [src |-> r.src, dst |-> r.dst, count |-> n, control |-> control,
         internal_src |-> IF latch THEN r.src ELSE r.internal_src,
         internal_dst |-> IF latch THEN r.dst ELSE r.internal_dst,
         internal_count |-> IF latch THEN Units(c, n) ELSE r.internal_count]

WriteRegister(c) ==
    \/ \E a \in Addresses : chan' = [chan EXCEPT ![c].src = a]
    \/ \E a \in Addresses : chan' = [chan EXCEPT ![c].dst = a]
    \/ \E n \in Counts : chan' = [chan EXCEPT ![c].count = n]

WriteControl(c) ==
    \E n \in Counts \cup {chan[c].count}, control \in Controls :
        chan' = [chan EXCEPT ![c] = Controlled(c, @, n, control)]

-----------------------------------------------------------------------------
(* The program and the scanline, while no transfer runs *)

Rest == timing = "none"

Pass(t) == timing' = t /\ ch' = 0

\* Only a control write with enable and immediate timing starts a pass.
Program ==
    /\ Rest
    /\ \E c \in Channels :
           \/ WriteRegister(c) /\ UNCHANGED <<timing, ch>>
           \/ /\ WriteControl(c)
              /\ IF Immediate(chan'[c]) THEN Pass("Immediate") ELSE UNCHANGED <<timing, ch>>
    /\ UNCHANGED <<transfer, if_>>

Acknowledge == Rest /\ \E c \in if_ : if_' = if_ \ {c} /\ UNCHANGED <<chan, timing, ch, transfer>>

\* VCOUNT reaches 160, or a visible line's HBlank begins.
Trigger == Rest /\ \E t \in {"VBlank", "HBlank"} : Pass(t) /\ UNCHANGED <<chan, transfer, if_>>

-----------------------------------------------------------------------------
(* run_dma *)

Matches(c) == chan[c].control.enable /\ chan[c].control.timing = timing

\* The next channel that the pass runs.
Found(c) == c >= ch /\ Matches(c) /\ \A d \in Channels : d \in ch .. c - 1 => ~Matches(d)

Start ==
    /\ ~Rest /\ ~transfer.active
    /\ \E c \in Channels :
           /\ Found(c)
           /\ ch' = c
           /\ transfer' = [active |-> TRUE, left |-> chan[c].internal_count,
                           src |-> chan[c].internal_src, dst |-> chan[c].internal_dst,
                           src_adj |-> chan[c].control.src_adj,
                           dst_adj |-> chan[c].control.dst_adj]
    /\ UNCHANGED <<chan, timing, if_>>

\* A unit, and what its write does to DMA registers.
Unit ==
    /\ transfer.active /\ transfer.left > 0
    /\ transfer' = [transfer EXCEPT !.left = @ - 1,
                                    !.src = Advance(@, transfer.src_adj),
                                    !.dst = Advance(@, transfer.dst_adj)]
    /\ \/ UNCHANGED chan
       \/ \E c \in Channels : WriteRegister(c) \/ WriteControl(c)
    /\ UNCHANGED <<timing, ch, if_>>

\* The channel's registers are read again: a unit may have written them.
\* Seeded fault: a repeat takes the count register as it is.
Finished_CountAsIs(c, r) ==
    [src |-> r.src, dst |-> r.dst, count |-> r.count,
     control |-> [r.control EXCEPT !.enable = @ /\ r.control.repeat],
     internal_src |-> transfer.src,
     internal_dst |-> IF r.control.dst_adj = "reload" THEN r.dst ELSE transfer.dst,
     internal_count |-> IF r.control.repeat THEN r.count ELSE r.internal_count]

\* Seeded fault: the enable bit stays set after a transfer without repeat.
Finished_StaysOn(c, r) ==
    [src |-> r.src, dst |-> r.dst, count |-> r.count, control |-> r.control,
     internal_src |-> transfer.src,
     internal_dst |-> IF r.control.dst_adj = "reload" THEN r.dst ELSE transfer.dst,
     internal_count |-> Units(c, r.count)]

Finished(c, r) ==
    [src |-> r.src, dst |-> r.dst, count |-> r.count,
     control |-> [r.control EXCEPT !.enable = @ /\ r.control.repeat],
     internal_src |-> transfer.src,
     internal_dst |-> IF r.control.dst_adj = "reload" THEN r.dst ELSE transfer.dst,
     internal_count |-> IF r.control.repeat THEN Units(c, r.count) ELSE r.internal_count]

Finish ==
    /\ transfer.active /\ transfer.left = 0
    /\ chan' = [chan EXCEPT ![ch] = Finished(ch, @)]
    /\ if_' = IF chan[ch].control.irq THEN if_ \cup {ch} ELSE if_
    /\ transfer' = Idle /\ ch' = ch + 1
    /\ UNCHANGED timing

Done == ~Rest /\ ~transfer.active /\ \A c \in Channels : ~Found(c)

\* Seeded fault: only an immediate pass looks for channels that transfers
\* have turned on.
EndPass_NoDrain ==
    /\ Done
    /\ IF timing = "Immediate" /\ \E c \in Channels : Immediate(chan[c])
       THEN Pass("Immediate") ELSE Pass("none")
    /\ UNCHANGED <<chan, transfer, if_>>

\* Every pass is followed by immediate passes until no channel asks for one.
EndPass ==
    /\ Done
    /\ IF \E c \in Channels : Immediate(chan[c]) THEN Pass("Immediate") ELSE Pass("none")
    /\ UNCHANGED <<chan, transfer, if_>>

Machine == Start \/ Unit \/ Finish \/ EndPass

Next == Program \/ Acknowledge \/ Trigger \/ Machine

\* run_dma returns to its caller only when it is done.
Spec == Init /\ [][Next]_vars /\ WF_vars(Machine)

-----------------------------------------------------------------------------
(* Properties *)

\* No register write, by the program or by a transfer of any kind, leaves a
\* channel waiting for an immediate start when run_dma has returned (bus.rs,
\* the drain after a blanking pass).
NothingPending == Rest => \A c \in Channels : ~Immediate(chan[c])

\* An enabled channel always has units to move: a count of zero never reaches
\* the transfer loop, where it would move nothing (write_control and the
\* repeat in run_dma).
EnabledHasUnits == \A c \in Channels : chan[c].control.enable => chan[c].internal_count > 0

\* The copies that run_dma works on and writes back are pointers that move
\* with every unit and that nothing but enabling and repeats reloads.
Running(c) == transfer.active /\ ch = c

Regs ==
    [c \in Channels |-> [src |-> chan[c].src, dst |-> chan[c].dst,
                        count |-> chan[c].count, control |-> chan[c].control]]

Pointers ==
    [c \in Channels |->
        IF Running(c)
        THEN [src |-> transfer.src, dst |-> transfer.dst, left |-> transfer.left]
        ELSE IF chan[c].control.enable
        THEN [src |-> chan[c].internal_src, dst |-> chan[c].internal_dst,
              left |-> chan[c].internal_count]
        ELSE [src |-> 0, dst |-> 0, left |-> 0]]

Moving ==
    IF transfer.active
    THEN [ch |-> ch, src_adj |-> transfer.src_adj, dst_adj |-> transfer.dst_adj]
    ELSE [ch |-> -1, src_adj |-> "fixed", dst_adj |-> "fixed"]

DC == INSTANCE DmaChannels WITH reg <- Regs, ptr <- Pointers, moving <- Moving

ImplementsChannels == DC!Spec

\* A transfer's write makes a channel ask for an immediate start.
Rearms == ~Rest /\ \E c \in Channels : Immediate(chan'[c]) /\ ~Immediate(chan[c])

\* The CPU gets the bus back, if transfers stop turning channels on and no
\* channel repeats immediately.
BusComesBack ==
    /\ <>[][~Rearms]_vars
    /\ <>[](\A c \in Channels : ~(Immediate(chan[c]) /\ chan[c].control.repeat))
    => (~Rest ~> Rest)
=============================================================================
