---------------------------- MODULE DmaChannels -----------------------------
(***************************************************************************)
(* What a DMA channel promises: turning it on copies its registers to      *)
(* pointers of its own, every unit moves these pointers at once, and only  *)
(* a repeat reloads the count, and the destination if asked to.  When a    *)
(* channel runs, and in which order, is left open.                         *)
(***************************************************************************)
EXTENDS DmaRegisters

VARIABLES
    reg,      \* src, dst, count and control of every channel
    ptr,      \* src, dst and left of the channels that are on or moving
    moving    \* the channel that moves units, with its steps, or none

Registers == [src : Addr, dst : Addr, count : Nat, control : Control]
NoMove == [ch |-> -1, src_adj |-> "fixed", dst_adj |-> "fixed"]
NoPtr == [src |-> 0, dst |-> 0, left |-> 0]
Latch(ch, r) == [src |-> r.src, dst |-> r.dst, left |-> Units(ch, r.count)]

Init ==
    /\ reg = [ch \in Channels |->
                 [src |-> 0, dst |-> 0, count |-> 0, control |-> ResetControl]]
    /\ ptr = [ch \in Channels |-> NoPtr]
    /\ moving = NoMove

\* A bus write; p holds the pointers before it.  Turning a channel on latches
\* its registers, turning it off drops them, unless it is moving.
Write(p) ==
    \E ch \in Channels :
        /\ reg' \in [Channels -> Registers]
        /\ \A other \in Channels \ {ch} : reg'[other] = reg[other]
        /\ ptr' = [p EXCEPT ![ch] = IF moving.ch = ch THEN p[ch]
                                    ELSE IF ~reg'[ch].control.enable THEN NoPtr
                                    ELSE IF reg[ch].control.enable THEN p[ch]
                                    ELSE Latch(ch, reg'[ch])]

Program == moving = NoMove /\ Write(ptr) /\ UNCHANGED moving

Begin ==
    /\ moving = NoMove
    /\ \E ch \in Channels :
           /\ reg[ch].control.enable
           /\ moving' = [ch |-> ch, src_adj |-> reg[ch].control.src_adj,
                         dst_adj |-> reg[ch].control.dst_adj]
    /\ UNCHANGED <<reg, ptr>>

\* The unit may itself be a write to a DMA register.
Unit ==
    /\ moving # NoMove /\ ptr[moving.ch].left > 0
    /\ LET p == [ptr EXCEPT ![moving.ch] =
                    [src |-> Advance(@.src, moving.src_adj),
                     dst |-> Advance(@.dst, moving.dst_adj), left |-> @.left - 1]]
       IN  \/ Write(p)
           \/ ptr' = p /\ UNCHANGED reg
    /\ UNCHANGED moving

End ==
    LET ch == moving.ch
        r == reg[ch]
        on == r.control.enable /\ r.control.repeat
    IN  /\ moving # NoMove /\ ptr[ch].left = 0
        /\ moving' = NoMove
        /\ reg' = [reg EXCEPT ![ch].control.enable = on]
        /\ ptr' = [ptr EXCEPT ![ch] =
                      IF ~on THEN NoPtr
                      ELSE [src |-> @.src, left |-> Units(ch, r.count),
                            dst |-> IF r.control.dst_adj = "reload" THEN r.dst ELSE @.dst]]

Next == Program \/ Begin \/ Unit \/ End

Spec == Init /\ [][Next]_<<reg, ptr, moving>>
=============================================================================
