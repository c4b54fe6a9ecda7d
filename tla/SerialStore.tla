---------------------------- MODULE SerialStore -----------------------------
(***************************************************************************)
(* What a serial EEPROM promises: a store of blocks, to which a program    *)
(* talks bit by bit.  A request is an opcode, an address and, for a write, *)
(* a block, and the final bits its framing asks for (gbatek.htm: one, a    *)
(* zero); it takes effect with its last bit and not before.  A read        *)
(* request is answered by a burst: leading zeros and the block.            *)
(***************************************************************************)
EXTENDS Sequences, Naturals

CONSTANTS
    AddrBits,   \* 14
    DataBits,   \* 64
    Leading,    \* 4
    Final       \* the number of bits that end a request

VARIABLES
    store,
    sent,    \* the bits of the unfinished request
    burst,   \* the bits still to be read
    out      \* the bit that the last read returned

Bit == {0, 1}
Address == [1 .. AddrBits -> Bit]
Block == [1 .. DataBits -> Bit]
Zeros == [i \in 1 .. Leading |-> 0]
Header == 2 + AddrBits

Init ==
    /\ store = [a \in Address |-> [i \in 1 .. DataBits |-> 1]]
    /\ sent = <<>> /\ burst = <<>> /\ out = 1

Opcode(s) == <<s[1], s[2]>>
AddressIn(s) == SubSeq(s, 3, Header)

Read(s) == Len(s) = Header + Final /\ Opcode(s) = <<1, 1>>
Write(s) == Len(s) = Header + DataBits + Final
Unknown(s) == Len(s) = Header /\ Opcode(s) \notin {<<1, 1>>, <<1, 0>>}

Send(bit) ==
    LET s == Append(sent, bit)
    IN  /\ burst = <<>>
        /\ sent' = IF Read(s) \/ Write(s) \/ Unknown(s) THEN <<>> ELSE s
        /\ burst' = IF Read(s) THEN Zeros \o store[AddressIn(s)] ELSE <<>>
        /\ store' = IF Write(s)
                    THEN [store EXCEPT ![AddressIn(s)] = SubSeq(s, Header + 1, Header + DataBits)]
                    ELSE store
        /\ UNCHANGED out

\* Without a burst the chip says that it is ready.
Receive ==
    /\ IF burst = <<>> THEN out' = 1 /\ UNCHANGED burst
                       ELSE out' = Head(burst) /\ burst' = Tail(burst)
    /\ UNCHANGED <<store, sent>>

Next == Receive \/ \E bit \in Bit : Send(bit)

Spec == Init /\ [][Next]_<<store, sent, burst, out>>
=============================================================================
