----------------------------- MODULE SoundQueue -----------------------------
(***************************************************************************)
(* What the two Direct Sound channels promise: queues of bytes and a       *)
(* latch each, advanced one CPU cycle at a time.  In every cycle the       *)
(* sample that falls due is taken first; then the timers that overflow in  *)
(* it pop their queues, timer 0 before timer 1, and a queue that is half   *)
(* empty takes one whole request from every channel aimed at it.           *)
(***************************************************************************)
EXTENDS Naturals, Sequences

CONSTANTS FIFO_SIZE, REQUEST, CYCLES_PER_SAMPLE, Silence, Mem, AddrSpace,
          Batches, DmaConfigs, Byte, Reports(_)

VARIABLES enabled, queue, latch, timer_of, src, phase, emitted

FifoId == {"A", "B"}
Ch == {1, 2}
queueVars == <<enabled, queue, latch, timer_of, src, phase, emitted>>

Init ==
    /\ enabled = FALSE /\ phase = 0 /\ emitted = <<>>
    /\ queue = [f \in FifoId |-> <<>>] /\ latch = [f \in FifoId |-> Silence]
    /\ timer_of = [f \in FifoId |-> 0] /\ src = [c \in Ch |-> 0]

Popped(s, timer) ==
    LET of(f) == timer_of[f] = timer
    IN  [s EXCEPT !.latch = [f \in FifoId |->
                                IF ~of(f) THEN @[f]
                                ELSE IF s.queue[f] = <<>> THEN Silence
                                ELSE Head(s.queue[f])],
                  !.queue = [f \in FifoId |->
                                IF of(f) /\ @[f] # <<>> THEN Tail(@[f]) ELSE @[f]]]

Fed(s, c, timer, dma) ==
    LET f == dma[c]
    IN  IF f = "none" THEN s
        ELSE IF timer_of[f] # timer \/ Len(s.queue[f]) > REQUEST THEN s
        ELSE [s EXCEPT !.queue[f] =
                           @ \o [i \in 1 .. REQUEST |-> Mem[(s.src[c] + i - 1) % AddrSpace]],
                       !.src[c] = (@ + REQUEST) % AddrSpace]

Overflows(r, cycle) == \E k \in 0 .. r.count - 1 : r.first + k * r.period = cycle

Cycle(s, n, ov, dma) ==
    LET due == enabled /\ (phase + n) % CYCLES_PER_SAMPLE = 0
        sampled == IF due THEN [s EXCEPT !.out = Append(@, s.latch)] ELSE s
        clocked(r, timer) ==
            IF Overflows(ov[timer], n)
            THEN Fed(Fed(Popped(r, timer), 1, timer, dma), 2, timer, dma) ELSE r
    IN  clocked(clocked(sampled, 0), 1)

Tick(cycles, ov, dma) ==
    LET after[n \in 0 .. cycles] ==
            IF n = 0 THEN [queue |-> queue, latch |-> latch, src |-> src, out |-> <<>>]
            ELSE Cycle(after[n - 1], n, ov, dma)
        end == after[cycles]
    IN  /\ phase' = (phase + cycles) % CYCLES_PER_SAMPLE
        /\ UNCHANGED <<enabled, timer_of>>
        /\ queue' = end.queue /\ latch' = end.latch /\ src' = end.src
        /\ emitted' = end.out

\* A program's bytes are taken while there is room.
Put(f, bytes) ==
    /\ \E n \in 0 .. Len(bytes) :
          /\ n = Len(bytes) \/ Len(queue[f]) + n = FIFO_SIZE
          /\ Len(queue[f]) + n <= FIFO_SIZE
          /\ queue' = [queue EXCEPT ![f] = @ \o SubSeq(bytes, 1, n)]
    /\ emitted' = <<>>
    /\ UNCHANGED <<enabled, latch, timer_of, src, phase>>

Control ==
    /\ enabled' \in BOOLEAN /\ timer_of' \in [FifoId -> {0, 1}]
    /\ \E reset \in SUBSET FifoId :
          queue' = [f \in FifoId |-> IF f \in reset THEN <<>> ELSE queue[f]]
    /\ emitted' = <<>>
    /\ UNCHANGED <<latch, src, phase>>

Next ==
    \/ Control
    \/ \E cycles \in Batches, dma \in DmaConfigs :
          \E r0, r1 \in Reports(cycles) :
              Tick(cycles, [i \in {0, 1} |-> IF i = 0 THEN r0 ELSE r1], dma)
    \/ \E f \in FifoId, a, b \in Byte : Put(f, <<a, b>>)

Spec == Init /\ [][Next]_queueVars
=============================================================================
