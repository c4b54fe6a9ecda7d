--------------------------- MODULE ConsoleProofs ---------------------------
(***************************************************************************)
(* Proofs about the main loop and the PPU's line timing under it, for      *)
(* every length of a line, every number of lines and every batch length.   *)
(* The PPU's events stay on their raster; the loop drives the PPU only by  *)
(* the steps of module Ppu, a wake-up is late only right after the entry   *)
(* of a run function, and run_frame never meets its cycle cap as long as a *)
(* batch is short enough.                                                  *)
(***************************************************************************)
EXTENDS Console, TLAPS

-----------------------------------------------------------------------------
(* The scheduler and the line timing *)

\* The invariant that every handler relies on and restores.
PpuInv ==
    /\ PpuTypeOK
    /\ OnePending
    /\ HBlankFlagTracksEvent
    /\ VBlankFlagTracksLine
    /\ LineSchedule
    /\ DrawnIsPrefix

USE DEF Scheduled, IrqSources, PpuSources, Rows, LineCycles, Render

\* With one event in the queue, the scheduler's minimum is that event.
LEMMA HeadOfOne ==
    ASSUME NEW e \in Scheduled, queue = {e}
    PROVE  /\ Due = IF e.in <= 0 THEN {e} ELSE {}
           /\ \A f \in queue : PopDue(f) <=> (f = e /\ e.in <= 0)
           /\ CyclesUntilNext = IF e.in > 0 THEN e.in ELSE 0
<1>1. Due = IF e.in <= 0 THEN {e} ELSE {}
  BY DEF Due
<1>2. \A f \in queue : PopDue(f) <=> (f = e /\ e.in <= 0)
  BY DEF PopDue, Due
<1>3. (CHOOSE x \in queue : \A f \in queue : x.in <= f.in) = e
  OBVIOUS
<1> QED BY <1>1, <1>2, <1>3 DEF CyclesUntilNext

\* The initial state satisfies the invariant.
LEMMA InitInv == ASSUME PpuInit PROVE PpuInv
<1> DEFINE e == [event |-> "HBlank", in |-> HDRAW_CYCLES]
<1>1. queue = {e} /\ e \in Scheduled /\ e.event = "HBlank" /\ e.in = HDRAW_CYCLES
  BY PpuAssumption DEF PpuInit
<1>2. vcount = 0 /\ flags = {} /\ drawn = {} /\ lineAge = 0
  BY DEF PpuInit
<1> HIDE DEF e
<1>3. PpuTypeOK
  <2>1. queue \subseteq Scheduled
    BY <1>1
  <2>2. vcount \in 0 .. LINES - 1
    BY <1>2, PpuAssumption
  <2>3. lyc \in 0 .. 255 /\ lineAge \in Nat
    BY DEF PpuInit
  <2>4. frame_ready \in BOOLEAN
    BY DEF PpuInit
  <2>5. drawn \subseteq Rows /\ flags \subseteq PpuSources /\ irqEn \subseteq PpuSources /\ if_ \subseteq IrqSources
    BY DEF PpuInit
  <2> QED BY <2>1, <2>2, <2>3, <2>4, <2>5 DEF PpuTypeOK
<1>4. OnePending /\ HBlankFlagTracksEvent /\ LineSchedule
  BY <1>1, <1>2, PpuAssumption DEF OnePending, HBlankFlagTracksEvent, LineSchedule
<1>5. VBlankFlagTracksLine /\ DrawnIsPrefix
  BY <1>2, PpuAssumption DEF VBlankFlagTracksLine, DrawnIsPrefix
<1> QED BY <1>3, <1>4, <1>5 DEF PpuInv

\* Time passing: the event comes nearer by what the line ages.
LEMMA TickInv ==
    ASSUME PpuInv, NEW batch \in Batches, NEW raised \in SUBSET OtherSources,
           Tick(batch, raised)
    PROVE  PpuInv'
<1>1. PICK e \in Scheduled : queue = {e}
  BY DEF PpuInv, PpuTypeOK, OnePending
<1>2. e.in > 0 /\ batch \in Nat \ {0} /\ (batch <= MaxBatch \/ batch <= e.in)
  BY <1>1, HeadOfOne, PpuAssumption DEF Tick, Batches
<1> DEFINE d == [e EXCEPT !.in = @ - batch]
<1>3. queue' = {d}
  BY <1>1 DEF Tick
<1>4. d \in Scheduled /\ d.event = e.event /\ d.in = e.in - batch /\ d.in + MaxBatch > 0
  BY <1>2, PpuAssumption
<1>5. PpuTypeOK'
  BY <1>2, <1>3, <1>4 DEF PpuInv, PpuTypeOK, Tick
<1>6. OnePending' /\ HBlankFlagTracksEvent'
  BY <1>1, <1>3, <1>4 DEF PpuInv, OnePending, HBlankFlagTracksEvent, Tick
<1>7. VBlankFlagTracksLine' /\ DrawnIsPrefix'
  BY DEF PpuInv, VBlankFlagTracksLine, DrawnIsPrefix, Tick
<1>8. LineSchedule'
  <2>1. lineAge' = lineAge + batch /\ lineAge \in Nat
    BY DEF Tick, PpuInv, PpuTypeOK
  <2> QED BY <1>1, <1>2, <1>3, <1>4, <2>1, PpuAssumption DEF PpuInv, LineSchedule
<1> HIDE DEF d
<1> QED BY <1>5, <1>6, <1>7, <1>8 DEF PpuInv

\* HBlank begins: its row is drawn and the end of HBlank is scheduled from
\* the present cycle, so the lateness of the event moves the end of the line.
LEMMA OnHBlankInv == ASSUME PpuInv, OnHBlank PROVE PpuInv'
<1>1. PICK e \in Scheduled : queue = {e}
  BY DEF PpuInv, PpuTypeOK, OnePending
<1>2. e.event = "HBlank" /\ e.in <= 0
  BY <1>1, HeadOfOne DEF OnHBlank
<1> DEFINE d == [event |-> "HDraw", in |-> HBLANK_CYCLES]
<1>3. /\ queue' = {d} /\ d \in Scheduled
      /\ d.event = "HDraw" /\ d.in = HBLANK_CYCLES
  BY <1>1, HeadOfOne, PpuAssumption DEF OnHBlank, Push
<1> HIDE DEF d
<1>4. PpuTypeOK'
  <2>1. queue' \subseteq Scheduled
    BY <1>3
  <2>2. drawn' \subseteq Rows
    BY PpuAssumption DEF PpuInv, PpuTypeOK, OnHBlank
  <2> QED BY <2>1, <2>2 DEF PpuInv, PpuTypeOK, OnHBlank, Request
<1>5. OnePending' /\ HBlankFlagTracksEvent'
  BY <1>3 DEF PpuInv, OnePending, HBlankFlagTracksEvent, OnHBlank
<1>6. VBlankFlagTracksLine'
  BY DEF PpuInv, VBlankFlagTracksLine, OnHBlank
<1>7. LineSchedule'
  <2>1. e.in \in Int /\ lineAge \in Nat /\ lineAge' = lineAge
    BY <1>1 DEF PpuInv, PpuTypeOK, OnHBlank
  <2>2. e.in + MaxBatch > 0 /\ lineAge + e.in = HDRAW_CYCLES
    BY <1>1, <1>2 DEF PpuInv, LineSchedule
  <2>3. lineAge' + d.in \in LineCycles .. LineCycles + MaxBatch - 1
    BY <1>2, <1>3, <2>1, <2>2, PpuAssumption
  <2>4. d.in + MaxBatch > 0
    BY <1>3, PpuAssumption
  <2> QED BY <1>3, <2>3, <2>4 DEF LineSchedule
<1>8. DrawnIsPrefix'
  <2>1. "HBlank" \notin flags /\ "HBlank" \in flags'
    BY <1>1, <1>2 DEF PpuInv, HBlankFlagTracksEvent, OnHBlank
  <2> QED BY <2>1, PpuAssumption DEF PpuInv, PpuTypeOK, DrawnIsPrefix, OnHBlank
<1> QED BY <1>4, <1>5, <1>6, <1>7, <1>8 DEF PpuInv

\* The next line begins.
LEMMA OnHDrawInv == ASSUME PpuInv, OnHDraw PROVE PpuInv'
<1>1. PICK e \in Scheduled : queue = {e}
  BY DEF PpuInv, PpuTypeOK, OnePending
<1>2. e.event = "HDraw" /\ e.in <= 0
  BY <1>1, HeadOfOne DEF OnHDraw
<1> DEFINE d == [event |-> "HBlank", in |-> HDRAW_CYCLES]
<1>3. /\ queue' = {d} /\ d \in Scheduled
      /\ d.event = "HBlank" /\ d.in = HDRAW_CYCLES
  BY <1>1, HeadOfOne, PpuAssumption DEF OnHDraw, Push
<1> HIDE DEF d
<1>4. /\ NextLine \in 0 .. LINES - 1
      /\ NextLine = IF vcount = LINES - 1 THEN 0 ELSE vcount + 1
  BY PpuAssumption DEF PpuInv, PpuTypeOK, NextLine
<1>5. PpuTypeOK'
  <2>1. queue' \subseteq Scheduled
    BY <1>3
  <2>2. flags' \subseteq PpuSources /\ drawn' \subseteq Rows
    BY DEF PpuInv, PpuTypeOK, OnHDraw
  <2>3. if_' \subseteq IrqSources
    BY DEF PpuInv, PpuTypeOK, OnHDraw, LineIrqs
  <2>4. frame_ready' \in BOOLEAN
    BY DEF PpuInv, PpuTypeOK, OnHDraw
  <2>5. vcount' \in 0 .. LINES - 1 /\ irqEn' = irqEn /\ lyc' = lyc /\ lineAge' = 0
    BY <1>4 DEF OnHDraw
  <2> QED BY <2>1, <2>2, <2>3, <2>4, <2>5 DEF PpuInv, PpuTypeOK
<1>6. "HBlank" \notin flags'
  BY DEF OnHDraw
<1>7. OnePending' /\ HBlankFlagTracksEvent'
  BY <1>3, <1>6 DEF OnePending, HBlankFlagTracksEvent
<1>8. VBlankFlagTracksLine'
  BY <1>4, PpuAssumption DEF PpuInv, PpuTypeOK, VBlankFlagTracksLine, OnHDraw
<1>9. LineSchedule'
  <2>1. lineAge' = 0
    BY DEF OnHDraw
  <2>2. lineAge' + d.in = HDRAW_CYCLES
    BY <1>3, <2>1, PpuAssumption
  <2>3. d.in + MaxBatch > 0
    BY <1>3, <2>1, PpuAssumption
  <2> QED BY <1>3, <2>2, <2>3 DEF LineSchedule
<1>10. DrawnIsPrefix'
  <2>1. "HBlank" \in flags
    BY <1>1, <1>2 DEF PpuInv, HBlankFlagTracksEvent
  <2> QED BY <1>4, <1>6, <2>1, PpuAssumption DEF PpuInv, PpuTypeOK, DrawnIsPrefix, OnHDraw
<1> QED BY <1>5, <1>7, <1>8, <1>9, <1>10 DEF PpuInv

\* Writes of the program and the entry of a run function move no event.
LEMMA WritesInv ==
    ASSUME PpuInv,
           \/ \E en \in SUBSET PpuSources, setting \in 0 .. 255 : WriteDispstat(en, setting)
           \/ \E ones \in SUBSET IrqSources : WriteIf(ones)
           \/ \E raised \in SUBSET OtherSources : Raise(raised)
           \/ \E en \in SUBSET PpuSources, clear \in BOOLEAN : StartRun(en, clear)
           \/ UNCHANGED ppuVars
    PROVE  PpuInv'
<1>1. UNCHANGED <<queue, vcount, flags, drawn, lineAge>> /\ PpuTypeOK'
  BY DEF WriteDispstat, WriteIf, Raise, StartRun, ppuVars, PpuInv, PpuTypeOK
<1> QED
  BY <1>1 DEF PpuInv, OnePending, HBlankFlagTracksEvent, VBlankFlagTracksLine,
              LineSchedule, DrawnIsPrefix

\* One step, whichever it is.
LEMMA NextInv == ASSUME PpuInv, [PpuNext]_ppuVars PROVE PpuInv'
BY TickInv, OnHBlankInv, OnHDrawInv, WritesInv DEF PpuNext

\* The scheduler always holds exactly one event, the flags in DISPSTAT follow
\* the event and the line, the due times keep their place in the line, and
\* the rows of the frame are drawn in order: on_hblank and on_hdraw keep all
\* of it, whatever the batches of cycles and the writes between them.
THEOREM PpuInvariant == PpuSpec => []PpuInv
BY InitInv, NextInv, PTL DEF PpuSpec

\* Exactly one event is pending, always.
THEOREM PpuOnePending == PpuSpec => []OnePending
BY PpuInvariant, PTL DEF PpuInv

\* DISPSTAT's HBlank flag is set exactly during HBlank, whatever a program
\* writes to DISPSTAT: the handlers and the writes keep it with the event.
THEOREM PpuHBlankFlagTracksEvent == PpuSpec => []HBlankFlagTracksEvent
BY PpuInvariant, PTL DEF PpuInv

\* The due times keep their place in the line.
THEOREM PpuLineSchedule == PpuSpec => []LineSchedule
BY PpuInvariant, PTL DEF PpuInv

\* The frame that VBlank hands over has every row.
THEOREM PpuFrameIsComplete == PpuSpec => FrameIsComplete
<1>1. ASSUME PpuInv, [PpuNext]_ppuVars, vcount # SCREEN_H, vcount' = SCREEN_H
      PROVE  drawn = Rows
  <2>1. OnHDraw
    BY <1>1 DEF PpuNext, ppuVars, Tick, OnHBlank, WriteDispstat, WriteIf, Raise, StartRun
  <2>2. "HBlank" \in flags
    BY <2>1, <1>1 DEF OnHDraw, PpuInv, HBlankFlagTracksEvent
  <2>3. vcount = SCREEN_H - 1
    BY <2>1, <1>1, PpuAssumption DEF OnHDraw, NextLine, PpuInv, PpuTypeOK
  <2> QED BY <1>1, <2>2, <2>3, PpuAssumption DEF PpuInv, DrawnIsPrefix
<1> QED BY <1>1, PpuInvariant, PTL DEF PpuSpec, FrameIsComplete

\* A line never lasts less than its nominal length, and more only by the
\* part of two batches.
THEOREM PpuLineLength == PpuSpec => LineLength
<1>1. ASSUME PpuInv, [PpuNext]_ppuVars, vcount' # vcount
      PROVE  lineAge >= LineCycles /\ lineAge <= LineCycles + 2 * (MaxBatch - 1)
  <2>1. OnHDraw
    BY <1>1 DEF PpuNext, ppuVars, Tick, OnHBlank, WriteDispstat, WriteIf, Raise, StartRun
  <2>2. PICK e \in queue : e.event = "HDraw" /\ e.in <= 0
    BY <2>1 DEF OnHDraw, PopDue, Due
  <2> QED BY <1>1, <2>2, PpuAssumption DEF PpuInv, PpuTypeOK, LineSchedule
<1> QED BY <1>1, PpuInvariant, PTL DEF PpuSpec, LineLength

-----------------------------------------------------------------------------
(* The main loop *)

USE DEF Scheduled, IrqSources, PpuSources, LineCycles, StaysHalted, Elapsed

\* What the loop keeps besides its types: outside the drain loop, of which a
\* DMA pass is part, no event is due, and the cycles of an iteration are a batch the PPU expects.
LoopInv ==
    /\ TypeOK
    /\ PpuInv
    /\ pc \notin {"drain", "dma"} => Due = {}
    /\ pc \in {"stores", "tick"} => cycles \in Batches
    /\ pc = "host" <=> call = "none"

-----------------------------------------------------------------------------

LEMMA LoopInitInv == ASSUME Init PROVE LoopInv
<1>1. PpuInv
  BY InitInv DEF Init
<1>2. TypeOK
  <2>1. PpuTypeOK
    BY <1>1 DEF PpuInv
  <2>2. 0 \in 0 .. SeqPeriod - 1 /\ 0 \in 0 .. SeqSteps - 1 /\ 0 \in 0 .. 1
    BY ConsoleAssumption
  <2> QED BY <2>1, <2>2 DEF Init, TypeOK
<1>3. Due = {}
  <2> DEFINE e == [event |-> "HBlank", in |-> HDRAW_CYCLES]
  <2>1. queue = {e} /\ e \in Scheduled /\ e.in > 0
    BY PpuAssumption DEF Init, PpuInit
  <2> HIDE DEF e
  <2>2. ~(e.in <= 0)
    BY <2>1
  <2> QED BY <2>1, <2>2, HeadOfOne
<1> QED BY <1>1, <1>2, <1>3 DEF Init, LoopInv

\* A sleep is a batch that ends no later than the next event.
LEMMA SleepIsBatch ==
    ASSUME LoopInv, pc = "loop", MayContinue
    PROVE  SleepCycles \in 1 .. CyclesUntilNext
<1>1. PICK e \in Scheduled : queue = {e}
  BY DEF LoopInv, PpuInv, PpuTypeOK, OnePending
<1>2. e.in > 0 /\ e.in \in Int /\ CyclesUntilNext = e.in
  <2>1. Due = {}
    BY DEF LoopInv
  <2>2. Due = IF e.in <= 0 THEN {e} ELSE {}
    BY <1>1, HeadOfOne
  <2>3. e.in > 0 /\ e.in \in Int
    BY <2>1, <2>2
  <2> QED BY <1>1, <2>3, HeadOfOne
<1>3. target \in Nat /\ elapsed \in Nat /\ (call = "run_cycles" => elapsed < target)
  BY DEF LoopInv, TypeOK, MayContinue
<1> QED BY <1>2, <1>3 DEF SleepCycles

\* Every step of the loop leaves the PPU alone or is one of its steps.
LEMMA StepIsPpuStep == ASSUME LoopInv, [Next]_vars PROVE [PpuNext]_ppuVars
<1>1. CASE HostCall
  <2>1. PICK f : StartRun(LateInit, f = "run_frame")
    BY <1>1 DEF HostCall, RunFrame, RunCycles, StepOne, Enter
  <2>2. LateInit \in SUBSET PpuSources /\ (f = "run_frame") \in BOOLEAN
    BY DEF LateInit
  <2> QED BY <2>1, <2>2 DEF PpuNext
<1>2. CASE LoopEnds \/ Sleep \/ CpuStep \/ StoresEnd \/ BreakOnFrame \/ EndIteration
           \/ UNCHANGED vars
  BY <1>2 DEF LoopEnds, Sleep, StoresEnd, BreakOnFrame, EndIteration, vars,
              CpuStep, TakeIrq, Execute, SetMask, ReturnFromException, Step
<1>3. CASE Store
  <2>1. CASE StoreDispstat
    <3>1. PICK w \in DispstatWrites : WriteDispstat(w.en, w.lyc)
      BY <2>1 DEF StoreDispstat
    <3>2. w.en \in SUBSET PpuSources /\ w.lyc \in 0 .. 255
      BY ConsoleAssumption
    <3> QED BY <3>1, <3>2 DEF PpuNext
  <2>2. CASE StoreIf
    BY <2>2, ConsoleAssumption DEF StoreIf, PpuNext
  <2>3. CASE StoreIfByte
    <3>1. PICK ones \in SUBSET IrqSources : WriteIf(ones)
      <4>1. PICK o \in IfWrites : WriteIf(o \cup (if_ \cap HighByte)) \/ WriteIf(o \cup (if_ \ HighByte))
        BY <2>3 DEF StoreIfByte
      <4>2. o \in SUBSET IrqSources /\ if_ \in SUBSET IrqSources
        BY ConsoleAssumption DEF LoopInv, PpuInv, PpuTypeOK
      <4>3. o \cup (if_ \cap HighByte) \in SUBSET IrqSources
            /\ o \cup (if_ \ HighByte) \in SUBSET IrqSources
        BY <4>2
      <4> QED BY <4>1, <4>3
    <3> QED BY <3>1 DEF PpuNext
  <2>4. CASE ChannelEnds
    BY <2>4, ConsoleAssumption DEF ChannelEnds, PpuNext
  <2>5. CASE UNCHANGED ppuVars
    BY <2>5
  <2> QED BY <1>3, <2>1, <2>2, <2>3, <2>4, <2>5
          DEF Store, StoreIe, StoreIme, StoreHaltcnt, StoreHandler
<1>4. CASE TickBus
  <2>1. cycles \in Batches
    BY <1>4 DEF TickBus, LoopInv
  <2>2. PICK raised \in SUBSET OtherSources : Tick(cycles, raised)
    BY <1>4, ConsoleAssumption DEF TickBus
  <2> QED BY <2>1, <2>2 DEF PpuNext
<1>5. CASE HandleEvent
  BY <1>5 DEF HandleEvent, PpuNext
<1> QED BY <1>1, <1>2, <1>3, <1>4, <1>5 DEF Next, Machine

-----------------------------------------------------------------------------

LEMMA QueueStays ==
    ASSUME queue' = queue PROVE Due' = Due /\ Batches' = Batches
BY DEF Due, Batches, CyclesUntilNext

\* The frame sequencer's counter stays below its period.
LEMMA SequencerRange ==
    ASSUME TypeOK, CountSequencer
    PROVE  /\ frame_sequencer_counter' \in 0 .. SeqPeriod - 1
           /\ frame_sequencer_step' \in 0 .. SeqSteps - 1
<1> DEFINE sum == frame_sequencer_counter + cycles
<1>1. sum \in Nat
  BY ConsoleAssumption DEF TypeOK
<1>2. sum % SeqPeriod \in 0 .. SeqPeriod - 1 /\ sum \div SeqPeriod \in Nat
  BY <1>1, ConsoleAssumption
<1> DEFINE steps == frame_sequencer_step + sum \div SeqPeriod
<1>3. steps \in Nat
  BY <1>2 DEF TypeOK
<1>4. steps % SeqSteps \in 0 .. SeqSteps - 1
  BY <1>3, ConsoleAssumption
<1> QED BY <1>2, <1>4 DEF CountSequencer

\* What an instruction does to the loop's own variables.
LEMMA CpuStepShape ==
    ASSUME LoopInv, CpuStep
    PROVE  /\ pc' \in {"stores", "tick"} /\ pc = "loop" /\ cycles' \in 1 .. MaxBatch
           /\ UNCHANGED <<ppuVars, ie, ime, halted, haltcnt, handler>>
           /\ UNCHANGED <<seqVars, call, target, elapsed>>
           /\ masked' \in BOOLEAN /\ irq_delay' \in 0 .. 1
<1>1. PICK then \in {"stores", "tick"} : Step(then)
  BY DEF CpuStep, TakeIrq, Execute, SetMask, ReturnFromException
<1>2. masked' \in BOOLEAN /\ irq_delay' \in 0 .. 1
  <2>1. masked' \in {masked, TRUE} \/ masked' \in BOOLEAN
    BY DEF CpuStep, TakeIrq, Execute, SetMask, ReturnFromException
  <2>2. irq_delay' \in {irq_delay, 0, 1}
    BY DEF CpuStep, TakeIrq, Execute, SetMask, ReturnFromException
  <2>3. masked \in BOOLEAN /\ irq_delay \in 0 .. 1
    BY DEF LoopInv, TypeOK
  <2>4. masked' \in BOOLEAN
    BY <2>1, <2>3
  <2>5. irq_delay' \in 0 .. 1
    BY <2>2, <2>3
  <2> QED BY <2>4, <2>5
<1>3. cycles' \in 1 .. MaxBatch
  BY <1>1, ConsoleAssumption DEF Step
<1> QED BY <1>1, <1>2, <1>3 DEF Step

\* What a store or the end of a DMA channel does to them.
LEMMA StoreShape ==
    ASSUME LoopInv, Store
    PROVE  /\ pc \in {"stores", "dma"}
           /\ UNCHANGED <<queue, vcount, lineAge, frame_ready>>
           /\ UNCHANGED <<masked, irq_delay, halted, loopVars, seqVars>>
           /\ ie' \subseteq IrqSources /\ ime' \in BOOLEAN
           /\ haltcnt' \in BOOLEAN /\ handler' \in BOOLEAN
<1>1. Storing
  BY DEF Store, StoreDispstat, StoreIe, StoreIme, StoreIf, StoreIfByte, StoreHaltcnt,
         StoreHandler, ChannelEnds
<1>2. UNCHANGED <<queue, vcount, lineAge, frame_ready>>
  BY DEF Store, StoreDispstat, StoreIe, StoreIme, StoreIf, StoreIfByte, StoreHaltcnt,
         StoreHandler, ChannelEnds, ppuVars, WriteDispstat, WriteIf, Raise
<1>3. /\ ie' = ie \/ ie' \in IeWrites
      /\ ime' = ime \/ ime' \in BOOLEAN
      /\ haltcnt' = haltcnt \/ haltcnt' = TRUE
      /\ handler' = handler \/ handler' = ~handler
  BY DEF Store, StoreDispstat, StoreIe, StoreIme, StoreIf, StoreIfByte, StoreHaltcnt,
         StoreHandler, ChannelEnds
<1>4. ie' \subseteq IrqSources /\ ime' \in BOOLEAN /\ haltcnt' \in BOOLEAN /\ handler' \in BOOLEAN
  BY <1>3, ConsoleAssumption DEF LoopInv, TypeOK
<1> QED BY <1>1, <1>2, <1>4 DEF Storing

LEMMA LoopStepInv == ASSUME LoopInv, [Next]_vars PROVE LoopInv'
<1>1. PpuInv' /\ PpuTypeOK'
  BY StepIsPpuStep, NextInv DEF LoopInv, PpuInv
<1>2. CASE HostCall
  <2>1. PICK f \in Calls, t \in Targets \cup {0} : Enter(f, t)
    BY <1>2 DEF HostCall, RunFrame, RunCycles, StepOne, Enter
  <2>2. queue' = queue /\ f # "none" /\ t \in Nat
    BY <2>1, ConsoleAssumption DEF Enter, StartRun
  <2>3. TypeOK'
    BY <1>1, <2>1, <2>2, ConsoleAssumption DEF LoopInv, TypeOK, Enter, cpuVars, seqVars
  <2> QED BY <1>1, <2>1, <2>2, <2>3, QueueStays DEF LoopInv, Enter
<1>3. CASE LoopEnds
  <2>1. TypeOK'
    BY <1>1, <1>3 DEF LoopInv, TypeOK, LoopEnds, Return, cpuVars, seqVars
  <2> QED BY <1>1, <1>3, <2>1, QueueStays DEF LoopInv, LoopEnds, Return, ppuVars
<1>4. CASE Sleep
  <2>1. cycles' \in Batches /\ cycles' \in Nat /\ queue' = queue
    BY <1>4, SleepIsBatch, PpuAssumption DEF Sleep, Batches, ppuVars
  <2>2. TypeOK'
    BY <1>1, <1>4, <2>1 DEF LoopInv, TypeOK, Sleep, cpuVars, seqVars
  <2> QED BY <1>1, <1>4, <2>1, <2>2, QueueStays DEF LoopInv, Sleep
<1>5. CASE CpuStep
  <2>1. cycles' \in Batches /\ cycles' \in Nat
    BY <1>5, CpuStepShape, PpuAssumption DEF Batches
  <2>2. TypeOK'
    BY <1>1, <1>5, <2>1, CpuStepShape DEF LoopInv, TypeOK, seqVars
  <2>3. queue' = queue
    BY <1>5, CpuStepShape DEF ppuVars
  <2> QED BY <1>1, <1>5, <2>1, <2>2, <2>3, CpuStepShape, QueueStays DEF LoopInv
<1>6. CASE TickBus
  <2>1. TypeOK'
    BY <1>1, <1>6 DEF LoopInv, TypeOK, TickBus, cpuVars, seqVars
  <2> QED BY <1>1, <1>6, <2>1 DEF LoopInv, TickBus
<1>7. CASE HandleEvent
  <2>1. TypeOK'
    BY <1>1, <1>7 DEF LoopInv, TypeOK, HandleEvent, cpuVars, seqVars
  <2> QED BY <1>1, <1>7, <2>1 DEF LoopInv, HandleEvent
<1>8. CASE BreakOnFrame
  <2>1. TypeOK'
    BY <1>1, <1>8 DEF LoopInv, TypeOK, BreakOnFrame, Return, HaltedNow, HaltcntLeft, seqVars
  <2> QED BY <1>1, <1>8, <2>1, QueueStays DEF LoopInv, BreakOnFrame, Return, ppuVars
<1>9. CASE EndIteration
  <2>1. Due' = {} /\ pc' \in {"host", "loop"} /\ (pc' = "host" <=> call' = "none")
    BY <1>9, QueueStays DEF LoopInv, EndIteration, Return, ppuVars
  <2>2. TypeOK'
    <3>1. halted' \in BOOLEAN /\ haltcnt' \in BOOLEAN
      BY <1>9 DEF EndIteration, HaltedNow, HaltcntLeft, LoopInv, TypeOK
    <3>2. /\ pc' \in {"host", "loop"} /\ call' \in {"none", call}
          /\ target' \in {0, target} /\ elapsed' \in {0, elapsed} /\ cycles' = 0
      BY <1>9 DEF EndIteration, Return
    <3>3. UNCHANGED <<ie, ime, masked, irq_delay, handler>> /\ CountSequencer
      BY <1>9 DEF EndIteration
    <3> QED BY <1>1, <3>1, <3>2, <3>3, SequencerRange DEF LoopInv, TypeOK
  <2> QED BY <1>1, <2>1, <2>2 DEF LoopInv
<1>10. CASE UNCHANGED vars
  <2>1. UNCHANGED <<queue, pc, call, cycles>>
    BY <1>10 DEF vars, ppuVars, loopVars
  <2>2. TypeOK'
    BY <1>1, <1>10 DEF LoopInv, TypeOK, vars, cpuVars, loopVars, seqVars
  <2> QED BY <1>1, <2>1, <2>2, QueueStays DEF LoopInv
<1>11. CASE Store
  <2>1. UNCHANGED <<queue, pc, call, cycles>>
    BY <1>11, StoreShape DEF loopVars
  <2>2. TypeOK'
    BY <1>1, <1>11, StoreShape DEF LoopInv, TypeOK, loopVars, seqVars
  <2> QED BY <1>1, <2>1, <2>2, QueueStays DEF LoopInv
<1>12. CASE StoresEnd
  <2>1. queue' = queue /\ UNCHANGED <<call, cycles>>
    BY <1>12 DEF StoresEnd, ppuVars
  <2>2. TypeOK'
    BY <1>1, <1>12 DEF LoopInv, TypeOK, StoresEnd, cpuVars, seqVars
  <2> QED BY <1>1, <1>12, <2>1, <2>2, QueueStays DEF LoopInv, StoresEnd
<1> QED BY <1>2, <1>3, <1>4, <1>5, <1>6, <1>7, <1>8, <1>9, <1>10, <1>11, <1>12 DEF Next, Machine

\* The types, the PPU's invariant and the drained queue hold in every state
\* of the main loop.
THEOREM LoopInvariant == Spec => []LoopInv
BY LoopInitInv, LoopStepInv, PTL DEF Spec

\* Every variable of the main loop keeps its type.
THEOREM ConsoleTypeOK == Spec => []TypeOK
BY LoopInvariant, PTL DEF LoopInv

\* The main loop drives the PPU as module Ppu allows, so that all that is
\* proved there holds here.
THEOREM ConsoleDrivesPpu == Spec => PpuSpec
<1>1. Init => PpuInit
  BY DEF Init
<1> QED BY <1>1, LoopInvariant, StepIsPpuStep, PTL DEF Spec, PpuSpec

\* run_frame hands over complete frames.
THEOREM ConsoleFrameIsComplete == Spec => FrameIsComplete
BY ConsoleDrivesPpu, PpuFrameIsComplete

\* The wake-up check runs at the end of every iteration that does not leave
\* run_frame, so a late wake-up can only be seen right after an entry.
THEOREM ConsoleLateWake == Spec => []LateWakeOnlyOnEntry
<1>1. Init => LateWakeOnlyOnEntry
  BY DEF Init, LateWakeOnlyOnEntry
<1>2. ASSUME LoopInv, LateWakeOnlyOnEntry, [Next]_vars PROVE LateWakeOnlyOnEntry'
  <2>1. CASE HostCall
    BY <2>1 DEF HostCall, RunFrame, RunCycles, StepOne, Enter, LateWakeOnlyOnEntry
  <2>2. CASE EndIteration
    BY <2>2 DEF EndIteration, Return, Pending, ppuVars, LateWakeOnlyOnEntry
  <2>3. CASE CpuStep
    BY <1>2, <2>3, CpuStepShape DEF LateWakeOnlyOnEntry
  <2>4. CASE LoopEnds \/ Sleep \/ StoresEnd \/ TickBus \/ HandleEvent \/ BreakOnFrame
    BY <2>4 DEF LoopEnds, Sleep, StoresEnd, TickBus, HandleEvent, BreakOnFrame, Return,
                LateWakeOnlyOnEntry
  <2>6. CASE Store
    BY <1>2, <2>6, StoreShape DEF LateWakeOnlyOnEntry, loopVars
  <2>5. CASE UNCHANGED vars
    BY <1>2, <2>5 DEF vars, ppuVars, cpuVars, loopVars, LateWakeOnlyOnEntry, Pending
  <2> QED BY <1>2, <2>1, <2>2, <2>3, <2>4, <2>5, <2>6 DEF Next, Machine
<1> QED BY <1>1, <1>2, LoopInvariant, PTL DEF Spec

-----------------------------------------------------------------------------
(* The cycle cap *)

MaxLine == LineCycles + 2 * (MaxBatch - 1)

\* Lines until line SCREEN_H starts.
LinesToGo == (IF vcount < SCREEN_H THEN SCREEN_H ELSE SCREEN_H + LINES) - vcount

\* Within run_frame, the cycles spent and the longest lines still to go never
\* exceed a frame of longest lines, apart from the current line.
FrameBudget ==
    call = "run_frame" =>
        /\ pc \in {"loop", "stores", "tick"} => ~frame_ready
        /\ ~frame_ready => elapsed + LinesToGo * MaxLine <= LINES * MaxLine + lineAge

LEMMA LinesToGoRange == ASSUME LoopInv PROVE LinesToGo \in 1 .. LINES
BY PpuAssumption DEF LoopInv, PpuInv, PpuTypeOK, LinesToGo

LEMMA MaxLineNat == MaxLine \in Nat
BY PpuAssumption DEF MaxLine

\* At the start of a run the budget is untouched.
LEMMA EnterBudget == ASSUME LoopInv, HostCall PROVE FrameBudget'
<1>1. /\ elapsed' = 0
      /\ call' = "run_frame" => ~frame_ready'
      /\ vcount' = vcount /\ lineAge' = lineAge
  BY DEF HostCall, RunFrame, RunCycles, StepOne, Enter, StartRun
<1>2. LinesToGo' = LinesToGo
  BY <1>1 DEF LinesToGo
<1>3. LinesToGo * MaxLine <= LINES * MaxLine
  <2>1. \A a, b, c \in Nat : a <= b => a * c <= b * c
    OBVIOUS
  <2>2. LinesToGo \in Nat /\ LINES \in Nat /\ LinesToGo <= LINES
    BY LinesToGoRange, PpuAssumption
  <2> QED BY <2>1, <2>2, MaxLineNat
<1>4. LinesToGo * MaxLine \in Nat /\ LINES * MaxLine \in Nat /\ lineAge \in Nat
  BY LinesToGoRange, MaxLineNat, PpuAssumption DEF LoopInv, PpuInv, PpuTypeOK
<1>5. elapsed' + LinesToGo' * MaxLine <= LINES * MaxLine + lineAge'
  BY <1>1, <1>2, <1>3, <1>4
<1>6. pc' = "loop" /\ (call' = "run_frame" => ~frame_ready')
  BY <1>1 DEF HostCall, RunFrame, RunCycles, StepOne, Enter
<1> QED BY <1>5, <1>6 DEF FrameBudget

\* A line that ends takes one longest line off the budget.
LEMMA HDrawBudget ==
    ASSUME LoopInv, FrameBudget, HandleEvent, OnHDraw
    PROVE  FrameBudget'
<1> SUFFICES ASSUME call = "run_frame", ~frame_ready'
             PROVE  elapsed' + LinesToGo' * MaxLine <= LINES * MaxLine + lineAge'
  BY DEF FrameBudget, HandleEvent
<1>1. /\ ~frame_ready /\ NextLine # SCREEN_H /\ vcount' = NextLine
      /\ elapsed' = elapsed /\ lineAge' = 0
  BY DEF OnHDraw, HandleEvent
<1>2. LinesToGo' = LinesToGo - 1
  BY <1>1, PpuAssumption DEF LoopInv, PpuInv, PpuTypeOK, LinesToGo, NextLine
<1>3. lineAge <= MaxLine /\ lineAge \in Nat /\ elapsed \in Nat
  <2>1. PICK e \in queue : e.event = "HDraw" /\ e.in <= 0
    BY DEF OnHDraw, PopDue, Due
  <2> QED BY <2>1, PpuAssumption DEF LoopInv, TypeOK, PpuInv, PpuTypeOK, LineSchedule, MaxLine
<1>4. (LinesToGo - 1) * MaxLine = LinesToGo * MaxLine - MaxLine
  BY LinesToGoRange, MaxLineNat, PpuAssumption
<1>5. LinesToGo * MaxLine \in Nat /\ LINES * MaxLine \in Nat
  BY LinesToGoRange, MaxLineNat, PpuAssumption
<1>6. elapsed + LinesToGo * MaxLine <= LINES * MaxLine + lineAge
  BY <1>1 DEF FrameBudget
<1> QED BY <1>1, <1>2, <1>3, <1>4, <1>5, <1>6, MaxLineNat

LEMMA BudgetInv == ASSUME LoopInv, FrameBudget, [Next]_vars PROVE FrameBudget'
<1>1. CASE HostCall
  BY <1>1, EnterBudget
<1>2. CASE HandleEvent
  <2>1. CASE OnHBlank
    <3>1. /\ UNCHANGED <<vcount, frame_ready, lineAge, call, elapsed>>
          /\ pc' \in {"drain", "dma"}
      BY <1>2, <2>1 DEF HandleEvent, OnHBlank
    <3> QED BY <3>1 DEF FrameBudget, LinesToGo
  <2> QED BY <1>2, <2>1, HDrawBudget DEF HandleEvent
<1>3. CASE TickBus
  <2>1. /\ UNCHANGED <<vcount, frame_ready, call>> /\ pc' = "drain"
        /\ lineAge' = lineAge + cycles /\ elapsed' = elapsed + cycles
    BY <1>3 DEF TickBus, Tick
  <2>2. /\ LinesToGo * MaxLine \in Nat /\ LINES * MaxLine \in Nat
        /\ lineAge \in Nat /\ elapsed \in Nat /\ cycles \in Nat
    BY LinesToGoRange, MaxLineNat, PpuAssumption DEF LoopInv, TypeOK, PpuInv, PpuTypeOK
  <2>3. LinesToGo' = LinesToGo
    BY <2>1 DEF LinesToGo
  <2> QED BY <2>1, <2>2, <2>3 DEF FrameBudget
<1>4. CASE CpuStep
  <2>1. UNCHANGED <<vcount, frame_ready, lineAge, call, elapsed>> /\ pc = "loop"
    BY <1>4, CpuStepShape DEF ppuVars
  <2> QED BY <2>1 DEF FrameBudget, LinesToGo
<1>5. CASE Sleep
  <2>1. UNCHANGED <<vcount, frame_ready, lineAge, call, elapsed>> /\ pc = "loop" /\ pc' = "tick"
    BY <1>5 DEF Sleep, ppuVars
  <2> QED BY <2>1 DEF FrameBudget, LinesToGo
<1>6. CASE LoopEnds \/ BreakOnFrame
  BY <1>6 DEF LoopEnds, BreakOnFrame, Return, FrameBudget
<1>7. CASE EndIteration
  <2>1. \/ call' = "none"
        \/ /\ UNCHANGED <<vcount, frame_ready, lineAge, call, elapsed>>
           /\ call = "run_frame" => ~frame_ready
    BY <1>7 DEF EndIteration, Return, ppuVars
  <2> QED BY <2>1 DEF FrameBudget, LinesToGo
<1>8. CASE UNCHANGED vars
  BY <1>8 DEF vars, ppuVars, loopVars, FrameBudget, LinesToGo
<1>9. CASE Store
  <2>1. UNCHANGED <<vcount, frame_ready, lineAge, call, pc, elapsed>>
    BY <1>9, StoreShape DEF loopVars
  <2> QED BY <2>1 DEF FrameBudget, LinesToGo
<1>10. CASE StoresEnd
  <2>1. /\ UNCHANGED <<vcount, frame_ready, lineAge, call, elapsed>>
        /\ pc = "stores" \/ pc' = "drain"
    BY <1>10 DEF StoresEnd, ppuVars
  <2> QED BY <2>1 DEF FrameBudget, LinesToGo
<1> QED BY <1>1, <1>2, <1>3, <1>4, <1>5, <1>6, <1>7, <1>8, <1>9, <1>10 DEF Next, Machine

\* As long as a whole frame of lines, each stretched by two batches, fits in
\* the cap, run_frame never returns without a frame.  For the console's
\* numbers that is every batch of at most 1849 cycles.
THEOREM ConsoleFrameWithinCap ==
    ASSUME LINES * (LineCycles + 2 * (MaxBatch - 1)) <= MAX_CYCLES_PER_FRAME
    PROVE  Spec => []FrameWithinCap
<1>1. Init => FrameBudget
  BY DEF Init, FrameBudget
<1>2. ASSUME LoopInv, FrameBudget PROVE FrameWithinCap
  <2> SUFFICES ASSUME pc = "loop", call = "run_frame" PROVE elapsed <= MAX_CYCLES_PER_FRAME
    BY DEF FrameWithinCap, MayContinue
  <2>1. elapsed + LinesToGo * MaxLine <= LINES * MaxLine + lineAge
    BY <1>2 DEF FrameBudget
  <2>2. lineAge <= MaxLine /\ lineAge \in Nat /\ elapsed \in Nat
    <3>1. PICK e \in Scheduled : queue = {e}
      BY <1>2 DEF LoopInv, PpuInv, PpuTypeOK, OnePending
    <3>2. Due = {} /\ Due = IF e.in <= 0 THEN {e} ELSE {}
      BY <1>2, <3>1, HeadOfOne DEF LoopInv
    <3>3. e.in > 0
      BY <3>2
    <3>4. lineAge + e.in = HDRAW_CYCLES \/ lineAge + e.in <= LineCycles + MaxBatch - 1
      BY <1>2, <3>1, PpuAssumption DEF LoopInv, PpuInv, LineSchedule
    <3>5. lineAge \in Nat /\ elapsed \in Nat
      BY <1>2 DEF LoopInv, TypeOK, PpuTypeOK
    <3> QED BY <3>1, <3>3, <3>4, <3>5, PpuAssumption DEF MaxLine
  <2>3. LinesToGo * MaxLine >= MaxLine /\ LinesToGo * MaxLine \in Nat /\ LINES * MaxLine \in Nat
    <3>1. \A a, c \in Nat : a >= 1 => a * c >= c
      OBVIOUS
    <3> QED BY <1>2, <3>1, LinesToGoRange, MaxLineNat, PpuAssumption
  <2>4. LINES * MaxLine <= MAX_CYCLES_PER_FRAME
    BY DEF MaxLine
  <2> QED BY <2>1, <2>2, <2>3, <2>4, MaxLineNat, ConsoleAssumption
<1> QED BY <1>1, <1>2, BudgetInv, LoopInvariant, PTL DEF Spec
=============================================================================
