-------------------------------- MODULE Ppu --------------------------------
(***************************************************************************)
(* The event scheduler (scheduler.rs) and the PPU's line timing (ppu.rs),  *)
(* driven by Bus::tick (bus.rs) with batches of CPU cycles.                *)
(*                                                                         *)
(* The scheduler keeps absolute times.  Here an event holds the cycles     *)
(* left until its due time ("in"), so that Advance subtracts from every    *)
(* event; a due time in the past is zero or negative.  Pixels are left     *)
(* out: drawn is the set of framebuffer rows rendered since the last       *)
(* VBlank.  DISPSTAT is split into its status flags, its interrupt enables *)
(* and its VCount setting; IF is the set of raised interrupt sources.      *)
(***************************************************************************)
EXTENDS Integers, FiniteSets

CONSTANTS
    HDRAW_CYCLES,   \* 960: cycles from the start of a line to its HBlank
    HBLANK_CYCLES,  \* 272: cycles from HBlank to the next line
    LINES,          \* 228 lines per frame
    SCREEN_H,       \* 160 visible lines
    MaxBatch,       \* the longest batch that one instruction costs
    OtherSources    \* interrupt sources raised outside the PPU (timers, DMA)

ASSUME PpuAssumption ==
    /\ HDRAW_CYCLES \in Nat \ {0} /\ HBLANK_CYCLES \in Nat \ {0}
    /\ LINES \in Nat /\ SCREEN_H \in Nat \ {0} /\ SCREEN_H < LINES
    /\ MaxBatch \in Nat \ {0}
    /\ OtherSources \cap {"VBlank", "HBlank", "VCount"} = {}

PpuSources == {"VBlank", "HBlank", "VCount"}
IrqSources == PpuSources \cup OtherSources
LineCycles == HDRAW_CYCLES + HBLANK_CYCLES
Rows == 0 .. SCREEN_H - 1

VARIABLES
    queue,        \* Scheduler.queue: the pending events
    vcount,       \* the line counter
    flags,        \* DISPSTAT bits 0-2
    irqEn,        \* DISPSTAT bits 3-5
    lyc,          \* DISPSTAT bits 8-15
    frame_ready,  \* set when line SCREEN_H starts
    if_,          \* IoRegs.if_
    drawn,        \* rows rendered since the last VBlank
    lineAge       \* history: cycles since the line's HDraw was handled

ppuVars == <<queue, vcount, flags, irqEn, lyc, frame_ready, if_, drawn, lineAge>>

Scheduled == [event : {"HDraw", "HBlank"}, in : Int]

PpuTypeOK ==
    /\ queue \subseteq Scheduled
    /\ vcount \in 0 .. LINES - 1
    /\ flags \subseteq PpuSources
    /\ irqEn \subseteq PpuSources
    /\ lyc \in 0 .. 255
    /\ frame_ready \in BOOLEAN
    /\ if_ \subseteq IrqSources
    /\ drawn \subseteq Rows
    /\ lineAge \in Nat

PpuInit ==
    /\ queue = {[event |-> "HBlank", in |-> HDRAW_CYCLES]}
    /\ vcount = 0
    /\ flags = {} /\ irqEn = {} /\ lyc = 0
    /\ frame_ready = FALSE
    /\ if_ = {}
    /\ drawn = {}
    /\ lineAge = 0

-----------------------------------------------------------------------------
(* Scheduler *)

\* Seeded fault: an event is scheduled one cycle early.
Push_Early(q, event, in_cycles) == q \cup {[event |-> event, in |-> in_cycles - 1]}

Push(q, event, in_cycles) == q \cup {[event |-> event, in |-> in_cycles]}

Due == {e \in queue : e.in <= 0}

\* The heap's minimum, popped only when it is due.
PopDue(e) == e \in Due /\ \A f \in queue : e.in <= f.in

\* Cycles to the head of the queue, 0 when it is late.  (No event at all,
\* u32::MAX in the code, is excluded by OnePending.)
CyclesUntilNext ==
    LET head == CHOOSE e \in queue : \A f \in queue : e.in <= f.in
    IN  IF head.in > 0 THEN head.in ELSE 0

-----------------------------------------------------------------------------
(* Bus::tick: time passes, the timers may raise interrupts, and then the   *)
(* due events are handled one by one until none is left.                   *)

Request(source) == if_ \cup (irqEn \cap {source})

Tick(cycles, raised) ==
    /\ Due = {}
    /\ queue' = {[e EXCEPT !.in = @ - cycles] : e \in queue}
    /\ lineAge' = lineAge + cycles
    /\ if_' = if_ \cup raised
    /\ UNCHANGED <<vcount, flags, irqEn, lyc, frame_ready, drawn>>

\* render_scanline, for the lines of the screen.
\* Seeded fault: the last row is taken for a VBlank line.
Render_LastRowLost == IF vcount < SCREEN_H - 1 THEN drawn \cup {vcount} ELSE drawn

Render == IF vcount < SCREEN_H THEN drawn \cup {vcount} ELSE drawn

OnHBlank ==
    \E e \in queue :
        /\ PopDue(e) /\ e.event = "HBlank"
        /\ queue' = Push(queue \ {e}, "HDraw", HBLANK_CYCLES)
        /\ drawn' = Render
        /\ flags' = flags \cup {"HBlank"}
        /\ if_' = Request("HBlank")
        /\ UNCHANGED <<vcount, irqEn, lyc, frame_ready, lineAge>>

\* The sources on_hdraw requests when it enters the given line.
LineIrqs(line) ==
    irqEn \cap {s \in {"VCount", "VBlank"} :
                   \/ s = "VCount" /\ line = lyc
                   \/ s = "VBlank" /\ line = SCREEN_H}

\* Seeded fault: one line too many per frame.
NextLine_OffByOne == (vcount + 1) % (LINES + 1)

NextLine == (vcount + 1) % LINES

OnHDraw ==
    \E e \in queue :
        /\ PopDue(e) /\ e.event = "HDraw"
        /\ queue' = Push(queue \ {e}, "HBlank", HDRAW_CYCLES)
        /\ vcount' = NextLine
        /\ flags' = (flags \ ({"HBlank", "VCount"}
                                \cup (IF NextLine = 0 THEN {"VBlank"} ELSE {})))
                       \cup (IF NextLine = lyc THEN {"VCount"} ELSE {})
                       \cup (IF NextLine = SCREEN_H THEN {"VBlank"} ELSE {})
        /\ frame_ready' = (frame_ready \/ NextLine = SCREEN_H)
        /\ if_' = if_ \cup LineIrqs(NextLine)
        /\ drawn' = IF NextLine = SCREEN_H THEN {} ELSE drawn
        /\ lineAge' = 0
        /\ UNCHANGED <<irqEn, lyc>>

-----------------------------------------------------------------------------
(* What the CPU and the frame loop do to this state *)

\* Seeded fault: a write of DISPSTAT overwrites the status flags.
WriteDispstat_Overwrites(en, setting) ==
    /\ irqEn' = en
    /\ lyc' = setting
    /\ flags' = {}
    /\ UNCHANGED <<queue, vcount, frame_ready, if_, drawn, lineAge>>

\* A write of DISPSTAT keeps the three status flags, also the VCount one.
WriteDispstat(en, setting) ==
    /\ irqEn' = en
    /\ lyc' = setting
    /\ UNCHANGED <<queue, vcount, flags, frame_ready, if_, drawn, lineAge>>

\* A write of IF clears the bits that are written as 1.
WriteIf(ones) ==
    /\ if_' = if_ \ ones
    /\ UNCHANGED <<queue, vcount, flags, irqEn, lyc, frame_ready, drawn, lineAge>>

\* Sources outside the PPU are raised outside Bus::tick: a DMA channel at the
\* end of its transfer.
Raise(raised) ==
    /\ if_' = if_ \cup raised
    /\ UNCHANGED <<queue, vcount, flags, irqEn, lyc, frame_ready, drawn, lineAge>>

\* The entry of the run functions: run_frame clears frame_ready, and each of
\* them may enable the VBlank interrupt.
StartRun(en, clear) ==
    /\ irqEn' = irqEn \cup en
    /\ frame_ready' = (frame_ready /\ ~clear)
    /\ UNCHANGED <<queue, vcount, flags, lyc, if_, drawn, lineAge>>

\* A batch is an instruction of at most MaxBatch cycles, or a sleep that
\* ends no later than the next event.
Batches == (1 .. MaxBatch) \cup (1 .. CyclesUntilNext)

PpuNext ==
    \/ \E cycles \in Batches, raised \in SUBSET OtherSources : Tick(cycles, raised)
    \/ OnHBlank
    \/ OnHDraw
    \/ \E en \in SUBSET PpuSources, setting \in 0 .. 255 : WriteDispstat(en, setting)
    \/ \E ones \in SUBSET IrqSources : WriteIf(ones)
    \/ \E raised \in SUBSET OtherSources : Raise(raised)
    \/ \E en \in SUBSET PpuSources, clear \in BOOLEAN : StartRun(en, clear)

PpuSpec == PpuInit /\ [][PpuNext]_ppuVars

-----------------------------------------------------------------------------
(* Properties *)

\* The scheduler holds exactly one event at any time: the PPU can neither
\* stop nor run twice (each handler pushes the other handler's event).
OnePending == \E e \in queue : queue = {e}

\* DISPSTAT's HBlank flag is set exactly while the end of HBlank is pending.
HBlankFlagTracksEvent == ("HBlank" \in flags) <=> \E e \in queue : e.event = "HDraw"

\* DISPSTAT's VBlank flag is set exactly on the lines below the screen.
VBlankFlagTracksLine == ("VBlank" \in flags) <=> vcount >= SCREEN_H

\* Due times against the line's age: events are due at their nominal offset
\* in the line, except that the end of HBlank moves by the lateness of the
\* HBlank event, which is less than one batch.
LineSchedule ==
    \A e \in queue :
        /\ e.in + MaxBatch > 0
        /\ e.event = "HBlank" => lineAge + e.in = HDRAW_CYCLES
        /\ e.event = "HDraw" => lineAge + e.in \in LineCycles .. LineCycles + MaxBatch - 1

\* The rows drawn since VBlank are the visible lines whose HBlank has come:
\* no row is skipped, and none is left from an earlier frame.
DrawnIsPrefix ==
    drawn = {row \in Rows : vcount < SCREEN_H /\ (\/ row < vcount
                                                  \/ row = vcount /\ "HBlank" \in flags)}

\* When VBlank begins and run_frame is about to hand the framebuffer to its
\* caller, every row of it has been drawn by this frame.
FrameIsComplete == [][vcount # SCREEN_H /\ vcount' = SCREEN_H => drawn = Rows]_ppuVars

\* A line may last longer than its 1232 cycles, never shorter, and longer
\* only by the part of two batches that lay behind its two events.
LineLength ==
    [][vcount' # vcount => /\ lineAge >= LineCycles
                           /\ lineAge <= LineCycles + 2 * (MaxBatch - 1)]_ppuVars

=============================================================================
