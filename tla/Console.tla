------------------------------ MODULE Console ------------------------------
(***************************************************************************)
(* The main loop of the emulator (gba.rs): run_frame, run_cycles and       *)
(* step_one drive the CPU, Bus::tick, the APU's frame sequencer and the    *)
(* wake-up from HALT.  Of the CPU this module keeps what the loop depends  *)
(* on: the interrupt check before each instruction, HALT, and the writes   *)
(* to interrupt and DISPSTAT registers that a program may make.            *)
(*                                                                         *)
(* One iteration of the loop is a path                                     *)
(*     "loop" -> "stores" -> "tick" -> "drain" -> "loop" or "host"         *)
(* in which "stores" is left out by a sleep, and a handler of the PPU that *)
(* triggers DMA goes from "drain" to "dma" and back.  In "stores" and in   *)
(* "dma" registers are written one by one, by the instruction or by the    *)
(* transfers it starts, and by the transfers of the DMA pass.              *)
(***************************************************************************)
EXTENDS Ppu

CONSTANTS
    MAX_CYCLES_PER_FRAME,  \* 280896 * 4
    SeqPeriod,             \* 32768 cycles per frame-sequencer step
    SeqSteps,              \* the sequencer has 8 steps
    HighByte,              \* the sources in bits 8-15 of IF
    Costs,                 \* what one instruction may cost
    Calls,                 \* the run functions the host uses
    Targets,               \* arguments of run_cycles
    DispstatWrites,        \* what a store may write to DISPSTAT: [en, lyc]
    IeWrites,              \* to IE
    IfWrites,              \* to IF
    Raises                 \* what timers may raise in a tick, DMA channels in a pass

ASSUME ConsoleAssumption ==
    /\ MAX_CYCLES_PER_FRAME \in Nat
    /\ SeqPeriod \in Nat \ {0} /\ SeqSteps \in Nat \ {0}
    /\ HighByte \subseteq OtherSources
    /\ Costs \subseteq 1 .. MaxBatch
    /\ Calls \subseteq {"run_frame", "run_cycles", "step_one"}
    /\ Targets \subseteq Nat \ {0}
    /\ DispstatWrites \subseteq [en : SUBSET PpuSources, lyc : 0 .. 255]
    /\ IeWrites \subseteq SUBSET IrqSources
    /\ IfWrites \subseteq SUBSET IrqSources
    /\ Raises \subseteq SUBSET OtherSources

VARIABLES
    ie, ime,     \* IoRegs.ie, IoRegs.ime
    masked,      \* CPSR.I
    irq_delay,   \* Cpu.irq_delay
    halted,      \* Cpu.halted
    haltcnt,     \* IoRegs.haltcnt: HALTCNT was written
    handler,     \* whether the handler address in IWRAM is at least 0x02000000
    pc,          \* where the loop is, "host" when no run function is active
    call,        \* the active run function
    target,      \* its target_cycles
    elapsed,     \* sched.now - start
    cycles,      \* cost of this iteration
    frame_sequencer_counter, frame_sequencer_step

cpuVars == <<ie, ime, masked, irq_delay, halted, haltcnt, handler>>
loopVars == <<pc, call, target, elapsed, cycles>>
seqVars == <<frame_sequencer_counter, frame_sequencer_step>>
vars == <<ppuVars, cpuVars, loopVars, seqVars>>

TypeOK ==
    /\ PpuTypeOK
    /\ ie \subseteq IrqSources /\ ime \in BOOLEAN /\ masked \in BOOLEAN
    /\ irq_delay \in 0 .. 1
    /\ halted \in BOOLEAN /\ haltcnt \in BOOLEAN /\ handler \in BOOLEAN
    /\ pc \in {"host", "loop", "stores", "tick", "drain", "dma"}
    /\ call \in {"none", "run_frame", "run_cycles", "step_one"}
    /\ target \in Nat /\ elapsed \in Nat /\ cycles \in Nat
    /\ frame_sequencer_counter \in 0 .. SeqPeriod - 1
    /\ frame_sequencer_step \in 0 .. SeqSteps - 1

Init ==
    /\ PpuInit
    /\ ie = {} /\ ime = FALSE /\ masked = FALSE /\ irq_delay = 0
    /\ halted = FALSE /\ haltcnt = FALSE /\ handler = FALSE
    /\ pc = "host" /\ call = "none" /\ target = 0 /\ elapsed = 0 /\ cycles = 0
    /\ frame_sequencer_counter = 0 /\ frame_sequencer_step = 0

Pending == ie \cap if_

-----------------------------------------------------------------------------
(* Entry of a run function *)

\* check_late_irq_init
LateInit ==
    IF "VBlank" \in ie /\ ime /\ handler THEN {"VBlank"} ELSE {}

Enter(function, cycle_target) ==
    /\ pc = "host" /\ function \in Calls
    /\ pc' = "loop" /\ call' = function
    /\ target' = cycle_target /\ elapsed' = 0
    /\ StartRun(LateInit, function = "run_frame")
    /\ UNCHANGED <<cpuVars, cycles, seqVars>>

RunFrame == Enter("run_frame", 0)
RunCycles == \E t \in Targets : Enter("run_cycles", t)
StepOne == Enter("step_one", 0)

HostCall == RunFrame \/ RunCycles \/ StepOne

Return == /\ pc' = "host" /\ call' = "none"
          /\ target' = 0 /\ elapsed' = 0 /\ cycles' = 0

-----------------------------------------------------------------------------
(* The head of the loop *)

MayContinue ==
    /\ call = "run_frame" => elapsed <= MAX_CYCLES_PER_FRAME
    /\ call = "run_cycles" => elapsed < target

\* run_frame's cycle cap, run_cycles' target.
LoopEnds ==
    /\ pc = "loop" /\ ~MayContinue
    /\ Return
    /\ UNCHANGED <<ppuVars, cpuVars, seqVars>>

\* A halted CPU sleeps to the next event, in run_cycles at most to the target.
SleepCycles ==
    LET untilEvent == IF CyclesUntilNext < 1 THEN 1 ELSE CyclesUntilNext
        untilTarget == target - elapsed
    IN  IF call = "run_cycles" /\ untilTarget < untilEvent THEN untilTarget
                                                            ELSE untilEvent

Sleep ==
    /\ pc = "loop" /\ MayContinue /\ halted
    /\ pc' = "tick" /\ cycles' = SleepCycles
    /\ UNCHANGED <<ppuVars, cpuVars, seqVars, call, target, elapsed>>

\* Cpu::step: one instruction, or the entry of the interrupt handler.
IrqDue == irq_delay = 0 /\ Pending # {} /\ ime /\ ~masked

Step(then) ==
    /\ pc = "loop" /\ MayContinue /\ ~halted
    /\ pc' = then /\ cycles' \in Costs
    /\ UNCHANGED <<ppuVars, ie, ime, halted, haltcnt, handler, seqVars, call, target, elapsed>>

TakeIrq ==
    /\ Step("tick") /\ IrqDue
    /\ masked' = TRUE
    /\ UNCHANGED irq_delay

\* An instruction that leaves CPSR.I alone; it may store.
Execute ==
    /\ Step("stores") /\ ~IrqDue
    /\ irq_delay' = 0
    /\ UNCHANGED masked

\* MSR.
SetMask ==
    /\ Step("tick") /\ ~IrqDue
    /\ irq_delay' = 0
    /\ masked' \in BOOLEAN

\* A data-processing instruction with S that writes PC: CPSR comes from SPSR,
\* and the next instruction runs before an interrupt is taken again.
ReturnFromException ==
    /\ Step("tick") /\ ~IrqDue
    /\ irq_delay' = 1
    /\ masked' \in BOOLEAN

CpuStep == TakeIrq \/ Execute \/ SetMask \/ ReturnFromException

-----------------------------------------------------------------------------
(* Stores, by an instruction or by a DMA transfer.  An instruction may make *)
(* several, and start transfers of immediate channels that make more.      *)

Storing == pc \in {"stores", "dma"} /\ UNCHANGED <<masked, irq_delay, halted, loopVars, seqVars>>

StoreDispstat ==
    /\ Storing
    /\ \E w \in DispstatWrites : WriteDispstat(w.en, w.lyc)
    /\ UNCHANGED <<ie, ime, haltcnt, handler>>

StoreIe ==
    /\ Storing
    /\ ie' \in IeWrites
    /\ UNCHANGED <<ppuVars, ime, haltcnt, handler>>

StoreIme ==
    /\ Storing
    /\ ime' \in BOOLEAN
    /\ UNCHANGED <<ppuVars, ie, haltcnt, handler>>

\* A halfword store to IF.
StoreIf ==
    /\ Storing
    /\ \E ones \in IfWrites : WriteIf(ones)
    /\ UNCHANGED <<ie, ime, haltcnt, handler>>

\* A byte store to IF becomes a halfword store whose other byte is what IF
\* reads (Bus::write8).  DMA transfers store no bytes.
StoreIfByte ==
    /\ Storing /\ pc = "stores"
    /\ \E ones \in IfWrites :
           \/ ones \cap HighByte = {} /\ WriteIf(ones \cup (if_ \cap HighByte))
           \/ ones \subseteq HighByte /\ WriteIf(ones \cup (if_ \ HighByte))
    /\ UNCHANGED <<ie, ime, haltcnt, handler>>

StoreHaltcnt ==
    /\ Storing
    /\ haltcnt' = TRUE
    /\ UNCHANGED <<ppuVars, ie, ime, handler>>

StoreHandler ==
    /\ Storing
    /\ handler' = ~handler
    /\ UNCHANGED <<ppuVars, ie, ime, haltcnt>>

\* A DMA channel that is done may interrupt; other channels may store after it.
ChannelEnds ==
    /\ Storing
    /\ \E raised \in Raises : Raise(raised)
    /\ UNCHANGED <<ie, ime, haltcnt, handler>>

Store == \/ StoreDispstat \/ StoreIe \/ StoreIme \/ StoreIf \/ StoreIfByte
         \/ StoreHaltcnt \/ StoreHandler \/ ChannelEnds

\* The last store has been made.
StoresEnd ==
    /\ \/ pc = "stores" /\ pc' = "tick"
       \/ pc = "dma" /\ pc' = "drain"
    /\ UNCHANGED <<ppuVars, cpuVars, seqVars, call, target, elapsed, cycles>>

-----------------------------------------------------------------------------
(* Bus::tick and the rest of the iteration *)

\* Seeded fault: the time asleep is not counted.
Elapsed_AwakeOnly == IF halted THEN elapsed ELSE elapsed + cycles

Elapsed == elapsed + cycles

TickBus ==
    /\ pc = "tick"
    /\ pc' = "drain"
    /\ \E raised \in Raises : Tick(cycles, raised)
    /\ elapsed' = Elapsed
    /\ UNCHANGED <<cpuVars, seqVars, call, target, cycles>>

\* One turn of the loop over the due events.  The handler of line SCREEN_H is
\* followed by run_dma(VBlank), that of a visible line's HBlank by
\* run_dma(HBlank): a pass over the channels that ends in StoresEnd.
HandleEvent ==
    /\ pc = "drain"
    /\ \/ OnHBlank /\ pc' = (IF vcount < SCREEN_H THEN "dma" ELSE "drain")
       \/ OnHDraw /\ pc' = (IF NextLine = SCREEN_H THEN "dma" ELSE "drain")
    /\ UNCHANGED <<cpuVars, seqVars, call, target, elapsed, cycles>>

\* After the tick of an instruction HALTCNT takes effect.  A store by DMA that
\* comes while the CPU sleeps waits for the next instruction.
HaltedNow == halted \/ haltcnt
HaltcntLeft == halted /\ haltcnt

\* Seeded faults: the wake-up needs IME as the interrupt does; the wake-up is
\* not looked for in the iteration that enters HALT.
StaysHalted_NeedsIme == HaltedNow /\ (Pending = {} \/ ~ime)
StaysHalted_AtEntry == HaltedNow /\ (Pending = {} \/ haltcnt)

\* A halted CPU wakes up when an enabled interrupt is raised.
StaysHalted == HaltedNow /\ Pending = {}

\* run_frame leaves the loop when frame_ready is set, before it counts this
\* iteration's cycles and before it looks for an interrupt.
BreakOnFrame ==
    /\ pc = "drain" /\ Due = {}
    /\ call = "run_frame" /\ frame_ready
    /\ halted' = HaltedNow /\ haltcnt' = HaltcntLeft
    /\ Return
    /\ UNCHANGED <<ppuVars, ie, ime, masked, irq_delay, handler, seqVars>>

\* The while loop that steps the frame sequencer.
CountSequencer ==
    LET sum == frame_sequencer_counter + cycles
    IN  /\ frame_sequencer_counter' = sum % SeqPeriod
        /\ frame_sequencer_step' = (frame_sequencer_step + sum \div SeqPeriod) % SeqSteps

EndIteration ==
    /\ pc = "drain" /\ Due = {}
    /\ ~(call = "run_frame" /\ frame_ready)
    /\ CountSequencer
    /\ halted' = StaysHalted /\ haltcnt' = HaltcntLeft
    /\ IF call = "step_one" THEN Return
                            ELSE /\ pc' = "loop" /\ cycles' = 0
                                 /\ UNCHANGED <<call, target, elapsed>>
    /\ UNCHANGED <<ppuVars, ie, ime, masked, irq_delay, handler>>

Machine == LoopEnds \/ Sleep \/ CpuStep \/ Store \/ StoresEnd \/ TickBus
              \/ HandleEvent \/ BreakOnFrame \/ EndIteration

Next == HostCall \/ Machine

Spec == Init /\ [][Next]_vars

\* The emulator's thread runs until the run function returns, and the host
\* keeps calling: the graders and the page step frame after frame.  An
\* instruction and a pass of DMA make finitely many stores.
Fairness == WF_vars(Machine) /\ WF_vars(StoresEnd) /\ WF_vars(HostCall)
FairSpec == Spec /\ Fairness

-----------------------------------------------------------------------------
(* Properties *)

\* A halted CPU with an enabled interrupt raised sleeps on in one case only:
\* in the first iteration after a run function was entered (run_frame has
\* left its loop without looking for an interrupt).  In every later
\* iteration the wake-up check has run.
LateWakeOnlyOnEntry ==
    pc = "loop" /\ halted /\ Pending # {} => elapsed = 0

\* run_frame always returns because a frame is ready, never because of the
\* cycle cap.
FrameWithinCap == pc = "loop" /\ call = "run_frame" => MayContinue

\* Every run function returns, also with a CPU that stays halted.
RunReturns == pc # "host" ~> pc = "host"

\* The CPU may expect a VBlank interrupt: it is enabled in IE and DISPSTAT.
WaitsForVBlank == "VBlank" \in ie \cap irqEn

\* A DMA transfer acknowledges a VBlank interrupt.
DmaAcknowledges == pc = "dma" /\ "VBlank" \in if_ \ if_'

\* A CPU that is halted and waits for VBlank wakes up, however the run
\* functions end and resume.  The DMA pass that follows the handler comes
\* before the wake-up check, so the two exceptions are its doing: its stores
\* disable the interrupt, or they acknowledge it again and again.
VBlankWakesHaltedCpu ==
    \/ []<><<DmaAcknowledges>>_vars
    \/ (halted /\ WaitsForVBlank) ~> (~halted \/ ~WaitsForVBlank)
=============================================================================
