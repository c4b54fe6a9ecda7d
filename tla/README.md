# GBA Eval: verification project

TLA+ modules for the Game Boy Advance emulator `candidates/gba-core`, for the harness that
grades emulators against a reference, and for the service through which a reference emulator is
queried. Each module is written from the source; TLC checks it on small instances, and TLAPS
proves the most important properties for every value of the constants. Paths below are relative
to the root of the repository; a bare `x.rs` is in `candidates/gba-core/src/`.

1. [The system](#1-the-system)
2. [Modules and the code they model](#2-modules-and-the-code-they-model)
3. [Runs](#3-runs)
4. [Proofs](#4-proofs)
5. [Where the code departs from what is written about it](#5-where-the-code-departs-from-what-is-written-about-it)
6. [What is not modelled](#6-what-is-not-modelled)
7. [What could come next](#7-what-could-come-next)

## 1. The system

The repository has three programs: an emulator core (Rust, compiled to WebAssembly), a harness
that runs a candidate emulator in lockstep with a reference and scores it (Rust), and an HTTP
service that lets a client query the reference emulator (Python).

### The emulator core

Everything runs on one thread. There is no preemption, but there is much interleaving: the CPU
advances time in batches (one instruction, one DMA pass, or one sleep in HALT), and timers, PPU,
APU and DMA catch up after each batch. Whatever happens inside a batch is seen late, and the
code corrects for it or not. That is where most hazards of this code lie.

| Component | State | Operations | Interacts with | What makes it correct |
|---|---|---|---|---|
| Event scheduler, `scheduler.rs` | `now`, a heap of due times | `push`, `advance`, `pop_due`, `cycles_until_next` | PPU pushes, the main loop pops | no event lost, doubled or early |
| PPU line timing, `ppu.rs` | `vcount`, DISPSTAT, `frame_ready`, framebuffer | `on_hblank`, `on_hdraw`, register writes | raises interrupts and DMA triggers, ends the frame | the line raster holds under batches; complete frames |
| PPU rendering, `ppu.rs` | line buffers, window, blend and affine registers, OAM | drawing one line | reads video memory | a pixel is the one in front; a line starts at its reference point |
| Main loop, `gba.rs` | frame-sequencer counter | `run_frame`, `run_cycles`, `step_one`, wake-up from HALT | drives all others | always returns; HALT ends when an interrupt is due |
| Interrupt registers, `io.rs` | IE, IF, IME, HALTCNT | halfword stores; byte stores through `Bus::write8` | raised by PPU, timers, DMA; read by CPU and loop | an interrupt is cleared only by acknowledging it |
| Timers, `timer.rs` | reload, counter, control, prescaler, start-up delay of four timers | `tick(batch)`, reload and control writes | overflows raise interrupts and clock the sound FIFOs | batched counting equals counting cycles |
| CPU modes, `cpu/mod.rs` | CPSR, SPSRs, mode, register banks, IRQ delay | IRQ and SWI entry, returns, MSR, LDM/STM with user registers | interrupt condition of the loop | banking moves no value; returns restore the mode |
| CPU execution, `cpu/arm.rs`, `thumb.rs`, `alu.rs` | registers and flags | one instruction | reads and writes the bus | the two interpreters agree; arithmetic is arithmetic |
| Bus, `bus.rs`, `waitstates.rs` | memories, wait-state table | loads and stores of three widths, `tick`, DMA passes | all devices | byte stores to halfword registers change only that byte |
| DMA, `dma.rs`, `bus.rs` | registers and internal pointers of four channels | control writes, `run_dma`, `run_immediate_dma` | transfers write to any device, DMA included | pointers and counts; nothing pending is left behind; the bus comes back |
| APU, `apu.rs` | four PSG channels, two FIFOs, sample clock | register writes, `tick`, FIFO pop and refill | clocked by timers and main loop, fed by DMA | a sample sees the FIFO byte of its time; no FIFO mixes up its bytes; channels end |
| Save media, `save.rs` | save memory, flash and EEPROM command state | bus accesses | bus and DMA | data survives every command sequence |
| GPIO and clock, `gpio.rs` | pins, direction, shift registers of the clock chip | data, direction and control stores, reads | bus | a command is answered whole and by its register |
| WASM shim, `wasm-shim/src/lib.rs` | one `Gba`, ROM and audio buffers | `emu_init`, `emu_load_rom`, `emu_set_keys`, `emu_run_frame`, audio drain | host | one frame of picture and sound per call |

### The harness and the services

| Component | State | Operations | Hard behaviour | What makes it correct |
|---|---|---|---|---|
| Guests, `harness/grader/src/wasm_candidate.rs` | a WASM instance with its fuel and memory | boot, set keys, `run_frame`, read framebuffer, drain audio | a call that traps or runs out of fuel in the middle | later calls continue; no sample is heard twice |
| Lockstep, `harness/lockstep/src/lib.rs`, `replay.rs` | two emulators, frame number, key replay | boot loops, one frame of both | boot frames of one side only, replays that end early | both sides see the keys of the same frame |
| Grader, `harness/grader/src/main.rs` | thresholds, results | `grade_testcase`, `precompute_cache` | candidate or cache fails | a failure never counts as a score |
| Reference cache, `harness/grader/src/ref_cache.rs` | a compressed file per test case | `ensure_written`, `write`, `load`, playback | crash in the middle of a write; two graders at once; stale recordings | grading from the cache equals grading live |
| Oracle session server, `quickstart/services/oracle-server.py` | sessions with event lists, frame numbers and last results | start, info, set-keys, run-frame, framebuffer, audio, end; the reaper | runs outside the lock, reaper thread, runs that fail or time out | a session is an emulator that stands still between requests |
| Oracle command line, `harness/oracle` | none between invocations | `run` | - | frame N under the replayed keys |
| Metrics and writers, `audio.rs`, `video.rs`, `media.rs`, `video_encode.rs` of lockstep | none | - | floating-point arithmetic; a pipe to an encoder | - |

`PROJECT.json` lists the same components with their status, and under `hazards` each place in
the code where something can go wrong that a test would hardly reach. The properties of the
modules answer to that list.

## 2. Modules and the code they model

```
Emulator core                                  (A <- B: B extends A)

Ppu <- Console <- MCConsole                    DmaRegisters <- Dma <- MCDma
  ConsoleProofs (Ppu, Console)                   DmaChannels is implemented by Dma
                                                 DmaProofs
Timers     <-\
CpuModes   <-\
Thumb      <- MCAlgorithms                     Flash, Eeprom <- Save, Gpio <- Cartridge <- MCSave
Compositor <-/                                   SerialStore is implemented by Eeprom
AffineBg   <-/                                   RtcChip is implemented by Gpio
  Registers <- CpuModes                          SaveProofs (Cartridge)
    RegisterFile is implemented by CpuModes    Eeprom, Gpio <- Documented
    CpuModesProofs
  Alu <- Arm <- Thumb                          SoundFifo, Psg <- Sound <- MCSound
  AlgorithmsProofs (the other four)              SoundQueue is implemented by Sound
                                                 SoundProofs

Harness and services

RefCache <- MCRefCache <- MCGrading            Oracle
Lockstep               <-/                       EmulatorSessions is implemented by Oracle
  LiveGrading is implemented by RefCache         OracleProofs
  GradingProofs (RefCache, Lockstep)
```

### `Ppu`: scheduler and line timing

`queue` is `Scheduler.queue`. The code keeps absolute due times and `now`; the model keeps for
each event the cycles left (`in`, zero or negative when it is due), so `Tick` subtracts a batch
from each and time needs no bound. `PopDue`, `Push` and `CyclesUntilNext` are the methods of
`Scheduler`; `OnHBlank` and `OnHDraw` are the PPU's handlers with their interrupt requests,
the row they draw and the event they push. DISPSTAT is split into its status `flags`, its
interrupt enables `irqEn` and its VCount setting `lyc`, because the PPU owns the first and the
program the others. Pixels are left out: `drawn` is the set of rows rendered since VBlank.
`lineAge` is a history variable, the cycles since the line began.

`PpuNext` is the PPU in an environment that ticks it with any batch up to `MaxBatch` (or a sleep
to the next event) and drains the queue in any order with register writes and interrupts raised
outside `Bus::tick` (`Raise`).

### `Console`: main loop, HALT and interrupts

One iteration of the loop in `run_frame`, `run_cycles` or `step_one` is a path
`pc = "loop" -> "stores" -> "tick" -> "drain" -> ... -> "loop" | "host"`, in which a sleep leaves
out `"stores"`, and from `"drain"` a handler that triggers DMA goes to `"dma"` and back:

| Action | Code |
|---|---|
| `Enter` (`RunFrame`, `RunCycles`, `StepOne`) | entry of the function, `check_late_irq_init`, clearing `frame_ready` |
| `LoopEnds` | the condition of `while`, the cycle cap |
| `Sleep` | a halted CPU: advance to the next PPU event |
| `CpuStep` | `Cpu::step`: `TakeIrq` if an interrupt is due, else an instruction: a change of CPSR.I (`SetMask`), an exception return, which sets the one-instruction IRQ delay (`ReturnFromException`), or any other (`Execute`), which may store |
| `Store` | one store to IE, IME, IF (halfword or, by an instruction, byte), DISPSTAT, HALTCNT or the handler address, by the instruction, by the transfers it starts, or by the transfers of the pass that follows a handler; `ChannelEnds` is the interrupt of a channel that is done, after which others may still store |
| `StoresEnd` | the instruction, or `run_dma`, is done |
| `TickBus` | `Bus::tick` up to the loop over `pop_due`: advances scheduler and devices; timers may raise interrupts |
| `HandleEvent` | one turn of the loop over `pop_due`: the PPU's handler, and whether `run_dma(VBlank)` (line 160) or `run_dma(HBlank)` (visible lines) follows |
| `BreakOnFrame` | `if frame_ready { break }`, before the wake-up check and the frame sequencer |
| `EndIteration` | frame sequencer, HALTCNT, wake-up. HALTCNT takes effect after an instruction only: what a transfer stores there while the CPU sleeps is left for later (`HaltcntLeft`) |

`step_one` differs by its single iteration, `run_cycles` by its target. Interrupt sources
outside the PPU are the set `OtherSources`, raised at will. `elapsed` is `sched.now - start`. Which
registers a pass writes, how often and in what order is open: the channels themselves are in `Dma`.

### `Timers`: batched counting

`Tick` is `Timers::tick`: for each timer in turn start-up delay, prescaler, `add_to_timer`, and
the cascade from the timer below. It is written with pure operators (`TickAll`, `OwnTick`,
`CascadeTick`), so that properties can evaluate it on any batch. `Cycle` is the reference: one
cycle of four timers in which a full prescaler moves the counter by one and a full counter
reloads and carries; the start-up delay of a new timer counts down first. `WriteReload` and
`WriteControl` are the register writes, the latter with the code's treatment of the phase when
a running timer changes its rate (`Retimed`).

### `Alu`, `Arm`, `Thumb`: what an instruction does

The two interpreters were written one after the other over the same memory and flags, and the
formats of Thumb are abbreviations of ARM instructions. `Arm` is `cpu/arm.rs` from the decoded
fields on: second operands with their rotations and shifts (`Operand2`), the sixteen data
operations, loads and stores of every width with their addressing modes and the values that
misaligned loads give, block transfers, MUL and MLA. `Thumb` is `cpu/thumb.rs`, formats 1 to 15.
A state is registers, flags, memory and the cycles of the last instruction; `Execute` takes one
instruction from a starting state, and `last` keeps which. Each format is an action; the
instructions with a set list or an immediate range over all of the instance. `Equivalent` names
the ARM instruction of each Thumb one, and `ThumbIsArm` compares the two effects. `Alu`, which
both use, is compared with arithmetic: shifts bit by bit, and sums, differences, carry chains and
conditions with what they say about signed and unsigned numbers of one and two words.

Words have `W` bits, bytes a quarter of that. A word is a number; `And`, `Or` and `Xor` are set
operations on `Bits`, the positions at which it has a one, because the module `Bitwise` is
recursive in a way that excludes proofs. For the same reason powers of two are a function,
`Pow2`. Left out are branches, exceptions and stores to
r15 (the pipeline), SWP, long multiplies, PSR transfers (they are in `CpuModes`) and empty register
lists. Thumb's reads of r15 drop bit 1 on both sides. MUL's cycles are not compared: `arm.rs:509`
counts them after the product may have overwritten the multiplier.

### `Compositor` and `AffineBg`: a line of the picture

`Compositor` has the registers that decide which layer a pixel shows and OAM. The line is computed
by `RenderSprites` (sprites drawn from 127 down, so that the lower number stays on top, with the
sprite's priority, blending flag and window mask in the same buffer), `GetWindowFlags`, the scan
over priority and layer (`Slots`, `ComposePixel`) and the effect (`Blend`): of the slots of the scan that have
a pixel the first is shown, and a blend takes the first one behind it. A colour is the layer or
sprite it comes from, so a blend is the pair. A sprite is a rectangle with a set of opaque texels,
which wraps around the 512 by 256 circle of coordinates, as long as it does not pass the end of its
circle.

The reference (`DeclaredPixel`) is written after `spec/gbatek.htm` and draws nothing: it says which
opaque sprite texel and which layer are in front by an order, and which region of the screen a pixel
is in. Sprites of the OBJ window are not among those shown; every opaque texel of one marks its
pixel, whatever is in front; a window whose range is garbage ends at the edge of the screen. The code
does none of the three (section 5), so `PixelShowsFront` compares the two where they can agree:
`NoRangeGoesAround` keeps out the pixels that only a wrapped range contains, and `MasksOnlyMask` those
at which a sprite of the OBJ window is shown, or marks from behind another sprite and that matters.

`AffineBg` is the register pair of an affine background: halfword stores at any time set the
register and reload the internal copy, each visible line adds the slope after it is drawn, and the
begin of VBlank reloads it. One coordinate stands for the four. `moved` remembers that the slope
or the register was written after lines of the frame had been drawn, in which case the plain
formula "reference plus lines times slope" does not apply to that frame.

### `Registers`, `RegisterFile`, `CpuModes`: register banks

`RegisterFile` is what banking promises: the physical registers are cells `<<bank, register>>`,
an instruction reads and writes the cells of its mode, a change of mode moves no value, and
LDM and STM with the S bit use User mode's cells while the base register belongs to the current
mode. `CpuModes` is the code: `r`, `banked_r13`/`banked_r14`, `banked_fiq_r8_12`,
`saved_usr_r8_12`, copied in and out by `SwitchMode`, with the detour of LDM/STM through
User mode, IRQ and SWI entry, the two exception returns, and MSR. `FileOf` maps arrays to
cells. The history variable `did` holds what the last instruction was to do - the values it was
to give to its own mode's or to User mode's registers, or those it was to store - so that
refinement compares the effect with the intent. `stale` stands for the low bits of `Cpu.cpsr`,
which hold the reset value until the first MSR or return (`cpsr_bits` ORs them to the mode).

### `DmaRegisters`, `DmaChannels`, `Dma`: the DMA controller

`Dma` splits `run_dma` into the search for the next channel (`Start`), one unit (`Unit`), the
write-back (`Finish`) and the end of a pass (`EndPass`), because each unit is a bus write and may
write to DMA registers while `run_dma` works on copies of its channel's internal state. A pass
triggered by the program, by VBlank or by HBlank ends in `run_immediate_dma`, which repeats
until no enabled immediate channel is left. `DmaChannels` is the promise: every channel has
pointers of its own, latched when it is turned on, moved with each unit, reloaded by a repeat.
There the copies do not exist; `Pointers` maps them back.

### `SerialStore`, `Flash`, `Eeprom`, `Save`: the cartridge's memory

`Flash` is `flash_write`: one action per state of the command sequence. A stored byte is the set
of its bits that are 1, so an erase makes it the full set and programming intersects it. The
history variables are `recent`, what the last three writes were, and `armed`, whether the last
completed command was the erase prefix; the properties compare the state machine with them.
`Eeprom` is `eeprom_write_bit` and the bit-wise part of `read8`. The code's shift register and
counter are one sequence of bits, `eeprom_command`; blocks and addresses are sequences of bits
too. `SerialStore` is the promise: a request takes effect with its last bit, a read is answered
by the whole block behind its dummy bits. It knows neither latched address nor read position;
`Sent` and `Burst` compute from them what has been sent and what is still to be read. How many final
bits end a request is a constant of `SerialStore`, `Final`: none for `Eeprom`, which is what it
implements. `Documented` runs the same state machine beside the chip of `spec/gbatek.htm`, in
which one zero ends each request, under a program that sends the requests of that document and no
other bits; there the two answers differ (section 5). `Save` puts both behind the type that
`detect_from_rom` found; a machine is used for one type only, so the bytes of `Save.data` are `data`
for one and `blocks` for the other. It has no steps for a cartridge without flash or EEPROM, so its
run does not look for deadlocks.

### `Gpio`, `RtcChip`, `Cartridge`: the clock on its three wires

`Gpio` is `gpio.rs`: `WriteData` drives the pins that are outputs and hands clock, data and select
to `Clock`, which is `Rtc::clock`; the command is a sequence of bits until `ProcessCommand` decodes
it, the answer a sequence of bytes with a position. `RtcChip` is the promise: while the chip is
selected, its first bits are a command, a read command is answered by the bits of its register in
order and then by zeros, and deselecting ends everything. It has no shift registers, positions or
byte boundaries: `BitsLeft` computes what is still to be read. Where a command has its read bit and
the number of its register are constants (`ReadAt`, `NumberAt`), which `Gpio` gives as `gpio.rs` has
them; that a bit of the answer ends with the rising clock, and that a clock rises with the select,
are conventions of `gpio.rs` too. `ImplementsRtcChip` is therefore about sessions, not about the
document. `Documented` is, for the order of a command's bits: its second program reads a register
with the command `spec/gbatek.htm` lays out (select, send, release the wire, read), and in all else
does what `gpio.rs` expects, so that nothing but the order is at issue.
`Cartridge` puts a save medium and the port on one bus.

### `SoundFifo`, `Psg`, `Sound`, `SoundQueue`: the APU

`SoundFifo` is the ring of `Fifo` with its read and write indices. `Sound` is the APU in
`Bus::tick`: `Run` merges the overflows of both timers in the order of their cycles, `TickUntil` is
the sample loop up to an instant, `OnTimerOverflow` pops, `CheckSoundFifoDma` refills through DMA
channels 1 and 2, whatever a batch contains. The timers' reports and the channels' configuration
are inputs (`Reports` gives every pattern of overflows that timers with a period can have).
`sample_clock` has a width, `CLOCK`; `Carry` brings it around, and `TickUntil` notes in `stuck` when
the loop's end lies beyond it. `Psg` are the four channels as records: registers, length counters,
envelope, sweep, timers, DAC and triggers; `FrameSequencerStep` is the 512 Hz step and `WriteCh1` to
`WriteCh4` the register writes, `WriteMaster` the power switch. Only what shapes the wave is left
out (duty, wave memory, noise register, volumes in the mixer), and the timers of the channels are
advanced in closed form (`Counted`), which equals the loop of `step`. Behaviour that follows the
source and may surprise: the wave channel's trigger makes it active with its DAC off; a frequency
write ORs the old high bits; NR42 = 0 does not stop the noise channel; power-off keeps `soundcnt_l`.

`SoundQueue` is the promise, in cycles: in each cycle first the sample that is due, then the pops
of the timers that overflow, and a queue that is half empty takes a whole request. It knows no
batch, no ring and no merge.

### `RefCache`, `LiveGrading`: recordings shared by graders

`RefCache` is one test case's file and the processes that use it. A process reads the corpus in four
steps, and it may be edited between any two of them (`Edit`): `Start` reads the manifest with the
hashes of the roms, `LoadRom` the rom, without hashing it again, `LoadReplay` the replay, and
`HashReplay` the replay's file once more for its hash; a file that cannot be read ends the grade,
or counts as the hash of an empty one (`HashReplayFails`). Then it decides in `ensure_written` whether
the file is current (`ReadCell` reads it cell by cell, `AlreadyCurrent` and `Stale` decide), records
the reference over it (`Create` truncates, `WriteCell` writes a frame), loads it (`Load`, `LoadFails`)
and scores. Between any two steps another process may write the same file, the process may crash and
be started again, and a write may fail. Nothing in the code guards the file: no lock, no temporary
name. A content stands for its hash, so `inputs` keeps apart what was read (`rom`, `replay`) and what
was hashed (`key`), and a recording keeps under which key it was made (`key`) and what it shows
(`shows`).

`LiveGrading` is the promise: a score has compared the candidate with the reference of the inputs the
grade has read, frame by frame. Errors and `Ok(None)` are one outcome; a stream mixed from two
recordings does not decode. `ImplementsLiveGrading` lets one kind of step break the promise,
`ScoresMixed`: a score whose inputs, or whose recording's inputs, no single state of the corpus had
(`WholeInputs`). That covers a grade that read its own inputs undisturbed and finds such a recording
under its key (section 5).

### `Lockstep`: one comparison

From the recording to the score: `RecordBoot` and `RecordFrame` are `ref_cache::write`,
`ConfiguredBoot`, `LockstepBoot` and `Start` the boot loops of grader and lockstep, `Compare` one
iteration over both sides. A guest (`wasm_candidate.rs` with the shim's buffers) is the list of its
slices of `run_frame`, each with its keys; a call may end whole, or trap, or run out of fuel, in
which case the frame is completed by a later call and the framebuffer and the audio buffer stay
as the ABI leaves them. Traps fall between slices. `live`, a reference that is not recorded, runs
beside the cached one, so that properties can compare the two. The reference guest is assumed to
fill its buffers as the repository's shim does; its own source is elsewhere.

`MCGrading` runs the two halves side by side: `RefCache` with the processes, `Lockstep` with one
comparison. They meet in `CachedPlaysLikeLive`: what `RefCache` calls a recording plays like the
reference.

### `Oracle`, `EmulatorSessions`: sessions that are replays

`oracle-server.py` has two threads and one lock. `server` is where the answering thread is: idle,
running the reference outside the lock (`LookUp`, `Finish`, `RunFails`), about to reply (`Reply`) or
sending (`Send`); `Reaper` may come between any two of these, and `Tick` lets time pass. A session
is an event list and a frame number; every `run-frame` runs the command line from frame 0
(`Replay`, with `KeysAt` from the oracle's `main.rs`) and keeps its last framebuffer and audio, or no
audio when `audio.wav` cannot be read or holds nothing behind its header. The command line reads the
ROM's file again at every run (`harness/oracle/src/main.rs:183`); the model takes it as fixed.
`EmulatorSessions` is the promise: every session is an emulator of its own that stands still
between requests; the sound of a run may be lost, but never a part of it. Session ids may come again.

## 3. Runs

| Run | States | Shows |
|---|---|---|
| `Console` | 771,000 | Under every mix of instruction costs, sleeps, HALT and register writes, by instructions and by DMA: the raster holds (`LineSchedule`, `HBlankFlagTracksEvent`), a frame is handed over complete (`FrameIsComplete`), `run_frame` ends by a frame and not by its cap (`FrameWithinCap`), and an interrupt can be overslept only in the first iteration of a call (`LateWakeOnlyOnEntry`). Each of the three run functions returns (`RunReturns`), and a halted CPU that waits for VBlank wakes up, unless transfers acknowledge the interrupt again and again or disable it before the wake-up check (`VBlankWakesHaltedCpu`) |
| `Algorithms` | 147,000 | Five parts side by side, each against a reference. Timers: a batch counts as its cycles one by one (`BatchEqualsCycles`) and reports the instants that clock the FIFOs (`OverflowInstantsExact`). Register banks: no program brings the CPU into a mode that has no bank (`ModesTypeOK`), and the banks implement `RegisterFile` (`ImplementsRegisterFile`). Instructions: `ShiftsMoveBits`, `CarriesAndConditions`, `ThumbIsArm`. Picture, in two parts: `PixelShowsFront`, `LinesFollowReference` |
| `Dma_drain` | 269,000 | No immediate channel is left waiting (`NothingPending`), no channel is on with nothing to move (`EnabledHasUnits`), the channels implement `DmaChannels` (`ImplementsChannels`), and `run_dma` returns unless something re-arms an immediate channel for ever (`BusComesBack`) |
| `Save_media` | 305,000 | Whatever is written: flash changes only behind a complete unlock sequence (`ChangesNeedUnlock`), erases need their prefix (`ErasesNeedPrefix`), a 64 KB chip has one bank (`SmallChipHasOneBank`), the EEPROM implements `SerialStore` and the clock `RtcChip` |
| `Save_framing` | violation | `AnswersRequests`, see section 5 |
| `Clock_layout` | violation | `ReadsRegister`, see section 5 |
| `Sound_batch` | 38,500 | Batches, register writes and sequencer steps in any order implement the two queues (`ImplementsSoundQueue`); active channels have a timer and a length to run out (`ActiveChannelsRun`), every component keeps its type (`TypeOK`, FIFO positions within the ring), a square channel plays only with its DAC on (`DacOffStopsSquare`), power-off leaves silence (`PoweredOffSilent`), lengths end channels (`LengthEndsChannel`) |
| `Sound_wrap` | violation | `SampleLoopEnds`, see section 5 |
| `Grading` | 1.02 million | Crashes, full disks, two graders and an edited corpus: a score compares with the right reference unless an edit came between the reads of one process (`ImplementsLiveGrading`), a grade that nothing disturbs does not fail (`FailsOnlyWhenDisturbed`). Traps and lost fuel: the recording plays like the reference (`CachedPlaysLikeLive`), frame N is frame N of the replay on both sides (`FramesAlign`), no sample is repeated (`SamplesOnce`) |
| `Grading_stale` | violation | `ChangesInvalidate`, see section 5 |
| `Oracle_sessions` | 270,000 | With the reaper between any two critical sections and runs that fail, time out or lose their session: sessions are emulators (`ImplementsEmulators`), a session's events stay in order and in its past (`ReplayInOrder`), replies find their session (`ReplyFindsSession`), a session nobody uses is removed (`AbandonedSessionsEnd`) |
| `Oracle_audio` | violation | `AudioSinceLastDrain`, see section 5 |

Every property of a passing run has a fault that it finds: the operators marked "Seeded fault"
stand next to the operator they corrupt, and are used by nothing else. `Algorithms` has a VIEW that
leaves out `did`, the intent of `CpuModes`' last instruction, which no step reads: every step is still
compared with the intent it sets, and states that differ in nothing else are explored once.

### Bounds

* `Console`: lines of three cycles and frames of three lines, of which two are visible, stand for 1232
  and 228. What matters is how batch ends fall relative to the two events of a line, and batches of
  one to three cycles give each relation: before, at and after either event, and a batch that takes
  a whole line. The cap of `run_frame` is 18, the least at which no frame of the instance is cut off;
  the hypothesis of `ConsoleFrameWithinCap`, which charges the greatest lateness to both events of
  every line, asks for 21. The frame sequencer counts every cycle (32768) and has one step (8). The
  stores of an instruction or of a pass have no bound: every sequence of stores comes about. The
  interrupts are VBlank's and VCount's; timers and channels raise none here (`OtherSources`), which
  the theorems cover.
* `Algorithms`, timers: two-bit counters with reload 3 (overflow at each tick) or 0, prescalers 1
  and 2, batches up to five cycles, so one batch holds several overflows and ends at each phase.
  Timer 0 changes rate, timers 1 and 2 cascade.
* `Algorithms`, instructions: words of four bits with bytes of one, so signs, carries, rotated
  misaligned loads and shifts by more than twice the width all occur; 16 bytes of memory; three low
  registers, r13 and r14; 50 starting states, of which each runs every instruction of the
  instance once, and so the run may stop.
* `Algorithms`, picture: three by two pixels, coordinates modulo six, two backgrounds, two sprites
  (hidden behind each other, over an edge, semi-transparent, window), two priorities, all three windows,
  with ranges that are plain, end beyond the screen, or end before they start. Coordinates with which a sprite would pass its circle's end are excluded (`CompositorAssumption`).
  Affine: four lines, two of them visible, a register of 16 values of which half are negative,
  slopes -1, 0 and 2.
* `Algorithms`, register banks: r8 and r14 stand for the two kinds of banked registers, with two values. Lists
  of LDM and STM hold r14, base registers with writeback may also be r8; MSR writes FIQ mode, so
  that FIQ's bank of r8 and the detour out of FIQ occur.
* `Dma_drain`: channels 0 and 3, the maximum count (0, two units), one start address in a space
  of two, with control words for an immediate copy, a repeating HBlank table with destination reload,
  VBlank with interrupt, immediate with repeat, and off. With two addresses, decrementing equals incrementing; the proof
  covers address spaces of every size.
* `Save_media`: flash addresses 0x5555, 0x2AAA, 0 and 1 (one shares a sector with 0, the unlock
  addresses have sectors of their own) and the nine bytes that mean something to the state
  machine, of which one bit each is kept; both banks. EEPROM with one address bit, blocks of two
  bits and two dummy bits, so a block and a burst each have several bits and any request may be
  abandoned anywhere. The clock's bytes have four bits. The proofs cover all widths. `Save_framing`
  has the same EEPROM. In `Clock_layout` a byte has its eight bits, as the documented command needs
  them, and the register one byte; the program then has one behaviour, which ends, and so the run may
  stop.
* `Sound_*`: rings of four bytes with requests of two, a sample every two cycles, batches of two and
  three cycles with a timer that overflows in each, so that pops and samples alternate inside a
  batch and a ring both starves and refuses bytes. In `Sound_batch` no batch reaches the clock's
  wrap; `Sound_wrap` goes past it, where the loop sticks and the run may stop. Lengths of 2 and 3,
  volumes of one bit, frequencies of four bits. A behaviour exercises either the FIFOs or one
  channel, which share only the master switch and the step.
* `Grading*`: two processes, a replay with two contents, a recording of another reference and one of an older version that may be there at the
  start, of up to two frames; comparisons of three
  frames with two boot frames of the reference, one of the candidate and one configured, replays
  with late, coinciding and surplus events, and a buffer of two slices, so that it overflows. A
  comparison ends, and so the run may stop.
* `Oracle_*`: two sessions for two places, two events at most, two frames, a run of one tick
  against an idle limit of two.

### Fairness

`Console`'s `FairSpec` has weak fairness of `Machine`, the steps of a run function: it runs on one
thread and nothing but its own conditions stops it. Weak fairness of `StoresEnd` says that an
instruction and a pass of DMA make finitely many stores: counts are finite, and the one way around
that, channels that re-arm each other for ever, is `BusComesBack`'s subject (section 5). It also has
weak fairness of `HostCall`, as the shim's and the harness's frame loops call again and again;
without it a halted console that is never called would refute `VBlankWakesHaltedCpu`. None of these says
which instruction a program executes. `Dma`'s `Spec` has weak fairness of `Machine`: a transfer runs
inside the call that started it. `Sound` has weak fairness of `FrameSequencerStep`, which the loop
of `gba.rs:103-109` takes every 32768 cycles. `Oracle` has weak fairness of `Reaper` (a `while True`
with a sleep) and of `Handler` (a request that is being answered), and strong fairness of `Tick`:
time passes however many requests there are. Programs, triggers, clients and graders have none.

## 4. Proofs

All theorems hold for every value of the constants under the assumptions named in the modules
(`PpuAssumption`, `ConsoleAssumption`, `TimersAssumption`, `AffineAssumption`,
`CompositorAssumption`, `AluAssumption`, `ThumbAssumption`, `RegistersAssumption`, `CpuModesAssumption`, `DmaRegistersAssumption`,
`ByteAssumption`, `FlashAssumption`, `EepromAssumption`, `GpioAssumption`, `SoundFifoAssumption`,
`PsgAssumption`, `SoundAssumption`, `RefCacheAssumption`, `LockstepAssumption`,
`OracleAssumption`), which TLC evaluates in the runs. Three theorems have a hypothesis of their
own, on the constants: `RefCacheImplementsLiveGrading`, `ConsoleFrameWithinCap` and
`SoundImplementsSoundQueue`.

Much of the code computes with loops, which the modules write as recursive functions: a queue of
timer reports merged, a replay played from frame 0, sprites drawn one over another. The induction
theorems of the library take an operator as a parameter and are out of reach, but its
well-foundedness of the naturals is not: a set of numbers that is not empty has a least one
(`LeastOf`, `LeastExists`, from `NatLessThanWellFounded`), and the least counterexample to a claim
is a contradiction. Each induction below is of that form. A recursion over the elements of a set
or inside a LET is treated by guessing its solution and showing that no other function satisfies
the equations (`Recursion`, `DrawnOnce`).

**`ConsoleProofs`.** For the PPU, the inductive invariant `PpuInv` joins types, `OnePending` (exactly
one event is queued: each handler pushes the other's), the two flag relations, `LineSchedule` and
`DrawnIsPrefix` (which rows of the frame have been drawn, from `vcount` and the HBlank flag). None
of these is inductive alone: the rows need the flag, the flag needs the pending event, the event's
due time needs that it is the only one. `PpuFrameIsComplete` and `PpuLineLength` are action
properties that follow from it. For the main loop, `LoopInv` adds the loop's types, that nothing is
due outside `"drain"` and `"dma"`, and that the batch in flight is one the PPU's specification allows.
`StepIsPpuStep` shows that every step of the loop is a step of `PpuSpec` or a stutter
(`ConsoleDrivesPpu`), so all of the PPU's theorems hold of the composed system
(`ConsoleFrameIsComplete`). `ConsoleFrameWithinCap` is an argument about time: `FrameBudget` says
that the cycles spent in the call and the longest possible lines still to go never exceed one frame
of longest lines. Its hypothesis, `LINES * (LineCycles + 2 * (MaxBatch - 1)) <=
MAX_CYCLES_PER_FRAME`, holds of the console's numbers up to batches of 1849 cycles. A single batch
can be longer than that when a store starts a large DMA transfer; the theorem says nothing of such
frames.

**`AlgorithmsProofs`.** For the timers the invariant is `TypeOK /\ PhaseBelowPeriod`. `TimersBatchEqualsCycles`
goes by one-cycle steps: `OneStep` shows that a batch of n + 1 cycles does to a timer what a
batch of n and one reference cycle do, from `OwnStepDelayed`, `OwnStepCounting` and
`CascadeStep`; `BatchInduction` carries it through the chain of cascades. The division of
`add_to_timer` is treated by `DivStep` (how quotient and remainder move with the dividend),
stated once. Together with `TickAll(t, 0)` being the identity this determines every batch.
`TimersOverflowInstantsExact` turns quotients into instants: by `CountAbove` a batch holds more than
k overflows exactly if it is at least as long as the cycle of the first (`First`) and k further
periods, so the instants a report stands for are the cycles at which the count goes up.
`AffineLinesFollowReference` has an invariant that ties the internal copy to the line number: the
lines drawn so far times the slope, as long as nothing was written below the first line drawn.

`CompositorPixelShowsFront` compares what the code computes with what gbatek.htm declares, in every
state of `CompositorTypeOK`, at pixels where the two agreement predicates hold. A sprite covers an
arc of the circle of coordinates (`SpriteArc`), of one length however it wraps. A window's range that
does not go around here is the declared one up to the edge of the screen (`RangeIsWithin`,
`WindowRanges`). Sprites drawn from the last to the first leave at each place the frontmost:
`FrontFrom(x, row, n)`, the least opaque sprite from n on, solves the recursion of the drawing loop
(`FrontSolves`), and nothing else does (`DrawnOnce`). The sprite in front tells whether the pixel is in
the OBJ window only where it is one of that window, or where those behind it have no say
(`FrontTellsMask`), and then the flags of a pixel are those of its region (`WindowFlags`). For the
scan, `SlotOf` numbers layers as the code visits them; `FrontIsFirst` and `BehindTheFirst` show that
the front layer and the one behind it are the first and the second number found, and
`EffectIsDeclared` that the effect follows from these two. So the scan shows the `Picture` of the
sprite and the flags it is given (`ScanIsPicture`), which is the declared one: without sprites of the
OBJ window because the sprite is the same, and with one in front, in a region without OBJ, because
there no sprite has any part in the picture (`PictureWithoutObj`, `PictureWithoutMasks`).

The rest of the module is about instructions, for words of any width that is a multiple of four. The
provers know nothing of a power of two whose exponent is not a number, so `Pow2Step`, `Pow2Sum` and
`WordWidths` come first: that the recursive function exists, and that a word has M values of which
the upper half is negative. `ThumbShiftsMoveBits` is an induction on the amount: `CutWord` cuts a
word at bit n into a quotient and a remainder, the closed form of each shift by n is given in these
(`RotateValue`, `AsrValue`), and one more bit moves the cut by one (`LslStep`, `LsrStep`,
`AsrStep`, `RorStep`). `ThumbCarriesAndConditions` states sums and differences as integers (`Sums`,
`Differences`, `SignedSum`), reads the flags off them (`Ordered`), and adds a second word
(`DoubleWord`, `SumChain`, `DifferenceChain`). The logical operations are words because every set
of bits is some word's (`BitsHeld`).

`ThumbExecutesAsArm` and the type theorem `ThumbTyped` share one lemma, `StepRight`: after any
instruction i the state is `Right(i, ...)`, which is to say of the type, and equal to what ARM's
counterpart leaves. There is a lemma for each of the fifteen formats. What ARM does is said once
for each class: `ArmLeaves` for data processing, by the kind of its operation (`LogicalLeaves`,
`SumLeaves`, `CompareLeaves`, `TestLeaves`, `UnsetLeaves`), `TransferRight` for loads and stores, and
`BlockRight` for lists. What has to be argued is where the two interpreters compute differently:
a constant rotated into place (`RotatedOperand`), a subtraction written as a sum with the complement
(`ConstantLeaves`), a load that rotates and one that does not, from an address that is aligned
(`AlignedRead`, `WrapAligned`), and the register r15, in which the two states differ (`SameLoads`,
`SameStores`). The invariant needs one thing beyond types: before the instruction the stack
pointer is a multiple of four, without which `LDR rd, [sp, #n]` is not ARM's (section 5).

**`CpuModesProofs`.** `SwitchKeepsFile` is the heart: for all modes, saving and loading the banks
leaves every cell as it was. `LoadPuts` relates writing `r` to writing cells, `UserDetour`
follows a detour through User mode and back. `StepFacts` is what each action shows, and
`StepRefines` turns it into a step of `RegisterFile`. Types are part of it, as an SPSR that
names no mode must lead to one (`FromBits`).

**`DmaProofs`.** The invariant is `TypeOK /\ NothingPending /\ EnabledHasUnits`. For the
refinement, `RefinesWrite` shows that a store to a DMA register does to a channel what
`DmaChannels` says, also in the middle of that channel's own transfer; `RefinesUnit`,
`RefinesFinish` and the others map each step.

**`SaveProofs`.** `FlashInv` says of each state of the command sequence which writes led to it;
that is what makes `ChangesNeedUnlock` and `ErasesNeedPrefix` inductive. For the EEPROM,
`RequestFacts` (opcode, address and data taken from a request are what was put in) and
`BurstFacts` (head and tail of what is left of a burst) carry the refinement; each action has a
lemma that shows its types and its step of `SerialStore`. Writes during a read are stutters.
For the port with the clock, `GpioInv` is the types and that a session is open exactly while
chip select was high at the last write. The clock keeps an answer as bytes, a byte index and a
bit index, the chip as the bits that have not been read: `Flattened` gives the concatenation of
the bytes bit by bit with quotient and remainder, and `RestFacts` says how what is left moves with
the two indices. `DeselectStep`, `SelectStep` and `SelectedStep` are the three things a store can
do. `WireFollows` shows that the level the program reads is the head of what is left.

**`SoundProofs`.** `PoweredOffSilent` and `DacOffStopsSquare`, for any widths, registers and
batches, are a statement per channel (the channel operators of `Psg` keep a silent channel
silent, or keep `active => DacOn`), lifted over register writes, sequencer steps and batches.
`SoundActiveChannelsRun` needs `RunsInv`, which joins types to `ChannelsRun`: a trigger reloads a
length and a period, a sweep may shorten the period but stops the channel before the frequency
leaves its width (`Sweeps`), and a period is positive since a frequency is below its limit
(`Frequencies`, `NoisePeriods`). Types are the long part, as a batch runs the FIFOs through recursive
functions: merged reports are a sequence of pops (`MergedPops`), and each pop and each sample of
`TickUntil` keeps ring and clock within their bounds (`RunTyped`).

`SoundImplementsSoundQueue` is the longest proof. Its invariant, `QueueInv`, adds to the types that
each ring's `write_pos` is `(read_pos + len) % FIFO_SIZE` (`Ring`); then `Contents` is the queue, and
`FifoWrite`, `FifoTail` and a DMA request append, drop and append what the queue does (`WriteRing`,
`TailRing`, `FedView`). A batch needs two inductions. `TickUntilEnds` turns the sample loop into the
count of multiples of `CYCLES_PER_SAMPLE` between two clocks, so that moving the clock in one step or
cycle by cycle gives the same samples (`CycleSamples`). Then, over the cycles of the batch, `Stands` says
that the code has popped exactly the overflows of the merge that fall in the cycles so far and its
state, with the clock moved to that cycle, is the queues' state: `ZeroClocks` and `OneClocks` take the pop
of each timer in a cycle, timer 0 first, and `BatchImplements` concludes. The theorem has one hypothesis,
`BelowWrap`: no enabled batch reaches the last multiple of the sample period below the width of the
clock. `Sound_batch` satisfies it and `Sound_wrap` shows what happens without it.

**`GradingProofs`.** For the cache, `CacheInv` is one invariant per process, and `OthersKeepInv` shows
that no step of another process, nor an edit, disturbs it: a process relies only on what it has
read and, while it is undisturbed, on the cells it has written. `FailsOnlyWhenDisturbed` is part of
it. For the refinement, the abstract job of a process begins with the last of its reads (`JobOf`), and
the case that matters is the score (`CurrentScoresLive`): a recording that `load` accepts has the key
of the process; if neither was mixed by an edit, equal keys mean the same rom, replay and reference,
so it shows the process's own run. If one was, the step is `ScoresMixed`. `RefCacheImplementsLiveGrading`
has one hypothesis, `KeyFixesFrames`: inputs of one key have one number of frames, and a recording that is
there at the start with the key of such inputs was made of them. `Grading_stale` shows what happens
without it, so the hypothesis is what the code needs and does not check. The instance of `Grading`
satisfies it.

For one comparison there are two invariants. `CandInv` is about the candidate's side: the guest is
`WellFormed` (its audio buffer is in order and holds nothing later than the last slice sounded), which
whole, trapped and starved calls and drains keep (`AnyCall`, `BufferDrained`), and everything heard is
earlier than everything still in the buffer; `SamplesOnce` is a conjunct of it and needs the others.
`RefInv` is about recording and playback. There is a list `p` of the states the recorder went through
and a list `off` of the places in the recorded audio where each frame's samples begin, such that
every recorded frame is what the state before it shows and plays (`Recalls`), and the live reference
is in one of these states and the playback at its frame (`Plays`). `LockstepFramesAlign` needs
`Follows` of both sides: a guest whose calls all ended well has one slice per call, with the keys of
`KeysHeld`.

**`OracleProofs`.** `OracleInv` joins types, `ReplayInOrder` (a session's lines are in the order of
their frames, none later than its current frame), `ReplyIsFresh` (a reply that is about to be sent
is for a session that exists, and was used too recently to be removed before it is sent) and
`RunIsNext` (a run under way has its session's events and begins at its current frame, although the
lock is free meanwhile). None of the first three survives the end of a run without the last. `OracleImplementsEmulators` turns on `ReplayGoesOn`:
playing the list of events from frame 0 to frame n + m gives what going on from frame n for m frames
gives, since no later event changes the keys of an earlier frame (`KeysFromLastEvent`).

**Only model-checked.** The liveness properties `RunReturns`, `VBlankWakesHaltedCpu`,
`BusComesBack`, `LengthEndsChannel` and `AbandonedSessionsEnd`, since the prover has no rules for
fairness and ENABLED. Every other property of a passing run is a theorem, and the violations need
no proof.

## 5. Where the code departs from what is written about it

Five runs must end in a violation. The counterexamples are short.

* **The sample loop at the wrap of the clock** (`Sound_wrap`, `apu.rs:97`). `tick_until` emits
  samples while `end <= target`, where `end` moves through the multiples of 512, in 32 bits. In the
  batch whose target first reaches 2^32 - 512, about 256 seconds of emulated time after power-on,
  `end` wraps to 0, which is not above any target, and the loop does not end. The header of
  `apu.rs` promises one sample per 512 cycles.
* **Stale recordings** (`Grading_stale`, `ref_cache.rs:252`). "Hash-based invalidation"
  (`ref_cache.rs:9`) compares the hashes of reference, ROM and replay, and not the number of
  frames. When a test case asks for more frames than were recorded, playback repeats the last one.
* **Audio of a session** (`Oracle_audio`, `oracle-server.py:257`). `last_audio` is documented as
  the audio "since last drain" (`oracle-server.py:78`); each run replays from frame 0 and stores
  everything that was played since the start.
* **Framing of EEPROM requests** (`Save_framing`, `save.rs:236`). The EEPROM is idle after the last data
  bit of a write and takes the final zero (`spec/gbatek.htm:4071`) for the first bit of the next request,
  which is then not recognised. After a read request the same bit is ignored, so a program that only
  reads does not see it.
* **Commands of the clock** (`Clock_layout`, `gpio.rs:179`). A documented command has the fixed code
  first and the read bit last (`spec/gbatek.htm:13208-13233`); `gpio.rs` takes the first bit for the
  read bit and the next three for the register, so that every documented read is a write.

Modelling showed more places in which code and description differ. They have no run; where a property
has to step aside for one, it names it:

* The grader loads a replay (`main.rs:379`) and reads its file again for the hash (`main.rs:387`); roms
  are hashed at start-up (`corpus.rs:146`) and read later without a check (`corpus.rs:102`). When the
  replay changes between its two reads, the run of the old one is recorded under the key of the new
  one, and every later grade with the new replay is scored against it, although the hashes are there
  "so results stay correct when the corpus or Mesen change" (`ref_cache.rs:31`). These are the steps
  that `ScoresMixed` lets through in `ImplementsLiveGrading`, and no others.
* Sprites of the OBJ window: "The OBJ itself is not displayed" (`spec/gbatek.htm:1158`), but it is
  entered in the line buffer like any other (`ppu.rs:857`) and the scan shows it. "Any non-transparent
  dots of any such OBJs are marked" (`:1157`), but the buffer has one sprite a pixel (`ppu.rs:583`),
  and one in front of a sprite of the OBJ window hides the mark. `MasksOnlyMask` leaves out these
  pixels.
* Garbage ranges of windows: gbatek takes X2 for 240 when X1 > X2 (`spec/gbatek.htm:1118`, `:1127`), the
  code goes around the edge (`ppu.rs:596`, `:606`). `NoRangeGoesAround` leaves out these pixels.
* A documented program reads a bit of the clock's answer with the clock high (`spec/gbatek.htm:13195`);
  in `gpio.rs` the answer has then moved on (`gpio.rs:149`). It selects the chip with the clock high
  (`:13186`); the level is not noted before the select (`gpio.rs:135`), so the first select counts as a
  rising clock and shifts in a bit.
* `gba.rs:99` leaves `run_frame` on `frame_ready` before the wake-up check, so a CPU halted when
  VBlank begins sleeps about a scanline into the next call (`cpu/mod.rs:253`: "GBA wakes from halt
  when IE & IF != 0"). `LateWakeOnlyOnEntry` bounds it: it cannot happen in any other iteration.
  A halted CPU also notices a timer's interrupt only at the next PPU event (`gba.rs:85`), and the
  same early exit drops a batch from the frame sequencer's count (`gba.rs:104`).
* `bus.rs:160` promotes a byte store to a halfword store whose other byte is what is read. For IF
  ("write-1-to-clear", `io.rs:132`) that acknowledges the other byte's interrupts; for a timer's
  reload it stores a byte of the counter; for the write-only affine and blend registers it stores
  zero, as `io.rs:48-105` reads 0 for them, although `io.rs:57` keeps others readable because they
  are "needed for 8-bit write RMW".
* `timer.rs:127`: a cascaded timer's report copies `first_cycle` from the timer below, documented
  as the offset "where the FIRST overflow landed" (`timer.rs:16`), which it is not if the timer
  takes several carries to fill. `OverflowInstantsExact` is about timers that do not cascade.
* `cpu/mod.rs:142`: the low bits of `Cpu.cpsr` keep System's after reset, and `cpsr_bits` ORs the
  mode into them; an SWI in the first interrupt handler saves System and returns to it.
  `load_bios` sets only part of Supervisor mode (`gba.rs:34`), and MSR in User mode changes the
  mode (`arm.rs:577`).
* `bus.rs:602`: the enable bit of a repeating channel survives whatever its timing, so
  `run_immediate_dma` ("Loop until no more immediate DMAs are pending", `bus.rs:633`) does not end
  for an immediate channel with repeat. A channel with a lower number that is turned on during a
  pass waits until the pass is over (`bus.rs:565`).
* Nothing sets `eeprom_size` (`save.rs:179`), so every EEPROM has 14 address bits, and a halfword load
  at an odd halfword shifts the answer away (`bus.rs:190`).
* `arm.rs:509` counts MUL's cycles from the multiplier register after the product has been written,
  unlike its comment above. STM with writeback stores the old base wherever it is in the list; an
  empty list does nothing (`arm.rs:411`); Thumb's SP-relative load (`thumb.rs:436`) does not
  rotate a misaligned word, ARM's does.
* Sprites of 128 lines that begin below line 128 are not wrapped to the top (`ppu.rs:814`,
  `spec/gbatek.htm:1540`).
* `gba.rs:92` looks at HALTCNT only after an instruction: what a DMA transfer writes there while the CPU
  sleeps halts it again after the first instruction it executes awake. A VBlank or HBlank pass also
  runs before the wake-up check (`bus.rs:498`, `gba.rs:112`): when it acknowledges or disables the
  interrupt that its own trigger raised, a halted CPU sleeps on. These are the
  exceptions in `VBlankWakesHaltedCpu`.
* `wasm_candidate.rs:249` reads the audio rate before a ROM is loaded; `emu_reset` copies the ROM
  buffer again (`wasm-shim/src/lib.rs:55`), which no host does. A skipped test case counts as 0 in the
  video average but not in the audio average (`main.rs:199-221`).

## 6. What is not modelled

Of the modelled parts: SRAM (plain memory) and the counters of flash accesses; tile, bitmap and
palette addressing, rotated sprites, mosaic and the arithmetic of colours; video memory; branches,
writes of r15, SWP, long multiplies and the pipeline; wait states; duty, wave memory, noise register
and mixer of the APU. `intr_wait_flags` is never set by any code and `run_dma_transfer` is dead
code. `run_cycles`' truncation to 32 bits needs targets above 2^32 cycles, which no caller passes.
Of the cache, the view for audio diagnostics, the size summary and an error of the last flush; of
the grader, its command line, reports and pass/fail pages; of the session server, the rate limiter,
the one-shot request, tokens and directories.

Not modelled at all: the metrics (floating point, out of TLC's reach); media writers and the encoder
pipe (pure I/O); the reference emulator bridge (third-party code not in the repository); the BIOS
stub generator (a build-time image writer); client and container scripts.

## 7. What could come next

* A composition of `Console`, `Timers`, `Dma` and `Sound`, in which reports and triggers are no
  longer inputs: timer interrupts in HALT, the rate of the frame sequencer, the priority of DMA
  across nested starts.
* The pipeline and r15: branches, exceptions and returns as instructions, joined to `CpuModes`.
* Rotated sprites and mosaic in `Compositor`.
