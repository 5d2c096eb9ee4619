# QNes, specified

TLA+ specifications of [QNes](../src), a cycle-stepped emulator of the Nintendo
Entertainment System in C++: what its 6502 core does at every micro-cycle, what
the registers of its PPU do between any two of them, what both promise to the
program, and the theorems that hold for every program. Paths such as `qnes_cpu.cpp`
are below `src/src/`, tests below `src/test/`.

## The system

| Component | State | Operations | Interacts with |
|---|---|---|---|
| CPU sequencing (`qnes_cpu.*`) | `State` (pc, sp, a, x, y, status), `glabal_mode`, `interrupt_cycle`, `ir`, `instruction_cycle`, `page_crossed`, `nmi_pending`, `irq_pending`; two `thread_local` bytes in `HandleReset` | `Step`, `Reset`, `SignalNMI`, `SignalIRQ` | its owner calls it; it calls the bus and the instruction routines |
| Instruction set (`cpu_isa.*`) | none of its own: it works on the CPU and on the bus latches `adl`, `adh`, `op_latch` | one `Execute` per opcode, called once per cycle and switched on `instruction_cycle` | friend of CPU and Bus |
| ALU (`ISA_detail::ExecuteOperation`, `ExecuteCondition`) | status flags | thirteen operations, eight conditions | called by the routines |
| Bit helpers (`qnes_bits.hpp`, `qnes_c.hpp`) | none | `U16Low`, `U16High`, `CombineToU16`, `ASSERT` | all |
| `RAMBus`, `Memory` | 64 KB, the address `addr` | `SetAddress`, `Read`, `Write` | the tests give it to the CPU |
| `NESBus`, `PPUBus` | RAM of 2 KB, VRAM of 2 KB | decoding, mirroring | CPU to RAM and PPU; PPU to VRAM |
| PPU register file (`qnes_ppu.*`) | nine registers, two VRAM addresses, write toggle, data buffer, scheduled rendering toggle | `Step`, register reads and writes | called through `NESBus`; reads and writes VRAM through `PPUBus` |
| `Emulator`, `main` | owns the others | the constructor wires them; `Run` is empty | CPU on `NESBus`, PPU behind it |
| `FrameBuffer` | none | none | - |

The program starts no threads. What makes the core hard is that everything it
does is cut into calls: an instruction is two to seven calls of `Step` that
communicate through latches, a flag (`page_crossed`) and a counter; the owner may
call `Reset`, `SignalNMI` or `SignalIRQ` between any two of them; interrupts nest on
a stack that wraps within a page; the interrupt and the reset sequences share one
counter. No test of the repository signals an interrupt, and the reset tests clear
the shared counter before they start. The PPU adds a clock of its own, registers
that change when they are read, one write toggle shared by two registers, a delayed
effect, and members that start with whatever the memory held. No test runs it beside
a CPU or calls its `Step`.

What makes each component correct:

- CPU sequencing: interrupts are taken at instruction boundaries only, NMI first,
  IRQ only with I clear; a request is not lost; an interrupted program cannot tell;
  a reset leads, from anywhere, to the documented state; the CPU never gets stuck.
- Instruction set: the micro-cycles of an instruction add up to the effect of its
  mnemonic, in the number of cycles its template declares, and no extra-cycle
  assertion fails.
- ALU: chains of byte operations through the carry are the wide operations they stand
  for; branches decide what programs compare.
- NESBus, PPU: the two-write registers keep their halves apart, on whichever mirror
  and through whichever dummy cycles they are reached; a delayed rendering toggle does
  not undo a later write; the VRAM address moves as a position on the picture while
  it is drawn; what the uninitialised members held is forgotten.

`PROJECT.json` lists the hazards line by line with the properties that cover them.

## Modules

| Module | Content |
|---|---|
| `Bytes` | `u8`, `u16`, the bit helpers, and bytes as sets of bits |
| `Alu` | the status register as a set of flags, `ExecuteOperation`, `ExecuteCondition` |
| `Isa` | the table of 151 opcodes: name, mode, opcode, `CYCLES` |
| `CPU` | the core: every routine and every cycle of `cpu_isa.cpp` and `qnes_cpu.cpp` |
| `Addressing` | the addressing modes as functions, and the bus accesses of an instruction cycle by cycle |
| `IsaSpec` | the abstract machine: one step per instruction, interrupt and reset |
| `CPUHistory` | `CPU` with history variables; the refinement of `IsaSpec`; properties about frames, resets, progress |
| `CPURequests`, `MCRequests` | `CPUHistory` with the signals that wait for an answer |
| `CPUProgress` | how far the instruction, interrupt or reset in progress has come: `StepInProgress`, the invariant behind the refinement |
| `MCInstructions`, `MCInterrupts` | memory images for TLC |
| `AluBench` | multi-byte arithmetic on top of `Alu` |
| `PPU` | the register file, `PPU::Step`, and `PPUBus` with the VRAM behind it |
| `ScrollSpec` | the VRAM address as columns, rows and pages of a picture |
| `PPUHistory`, `MCPPU` | `PPU` under a program, with history variables; the refinement of `ScrollSpec`; initial contents for TLC |
| `PowerOnPair`, `MCPowerOn` | two instances of `PPU`, with different contents at power-on, in step |
| `NESBus` | `PPU` and 2 KB of RAM behind the decoding of the external bus |
| `System`, `MCSystem` | CPU accesses (`Addressing`) on `NESBus`, interleaved with dots |
| `CPUProofs` | theorems on widths and micro-cycles of `CPU` |
| `OperandProofs`, `RefinementProofs` | `CPU` implements `IsaSpec` and keeps the bus protocol; what a reset leaves |
| `RequestProofs` | every signal is answered, and an NMI in time |
| `AluProofs`, `AluBenchProofs` | theorems on the arithmetic |
| `PPUProofs` | theorems on the PPU, alone and behind the bus |
| `PowerOnProofs` | what the PPU held at power-on is forgotten |

**`CPU`.** One call of `CPU::Step` is one action `Step`; every `case` of a
`switch (instruction_cycle)` is a disjunct `At(n) /\ ...`, so an addressing mode
reads like its routine. The cycles that several routines repeat verbatim
(`Absolute`, `XIndirect`, `ReadModifyWrite`, ...) are written once. `State` is
split into `pc`, `sp`, `reg` and `status`, because the routines take `a`, `x` and
`y` by reference; `status` is the set of flags that are set. `memory` is a partial
function: cells outside its domain still hold the zero that `Memory` is created
with. `fault` records a failed `ASSERT` or a call of a null table entry: with
`NDEBUG = FALSE` the program crashes there and no action is enabled (`Alive`), with
`NDEBUG = TRUE` an assertion does nothing. A null call ends the program in both
builds.

`ResetModes` is the set of modes in which the owner calls `Reset`: all of them for
the code as it stands, `RESET` and `RUN` for an owner that avoids the defect below.
`Images` is the set of initial memories; the theorems leave it arbitrary.

**`IsaSpec`** has no latches and no cycles: it computes the effective address from
the operand bytes, applies the effect of the mnemonic, and says how many cycles that
took (`CYCLES`, plus the penalties its comments announce). Two particulars of the code are
part of the promise, because a program can observe them: `JSR` pushes before it
reads the high byte of its target, and pointers wrap in their page. `Effect` is made of one
operator per group of mnemonics (`MemoryEffect`, `ImpliedEffect`, `JumpToSubroutine`,
`TakenTarget`, `Interrupted`), so that each group can be proved against its routines.

**`CPUHistory`** adds what the properties remember and nothing that constrains the
CPU except the bound on events: `arch`, the machine at the last boundary (a state in
`RUN` mode with `instruction_cycle = 0`); `spent`, the Steps since; `frames`, the
contexts of the interrupts in progress. `arch` is the refinement mapping: `IsaSpec`
steps when `CPU` reaches a boundary and stutters in between.

**`CPUProgress`** says what lies in between: for each routine and each of its cycles, which
latches hold which part of the operand's address, what has been pushed, pulled or
written so far, and what is still as it was at the boundary. It adds no state and no behaviour.
A reset is told apart only by what it leaves (it may have cut any instruction), which
`ResetProgress` in `RefinementProofs` states.

**`PPU`.** One action per register access (`BusReadMappedRegister`,
`BusWriteMappedRegister`) and one, `PPUStep`, per dot. The masks of `qnes_ppu.cpp` are
`Masked` and `Replaced`: a mask of adjacent bits is a multiple of its lowest bit.
They are applied to values where they stand, as in the code, so the bits of a byte
above 7 are zero (see the hazard at `qnes_ppu.cpp:214`). `current_vram_address` and
`temp_vram_address` are bit-fields of fifteen bits and wrap there. Members without
an initialiser (`registers`, `internal_registers`, `palette_ram`) start as any element
of `PowerOn`. `scanline_idx` is never assigned, so `IsRenderingActive` is
`IsRenderingEnabled`. `Garbage` is what a VRAM read beyond its 2 KB may return;
after a write beyond them the model stops. `data` holds the value of the last read.

**`PPUHistory`** remembers what the program wrote: the last PPUMASK value, the Steps
since, whether that write found an enabling toggle in flight (`cancelled`), and
the sequence of halves written since PPUSTATUS was read.

**`NESBus`** decodes an address to RAM, to a register or to the failed assertion,
which a release build ignores. **`System`** needs of a CPU only its accesses:
`Addressing!Accesses` lists them for an instruction, and `BusProtocol` checks that
`CPU` makes exactly those, cycle by cycle. `Emulator::Run` is empty, so no ratio of
dots to CPU cycles is fixed: `Dot` may happen at any point. Programs lie in RAM since
nothing else can be read.

**`CPURequests`** keeps what the owner of the CPU expects: `requests`, the interrupts
signalled and not yet answered, and `age`, the Steps since the first unanswered NMI. A call is
answered when `Step` enters the handler (`qnes_cpu.cpp:33-50`) and cancelled when a reset
starts (`:69-80`). `IsaSpec` lets an interrupt happen at any boundary, without a request and in either
order; that `Step` serves the interrupts that were asked for, NMI first, is said here.

**`PowerOnPair`** compares two executions of the same program: the property is about
pairs of behaviours, and two instances of `PPU` make it an invariant. The program may access
every register at any time, PPUDATA, OAM and the ones a debug build asserts included, and clock
the PPU; `done` says what it has initialised so far. Three rules restrict it: its first PPUMASK write
does not turn rendering on, a pair of PPUSCROLL or PPUADDR is not mixed with a half of the other, and a
pair left open is finished or dropped by a PPUSTATUS read. A pair to PPUADDR counts only when all the rest is
done and rendering is off, because while it is on the address is not loaded (`qnes_ppu.cpp:206`).
PPUCTRL is part of it although it is no address register: its bit 2 decides by
how much a PPUDATA access moves the address (`qnes_ppu.cpp:244`).

## What the runs check

| Run | Question | Result |
|---|---|---|
| `instructions` | every opcode from corner states: widths, cycle assertions, the partial result of each cycle, refinement of `IsaSpec`, address and direction of each bus access | holds |
| `interrupts` | NMI, IRQ and reset at every cycle of two programs, release build: cycle discipline, nesting, frames, transparency, partial results, refinement, reset outcome, and that the handlers behave; under fairness resets end, NMI and IRQ are served, boundaries recur | holds for resets in `RESET` and `RUN` mode |
| `requests` | the same programs: each signal answered once or cancelled by a reset, NMI before IRQ, an NMI within seven Steps | holds for resets in `RESET` and `RUN` mode |
| `alu` | 16-bit add, subtract and shift from byte operations; the operations against one another; branch decisions | holds |
| `rendering` | PPUMASK under overlapping writes and its delayed toggle: what settles, after how many dots, and that it does under a fair clock | holds, but for writes that cancel an enabling toggle |
| `registers` | PPUSCROLL and PPUADDR against the shared write toggle; the VRAM address: fifteen bits, refinement of `ScrollSpec` | holds, the halves from the first PPUSTATUS read on |
| `power_on` | two PPUs with different contents at power-on under one program that may access every register | holds from the end of the initialisation on |
| `system` | CPU accesses on `NESBus`, dots in between: the write toggle per instruction | holds |
| `reset_during_interrupt` | reset outcome with resets in every mode | **violated** |
| `reset_never_ends` | completion of resets with resets in every mode | **violated** |
| `stale_toggle` | "just set the new value" in `WritePPUMASK` | **violated** |
| `buffered_read` | the note on buffered PPUDATA reads | **violated** |

The properties, each with its comment where it is defined:

- `TypeOK`, `NoInvalidCycle`, `CycleDiscipline` (`CPU`): widths; no "Invalid cycle" or
  "page was not crossed" assertion fails; an instruction stays within the `CYCLES` of
  its template plus the announced extras, and `page_crossed` is set only in the cycles
  that consume it, so that it cannot leak into the next instruction.
- `ImplementsIsa` (`CPUHistory`): the refinement. It covers the effect and the exact
  number of cycles of each instruction, where interrupts may be taken, what they push,
  and what a reset leaves.
- `StepInProgress` (`CPUProgress`): at every cycle, the machine at the last boundary plus exactly what
  the cycles since then should have done, and as many `Step`s spent as the cycle number says.
- `InterruptsAreTransparent`: the `RTI` that closes a frame restores pc, sp, registers
  and visible flags, through nested NMIs, BRKs and stack wraps. B and U of the live
  status register are excepted: `RTI` loads both from the stack (`PLP` clears B), and no
  instruction shows them (PHP and BRK push them set).
- `FramesIntact`: every open interrupt or BRK, at any depth, has its frame on the stack as
  it was pushed, wrapped around page one or not, and I is set above it.
- `IRQNeverNests`: no IRQ is served inside a handler; only NMIs and BRKs nest.
- `HandlersBehave`: what those three need of a program. A handler does not clear I, its `RTI`
  finds sp and the registers as the handler did, its writes and its stack leave the open
  frames alone, and a frame has room where one is pushed. TLC checks that the programs
  of the run keep to it, wherever NMIs, IRQs and resets arrive; the theorems assume it.
- `ResetOutcome`, `ResetCompletes`, `NMIIsServed`, `IRQIsServed`, `BoundaryRecurs`.
- `BoundaryWithinSeven`: the same as a bound: pending requests are looked at again within seven
  Steps, unless the program runs into an opcode outside the table.
- `RequestsAnswered` (`CPURequests`): at a boundary `Step` serves an unanswered NMI, else an
  unanswered and unmasked IRQ, and nowhere else any; no call is lost, answered twice, or left over from
  before a reset.
- `NMIWithinSeven`: by the seventh Step after `SignalNMI`, in whatever cycle and mode it was
  called, the handler is entered or a reset has cancelled the request.
- `WideAddition`, `WideShift`, `OperationsAgree`, `BranchesDecide` (`AluBench`).
- `BusProtocol` (`CPUHistory`): in each cycle of an instruction with an operand in memory,
  the address on the bus is the one `Addressing` lists, dummy accesses included, and
  it writes only where the list says so, and the instruction ends where the list ends.
- `SettledMask`, `MaskInForce`, `MaskTakesEffect`: with no toggle in flight PPUMASK is what was
  last written; five Steps after a write none is, an older one included; and it gets there.
- `HalvesAlternate`: after a PPUSTATUS read the k-th write to either register is a
  first or second half as k is odd or even, and each half holds its last write.
- `ImplementsScroll`: the refinement of `ScrollSpec`. It covers every wrap of the two
  increments and says that no register write moves the address while rendering is on.
- `PPUTypeOK`: widths.
- `PowerOnForgotten`: after writes to PPUMASK and PPUCTRL, a PPUSTATUS read, a pair of writes to
  PPUSCROLL and then, with rendering off, one to PPUADDR, nothing in `InternalRegisters`, PPUMASK or
  PPUCTRL depends on the contents at power-on, whatever else is accessed before, in between and after,
  within the rules of `PowerOnPair`. Without the PPUCTRL write it would be false: one PPUDATA
  access then moves the two addresses apart.
- `StoreIsOneHalf`: an instruction changes the write toggle only through its operand:
  a store to PPUSCROLL or PPUADDR flips it once, on any mirror, and no dummy cycle of
  any other instruction touches it.

### Findings

1. `CPU::Reset` (`qnes_cpu.cpp:18`) sets `glabal_mode` and leaves `interrupt_cycle`,
   which `HandleReset` shares with `HandleNMI` and `HandleIRQ`. A reset in the
   middle of an interrupt therefore starts in the middle: it skips the initialisation
   of sp and status or loads pc from the bytes of an earlier reset, where
   `cpu_tests/reset.cpp:53-58` expects the vector, `0xFD` and I and U. The fixture hides
   it by clearing the counter (`ZeroInterruptCycle`, line 17).
2. After the fifth cycle of the interrupt the counter is past the last case of
   `HandleReset`: a debug build fails the assertion, a release build stays in `RESET`
   mode for ever, against `reset.cpp:61` "Verify mode switched to RUN".
3. `WritePPUMASK` (`qnes_ppu.cpp:154`) compares with the mask in force and leaves a
   scheduled toggle alone. Rendering turned on and off within four dots ends up on,
   where the comment at line 170 says "no rendering toggle needed - just set the new value".
4. `ReadPPUDATA` (`qnes_ppu.cpp:118`) has its branches the wrong way round: below 0x3F00 it
   returns palette memory, above it the buffer, against its own comments and `WritePPUDATA`.

Each of these has a run. The models show more, which no run singles out:

- `RelativeBranch` comments its dummy read as "Fetch OPCODE for next instruction"
  (`cpu_isa.cpp:1066`) and addresses page zero (`:1068`): harmless on `RAMBus`.
- The comments of `WritePPUMASK` announce an effect 3-4 dots after the write. Turning on takes
  effect with the fifth Step (a count of 4 is five Steps, `MaskInForce`); turning off with the
  write itself, because the mask is stored without the flags while the toggle is pending.
- Indexed stores read before they write (`cpu_isa.cpp:499`, `DataCycles`); on `NESBus` that read
  of a write-only register fails the assertion at `qnes_bus.cpp:17` in a debug build.
- `NESBus` maps nothing above 0x3FFF, so the CPU that `Emulator` builds cannot read its
  reset vector (`BeginReset`): a failed assertion, or address 0 in a release build.

### Bounds, and why they are enough

- `instructions`: 151 opcodes, each from 113 corners. A corner chooses sp at both
  ends of the stack, x and y so that zero-page and page-crossing sums do and do not carry,
  a and the pulled flags so that branches are taken and not taken, three operand pairs
  (within a page, at the end of a page, at the end of the address space), and three program addresses of which two put the
  instruction or its target across a page, and five more with the program under the
  stack. A preamble of real instructions reaches the state through the reset
  vector, so that every state is one the program can be in. `Limit` stops the run at the boundary after
  the instruction under test: from there on the next instruction starts afresh, which
  the refinement itself says.
- `interrupts`: three events (`MaxEvents`) at any cycle: enough for an NMI inside
  an IRQ inside a BRK handler, for a request that coalesces with a pending one, and for
  a reset in the middle of either. TXS leaves sp = 1, so frames wrap. The two runs with
  resets in every mode need only two.
- `MaxExecuted` bounds the counter of boundaries, which only `instructions` uses;
  `MaxSpent` stops the cycle count one above the longest step.
- `alu`: `Samples`, the bytes at which carries and signs change, for each of the four bytes.
- `rendering`: four accesses are enough for two toggles in flight one after the other and
  a read-only interruption; five values cover no flags, each flag and both, with and without
  other bits; a toggle takes five Steps, so every count meets every write. `MaxTicks` is one Step more.
- `registers`: 96 addresses, each with rendering off and on: columns 0 and 31, coarse rows
  0, 29 and 31 (29 is the last row of a picture, 31 the last of the field), fine rows 0 and 7, in
  all four name tables. Four accesses: a PPUSTATUS read and three halves, so that a half
  is overwritten, or pairs that reads, PPUMASK and PPUCTRL cut. Two values that differ in the
  stride, the rendering flags and every half.
- `power_on`: one PPU starts with zeros, the other with all ones or a mixture in every member the
  claim can come to depend on. The bytes that the code only hands back (PPUSCROLL, PPUADDR, OAM, status, palette)
  start at the one value (37) the program writes. PPUMASK takes a value without and one with the
  rendering flags (6, 30), so toggles run and overlap, before and after the initialisation. One PPUDATA
  access (`MaxData`) at any point shows a difference in the increment; the VRAM has its 2 KB. No
  other access is bounded. The theorem has no bound at all.
- `system`: eighteen instructions on RAM and registers, two settings of the index registers
  (crossing and not crossing into the register window), either write toggle at
  the start, three instructions (`MaxInstructions`) in any order, dots in between. Half of
  the code is entered through a mirror of the RAM.
- `requests`: the memory images and the three events of `interrupts`: two signals that coalesce, both
  kinds pending at one boundary, a signal inside a handler, and a reset between a signal and its answer.
  `MaxSpent` also stops `age`, one above the bound it is compared with.
- Deadlock is checked except where the model can stop (`CHECK_DEADLOCK FALSE`): after a write beyond
  the VRAM and after a failed assertion in a debug build, in `power_on` for both PPUs at once. The interrupt programs loop.

### Fairness

`FairHSpec` assumes weak fairness of `HStep`: the owner keeps clocking the CPU, as
the test loops do (`for (...) cpu.Step()`). `Step` is enabled until a fault, so weak
fairness is enough. Nothing is assumed of `Reset` and the signals. `IRQIsServed`
also rests on the programs of the run, which clear I again and again: the code
promises no more.

`FairPPUHSpec` assumes weak fairness of `Tick`: the owner of the PPU keeps calling
`PPU::Step`, which is the only thing that can bring a scheduled toggle to its end, and
which is enabled in every state without a fault. Nothing is assumed of the accesses.

## What is proved

TLC checks instances; the theorems hold for every memory image, that is for every
program and data, and for any number and order of events.

- `CPUProofs!TypeCorrect`: `Spec => []TypeOK`. Inductive as it stands. It is split
  into `MachineType`, `CounterType` and `ControlType`, because each micro-operation
  changes the first and each way to leave a cycle (`Continue`, `Finish`,
  `FinishCrossed`, `InvalidCycle`) the second; one lemma per routine combines them.
- `CPUProofs!CyclesCorrect` (and `NoInvalidCycleHolds`): `Spec => [](NoInvalidCycle /\ CycleDiscipline)`,
  assuming `ResetsAreClean` (`ResetModes \subseteq {"RESET", "RUN"}`). `NoInvalidCycle`
  is not inductive: a routine reaches its last cycle only if its counter has been in
  range and `page_crossed` in step with it all along. `CycleDiscipline` is the
  strengthening (a run checks it too): per opcode, the last cycle, the cycles in which
  `page_crossed` may be set and those in which it must be. The proof has one lemma per
  routine and mode, and `Row` facts that tie each name and mode of the table to its
  `CYCLES`. The assumption is necessary: finding 2 is a counterexample without it.
- `RefinementProofs!ResetOutcomeHolds`: `HSpec => ResetOutcome` under the same assumption,
  from `ResetProgress`, what each cycle of a reset has established so far, on top of
  the two invariants above. Finding 1 is the counterexample without the assumption.
- `RefinementProofs!IsaImplemented`: `HSpec => ImplementsIsa`, assuming `ResetsAreClean`. Every
  instruction, cycle by cycle as the code executes it, has exactly the effect `IsaSpec` gives its
  mnemonic and addressing mode, in exactly the announced number of cycles; NMIs, IRQs and
  resets come at boundaries, or at any cycle for resets, whatever the program and the data.
  The refinement mapping `arch` only changes at boundaries, so the mapping alone says nothing of
  the cycles in between; `RefinementInvariant` does: `StepInProgress`, on top of `CycleDiscipline`
  (a routine is in one of its own cycles, with `page_crossed` as it should be) and `ResetProgress`.
  The argument, in the order of the modules:
  1. `OperandProofs` ties the words `IsaSpec` speaks of (operand, pointer, unfixed and effective
     address) to the bytes in the latches, and `Alu` and `Addressing` as instantiated in
     `IsaSpec` to the ones of `CPU`. The addressing cycles are proved once (`Aimed`,
     `Carried`), since loads, stores, operations and read-modify-writes share them, and
     then combined with the cycles that access the operand (`ExecuteLoadPerformed` to
     `ExecuteModifyPerformed`).
  2. `RefinementProofs` has one lemma per routine without an operand in memory. The interrupt
     frames, BRK and JSR push through `Stacked`, whose bytes may overlap the program and wrap within
     the page. `InstructionPerformed` puts the routines together: a cycle either
     `Resumes` (the next line of `StepInProgress`) or `Completes` (the step of `IsaSpec`).
  3. `ExecuteRefines`, `FetchRefines`, `EnterRefines`, `HandlerRefines`, `ResetCycleRefines`,
     `ResetRefines` and `QuietRefines` do it for each action, `NextRefines` for all of them.
     A reset may cut an instruction that has pushed: `OverwrittenFew` counts at most three bytes.
- `RefinementProofs!StepInProgressHolds`: `HSpec => []StepInProgress`, the invariant itself, under
  the same assumption. It fails without it for the reason of finding 1: a reset that
  starts in the middle of the shared counter has not done the cycles before it.
- `RefinementProofs!BoundaryWithinSevenHolds`: `HSpec => []BoundaryWithinSeven`, from the same
  invariant and the widths of the counters: what of the liveness properties can be proved.
- `RefinementProofs!FramesIntactHolds`, `IRQNeverNestsHolds`, `InterruptsAreTransparentHolds`:
  `HSpec /\ HandlersBehave => []FramesIntact`, and likewise for the other two, assuming `ResetsAreClean`.
  They are promises to well-behaved programs: a handler that overwrites its frame or clears I
  breaks them on a correct CPU, so `HandlersBehave` is a hypothesis, for any number of
  handlers, nested to any depth that has room on the stack. No property of the CPU is in it; it is
  about what the program has done at the boundaries, and the run `interrupts` checks that its two
  programs meet it. The argument:
  1. `FramesInvariant` is `Intact` of the frames, the memory and the flags of `arch`: what
     `FramesIntact` says, the kinds and widths of the frames, and that no inner frame is an
     IRQ's. That an inner frame was interrupted with I set is the part without which it is not
     inductive: it is what its `RTI` gives back to the handler below. None of this says what
     the CPU is doing between two boundaries; that is `RefinementInvariant`, and the two
     together are inductive.
  2. `BoundaryStep` turns the refinement into cases: a step that reaches a boundary has served an
     interrupt (`Serves`), finished an instruction (`Finishes`) or ended a reset, with the
     machine that `IsaSpec` computes.
  3. `EntryFrames` and `BreakFrames` push: the bytes `Stacked` leaves are a frame
     (`FrameStacked`) and lie outside the open ones (`HeldElsewhere`, `PushIntact`). `ReturnFrames`
     pops: what `RTI` pulls is the context the frame was made of (`FrameReturned`, which
     rests on `StatusOfByte`: the eight flags survive as a byte), so the innermost frame is
     restored (`Restored`) and the rest stays intact (`PopIntact`).
  4. `EffectKeepsMask`: of all 151 opcodes only `CLI`, `PLP` and `RTI` can clear I, so under
     `HandlersBehave` it stays set (`OtherFrames`), and no IRQ is entered.
- `RefinementProofs!BusProtocolHolds`: `HSpec => BusProtocol`, from the same invariant: where the
  latches point is what the bus sees. `System` rests on it, since it takes the accesses from
  `Addressing`.
- `AluBenchProofs!WideArithmetic` (and `WideShiftHolds`): `Spec => [](WideAddition /\ WideShift)` for any set of
  sample bytes, from `ADCAdds` and `SBCSubtracts`, which say what the two
  operations compute for all bytes, overflow flag included. `Between` records that after the
  first byte the carry is exactly what the second byte is short of.
- `AluBenchProofs!OperationsAgreeHolds` and `BranchesDecideHolds`: a byte is the sum of its eight
  digits (`BytesFromDigits`, `DigitOfByte`), and digit by digit AND and EOR are a half adder
  (`HalfAdder`), which makes the bitwise operations arithmetic for all 65,536 pairs.
- `AluProofs!OperationType`: an operation on bytes yields a byte and a status.
- `PPUProofs!TypeCorrect`: `PPUHSpec => []PPUTypeOK`, inductive, for any contents at power-on and any
  size of the VRAM.
- `PPUProofs!MaskSettles`: `PPUHSpec => []SettledMask`. The strengthening `MaskInv` says what
  a toggle in flight holds back: the mask is the last write without its flags, and the toggle
  carries them unless that write was `cancelled`. Finding 3 is why `cancelled` is there.
- `PPUProofs!MaskInForceHolds`: `PPUHSpec => []MaskInForce`, from `DelayInv`: what is left of a
  countdown and the Steps since the last write never exceed four together.
- `PPUProofs!ScrollRefinement`: `PPUHSpec => ImplementsScroll`. An address is the sum of its
  fields, uniquely (`Fields`, `FieldsOf`), and `CoarseXAdvances` and `FineYAdvances` say what the
  increments do to the fields; every action then maps to `Advance`, `Move`, `Toggle` or a stutter.
- `PPUProofs!HalvesAlternateHolds`: `PPUHSpec => []HalvesAlternate`, from `HalvesInv`, for
  sequences of any length (`Alternates` is the step that appends a half).
- `PPUProofs!StoreIsOneHalfHolds`: `SystemSpec => StoreIsOneHalf`, for every program in RAM, any
  registers it is entered with, and any dots between two accesses, assuming only that an instruction
  lies in RAM with its operand bytes (`SystemAssumption`). Of the accesses of an
  instruction the last `Writes` (none, one, or two for a read-modify-write) write the target and
  the others are reads (`AccessShape`); a read of an unfixed address hits the
  same register as the target or none, since only the page differs
  (`UnfixedQuiet`). `SystemInv` then says what the accesses still to come leave of the toggle.
  The accesses are the ones the CPU makes by `BusProtocolHolds`.
- `PowerOnProofs!PowerOnIsForgotten`: `Spec => []PowerOnForgotten`, for any two contents of the
  uninitialised members, any bytes the program writes, any size of the VRAM and any number of accesses,
  assuming only that members and values are bytes (`PairAssumption`). `PairInv` says how far two PPUs agree
  at each point of the program:
  1. `MaskAgrees`: once PPUMASK is written the masks are equal, and so are the scheduled toggles, unless neither
     has flags to set and the mask has none: a first write can find rendering on in one of them, by
     what it held, and schedule a toggle there that changes nothing (`Masking`, `Ticking`).
     `ControlAgrees` is the same of PPUCTRL, `ToggleAgrees` of the half that comes next.
  2. `ScrollHolds` and `AddressHolds`: what each half adds. The first half of PPUSCROLL the
     columns (`SameColumn`), the second everything but the name table bits (`SameScroll`), the first
     half of PPUADDR, whose mask covers those bits, the whole of t, the second the address. An
     address is cut at every boundary of a mask (`Joined`, `Parts`), so that each write
     is a change of some parts (`PartsWritten`). It is the agreement after `SameScroll` that
     later writes to PPUCTRL and PPUSCROLL keep (`ScrollDecides`), so an interrupted pair does no harm.
  3. A PPUDATA access touches only the address (`DataMembers`, `DataKeeps`), and moves two equal addresses
     alike because rendering and stride are decided by PPUMASK and PPUCTRL, which agree by then
     (`SameIncrements`).
- `RequestProofs!RequestsAnsweredHolds` and `NMIWithinSevenHolds`: `RSpec => RequestsAnswered` and
  `RSpec => []NMIWithinSeven`, assuming `ResetsAreClean`, for every memory image and any number of events.
  `RequestInv`, on top of `RefinementInvariant`, has two parts. `Tracked`: a call is unanswered exactly if the pending
  flag of the CPU is set, which a reset, a coalesced second call or a handler entered in between could
  break. `InTime`: inside an instruction, an interrupt sequence or a reset an NMI has waited
  fewer Steps than the sequence has taken (`age < spent`), because at the boundary it started from an
  unanswered NMI would have been served; `spent` is at most six (`SpentBound`, from
  `StepInProgress`). A reset that cuts a sequence starts a new one, and cancels the request with its
  first Step (`ResetInTime`).

`Byte` and `Word` are written as subsets of `Nat` with a bound rather than as
intervals, which the SMT translation would enumerate.

Only model-checked:

- the liveness properties (`ENABLED` and fairness are outside the proof system's reach;
  `BoundaryWithinSeven` is the bound that is proved in their place);
- `HandlersBehave`, a property of programs: it holds of the two of the run and is the hypothesis of the
  theorems on frames.

Nothing here uses a RECURSIVE operator, and no theorem needs induction over data.

## Not modelled

- What a write beyond the VRAM overwrites (`qnes_ppu.cpp:229`), and what follows a null table
  entry: undefined behaviour of the whole program; the models record it and stop.
- Pixels: the code has none. `scanline_idx` and `scanline_cycle` are never advanced, vblank is never
  set, nothing signals an NMI, and the frame buffer is an empty class.
- OAM and its DMA: two plain registers, and an assertion at 0x4014, which `NESBus` treats
  like every other address above 0x3FFF, as the code does.
- Interrupts and the registers of the CPU in `System`: nothing behind `NESBus` raises an interrupt, and
  a program's results are the subject of `CPU` on the flat bus. Branches, stack
  instructions and fetched operands reach only RAM there.
- Several CPUs. `pc_adl` and `pc_adh` of `HandleReset` are `thread_local` (`qnes_cpu.cpp:66`), so CPUs that
  one thread clocks in turns would load each other's reset vector. Nothing in the repository clocks two.
- `Memory::Clear`, `Initialize` and `InitializeFrom`: how a test sets up an image.
- `Emulator::Run` and `main`: empty, or an assertion.
