---------------------------- MODULE CPUHistory -----------------------------
(***************************************************************************)
(* CPU with history variables, and the properties that need them: the      *)
(* machine at the last instruction boundary, for the refinement of         *)
(* IsaSpec, and the frames of the interrupts in progress.                  *)
(*                                                                         *)
(* A boundary is a state in RUN mode with instruction_cycle = 0: the only  *)
(* states in which Step fetches an opcode or enters an interrupt.          *)
(***************************************************************************)
EXTENDS CPU, Addressing

CONSTANTS
    MaxEvents,      \* bound on the calls of Reset, SignalNMI and SignalIRQ
    MaxExecuted     \* bound of the counter of completed boundary-to-boundary steps

VARIABLES
    arch,       \* phase, machine and cycles of IsaSpec, as of the last boundary
    spent,      \* Steps since then
    frames,     \* the interrupted machines, innermost last
    events,     \* calls of Reset, SignalNMI and SignalIRQ so far
    executed    \* boundaries reached so far, up to MaxExecuted

\* No step of IsaSpec takes more cycles than this; spent stops counting there.
MaxSpent == 8

history == <<arch, spent, frames, events, executed>>
allVars == <<vars, history>>

ASSUME BoundsAssumption == MaxEvents \in Nat /\ MaxExecuted \in Nat

Machine == [pc |-> pc, sp |-> sp, reg |-> reg, status |-> status, memory |-> memory]

Boundary == glabal_mode = "RUN" /\ instruction_cycle = 0

HInit ==
    /\ Init
    /\ arch = [phase |-> "reset", m |-> Machine, cycles |-> 0]
    /\ spent = 0 /\ frames = <<>> /\ events = 0 /\ executed = 0

Ends(name) ==
    glabal_mode = "RUN" /\ instruction_cycle # 0 /\ Instructions[ir].name = name

\* The context that the RTI of this interrupt has to restore.
Frame(kind, return) ==
    [kind |-> kind, pc |-> return, sp |-> arch.m.sp,
     reg |-> arch.m.reg, status |-> arch.m.status]

NextFrames ==
    CASE glabal_mode = "RESET" -> <<>>
      [] glabal_mode \in {"NMI", "IRQ"} ->
            Append(frames, Frame(glabal_mode, arch.m.pc))
      [] Ends("BRK") -> Append(frames, Frame("BRK", (arch.m.pc + 2) % 65536))
      [] Ends("RTI") /\ frames # <<>> -> SubSeq(frames, 1, Len(frames) - 1)
      [] OTHER -> frames

HStep ==
    /\ Step
    /\ IF Boundary'
       THEN /\ arch' = [phase |-> "run", m |-> Machine', cycles |-> spent + 1]
            /\ spent' = 0
            /\ frames' = NextFrames
            /\ executed' = IF executed < MaxExecuted THEN executed + 1 ELSE executed
       ELSE /\ spent' = IF spent < MaxSpent THEN spent + 1 ELSE spent
            /\ UNCHANGED <<arch, frames, executed>>
    /\ UNCHANGED events

HReset ==
    /\ events < MaxEvents /\ events' = events + 1
    /\ Reset
    /\ arch' = [arch EXCEPT !.phase = "reset"]
    /\ spent' = IF glabal_mode = "RESET" THEN spent ELSE 0
    /\ UNCHANGED <<frames, executed>>

HSignalNMI ==
    /\ events < MaxEvents /\ events' = events + 1
    /\ SignalNMI
    /\ UNCHANGED <<arch, spent, frames, executed>>

HSignalIRQ ==
    /\ events < MaxEvents /\ events' = events + 1
    /\ SignalIRQ
    /\ UNCHANGED <<arch, spent, frames, executed>>

HNext == HStep \/ HReset \/ HSignalNMI \/ HSignalIRQ

HSpec == HInit /\ [][HNext]_allVars
FairHSpec == HSpec /\ WF_allVars(HStep)

-----------------------------------------------------------------------------
(* Properties.                                                             *)

Processor == INSTANCE IsaSpec WITH
           phase <- arch.phase, m <- arch.m, cycles <- arch.cycles

\* Cycle by cycle, the CPU does what IsaSpec does in one step: the routines of
\* cpu_isa.cpp have, at their last cycle and in the number of cycles cpu_isa.hpp
\* declares, exactly the effect of their instruction; an interrupt or a reset
\* never shows a program a half-executed instruction.
ImplementsIsa == Processor!Spec

\* A machine as a program can observe it: the B and U bits of the live status
\* register are not, since PHP and BRK always push them set.
Visible(s) == s \ {break_command, unused}

\* An RTI that ends an interrupt or BRK handler resumes the interrupted program where
\* it was, with its stack pointer, its registers and its visible flags,
\* whatever else was interrupted, nested or signalled in between (HandleNMI,
\* HandleIRQ and RTI together; the handlers of the images restore A).
InterruptsAreTransparent ==
    [][frames # <<>> /\ Len(frames') < Len(frames) /\ glabal_mode # "RESET" =>
         LET f == frames[Len(frames)]
         IN  pc' = f.pc /\ sp' = f.sp /\ reg' = f.reg
               /\ Visible(status') = Visible(f.status)]_allVars

\* The I flag, set while an interrupt or a BRK is entered and restored by RTI, keeps
\* an IRQ from being served inside any handler: only NMIs and BRKs nest.
IRQNeverNests == \A k \in 2 .. Len(frames) : frames[k].kind # "IRQ"

\* The cells of a frame pushed from the stack pointer top.
FrameCell(top, n) == 256 + ((top + 256 - n) % 256)
FrameCells(top)   == {FrameCell(top, n) : n \in 0 .. 2}

\* The frame of f is on the stack as it was pushed.
HeldBy(mem, f) ==
    LET pushed(n) == Cell(mem, FrameCell(f.sp, n))
    IN  /\ pushed(0) = U16High(f.pc)
        /\ pushed(1) = U16Low(f.pc)
        /\ Visible(Bits(pushed(2))) = Visible(f.status)

\* Every interrupt that a program is in the middle of, however deep, has its frame
\* intact, wrapped around the page or not, and has left I set for the handlers
\* above it.
FramesIntact ==
    /\ \A k \in 1 .. Len(frames) : HeldBy(arch.m.memory, frames[k])
    /\ frames # <<>> => interrupt_disable \in arch.m.status
    /\ \A k \in 2 .. Len(frames) : interrupt_disable \in frames[k].status

\* What the CPU expects of a handler: it does not clear I, its RTI finds the stack
\* pointer and the registers as the handler did, it leaves the open frames alone,
\* and there is room for another wherever an interrupt or a BRK pushes one.
Behaves ==
    LET innermost == frames[Len(frames)]
        enters    == glabal_mode \in {"NMI", "IRQ"} \/ Ends("BRK")
    IN  /\ Ends("CLI") \/ Ends("PLP") => interrupt_disable \in status'
        /\ Ends("RTI") => /\ arch.m.sp = (innermost.sp + 253) % 256
                          /\ arch.m.reg = innermost.reg
        /\ \A k \in 1 .. Len(frames) :
             IF enters THEN FrameCells(arch.m.sp) \cap FrameCells(frames[k].sp) = {}
             ELSE \A a \in FrameCells(frames[k].sp) :
                    Cell(memory', a) = Cell(arch.m.memory, a)

\* The handlers of a program behave, at every boundary they reach: the hypothesis
\* under which the properties of frames hold for any program.
HandlersBehave ==
    [][~Boundary /\ Boundary' /\ glabal_mode # "RESET" /\ frames # <<>> => Behaves]_allVars

\* A reset that ends leaves what reset.cpp expects of it, wherever it was
\* requested: the vector in pc, 0xFD in sp, only I and U in status, and no
\* instruction in progress.
ResetOutcome ==
    [][glabal_mode = "RESET" /\ glabal_mode' = "RUN" =>
         /\ pc' = CombineToU16(Read(ResetVector + 1), Read(ResetVector))
         /\ sp' = 253
         /\ status' = {interrupt_disable, unused}
         /\ instruction_cycle' = 0]_allVars

\* The bus sees the accesses of an instruction and nothing else: in every cycle
\* after the opcode fetch the address that Addressing!Accesses gives for it, a
\* write only where it lists one, and as many cycles as it lists (the routines
\* of cpu_isa.cpp; it is what the devices behind a bus with side effects see).
BusProtocol ==
    [][/\ glabal_mode = "RUN" /\ instruction_cycle > 0
       /\ ir \in Opcodes /\ HasOperand(Instructions[ir])
       /\ Step
       =>
         LET accesses == Accesses(Instructions[ir], arch.m)
             access   == accesses[instruction_cycle]
         IN  /\ addr' = access.address
             /\ memory' # memory => access.kind = "write"
             /\ access.kind = "write" => memory' = Written(addr', memory'[addr'])
             /\ instruction_cycle' = 0 <=> instruction_cycle = Len(accesses)]_vars

\* A reset always ends (reset.cpp: five Steps lead back to RUN mode).
ResetCompletes == glabal_mode = "RESET" ~> glabal_mode = "RUN"

\* An NMI signalled at any cycle, in any mode, is served or cancelled by a
\* reset; no instruction and no handler keeps the CPU from its next boundary.
NMIIsServed == nmi_pending ~> ~nmi_pending

\* An IRQ is not lost while it is masked: in a program that clears I again and
\* again it is served.
IRQIsServed == irq_pending ~> ~irq_pending

\* Every instruction and every interrupt sequence comes to an end.
BoundaryRecurs == []<>Boundary

\* The bound behind it: an instruction, an interrupt sequence and a reset, counted
\* from its first request however often it is repeated, take at most seven Steps,
\* so that pending requests are looked at again within seven. Only an opcode that
\* is not in the table can keep the CPU from it.
BoundaryWithinSeven ==
    glabal_mode # "RUN" \/ instruction_cycle = 0 \/ ir \in Opcodes => spent < 7
=============================================================================
