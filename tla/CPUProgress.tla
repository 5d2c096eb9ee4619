---------------------------- MODULE CPUProgress ----------------------------
(***************************************************************************)
(* Between two boundaries: how far the instruction, the interrupt or the   *)
(* reset in progress has come, relative to the machine it started from.    *)
(* StepInProgress says it for every cycle of every routine; it is the      *)
(* inductive invariant from which the refinement of IsaSpec and the bus    *)
(* protocol follow (RefinementProofs).                                     *)
(***************************************************************************)
EXTENDS CPUHistory, FiniteSets

-----------------------------------------------------------------------------
(* Predicates on the CPU, given the machine s at the last boundary.        *)

Advanced(s, n) == pc = Add16(s.pc, n)
Kept(s) == sp = s.sp /\ reg = s.reg /\ status = s.status /\ memory = s.memory

\* The first n bytes of the frame that returns to w with the status p.
Stacked(s, w, p, n) ==
    LET one   == Processor!PushByte(s, U16High(w))
        two   == Processor!PushByte(one, U16Low(w))
        three == Processor!PushByte(two, FromBits(p))
        t     == CASE n = 0 -> s [] n = 1 -> one [] n = 2 -> two [] n = 3 -> three
    IN  memory = t.memory /\ sp = t.sp

-----------------------------------------------------------------------------
(* Instructions with an operand in memory: where the latches point, and    *)
(* what has been done to the operand.                                      *)

From(n) == instruction_cycle >= n

IndexedPointer(s) == (Operand(s) + s.reg["x"]) % 256

\* The address latches, from the second cycle on.
Aimed(mode, s) ==
    /\ From(2) /\ mode \notin {"Absolute", "AbsoluteX", "AbsoluteY"} => Advanced(s, 2)
    /\ mode = "ZeroPage" /\ From(2) => ZP = Operand(s)
    /\ mode \in {"ZeroPageX", "ZeroPageY"} =>
         /\ At(2) => ZP = Operand(s)
         /\ From(3) => ZP = Effective(mode, s)
    /\ mode \in {"Absolute", "AbsoluteX", "AbsoluteY"} =>
         /\ At(2) => Advanced(s, 2) /\ ZP = Operand(s)
         /\ From(3) => Advanced(s, 3)
    /\ mode = "Absolute" /\ From(3) => EA = Effective(mode, s)
    /\ mode = "XIndirect" =>
         /\ At(2) => Pointer = Operand(s)
         /\ At(3) \/ At(4) => Pointer = IndexedPointer(s)
         /\ At(4) => ZP = Cell(s.memory, IndexedPointer(s))
         /\ From(5) => EA = Effective(mode, s)
    /\ mode = "IndirectY" =>
         /\ At(2) \/ At(3) => Pointer = Operand(s)
         /\ At(3) => ZP = Cell(s.memory, Operand(s))

\* The cycle of the first access through the latches.
FirstAccess(mode) ==
    CASE mode = "Immediate" -> 1
      [] mode = "ZeroPage"  -> 2
      [] mode = "XIndirect" -> 5
      [] mode = "IndirectY" -> 4
      [] OTHER -> 3

\* Indexing leaves the carry for the cycle after the first access.
Carried(mode, s) ==
    mode \in Indexed =>
      /\ At(FirstAccess(mode)) =>
             EA = Unfixed(mode, s) /\ page_crossed = Crosses(mode, s)
      /\ From(FirstAccess(mode) + 1) => EA = Effective(mode, s)

\* Reads go on after the first access only when the page was crossed; a load
\* has by then loaded from the wrong page.
ReadProgress(i, s) ==
    LET r == Subject(i.name)
    IN  /\ sp = s.sp /\ memory = s.memory
        /\ From(FirstAccess(i.mode) + 1) => Crosses(i.mode, s)
        /\ IF i.name \in Loads /\ From(FirstAccess(i.mode) + 1)
           THEN /\ reg = [s.reg EXCEPT ![r] = reg[r]]
                /\ status = SetZNFlags(s.status, reg[r])
           ELSE reg = s.reg /\ status = s.status

Modified(i, s) ==
    ExecuteOperation(Function(i.name), Cell(s.memory, Effective(i.mode, s)), 0, s.status)

\* A read-modify-write has read the operand, then written it back as it was.
ModifyProgress(i, s) ==
    LET n == i.cycles - 3
        a == Effective(i.mode, s)
    IN  /\ sp = s.sp /\ reg = s.reg
        /\ instruction_cycle <= n + 1 => memory = s.memory /\ status = s.status
        /\ At(n + 1) => Pointer = Cell(s.memory, a)
        /\ At(n + 2) => /\ memory = Put(s.memory, a, Cell(s.memory, a))
                        /\ Pointer = Modified(i, s).reg
                        /\ status = Modified(i, s).status

OperandProgress(i, s) ==
    /\ Aimed(i.mode, s) /\ Carried(i.mode, s)
    /\ i.name \in Loads \cup Binary => ReadProgress(i, s)
    /\ i.name \in Stores => Kept(s)
    /\ i.name \in Unary => ModifyProgress(i, s)

-----------------------------------------------------------------------------
(* The other instructions.                                                 *)

StackProgress(s) ==
    /\ Advanced(s, 1)
    /\ reg = s.reg /\ status = s.status /\ memory = s.memory
    /\ sp = IF At(3) THEN Inc8(s.sp) ELSE s.sp

RTSProgress(s) ==
    /\ reg = s.reg /\ status = s.status /\ memory = s.memory
    /\ At(2) => sp = s.sp
    /\ At(3) => sp = Inc8(s.sp)
    /\ At(4) \/ At(5) => sp = (s.sp + 2) % 256
    /\ At(4) => pc = Processor!Pulled(s, 1)
    /\ At(5) => pc = CombineToU16(Processor!Pulled(s, 2), Processor!Pulled(s, 1))

RTIProgress(s) ==
    /\ reg = s.reg /\ memory = s.memory
    /\ At(2) => sp = s.sp
    /\ At(3) => sp = Inc8(s.sp)
    /\ At(4) => sp = (s.sp + 2) % 256
    /\ At(5) => sp = (s.sp + 3) % 256 /\ U16Low(pc) = Processor!Pulled(s, 2)
    /\ At(4) \/ At(5) => status = Bits(Processor!Pulled(s, 1))

BRKProgress(s) ==
    LET p == s.status \cup {break_command, unused}
        w == Add16(s.pc, 2)
    IN  /\ reg = s.reg
        /\ From(2) /\ instruction_cycle <= 4 => Advanced(s, 2) /\ status = s.status
        /\ At(2) => Stacked(s, w, p, 0)
        /\ At(3) => Stacked(s, w, p, 1)
        /\ At(4) => Stacked(s, w, p, 2)
        /\ From(5) => Stacked(s, w, p, 3) /\ status = p \cup {interrupt_disable}
        /\ At(6) => U16Low(pc) = Read(65534)

JSRProgress(s) ==
    LET w == Add16(s.pc, 2)
    IN  /\ reg = s.reg /\ status = s.status
        /\ From(2) => Advanced(s, 2) /\ ZP = Operand(s)
        /\ At(2) \/ At(3) => Stacked(s, w, s.status, 0)
        /\ At(4) => Stacked(s, w, s.status, 1)
        /\ At(5) => Stacked(s, w, s.status, 2)

JMPProgress(mode, s) ==
    /\ Kept(s)
    /\ At(2) => Advanced(s, 2)
    /\ mode = "Absolute" /\ At(2) => Pointer = Operand(s)
    /\ mode = "Indirect" =>
         /\ At(2) => ZP = Operand(s)
         /\ From(3) => EA = OperandW(s)
         /\ At(4) => Pointer = Cell(s.memory, OperandW(s))

BranchProgress(name, s) ==
    LET next   == Add16(s.pc, 2)
        target == Processor!TakenTarget(s)
    IN  /\ Kept(s)
        /\ From(2) => ExecuteCondition(name, s.status)
        /\ At(2) => pc = next /\ Pointer = Operand(s)
        /\ At(3) => /\ U16High(target) # U16High(next)
                    /\ Pointer = U16High(target)
                    /\ U16Low(pc) = U16Low(target)

-----------------------------------------------------------------------------
(* The invariant.                                                          *)

\* An instruction whose opcode has been fetched; the implied instructions of
\* two cycles have done nothing else.
InstructionBegun(i, s) ==
    /\ At(1) => Advanced(s, 1) /\ Kept(s)
    /\ HasOperand(i) => OperandProgress(i, s)
    /\ i.name \in {"PHA", "PHP", "PLA", "PLP"} => StackProgress(s)
    /\ i.name = "RTS" => RTSProgress(s)
    /\ i.name = "RTI" => RTIProgress(s)
    /\ i.name = "BRK" => BRKProgress(s)
    /\ i.name = "JSR" => JSRProgress(s)
    /\ i.name = "JMP" => JMPProgress(i.mode, s)
    /\ i.name \in Branches => BranchProgress(i.name, s)

RunInProgress(s) ==
    /\ arch.phase = "run"
    /\ At(0) => s = Machine /\ spent = 0
    /\ ~At(0) => /\ ir = Cell(s.memory, s.pc)
                 /\ ir \in Opcodes => /\ spent = instruction_cycle
                                      /\ InstructionBegun(Instructions[ir], s)
                 /\ ir \notin Opcodes => Kept(s)

HandlerInProgress(vector, s) ==
    LET p == (s.status \ {break_command}) \cup {unused}
    IN  /\ arch.phase = "run"
        /\ spent = interrupt_cycle /\ interrupt_cycle >= 1
        /\ reg = s.reg
        /\ interrupt_cycle <= 3 =>
             pc = s.pc /\ status = s.status /\ Stacked(s, s.pc, p, interrupt_cycle - 1)
        /\ interrupt_cycle >= 4 =>
             /\ Stacked(s, s.pc, p, 3)
             /\ status = IF interrupt_cycle = 4 THEN p ELSE p \cup {interrupt_disable}
        /\ interrupt_cycle = 6 => U16Low(pc) = Read(vector)

\* A reset may find an instruction half done: three bytes of a BRK at most.
Disturbed(s) ==
    /\ DOMAIN s.memory \subseteq DOMAIN memory
    /\ Cardinality(Processor!Changed(s.memory, memory)) <= 3

ResetInProgress(s) ==
    arch.phase = "reset" /\ spent = interrupt_cycle /\ Disturbed(s)

\* At every cycle of every instruction, interrupt and reset the registers, the
\* memory and the latches hold exactly what that step of IsaSpec has done so
\* far, and as many Steps were spent on it as its cycle number says (all the
\* routines of cpu_isa.cpp, HandleReset, HandleNMI and HandleIRQ).
StepInProgress ==
    \A s \in {arch.m} :
      /\ glabal_mode = "RESET" => ResetInProgress(s)
      /\ glabal_mode = "RUN"   => RunInProgress(s)
      /\ glabal_mode = "NMI"   => HandlerInProgress(NMIVector, s)
      /\ glabal_mode = "IRQ"   => HandlerInProgress(IRQVector, s)
                                  /\ interrupt_disable \notin s.status
=============================================================================
