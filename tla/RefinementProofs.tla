-------------------------- MODULE RefinementProofs --------------------------
(***************************************************************************)
(* The micro-cycles of cpu_isa.cpp and qnes_cpu.cpp implement IsaSpec and  *)
(* keep the bus protocol of Addressing, for every program, every data and  *)
(* every order of signals and resets, if no reset is requested within an   *)
(* interrupt sequence. The run ResetDuringInterrupt shows that the         *)
(* condition is needed.                                                    *)
(*                                                                         *)
(* OperandProofs has the instructions with an operand in memory; here are  *)
(* the other instructions, the interrupt sequences and the resets, each a  *)
(* step further in CPUProgress!StepInProgress, which is the inductive      *)
(* invariant, and the theorems that follow from it.                        *)
(*                                                                         *)
(* The last part is about the frames of CPUHistory: for handlers that      *)
(* behave, a second inductive invariant, FramesInvariant, on top of the    *)
(* first: every interrupt in progress has its frame intact, is masked      *)
(* against an IRQ, and is transparent to what it interrupted.              *)
(***************************************************************************)
EXTENDS OperandProofs, FiniteSetTheorems

-----------------------------------------------------------------------------
(* The instructions without an operand in memory.                          *)

\* A cycle of an instruction without an operand.
Performed(i, s) == Resumes(i, s) \/ Completes(i, s)

\* The machine behind a cycle that completes an instruction.
LEMMA MachineAfter ==
    Machine' = State(pc', sp', reg', status', memory')
BY DEF Machine, State

\* The implied instructions of two cycles do everything in the second.
LEMMA TwoCycles ==
    ASSUME NEW i, NEW s, InstructionUnderway(i, s), i.mode = "Implied", i.cycles = 2
    PROVE  /\ LastCycle(i) = 1 /\ At(1) /\ Kept(s) /\ pc = Behind(s)
           /\ \A n \in Nat : InvalidCycle(n) => n = 0
<1>1. i.mode \notin IndexedModes
  BY DEF IndexedModes
<1>2. LastCycle(i) = 1
  BY <1>1 DEF LastCycle, IndexedRead
<1>3. instruction_cycle = 1
  BY <1>2 DEF InstructionUnderway, InstructionInProgress, InProgress
<1> QED
  BY <1>2, <1>3 DEF InstructionUnderway, InstructionBegun, Advanced, Behind, At, InvalidCycle

\* ... and then are done.
LEMMA ImpliedCompletes ==
    ASSUME NEW i, NEW s, InstructionUnderway(i, s), i.mode = "Implied",
           instruction_cycle' = 0, instruction_cycle + 1 = i.cycles,
           i.name \notin {"JMP", "JSR"}, i.name \notin Loads \cup Binary,
           Machine' = Processor!ImpliedEffect(i.name,
                        State(Behind(s), s.sp, s.reg, s.status, s.memory))
    PROVE  Completes(i, s)
<1>1. i.name \notin Branches
  BY DEF InstructionUnderway, Entry
<1>2. Processor!Penalty(i, s) = 0
  BY <1>1, SameNames DEF Processor!Penalty
<1>3. i.cycles \in Nat
  BY DEF InstructionUnderway, Row
<1> QED
  BY <1>1, <1>2, <1>3, WithoutOperand DEF Completes, InstructionUnderway

\* The machine that an implied instruction finds: pc is past its opcode.
Begun(s) == State(Behind(s), s.sp, s.reg, s.status, s.memory)

LEMMA BegunComponents ==
    ASSUME NEW s
    PROVE  /\ Begun(s).pc = Behind(s) /\ Begun(s).sp = s.sp /\ Begun(s).reg = s.reg
           /\ Begun(s).status = s.status /\ Begun(s).memory = s.memory
BY Components DEF Begun

LEMMA TransferCompletes ==
    ASSUME NEW i, NEW s, InstructionUnderway(i, s), i.mode = "Implied", i.cycles = 2,
           i.name \notin {"JMP", "JSR"}, i.name \notin Loads \cup Binary,
           NEW r, NEW v, TransferRegister(r, v),
           Processor!ImpliedEffect(i.name, Begun(s)) = Processor!LoadReg(Begun(s), r, v)
    PROVE  Completes(i, s)
<1>1. /\ At(1) /\ Kept(s) /\ pc = Behind(s) /\ ~InvalidCycle(1)
  BY TwoCycles
<1>2. /\ reg' = [s.reg EXCEPT ![r] = v] /\ status' = SetZNFlags(s.status, v)
      /\ pc' = Behind(s) /\ sp' = s.sp /\ memory' = s.memory /\ instruction_cycle' = 0
  BY <1>1 DEF TransferRegister, Finish, Kept
<1>3. Machine' = State(Behind(s), s.sp, [s.reg EXCEPT ![r] = v], SetZNFlags(s.status, v),
                       s.memory)
  BY <1>2, MachineAfter
<1>4. Machine' = Processor!ImpliedEffect(i.name, Begun(s))
  BY <1>3, LoadResult DEF Begun
<1> QED
  BY <1>1, <1>2, <1>4, ImpliedCompletes DEF At, Begun

LEMMA ExecuteTransferPerformed ==
    ASSUME NEW i, NEW s, InstructionUnderway(i, s), ExecuteTransfer(i)
    PROVE  Completes(i, s)
<1>1. i.name \in {"TAX", "TAY", "TXA", "TYA"}
  BY DEF ExecuteTransfer
<1>2. i.mode = "Implied" /\ i.cycles = 2
  BY <1>1 DEF InstructionUnderway, Row, ImpliedRow, TransferNames
<1>3. i.name \notin {"JMP", "JSR"} /\ i.name \notin Loads \cup Binary
  BY <1>1 DEF Loads, Binary
<1>4. reg = s.reg
  BY <1>2, TwoCycles DEF Kept
<1>5. CASE i.name = "TAX" /\ TransferRegister("x", reg["a"])
  BY <1>2, <1>3, <1>4, <1>5, TransferArms, BegunComponents, TransferCompletes
<1>6. CASE i.name = "TAY" /\ TransferRegister("y", reg["a"])
  BY <1>2, <1>3, <1>4, <1>6, TransferArms, BegunComponents, TransferCompletes
<1>7. CASE i.name = "TXA" /\ TransferRegister("a", reg["x"])
  BY <1>2, <1>3, <1>4, <1>7, TransferArms, BegunComponents, TransferCompletes
<1>8. CASE i.name = "TYA" /\ TransferRegister("a", reg["y"])
  BY <1>2, <1>3, <1>4, <1>8, TransferArms, BegunComponents, TransferCompletes
<1> QED
  BY <1>1, <1>5, <1>6, <1>7, <1>8 DEF ExecuteTransfer, RegisterOf

\* A flag instruction sets the status and nothing else.
LEMMA FlagCompletes ==
    ASSUME NEW i, NEW s, InstructionUnderway(i, s), i.mode = "Implied", i.cycles = 2,
           i.name \notin {"JMP", "JSR"}, i.name \notin Loads \cup Binary,
           NEW t, FlagInstruction(t),
           Processor!ImpliedEffect(i.name, Begun(s)) = Processor!SetStatus(Begun(s), t)
    PROVE  Completes(i, s)
<1>1. At(1) /\ Kept(s) /\ pc = Behind(s)
  BY TwoCycles
<1>2. /\ status' = t /\ pc' = Behind(s) /\ sp' = s.sp /\ reg' = s.reg
      /\ memory' = s.memory /\ instruction_cycle' = 0
  BY <1>1 DEF FlagInstruction, Kept
<1>3. Machine' = State(Behind(s), s.sp, s.reg, t, s.memory)
  BY <1>2, MachineAfter
<1>4. Machine' = Processor!ImpliedEffect(i.name, Begun(s))
  BY <1>3, Changes DEF Begun
<1> QED
  BY <1>1, <1>2, <1>4, ImpliedCompletes DEF At, Begun

LEMMA ExecuteFlagPerformed ==
    ASSUME NEW i, NEW s, InstructionUnderway(i, s), ExecuteFlag(i)
    PROVE  Completes(i, s)
<1>1. i.name \in FlagNames
  BY DEF ExecuteFlag, FlagNames
<1>2. i.mode = "Implied" /\ i.cycles = 2
  BY <1>1 DEF InstructionUnderway, Row, ImpliedRow
<1>3. i.name \notin {"JMP", "JSR"} /\ i.name \notin Loads \cup Binary
  BY <1>1 DEF Loads, Binary, FlagNames
<1>4. status = s.status /\ Begun(s).status = s.status
  BY <1>2, TwoCycles, BegunComponents DEF Kept
<1> DEFINE Sets(name, u) ==
             Processor!ImpliedEffect(name, Begun(s)) = Processor!SetStatus(Begun(s), u)
<1>13. /\ Sets("CLC", status \ {carry}) /\ Sets("SEC", status \cup {carry})
       /\ Sets("CLD", status \ {decimal_mode}) /\ Sets("SED", status \cup {decimal_mode})
       /\ Sets("CLI", status \ {interrupt_disable})
       /\ Sets("SEI", status \cup {interrupt_disable})
       /\ Sets("CLV", status \ {overflow})
  BY <1>4, FlagArms
<1>14. ASSUME NEW u, FlagInstruction(u), Sets(i.name, u) PROVE Completes(i, s)
  BY <1>2, <1>3, <1>14, FlagCompletes
<1> HIDE DEF Sets
<1>5. CASE i.name = "CLC" /\ FlagInstruction(status \ {carry})
  BY <1>5, <1>13, <1>14
<1>6. CASE i.name = "CLD" /\ FlagInstruction(status \ {decimal_mode})
  BY <1>6, <1>13, <1>14
<1>7. CASE i.name = "CLI" /\ FlagInstruction(status \ {interrupt_disable})
  BY <1>7, <1>13, <1>14
<1>8. CASE i.name = "CLV" /\ FlagInstruction(status \ {overflow})
  BY <1>8, <1>13, <1>14
<1>9. CASE i.name = "SEC" /\ FlagInstruction(status \cup {carry})
  BY <1>9, <1>13, <1>14
<1>10. CASE i.name = "SED" /\ FlagInstruction(status \cup {decimal_mode})
  BY <1>10, <1>13, <1>14
<1>11. CASE i.name = "SEI" /\ FlagInstruction(status \cup {interrupt_disable})
  BY <1>11, <1>13, <1>14
<1>12. CASE i.name = "NOP" /\ FlagInstruction(status)
  <2>1. Sets("NOP", status)
    BY <1>4, TransferArms, Changes DEF Begun, Sets
  <2> QED
    BY <1>12, <1>14, <2>1
<1> QED
  BY <1>5, <1>6, <1>7, <1>8, <1>9, <1>10, <1>11, <1>12 DEF ExecuteFlag

LEMMA OperationArm ==
    ASSUME NEW name \in Unary \cup Counting, NEW t
    PROVE  Processor!ImpliedEffect(name, t) =
             Processor!ToRegister(t, Subject(name),
               ExecuteOperation(Function(name), t.reg[Subject(name)], 0, t.status))
<1>1. Function(name) \in Operation
  BY Dispatched
<1>2. /\ Processor!Unary = Unary /\ Processor!Counting = Counting
      /\ Processor!Subject(name) = Subject(name) /\ Processor!Function(name) = Function(name)
  BY SameNames, SameModes
<1>3. Processor!ExecuteOperation(Function(name), t.reg[Subject(name)], 0, t.status) =
        ExecuteOperation(Function(name), t.reg[Subject(name)], 0, t.status)
  BY <1>1, SameOperation
<1> DEFINE Arm(n) == Processor!ImpliedEffect(n, t) =
             Processor!ToRegister(t, Processor!Subject(n),
               Processor!ExecuteOperation(Processor!Function(n),
                 t.reg[Processor!Subject(n)], 0, t.status))
<1>4. Arm("ASL")
  BY DEF Processor!ImpliedEffect, Processor!Unary, Processor!Counting
<1>5. Arm("LSR")
  BY DEF Processor!ImpliedEffect, Processor!Unary, Processor!Counting
<1>6. Arm("ROL")
  BY DEF Processor!ImpliedEffect, Processor!Unary, Processor!Counting
<1>7. Arm("ROR")
  BY DEF Processor!ImpliedEffect, Processor!Unary, Processor!Counting
<1>8. Arm("INC")
  BY DEF Processor!ImpliedEffect, Processor!Unary, Processor!Counting
<1>9. Arm("DEC")
  BY DEF Processor!ImpliedEffect, Processor!Unary, Processor!Counting
<1>10. Arm("INX")
  BY DEF Processor!ImpliedEffect, Processor!Unary, Processor!Counting
<1>11. Arm("INY")
  BY DEF Processor!ImpliedEffect, Processor!Unary, Processor!Counting
<1>12. Arm("DEX")
  BY DEF Processor!ImpliedEffect, Processor!Unary, Processor!Counting
<1>13. Arm("DEY")
  BY DEF Processor!ImpliedEffect, Processor!Unary, Processor!Counting
<1>14. Arm(name)
  <2> HIDE DEF Arm
  <2> QED
    BY <1>4, <1>5, <1>6, <1>7, <1>8, <1>9, <1>10, <1>11, <1>12, <1>13 DEF Unary, Counting
<1> QED
  BY <1>2, <1>3, <1>14

\* The operations on a register alone.
LEMMA ExecuteImpliedPerformed ==
    ASSUME NEW i, NEW s, InstructionUnderway(i, s), ExecuteModify(i), i.mode = "Implied"
    PROVE  Completes(i, s)
<1> DEFINE r   == Subject(i.name)
           op  == Function(i.name)
           out == ExecuteOperation(op, s.reg[r], 0, s.status)
<1>1. i.name \in Unary \cup Counting /\ OperationImplied(op, r)
  BY Dispatched DEF ExecuteModify
<1>2. i.cycles = 2
  BY <1>1, Dispatched DEF InstructionUnderway, Row, ModifyRow
<1>3. i.name \notin {"JMP", "JSR"} /\ i.name \notin Loads \cup Binary
  BY <1>1 DEF Loads, Binary, Unary, Counting
<1>4. At(1) /\ Kept(s) /\ pc = Behind(s) /\ ~InvalidCycle(1)
  BY <1>2, TwoCycles
<1>5. Processor!ImpliedEffect(i.name, Begun(s)) = Processor!ToRegister(Begun(s), r, out)
  BY <1>1, OperationArm, BegunComponents
<1>6. /\ reg' = [s.reg EXCEPT ![r] = out.reg] /\ status' = out.status
      /\ pc' = Behind(s) /\ sp' = s.sp /\ memory' = s.memory /\ instruction_cycle' = 0
  BY <1>1, <1>4 DEF OperationImplied, Finish, Kept
<1> HIDE DEF out, r
<1>7. Machine' = State(Behind(s), s.sp, [s.reg EXCEPT ![r] = out.reg], out.status, s.memory)
  BY <1>6, MachineAfter
<1>9. Processor!ToRegister(Begun(s), r, out) =
        State(Behind(s), s.sp, [s.reg EXCEPT ![r] = out.reg], out.status, s.memory)
  BY RegisterResult DEF Begun
<1>8. Machine' = Processor!ImpliedEffect(i.name, Begun(s))
  BY <1>5, <1>7, <1>9
<1> QED
  BY <1>2, <1>3, <1>4, <1>6, <1>8, ImpliedCompletes DEF At, Begun

-----------------------------------------------------------------------------
(* The stack.                                                              *)

\* What InstructionBegun says of each of the other instructions.
LEMMA StackBegun ==
    ASSUME NEW i, NEW s, i.name \in {"PHA", "PHP", "PLA", "PLP"}
    PROVE  /\ InstructionBegun(i, s) <=>
                (At(1) => Advanced(s, 1) /\ Kept(s)) /\ StackProgress(s)
           /\ InstructionBegun(i, s)' <=>
                (At(1)' => Advanced(s, 1)' /\ Kept(s)') /\ StackProgress(s)'
<1>1. /\ ~HasOperand(i) /\ i.name \notin Branches
      /\ i.name # "RTS" /\ i.name # "RTI" /\ i.name # "BRK" /\ i.name # "JSR"
      /\ i.name # "JMP"
  BY DEF HasOperand, Loads, Stores, Binary, Unary, Branches
<1> QED
  BY <1>1 DEF InstructionBegun

\* A cycle that leaves the instruction in progress.
LEMMA ContinueResumes ==
    ASSUME NEW i, NEW s, InstructionUnderway(i, s), Continue
    PROVE  /\ instruction_cycle \in 1 .. LastCycle(i)
           /\ instruction_cycle' = instruction_cycle + 1 /\ ~At(1)' /\ ~At(0)'
           /\ InstructionBegun(i, s)' => Resumes(i, s)
BY DEF InstructionUnderway, InstructionInProgress, InProgress, At, Continue, ContinueWith,
       Resumes

\* The cycles of an instruction without extra ones.
LEMMA PlainCycles ==
    ASSUME NEW i, NEW s, InstructionUnderway(i, s), i.mode \in {"Implied", "Absolute", "Indirect"},
           i.name \notin Loads \cup Binary
    PROVE  /\ LastCycle(i) = i.cycles - 1 /\ i.cycles \in 2 .. 7
           /\ instruction_cycle \in 1 .. i.cycles - 1
           /\ ~InvalidCycle(i.cycles - 1)
<1>1. LastCycle(i) = i.cycles - 1
  BY Dispatched DEF LastCycle, IndexedRead, IndexedModes
<1> QED
  BY <1>1 DEF InstructionUnderway, InstructionInProgress, InProgress, Row, InvalidCycle

LEMMA PulledFrom ==
    ASSUME NEW s, NEW n
    PROVE  /\ Processor!Pulled(s, n) = Cell(s.memory, 256 + ((s.sp + n) % 256))
           /\ Processor!Pulled(Begun(s), n) = Processor!Pulled(s, n)
BY BegunComponents, SameMemory DEF Processor!Pulled

\* What the stack instructions do to the machine.
LEMMA StackEffects ==
    ASSUME NEW s
    PROVE  LET t   == Begun(s)
               one == (s.sp + 1) % 256
               v1  == Processor!Pulled(s, 1)
           IN  /\ Processor!ImpliedEffect("PHA", t) = Processor!PushByte(t, s.reg["a"])
               /\ Processor!ImpliedEffect("PHP", t) =
                    Processor!PushByte(t, FromBits(s.status \cup {break_command, unused}))
               /\ Processor!ImpliedEffect("PLA", t) =
                    Processor!LoadReg(Processor!SetSP(t, one), "a", v1)
               /\ Processor!ImpliedEffect("PLP", t) =
                    Processor!SetStatus(Processor!SetSP(t, one), Bits(v1) \ {break_command})
<1>1. PICK t : t = Begun(s)
  OBVIOUS
<1>2. Processor!ImpliedEffect("PHA", t) = Processor!PushByte(t, t.reg["a"])
  BY PHAArm, Zenon
<1>3. Processor!ImpliedEffect("PHP", t) =
        Processor!PushByte(t, FromBits(t.status \cup {break_command, unused}))
  BY PHPArm, Zenon
<1>4. Processor!ImpliedEffect("PLA", t) =
        Processor!LoadReg(Processor!SetSP(t, (t.sp + 1) % 256), "a", Processor!Pulled(t, 1))
  BY PLAArm, Zenon
<1>5. Processor!ImpliedEffect("PLP", t) =
        Processor!SetStatus(Processor!SetSP(t, (t.sp + 1) % 256),
                            Bits(Processor!Pulled(t, 1)) \ {break_command})
  BY PLPArm, Zenon
<1>6. /\ t.sp = s.sp /\ t.reg["a"] = s.reg["a"] /\ t.status = s.status
      /\ Processor!Pulled(t, 1) = Processor!Pulled(s, 1)
  BY <1>1, BegunComponents, PulledFrom
<1>7. /\ Processor!ImpliedEffect("PHA", t) = Processor!PushByte(t, s.reg["a"])
      /\ Processor!ImpliedEffect("PHP", t) =
           Processor!PushByte(t, FromBits(s.status \cup {break_command, unused}))
  BY <1>2, <1>3, <1>6, Zenon
<1>8. /\ Processor!ImpliedEffect("PLA", t) =
           Processor!LoadReg(Processor!SetSP(t, (s.sp + 1) % 256), "a", Processor!Pulled(s, 1))
      /\ Processor!ImpliedEffect("PLP", t) =
           Processor!SetStatus(Processor!SetSP(t, (s.sp + 1) % 256),
                               Bits(Processor!Pulled(s, 1)) \ {break_command})
  BY <1>4, <1>5, <1>6, Zenon
<1> QED
  BY <1>1, <1>7, <1>8, Zenon

LEMMA PushPerformed ==
    ASSUME NEW i, NEW s, InstructionUnderway(i, s), i.name \in {"PHA", "PHP"},
           NEW v, \/ At(1) /\ DummyRead(pc) /\ Continue
                  \/ At(2) /\ Push(v) /\ Finish /\ UNCHANGED <<pc, status>>
                  \/ InvalidCycle(2),
           Processor!ImpliedEffect(i.name, Begun(s)) = Processor!PushByte(Begun(s), v)
    PROVE  Performed(i, s)
<1>1. i.mode = "Implied" /\ i.cycles = 3 /\ i.name \notin Loads \cup Binary
  BY DEF InstructionUnderway, Row, ImpliedRow, Loads, Binary
<1>2. instruction_cycle \in 1 .. 2 /\ ~InvalidCycle(2)
  BY <1>1, PlainCycles
<1>3. StackProgress(s)
  BY StackBegun DEF InstructionUnderway
<1>4. CASE At(1) /\ DummyRead(pc) /\ Continue
  <2>1. /\ instruction_cycle' = 2 /\ ~At(1)' /\ ~At(3)' /\ ~At(3)
        /\ UNCHANGED <<pc, sp, reg, status, memory>>
    BY <1>4 DEF At, Continue, ContinueWith, DummyRead
  <2>2. StackProgress(s)'
    BY <1>3, <2>1 DEF StackProgress, Advanced
  <2> QED
    BY <1>4, <2>1, <2>2, StackBegun, ContinueResumes DEF Performed
<1>5. CASE At(2) /\ Push(v) /\ Finish /\ UNCHANGED <<pc, status>>
  <2>1. /\ pc = Behind(s) /\ sp = s.sp /\ reg = s.reg /\ status = s.status
        /\ memory = s.memory
    BY <1>3, <1>5 DEF StackProgress, Advanced, At, Behind
  <2>2. /\ memory' = Put(s.memory, 256 + s.sp, v) /\ sp' = Dec8(s.sp) /\ reg' = s.reg
        /\ status' = s.status /\ pc' = Behind(s) /\ instruction_cycle' = 0
    BY <1>5, <2>1, WrittenIsPut DEF Push, Finish
  <2>3. Machine' = State(Behind(s), Dec8(s.sp), s.reg, s.status, Put(s.memory, 256 + s.sp, v))
    BY <2>2, MachineAfter
  <2>4. Machine' = Processor!ImpliedEffect(i.name, Begun(s))
    BY <2>3, Pushes DEF Begun
  <2> QED
    BY <1>1, <1>5, <2>2, <2>4, ImpliedCompletes DEF At, Begun, Performed
<1> QED
  BY <1>2, <1>4, <1>5

LEMMA PullPerformed ==
    ASSUME NEW i, NEW s, InstructionUnderway(i, s), i.name \in {"PLA", "PLP"},
           PLA \/ PLP, i.name = "PLA" => PLA, i.name = "PLP" => PLP
    PROVE  Performed(i, s)
<1> DEFINE v == Processor!Pulled(s, 1)
           q == (s.sp + 1) % 256
<1>1. i.mode = "Implied" /\ i.cycles = 4 /\ i.name \notin Loads \cup Binary
  BY DEF InstructionUnderway, Row, ImpliedRow, Loads, Binary
<1>2. instruction_cycle \in 1 .. 3 /\ ~InvalidCycle(3)
  BY <1>1, PlainCycles
<1>3. StackProgress(s)
  BY StackBegun DEF InstructionUnderway
<1>4. CASE At(1) /\ DummyRead(pc) /\ Continue
  <2>1. /\ instruction_cycle' = 2 /\ ~At(1)' /\ ~At(3)' /\ ~At(3)
        /\ UNCHANGED <<pc, sp, reg, status, memory>>
    BY <1>4 DEF At, Continue, ContinueWith, DummyRead
  <2>2. StackProgress(s)'
    BY <1>3, <2>1 DEF StackProgress, Advanced
  <2> QED
    BY <1>4, <2>1, <2>2, StackBegun, ContinueResumes DEF Performed
<1>5. CASE At(2) /\ IncrementSP /\ Continue
  <2>1. /\ instruction_cycle' = 3 /\ ~At(1)' /\ At(3)' /\ ~At(3)
        /\ UNCHANGED <<pc, reg, status, memory>> /\ sp' = Inc8(sp)
    BY <1>5 DEF At, Continue, ContinueWith, IncrementSP
  <2>2. StackProgress(s)'
    BY <1>3, <2>1 DEF StackProgress, Advanced
  <2> QED
    BY <1>5, <2>1, <2>2, StackBegun, ContinueResumes DEF Performed
<1>6. CASE At(3)
  <2>1. /\ pc = Behind(s) /\ reg = s.reg /\ status = s.status /\ memory = s.memory
        /\ sp = q
    BY <1>3, <1>6, NextStackBytes
    DEF StackProgress, Advanced, Behind, InstructionUnderway, MachineState
  <2>2. Read(256 + sp) = v
    BY <2>1, ReadIsCell, PulledFrom
  <2>3. ~At(1) /\ ~At(2)
    BY <1>6 DEF At
  <2>4. Processor!Pulled(Begun(s), 1) = v /\ (Begun(s).sp + 1) % 256 = q
    BY PulledFrom, BegunComponents
  <2>5. Processor!SetSP(Begun(s), q) = State(Behind(s), q, s.reg, s.status, s.memory)
    BY Changes DEF Begun
  <2> HIDE DEF v, q
  <2>6. CASE i.name = "PLA"
    <3>1. LoadFrom(256 + sp, "a") /\ Finish
      BY <1>2, <2>3, <2>6 DEF PLA
    <3>2. /\ reg' = [s.reg EXCEPT !["a"] = v] /\ status' = SetZNFlags(s.status, v)
          /\ pc' = Behind(s) /\ sp' = q /\ memory' = s.memory /\ instruction_cycle' = 0
      BY <2>1, <2>2, <3>1 DEF LoadFrom, Load, Finish
    <3>3. Machine' = State(Behind(s), q, [s.reg EXCEPT !["a"] = v],
                           SetZNFlags(s.status, v), s.memory)
      BY <3>2, MachineAfter
    <3>4. Processor!ImpliedEffect(i.name, Begun(s)) =
            Processor!LoadReg(State(Behind(s), q, s.reg, s.status, s.memory), "a", v)
      <4>1. Processor!ImpliedEffect("PLA", Begun(s)) =
              Processor!LoadReg(Processor!SetSP(Begun(s), q), "a", v)
        BY StackEffects, Zenon DEF v, q
      <4> QED
        BY <2>5, <2>6, <4>1
    <3>5. Machine' = Processor!ImpliedEffect(i.name, Begun(s))
      BY <3>3, <3>4, LoadResult
    <3> QED
      BY <1>1, <1>6, <3>2, <3>5, ImpliedCompletes DEF At, Begun, Performed
  <2>7. CASE i.name = "PLP"
    <3>1. /\ status' = Bits(v) \ {break_command} /\ instruction_cycle' = 0
          /\ UNCHANGED <<pc, sp, reg, memory>>
      BY <1>2, <2>2, <2>3, <2>7 DEF PLP, Top, Finish
    <3>2. Machine' = State(Behind(s), q, s.reg, Bits(v) \ {break_command}, s.memory)
      BY <2>1, <3>1, MachineAfter
    <3>3. Processor!ImpliedEffect(i.name, Begun(s)) =
            Processor!SetStatus(State(Behind(s), q, s.reg, s.status, s.memory),
                                Bits(v) \ {break_command})
      <4>1. Processor!ImpliedEffect("PLP", Begun(s)) =
              Processor!SetStatus(Processor!SetSP(Begun(s), q), Bits(v) \ {break_command})
        BY StackEffects, Zenon DEF v, q
      <4> QED
        BY <2>5, <2>7, <4>1
    <3>4. Machine' = Processor!ImpliedEffect(i.name, Begun(s))
      BY <3>2, <3>3, Changes
    <3> QED
      BY <1>1, <1>6, <3>1, <3>4, ImpliedCompletes DEF At, Begun, Performed
  <2> QED
    BY <2>6, <2>7
<1> QED
  BY <1>2, <1>4, <1>5, <1>6 DEF PLA, PLP, At

LEMMA ExecuteStackPerformed ==
    ASSUME NEW i, NEW s, InstructionUnderway(i, s), ExecuteStack(i)
    PROVE  Performed(i, s)
<1>1. CASE i.name = "PHA" /\ PHA
  <2>1. StackProgress(s)
    BY <1>1, StackBegun DEF InstructionUnderway
  <2>2. Processor!ImpliedEffect(i.name, Begun(s)) =
          Processor!PushByte(Begun(s), reg["a"])
    BY <1>1, <2>1, StackEffects DEF StackProgress
  <2> QED
    BY <1>1, <2>2, PushPerformed DEF PHA
<1>2. CASE i.name = "PHP" /\ PHP
  <2>1. StackProgress(s)
    BY <1>2, StackBegun DEF InstructionUnderway
  <2>2. Processor!ImpliedEffect(i.name, Begun(s)) =
          Processor!PushByte(Begun(s), FromBits(status \cup {break_command, unused}))
    BY <1>2, <2>1, StackEffects DEF StackProgress
  <2> QED
    BY <1>2, <2>2, PushPerformed DEF PHP
<1>3. CASE i.name = "PLA" /\ PLA
  BY <1>3, PullPerformed
<1>4. CASE i.name = "PLP" /\ PLP
  BY <1>4, PullPerformed
<1>5. CASE i.name \in {"TSX", "TXS"} /\ (TSX \/ TXS)
  <2>1. i.mode = "Implied" /\ i.cycles = 2
    BY <1>5 DEF InstructionUnderway, Row, ImpliedRow, TransferNames
  <2>2. i.name \notin {"JMP", "JSR"} /\ i.name \notin Loads \cup Binary
    BY <1>5 DEF Loads, Binary
  <2>3. At(1) /\ Kept(s) /\ pc = Behind(s) /\ ~InvalidCycle(1)
    BY <2>1, TwoCycles
  <2>4. CASE i.name = "TSX" /\ TSX
    <3>1. Processor!ImpliedEffect(i.name, Begun(s)) = Processor!LoadReg(Begun(s), "x", sp)
      BY <2>3, <2>4, TransferArms, BegunComponents DEF Kept
    <3> QED
      BY <2>1, <2>2, <2>4, <3>1, TransferCompletes DEF TSX, Performed
  <2>5. CASE i.name = "TXS" /\ TXS
    <3>1. /\ sp' = s.reg["x"] /\ pc' = Behind(s) /\ reg' = s.reg /\ status' = s.status
          /\ memory' = s.memory /\ instruction_cycle' = 0
      BY <2>3, <2>5 DEF TXS, Finish, Kept
    <3>2. Machine' = State(Behind(s), s.reg["x"], s.reg, s.status, s.memory)
      BY <3>1, MachineAfter
    <3>3. Processor!ImpliedEffect(i.name, Begun(s)) =
            Processor!SetSP(Begun(s), s.reg["x"])
      BY <2>5, TransferArms, BegunComponents
    <3>4. Machine' = Processor!ImpliedEffect(i.name, Begun(s))
      BY <3>2, <3>3, Changes DEF Begun
    <3> QED
      BY <2>1, <2>2, <2>3, <3>1, <3>4, ImpliedCompletes DEF At, Begun, Performed
  <2> QED
    BY <1>5, <2>4, <2>5 DEF ExecuteStack
<1> QED
  BY <1>1, <1>2, <1>3, <1>4, <1>5 DEF ExecuteStack

-----------------------------------------------------------------------------
(* Returns.                                                                *)

LEMMA ReturnEffects ==
    ASSUME NEW s
    PROVE  LET P(n) == Processor!Pulled(s, n)
           IN  /\ Processor!ImpliedEffect("RTS", Begun(s)) =
                    State(Add16(CombineToU16(P(2), P(1)), 1), (s.sp + 2) % 256,
                          s.reg, s.status, s.memory)
               /\ Processor!ImpliedEffect("RTI", Begun(s)) =
                    State(CombineToU16(P(3), P(2)), (s.sp + 3) % 256,
                          s.reg, Bits(P(1)), s.memory)
<1> DEFINE p1 == Processor!Pulled(s, 1)
           p2 == Processor!Pulled(s, 2)
           p3 == Processor!Pulled(s, 3)
           u  == Add16(CombineToU16(p2, p1), 1)
           w  == CombineToU16(p3, p2)
           q2 == (s.sp + 2) % 256
           q3 == (s.sp + 3) % 256
           f  == Bits(p1)
<1>1. PICK t : t = Begun(s)
  OBVIOUS
<1>2. /\ Processor!Pulled(t, 1) = p1 /\ Processor!Pulled(t, 2) = p2
      /\ Processor!Pulled(t, 3) = p3 /\ t.sp = s.sp
  BY <1>1, PulledFrom, BegunComponents
<1>3. Processor!ImpliedEffect("RTS", t) =
        Processor!Goto(Processor!SetSP(t, (t.sp + 2) % 256),
          Add16(CombineToU16(Processor!Pulled(t, 2), Processor!Pulled(t, 1)), 1))
  BY RTSArm, Zenon
<1>4. Processor!ImpliedEffect("RTI", t) =
        Processor!SetStatus(
          Processor!Goto(Processor!SetSP(t, (t.sp + 3) % 256),
            CombineToU16(Processor!Pulled(t, 3), Processor!Pulled(t, 2))),
          Bits(Processor!Pulled(t, 1)))
  BY RTIArm, Zenon
<1>5. Processor!ImpliedEffect("RTS", t) = Processor!Goto(Processor!SetSP(t, q2), u)
  BY <1>2, <1>3
<1>6. Processor!ImpliedEffect("RTI", t) =
        Processor!SetStatus(Processor!Goto(Processor!SetSP(t, q3), w), f)
  BY <1>2, <1>4
<1> HIDE DEF q2, q3, u, w, f
<1>7. Processor!Goto(Processor!SetSP(t, q2), u) = State(u, q2, s.reg, s.status, s.memory)
  BY <1>1, Changes DEF Begun
<1>8. Processor!SetStatus(Processor!Goto(Processor!SetSP(t, q3), w), f) =
        State(w, q3, s.reg, f, s.memory)
  BY <1>1, Changes DEF Begun
<1> QED
  BY <1>1, <1>5, <1>6, <1>7, <1>8 DEF q2, q3, u, w, f

LEMMA ReturnBegun ==
    ASSUME NEW i, NEW s
    PROVE  /\ i.name = "RTS" =>
                /\ InstructionBegun(i, s) => RTSProgress(s)
                /\ ~At(1)' /\ RTSProgress(s)' => InstructionBegun(i, s)'
           /\ i.name = "RTI" =>
                /\ InstructionBegun(i, s) => RTIProgress(s)
                /\ ~At(1)' /\ RTIProgress(s)' => InstructionBegun(i, s)'
<1>1. i.name \in {"RTS", "RTI"} => ~HasOperand(i) /\ i.name \notin Branches
  BY DEF HasOperand, Loads, Stores, Binary, Unary, Branches
<1> QED
  BY <1>1 DEF InstructionBegun

\* The bytes that the returns pull, and the stack pointers in between.
LEMMA PulledBytes ==
    ASSUME NEW s, MachineState(s), memory = s.memory
    PROVE  /\ sp = Inc8(s.sp) => Top = Processor!Pulled(s, 1)
           /\ sp = (s.sp + 2) % 256 => Top = Processor!Pulled(s, 2)
           /\ sp = (s.sp + 3) % 256 => Top = Processor!Pulled(s, 3)
           /\ Inc8(Inc8(s.sp)) = (s.sp + 2) % 256
           /\ Inc8((s.sp + 2) % 256) = (s.sp + 3) % 256
           /\ \A n : Processor!Pulled(s, n) \in Byte
<1>1. /\ Inc8(s.sp) = (s.sp + 1) % 256 /\ Inc8(Inc8(s.sp)) = (s.sp + 2) % 256
      /\ Inc8((s.sp + 2) % 256) = (s.sp + 3) % 256
  BY NextStackBytes DEF MachineState
<1>2. \A n : Processor!Pulled(s, n) \in Byte
  BY PulledFrom, CellType DEF MachineState
<1>3. /\ sp = (s.sp + 1) % 256 => Top = Processor!Pulled(s, 1)
      /\ sp = (s.sp + 2) % 256 => Top = Processor!Pulled(s, 2)
      /\ sp = (s.sp + 3) % 256 => Top = Processor!Pulled(s, 3)
  BY ReadIsCell, PulledFrom DEF Top
<1> QED
  BY <1>1, <1>2, <1>3

LEMMA RTSPerformed ==
    ASSUME NEW i, NEW s, InstructionUnderway(i, s), i.name = "RTS", RTS
    PROVE  Performed(i, s)
<1> DEFINE p1 == Processor!Pulled(s, 1)
           p2 == Processor!Pulled(s, 2)
<1>1. /\ i.mode = "Implied" /\ i.cycles = 6
      /\ i.name \notin Loads \cup Binary /\ i.name \notin {"JMP", "JSR"}
  BY DEF InstructionUnderway, Row, ImpliedRow, Loads, Binary
<1>2. instruction_cycle \in 1 .. 5 /\ ~InvalidCycle(5)
  BY <1>1, PlainCycles
<1>3. RTSProgress(s)
  BY ReturnBegun DEF InstructionUnderway
<1>4. ASSUME Continue, RTSProgress(s)' PROVE Performed(i, s)
  BY <1>4, ContinueResumes, ReturnBegun DEF Performed
<1>5. memory = s.memory
  BY <1>3 DEF RTSProgress
<1>6. CASE At(1) /\ DummyRead(pc) /\ Continue
  <2>1. Kept(s)
    BY <1>6 DEF InstructionUnderway, InstructionBegun
  <2>2. /\ At(2)' /\ ~At(3)' /\ ~At(4)' /\ ~At(5)' /\ UNCHANGED <<sp, reg, status, memory>>
    BY <1>6 DEF At, Continue, ContinueWith, DummyRead
  <2>3. RTSProgress(s)'
    BY <2>1, <2>2 DEF RTSProgress, Kept
  <2> QED
    BY <1>4, <1>6, <2>3
<1>7. CASE At(2) /\ IncrementSP /\ Continue
  <2>1. /\ At(3)' /\ ~At(2)' /\ ~At(4)' /\ ~At(5)' /\ UNCHANGED <<reg, status, memory>>
        /\ sp' = Inc8(sp)
    BY <1>7 DEF At, Continue, ContinueWith, IncrementSP
  <2>2. RTSProgress(s)'
    BY <1>3, <1>7, <2>1 DEF RTSProgress
  <2> QED
    BY <1>4, <1>7, <2>2
<1>8. CASE At(3) /\ PullPC(Top, Inc8(sp)) /\ Continue
  <2>1. /\ At(4)' /\ ~At(2)' /\ ~At(3)' /\ ~At(5)' /\ UNCHANGED <<reg, status, memory>>
        /\ sp' = Inc8(sp) /\ pc' = Top
    BY <1>8 DEF At, Continue, ContinueWith, PullPC
  <2>2. sp = Inc8(s.sp)
    BY <1>3, <1>8 DEF RTSProgress
  <2>3. sp' = (s.sp + 2) % 256 /\ pc' = p1
    BY <1>5, <2>1, <2>2, PulledBytes DEF InstructionUnderway
  <2>4. RTSProgress(s)'
    BY <1>3, <2>1, <2>3 DEF RTSProgress
  <2> QED
    BY <1>4, <1>8, <2>4
<1>9. CASE At(4) /\ PullPC(CombineToU16(Top, U16Low(pc)), sp) /\ Continue
  <2>1. /\ At(5)' /\ ~At(2)' /\ ~At(3)' /\ ~At(4)' /\ UNCHANGED <<sp, reg, status, memory>>
        /\ pc' = CombineToU16(Top, U16Low(pc))
    BY <1>9 DEF At, Continue, ContinueWith, PullPC
  <2>2. sp = (s.sp + 2) % 256 /\ pc = p1
    BY <1>3, <1>9 DEF RTSProgress
  <2>3. pc' = CombineToU16(p2, p1)
    BY <1>5, <2>1, <2>2, PulledBytes, ByteIsLow DEF InstructionUnderway
  <2>4. RTSProgress(s)'
    BY <1>3, <2>1, <2>2, <2>3 DEF RTSProgress
  <2> QED
    BY <1>4, <1>9, <2>4
<1>10. CASE At(5) /\ pc' = Inc16(pc) /\ Finish /\ UNCHANGED <<sp, reg, status, memory>>
  <2>1. sp = (s.sp + 2) % 256 /\ pc = CombineToU16(p2, p1) /\ reg = s.reg /\ status = s.status
    BY <1>3, <1>10 DEF RTSProgress
  <2>2. pc' = Add16(CombineToU16(p2, p1), 1)
    BY <1>10, <2>1 DEF Inc16, Add16
  <2>3. Machine' = State(Add16(CombineToU16(p2, p1), 1), (s.sp + 2) % 256, s.reg, s.status,
                         s.memory)
    BY <1>5, <1>10, <2>1, <2>2, MachineAfter
  <2>4. Machine' = Processor!ImpliedEffect(i.name, Begun(s))
    BY <2>3, ReturnEffects
  <2> QED
    BY <1>1, <1>10, <2>4, ImpliedCompletes DEF At, Begun, Finish, Performed
<1> QED
  BY <1>2, <1>6, <1>7, <1>8, <1>9, <1>10 DEF RTS

LEMMA RTIPerformed ==
    ASSUME NEW i, NEW s, InstructionUnderway(i, s), i.name = "RTI", RTI
    PROVE  Performed(i, s)
<1> DEFINE p1 == Processor!Pulled(s, 1)
           p2 == Processor!Pulled(s, 2)
           p3 == Processor!Pulled(s, 3)
<1>1. /\ i.mode = "Implied" /\ i.cycles = 6
      /\ i.name \notin Loads \cup Binary /\ i.name \notin {"JMP", "JSR"}
  BY DEF InstructionUnderway, Row, ImpliedRow, Loads, Binary
<1>2. instruction_cycle \in 1 .. 5 /\ ~InvalidCycle(5)
  BY <1>1, PlainCycles
<1>3. RTIProgress(s)
  BY ReturnBegun DEF InstructionUnderway
<1>4. ASSUME Continue, RTIProgress(s)' PROVE Performed(i, s)
  BY <1>4, ContinueResumes, ReturnBegun DEF Performed
<1>5. memory = s.memory
  BY <1>3 DEF RTIProgress
<1>6. CASE At(1) /\ SkipByte /\ Continue
  <2>1. Kept(s)
    BY <1>6 DEF InstructionUnderway, InstructionBegun
  <2>2. /\ At(2)' /\ ~At(3)' /\ ~At(4)' /\ ~At(5)' /\ UNCHANGED <<sp, reg, status, memory>>
    BY <1>6 DEF At, Continue, ContinueWith, SkipByte
  <2>3. RTIProgress(s)'
    BY <2>1, <2>2 DEF RTIProgress, Kept
  <2> QED
    BY <1>4, <1>6, <2>3
<1>7. CASE At(2) /\ IncrementSP /\ Continue
  <2>1. /\ At(3)' /\ ~At(2)' /\ ~At(4)' /\ ~At(5)' /\ UNCHANGED <<reg, status, memory>>
        /\ sp' = Inc8(sp)
    BY <1>7 DEF At, Continue, ContinueWith, IncrementSP
  <2>2. RTIProgress(s)'
    BY <1>3, <1>7, <2>1 DEF RTIProgress
  <2> QED
    BY <1>4, <1>7, <2>2
<1>8. CASE /\ At(3) /\ status' = Bits(Top) /\ sp' = Inc8(sp) /\ Continue
           /\ UNCHANGED <<pc, reg, memory>>
  <2>1. /\ At(4)' /\ ~At(2)' /\ ~At(3)' /\ ~At(5)'
    BY <1>8 DEF At, Continue, ContinueWith
  <2>2. sp = Inc8(s.sp)
    BY <1>3, <1>8 DEF RTIProgress
  <2>3. sp' = (s.sp + 2) % 256 /\ status' = Bits(p1)
    BY <1>5, <1>8, <2>2, PulledBytes DEF InstructionUnderway
  <2>4. RTIProgress(s)'
    BY <1>3, <1>8, <2>1, <2>3 DEF RTIProgress
  <2> QED
    BY <1>4, <1>8, <2>4
<1>9. CASE At(4) /\ PullPC(CombineToU16(U16Low(pc), Top), Inc8(sp)) /\ Continue
  <2>1. /\ At(5)' /\ ~At(2)' /\ ~At(3)' /\ ~At(4)' /\ UNCHANGED <<reg, status, memory>>
        /\ sp' = Inc8(sp) /\ pc' = CombineToU16(U16Low(pc), Top)
    BY <1>9 DEF At, Continue, ContinueWith, PullPC
  <2>2. sp = (s.sp + 2) % 256 /\ status = Bits(p1)
    BY <1>3, <1>9 DEF RTIProgress
  <2>3. sp' = (s.sp + 3) % 256 /\ pc' = CombineToU16(U16Low(pc), p2) /\ p2 \in Byte
    BY <1>5, <2>1, <2>2, PulledBytes DEF InstructionUnderway
  <2>4. U16Low(pc) \in Byte
    BY U16LowType, WordIsNat DEF InstructionUnderway, MachineType
  <2>5. U16Low(pc') = p2
    BY <2>3, <2>4, CombineParts
  <2>6. RTIProgress(s)'
    BY <1>3, <2>1, <2>2, <2>3, <2>5 DEF RTIProgress
  <2> QED
    BY <1>4, <1>9, <2>6
<1>10. CASE At(5) /\ PullPC(CombineToU16(Top, U16Low(pc)), sp) /\ Finish
  <2>1. sp = (s.sp + 3) % 256 /\ U16Low(pc) = p2 /\ reg = s.reg /\ status = Bits(p1)
    BY <1>3, <1>10 DEF RTIProgress
  <2>2. pc' = CombineToU16(p3, p2) /\ UNCHANGED <<sp, reg, status, memory>>
    BY <1>5, <1>10, <2>1, PulledBytes DEF PullPC, InstructionUnderway
  <2>3. Machine' = State(CombineToU16(p3, p2), (s.sp + 3) % 256, s.reg, Bits(p1), s.memory)
    BY <1>5, <2>1, <2>2, MachineAfter
  <2>4. Machine' = Processor!ImpliedEffect(i.name, Begun(s))
    BY <2>3, ReturnEffects
  <2> QED
    BY <1>1, <1>10, <2>4, ImpliedCompletes DEF At, Begun, Finish, Performed
<1> QED
  BY <1>2, <1>6, <1>7, <1>8, <1>9, <1>10 DEF RTI

-----------------------------------------------------------------------------
(* BRK, jumps and subroutines.                                             *)

LEMMA JumpBegun ==
    ASSUME NEW i, NEW s
    PROVE  /\ i.name = "BRK" =>
                /\ InstructionBegun(i, s) => BRKProgress(s)
                /\ ~At(1)' /\ BRKProgress(s)' => InstructionBegun(i, s)'
           /\ i.name = "JSR" =>
                /\ InstructionBegun(i, s) => JSRProgress(s)
                /\ ~At(1)' /\ JSRProgress(s)' => InstructionBegun(i, s)'
           /\ i.name = "JMP" =>
                /\ InstructionBegun(i, s) => JMPProgress(i.mode, s)
                /\ ~At(1)' /\ JMPProgress(i.mode, s)' => InstructionBegun(i, s)'
           /\ i.name \in Branches =>
                /\ InstructionBegun(i, s) => BranchProgress(i.name, s)
                /\ ~At(1)' /\ BranchProgress(i.name, s)' => InstructionBegun(i, s)'
<1>1. i.name \in {"BRK", "JSR", "JMP"} => ~HasOperand(i) /\ i.name \notin Branches
  BY DEF HasOperand, Loads, Stores, Binary, Unary, Branches
<1>2. i.name \in Branches =>
        /\ ~HasOperand(i)
        /\ i.name \notin {"PHA", "PHP", "PLA", "PLP", "RTS", "RTI", "BRK", "JSR", "JMP"}
  BY DEF HasOperand, Loads, Stores, Binary, Unary, Branches
<1> QED
  BY <1>1, <1>2 DEF InstructionBegun

\* The two bytes of a vector, or of any word below the last cell.
LEMMA VectorWord ==
    ASSUME NEW v \in {ResetVector, NMIVector, IRQVector}
    PROVE  WordAt(memory, v) = CombineToU16(Read(v + 1), Read(v))
<1>1. Add16(v, 1) = v + 1
  BY SMT DEF Add16, ResetVector, NMIVector, IRQVector
<1> QED
  BY <1>1, ReadIsCell DEF WordAt

LEMMA BreakEffect ==
    ASSUME NEW s, MachineState(s)
    PROVE  LET p == s.status \cup {break_command, unused}
               w == Add16(s.pc, 2)
           IN  Processor!ImpliedEffect("BRK", Begun(s)) =
                 State(WordAt(Third(s, w, p), IRQVector), Dec8(Dec8(Dec8(s.sp))), s.reg,
                       p \cup {interrupt_disable}, Third(s, w, p))
<1> DEFINE p == s.status \cup {break_command, unused}
           w == Add16(s.pc, 2)
<1>1. PICK t : t = Begun(s)
  OBVIOUS
<1>2. t.pc = Behind(s) /\ t.sp = s.sp /\ t.reg = s.reg /\ t.status = s.status
      /\ t.memory = s.memory
  BY <1>1, BegunComponents
<1>3. MachineState(t)
  <2>1. Behind(s) \in Word
    BY Add16Type DEF Behind, MachineState
  <2> QED
    BY <1>1, <1>2, <2>1 DEF MachineState, Begun
<1>4. Add16(t.pc, 1) = w
  BY <1>2, NextBytes DEF Behind, MachineState
<1>5. Processor!ImpliedEffect("BRK", t) = Processor!Interrupted(t, w, p, IRQVector)
  BY <1>2, <1>4, BreakArm, SMT DEF IRQVector
<1> HIDE DEF p, w
<1>6. Third(t, w, p) = Third(s, w, p)
  BY <1>2 DEF First, Second, Third
<1>7. Processor!Interrupted(t, w, p, IRQVector) =
        State(WordAt(Third(s, w, p), IRQVector), Dec8(Dec8(Dec8(s.sp))), s.reg,
              p \cup {interrupt_disable}, Third(s, w, p))
  BY <1>2, <1>3, <1>6, InterruptedState
<1> QED
  BY <1>1, <1>5, <1>7 DEF p, w

LEMMA BRKPerformed ==
    ASSUME NEW i, NEW s, InstructionUnderway(i, s), i.name = "BRK", BRK
    PROVE  Performed(i, s)
<1> DEFINE p == s.status \cup {break_command, unused}
           w == Add16(s.pc, 2)
           k == instruction_cycle
<1>1. /\ i.mode = "Implied" /\ i.cycles = 7
      /\ i.name \notin Loads \cup Binary /\ i.name \notin {"JMP", "JSR"}
  BY DEF InstructionUnderway, Row, ImpliedRow, Loads, Binary
<1>2. k \in 1 .. 6 /\ ~InvalidCycle(6)
  BY <1>1, PlainCycles
<1>3. BRKProgress(s)
  BY JumpBegun DEF InstructionUnderway
<1>4. ASSUME Continue, BRKProgress(s)' PROVE Performed(i, s)
  BY <1>4, ContinueResumes, JumpBegun DEF Performed
<1>5. /\ MachineState(s) /\ reg = s.reg
      /\ k \in 2 .. 4 => pc = w /\ status = s.status
      /\ k = 2 => Stacked(s, w, p, 0)
      /\ k = 3 => Stacked(s, w, p, 1)
      /\ k = 4 => Stacked(s, w, p, 2)
      /\ k \in 5 .. 6 => Stacked(s, w, p, 3) /\ status = p \cup {interrupt_disable}
      /\ k = 6 => U16Low(pc) = Read(IRQVector)
  BY <1>3, SMT DEF BRKProgress, InstructionUnderway, From, At, Advanced, IRQVector
<1>6. ASSUME k' = k + 1, reg' = s.reg,
             k' \in 2 .. 4 => pc' = w /\ status' = s.status,
             k' = 2 => Stacked(s, w, p, 0)',
             k' = 3 => Stacked(s, w, p, 1)',
             k' = 4 => Stacked(s, w, p, 2)',
             k' \in 5 .. 6 => Stacked(s, w, p, 3)' /\ status' = p \cup {interrupt_disable},
             k' = 6 => U16Low(pc') = Read(IRQVector)',
             k' \in 2 .. 6
      PROVE  BRKProgress(s)'
  BY <1>6, SMT DEF BRKProgress, From, At, Advanced, IRQVector
<1> HIDE DEF p, w, k
<1>7. CASE At(1) /\ SkipByte /\ Continue
  <2>1. k' = 2 /\ k = 1 /\ UNCHANGED <<sp, reg, status, memory>> /\ pc' = Inc16(pc)
    BY <1>7 DEF At, Continue, ContinueWith, SkipByte, k
  <2>2. Kept(s) /\ pc = Add16(s.pc, 1)
    BY <1>7 DEF InstructionUnderway, InstructionBegun, Advanced
  <2>3. pc' = w
    BY <1>5, <2>1, <2>2, NextBytes DEF MachineState, w
  <2>4. Stacked(s, w, p, 0)'
    BY <1>5, <2>1, <2>2, StackedBytes, StackedPush DEF Kept
  <2> QED
    BY <1>4, <1>6, <1>7, <2>1, <2>2, <2>3, <2>4 DEF Kept
<1>8. CASE At(2) /\ Push(U16High(pc)) /\ Continue /\ UNCHANGED <<pc, status>>
  <2>1. k' = 3 /\ k = 2 /\ reg' = reg /\ UNCHANGED <<pc, status>>
    BY <1>8 DEF At, Continue, ContinueWith, Push, k
  <2>2. Stacked(s, w, p, 1)'
    BY <1>5, <1>8, <2>1, StackedPush
  <2> QED
    BY <1>4, <1>5, <1>6, <1>8, <2>1, <2>2
<1>9. CASE At(3) /\ Push(U16Low(pc)) /\ Continue /\ UNCHANGED <<pc, status>>
  <2>1. k' = 4 /\ k = 3 /\ reg' = reg /\ UNCHANGED <<pc, status>>
    BY <1>9 DEF At, Continue, ContinueWith, Push, k
  <2>2. Stacked(s, w, p, 2)'
    BY <1>5, <1>9, <2>1, StackedPush
  <2> QED
    BY <1>4, <1>5, <1>6, <1>9, <2>1, <2>2
<1>10. CASE /\ At(4) /\ Push(FromBits(status \cup {break_command, unused}))
            /\ status' = (status \cup {break_command, unused}) \cup {interrupt_disable}
            /\ Continue /\ UNCHANGED pc
  <2>1. k' = 5 /\ k = 4 /\ reg' = reg
    BY <1>10 DEF At, Continue, ContinueWith, Push, k
  <2>2. status \cup {break_command, unused} = p
    BY <1>5, <2>1 DEF p
  <2>3. Stacked(s, w, p, 3)' /\ status' = p \cup {interrupt_disable}
    BY <1>5, <1>10, <2>1, <2>2, StackedPush
  <2> QED
    BY <1>4, <1>5, <1>6, <1>10, <2>1, <2>3
<1>11. CASE At(5) /\ VectorByte(IRQVector, CombineToU16(U16High(pc), Read(IRQVector))) /\ Continue
  <2>1. /\ k' = 6 /\ k = 5 /\ UNCHANGED <<sp, reg, status, memory>>
        /\ pc' = CombineToU16(U16High(pc), Read(IRQVector))
    BY <1>11 DEF At, Continue, ContinueWith, VectorByte, k
  <2>2. Stacked(s, w, p, 3)'
    BY <1>5, <2>1, StackedPush
  <2>3. U16Low(pc') = Read(IRQVector)'
    <3>1. U16High(pc) \in Byte /\ Read(IRQVector) \in Byte
      BY U16HighType, ReadType DEF InstructionUnderway, MachineType
    <3>2. U16Low(pc') = Read(IRQVector)
      BY <2>1, <3>1, CombineParts
    <3> QED
      BY <2>1, <3>2 DEF Read
  <2> QED
    BY <1>4, <1>5, <1>6, <1>11, <2>1, <2>2, <2>3
<1>12. CASE At(6) /\ VectorByte(IRQVector + 1, CombineToU16(Read(IRQVector + 1), U16Low(pc)))
            /\ Finish
  <2>1. /\ k' = 0 /\ k = 6 /\ UNCHANGED <<sp, reg, status, memory>>
        /\ pc' = CombineToU16(Read(IRQVector + 1), U16Low(pc))
    BY <1>12 DEF At, Finish, VectorByte, k
  <2>2. memory = Third(s, w, p) /\ sp = Dec8(Dec8(Dec8(s.sp)))
    BY <1>5, <2>1, StackedBytes
  <2>3. pc' = WordAt(memory, IRQVector)
    BY <1>5, <2>1, VectorWord
  <2>4. Machine' = State(WordAt(Third(s, w, p), IRQVector), Dec8(Dec8(Dec8(s.sp))), s.reg,
                         p \cup {interrupt_disable}, Third(s, w, p))
    BY <1>5, <2>1, <2>2, <2>3, MachineAfter
  <2>5. Machine' = Processor!ImpliedEffect(i.name, Begun(s))
    BY <1>5, <2>4, BreakEffect DEF p, w
  <2> QED
    BY <1>1, <2>1, <2>5, ImpliedCompletes DEF Begun, Performed, k
<1>13. IRQVector = 65534 /\ IRQVector + 1 = 65535
  BY SMT DEF IRQVector
<1> QED
  BY <1>2, <1>7, <1>8, <1>9, <1>10, <1>11, <1>12, <1>13, SMT DEF BRK

\* The jumps and the branches set pc; a branch that is taken costs extra.
LEMMA JumpEffects ==
    ASSUME NEW i, NEW s, MachineState(s), Entry(i), Row(i)
    PROVE  LET next   == Add16(s.pc, 2)
               target == Processor!TakenTarget(s)
               goes(w) == State(w, s.sp, s.reg, s.status, s.memory)
           IN  /\ i.name = "JMP" /\ i.mode = "Absolute" =>
                    Processor!Effect(i, s) = goes(OperandW(s))
               /\ i.name = "JMP" /\ i.mode = "Indirect" =>
                    Processor!Effect(i, s) = goes(PointerAt(s.memory, OperandW(s)))
               /\ i.name = "JSR" =>
                    Processor!Effect(i, s) =
                      State(CombineToU16(Cell(Second(s, next), next), Operand(s)),
                            Dec8(Dec8(s.sp)), s.reg, s.status, Second(s, next))
               /\ i.name \in Branches /\ ExecuteCondition(i.name, s.status) =>
                    Processor!Effect(i, s) = goes(target)
               /\ i.name \in Branches /\ ~ExecuteCondition(i.name, s.status) =>
                    Processor!Effect(i, s) = goes(next)
               /\ i.name \in {"JMP", "JSR"} => Processor!Penalty(i, s) = 0
               /\ i.name \in Branches =>
                    Processor!Penalty(i, s) =
                      IF ~ExecuteCondition(i.name, s.status) THEN 0
                      ELSE IF U16High(target) # U16High(next) THEN 2 ELSE 1
<1> DEFINE next   == Add16(s.pc, 2)
           target == Processor!TakenTarget(s)
<1>1. s = State(s.pc, s.sp, s.reg, s.status, s.memory)
  BY DEF MachineState
<1>2. \A w : Processor!Goto(s, w) = State(w, s.sp, s.reg, s.status, s.memory)
  BY <1>1, Changes
<1>3. i.name \in {"JMP", "JSR"} => i.name \notin Branches /\ i.name \notin Loads \cup Binary
  BY DEF Branches, Loads, Binary
<1>4. i.name \in Branches =>
        i.name \notin {"JMP", "JSR"} /\ i.name \notin Loads \cup Binary /\ i.mode = "Relative"
  BY DEF Branches, Loads, Binary, Entry
<1>5. i.name = "JMP" /\ i.mode = "Absolute" =>
        Processor!Effect(i, s) = Processor!Goto(s, OperandW(s))
  <2> SUFFICES ASSUME i.name = "JMP", i.mode = "Absolute"
               PROVE  Processor!Effect(i, s) = Processor!Goto(s, OperandW(s))
    OBVIOUS
  <2>1. i.mode # "Indirect" /\ i.mode # "Implied" /\ i.name # "JSR"
    OBVIOUS
  <2> QED
    BY <1>3, <2>1, SameNames, SameWords DEF Processor!Effect
<1>6. i.name = "JMP" /\ i.mode = "Indirect" =>
        Processor!Effect(i, s) = Processor!Goto(s, PointerAt(s.memory, OperandW(s)))
  <2> SUFFICES ASSUME i.name = "JMP", i.mode = "Indirect"
               PROVE  Processor!Effect(i, s) =
                        Processor!Goto(s, PointerAt(s.memory, OperandW(s)))
    OBVIOUS
  <2>1. i.mode # "Absolute" /\ i.mode # "Implied" /\ i.name # "JSR"
    OBVIOUS
  <2> QED
    BY <1>3, <2>1, SameNames, SameWords DEF Processor!Effect
<1>7. i.name = "JSR" => Processor!Effect(i, s) = Processor!JumpToSubroutine(s)
  <2> SUFFICES ASSUME i.name = "JSR"
               PROVE  Processor!Effect(i, s) = Processor!JumpToSubroutine(s)
    OBVIOUS
  <2>1. i.mode # "Implied" /\ i.name # "JMP"
    BY DEF Row, JumpRow
  <2> QED
    BY <1>3, <2>1, SameNames DEF Processor!Effect
<1>8. i.name \in Branches =>
        Processor!Effect(i, s) =
          IF ExecuteCondition(i.name, s.status) THEN Processor!Goto(s, target)
          ELSE Processor!Goto(s, next)
  <2> SUFFICES ASSUME i.name \in Branches
               PROVE  Processor!Effect(i, s) =
                        IF ExecuteCondition(i.name, s.status) THEN Processor!Goto(s, target)
                        ELSE Processor!Goto(s, next)
    OBVIOUS
  <2>1. Processor!Length(i.mode) = 2
    BY <1>4, SameModes DEF Length
  <2> QED
    BY <1>4, <2>1, SameNames, SameMemory, SameCondition DEF Processor!Effect
<1>9. i.name \in {"JMP", "JSR"} => Processor!Penalty(i, s) = 0
  BY <1>3, SameNames DEF Processor!Penalty
<1>10. i.name \in Branches =>
         Processor!Penalty(i, s) =
           IF ~ExecuteCondition(i.name, s.status) THEN 0
           ELSE IF U16High(target) # U16High(next) THEN 2 ELSE 1
  BY <1>4, SameNames, SameMemory, SameCondition DEF Processor!Penalty
<1> HIDE DEF next, target
<1> QED
  BY <1>2, <1>5, <1>6, <1>7, <1>8, <1>9, <1>10, CallState DEF next, target

LEMMA JSRPerformed ==
    ASSUME NEW i, NEW s, InstructionUnderway(i, s), i.name = "JSR", JSR
    PROVE  Performed(i, s)
<1> DEFINE w == Add16(s.pc, 2)
           k == instruction_cycle
           p == s.status
<1>1. i.mode = "Absolute" /\ i.cycles = 6 /\ i.name \notin Loads \cup Binary
  BY DEF InstructionUnderway, Row, JumpRow, Loads, Binary
<1>2. k \in 1 .. 5 /\ ~InvalidCycle(5)
  BY <1>1, PlainCycles
<1>3. JSRProgress(s)
  BY JumpBegun DEF InstructionUnderway
<1>4. ASSUME Continue, JSRProgress(s)' PROVE Performed(i, s)
  BY <1>4, ContinueResumes, JumpBegun DEF Performed
<1>5. /\ MachineState(s) /\ reg = s.reg /\ status = s.status
      /\ k \in 2 .. 5 => pc = w /\ ZP = Operand(s)
      /\ k \in 2 .. 3 => Stacked(s, w, p, 0)
      /\ k = 4 => Stacked(s, w, p, 1)
      /\ k = 5 => Stacked(s, w, p, 2)
  BY <1>3, SMT DEF JSRProgress, InstructionUnderway, From, At, Advanced
<1>6. ASSUME k' = k + 1, reg' = s.reg, status' = s.status, pc' = w, ZP' = Operand(s),
             k' \in 2 .. 3 => Stacked(s, w, p, 0)',
             k' = 4 => Stacked(s, w, p, 1)',
             k' = 5 => Stacked(s, w, p, 2)',
             k' \in 2 .. 5
      PROVE  JSRProgress(s)'
  BY <1>6, SMT DEF JSRProgress, From, At, Advanced
<1> HIDE DEF w, k, p
<1>7. CASE At(1) /\ Fetch("adl") /\ Continue
  <2>1. k' = 2 /\ k = 1 /\ UNCHANGED <<sp, reg, status, memory>> /\ pc' = Inc16(pc)
    BY <1>7 DEF At, Continue, ContinueWith, Fetch, k
  <2>2. Kept(s) /\ pc = Add16(s.pc, 1)
    BY <1>7 DEF InstructionUnderway, InstructionBegun, Advanced
  <2>3. pc' = w
    BY <1>5, <2>1, <2>2, NextBytes DEF MachineState, w
  <2>4. Stacked(s, w, p, 0)'
    BY <1>5, <2>1, <2>2, StackedBytes, StackedPush DEF Kept
  <2>5. ZP' = Operand(s)
    <3>1. ZP' = Read(pc)
      BY <1>7 DEF Fetch, ZP, InstructionUnderway, MachineType, Latch
    <3> QED
      BY <2>2, <3>1, ReadIsCell DEF Operand, Kept
  <2> QED
    BY <1>4, <1>6, <1>7, <2>1, <2>2, <2>3, <2>4, <2>5 DEF Kept
<1>8. CASE At(2) /\ Continue /\ UNCHANGED <<pc, sp, reg, status, latch, memory>>
  <2>1. k' = 3 /\ k = 2 /\ ZP' = ZP
    BY <1>8 DEF At, Continue, ContinueWith, k, ZP
  <2>2. Stacked(s, w, p, 0)'
    BY <1>5, <1>8, <2>1, StackedPush
  <2> QED
    BY <1>4, <1>5, <1>6, <1>8, <2>1, <2>2
<1>9. CASE At(3) /\ Push(U16High(pc)) /\ Continue /\ UNCHANGED <<pc, status>>
  <2>1. k' = 4 /\ k = 3 /\ reg' = reg /\ UNCHANGED <<pc, status>> /\ ZP' = ZP
    BY <1>9 DEF At, Continue, ContinueWith, Push, k, ZP
  <2>2. Stacked(s, w, p, 1)'
    BY <1>5, <1>9, <2>1, StackedPush
  <2> QED
    BY <1>4, <1>5, <1>6, <1>9, <2>1, <2>2
<1>10. CASE At(4) /\ Push(U16Low(pc)) /\ Continue /\ UNCHANGED <<pc, status>>
  <2>1. k' = 5 /\ k = 4 /\ reg' = reg /\ UNCHANGED <<pc, status>> /\ ZP' = ZP
    BY <1>10 DEF At, Continue, ContinueWith, Push, k, ZP
  <2>2. Stacked(s, w, p, 2)'
    BY <1>5, <1>10, <2>1, StackedPush
  <2> QED
    BY <1>4, <1>5, <1>6, <1>10, <2>1, <2>2
<1>11. CASE At(5) /\ pc' = CombineToU16(Read(pc), ZP) /\ Finish
            /\ UNCHANGED <<sp, reg, status, memory>>
  <2>1. k' = 0 /\ k = 5
    BY <1>11 DEF At, Finish, k
  <2>2. memory = Second(s, w) /\ sp = Dec8(Dec8(s.sp))
    BY <1>5, <2>1, StackedBytes
  <2>3. pc' = CombineToU16(Cell(Second(s, w), w), Operand(s))
    BY <1>5, <1>11, <2>1, <2>2, ReadIsCell
  <2>4. Machine' = State(CombineToU16(Cell(Second(s, w), w), Operand(s)),
                         Dec8(Dec8(s.sp)), s.reg, s.status, Second(s, w))
    BY <1>5, <1>11, <2>2, <2>3, MachineAfter
  <2>5. Machine' = Processor!Effect(i, s) /\ Processor!Penalty(i, s) = 0
    BY <2>4, JumpEffects DEF InstructionUnderway, w
  <2> QED
    BY <1>1, <2>1, <2>5 DEF Completes, Performed, k
<1> QED
  BY <1>2, <1>7, <1>8, <1>9, <1>10, <1>11 DEF JSR, ZP

LEMMA JMPAbsolutePerformed ==
    ASSUME NEW i, NEW s, InstructionUnderway(i, s), i.name = "JMP", i.mode = "Absolute",
           JMPAbsolute
    PROVE  Performed(i, s)
<1>1. i.cycles = 3 /\ i.name \notin Loads \cup Binary
  BY DEF InstructionUnderway, Row, JumpRow, Loads, Binary
<1>2. instruction_cycle \in 1 .. 2 /\ ~InvalidCycle(2)
  BY <1>1, PlainCycles
<1>3. JMPProgress(i.mode, s) /\ MachineState(s)
  BY JumpBegun DEF InstructionUnderway
<1>4. CASE At(1) /\ Fetch("op_latch") /\ Continue
  <2>1. pc = Add16(s.pc, 1) /\ Kept(s)
    BY <1>4 DEF InstructionUnderway, InstructionBegun, Advanced
  <2>2. /\ instruction_cycle' = 2 /\ pc' = Inc16(pc) /\ UNCHANGED <<sp, reg, status, memory>>
    BY <1>4 DEF At, Continue, ContinueWith, Fetch
  <2>3. Pointer' = Operand(s)
    <3>1. Pointer' = Read(pc)
      BY <1>4 DEF Fetch, Pointer, InstructionUnderway, MachineType, Latch
    <3> QED
      BY <2>1, <3>1, ReadIsCell DEF Operand, Kept
  <2>4. pc' = Add16(s.pc, 2)
    BY <1>3, <2>1, <2>2, NextBytes DEF MachineState
  <2>5. JMPProgress(i.mode, s)'
    BY <2>1, <2>2, <2>3, <2>4 DEF JMPProgress, Kept, At, Advanced
  <2> QED
    BY <1>4, <2>5, ContinueResumes, JumpBegun DEF Performed
<1>5. CASE At(2) /\ pc' = CombineToU16(Read(pc), Pointer) /\ Finish
           /\ UNCHANGED <<sp, reg, status, memory>>
  <2>1. Kept(s) /\ pc = Add16(s.pc, 2) /\ Pointer = Operand(s)
    BY <1>3, <1>5 DEF JMPProgress, Advanced
  <2>2. pc' = OperandW(s)
    BY <1>3, <1>5, <2>1, OperandBytes, ReadIsCell DEF Kept
  <2>3. Machine' = State(OperandW(s), s.sp, s.reg, s.status, s.memory)
    BY <1>5, <2>1, <2>2, MachineAfter DEF Kept
  <2>4. Machine' = Processor!Effect(i, s) /\ Processor!Penalty(i, s) = 0
    BY <2>3, JumpEffects DEF InstructionUnderway
  <2> QED
    BY <1>1, <1>5, <2>4 DEF Completes, Performed, At, Finish
<1> QED
  BY <1>2, <1>4, <1>5 DEF JMPAbsolute

LEMMA JMPIndirectPerformed ==
    ASSUME NEW i, NEW s, InstructionUnderway(i, s), i.name = "JMP", i.mode = "Indirect",
           JMPIndirect
    PROVE  Performed(i, s)
<1> DEFINE a == OperandW(s)
           k == instruction_cycle
<1>1. i.cycles = 5 /\ i.name \notin Loads \cup Binary
  BY DEF InstructionUnderway, Row, JumpRow, Loads, Binary
<1>2. k \in 1 .. 4 /\ ~InvalidCycle(4)
  BY <1>1, PlainCycles
<1>3. JMPProgress(i.mode, s) /\ MachineState(s)
  BY JumpBegun DEF InstructionUnderway
<1>4. ASSUME Continue, JMPProgress(i.mode, s)' PROVE Performed(i, s)
  BY <1>4, ContinueResumes, JumpBegun DEF Performed
<1>5. Kept(s) /\ latch \in [Latch -> Byte]
  BY <1>3 DEF JMPProgress, InstructionUnderway, MachineType
<1>6. CASE At(1) /\ Fetch("adl") /\ Continue
  <2>1. pc = Add16(s.pc, 1)
    BY <1>6 DEF InstructionUnderway, InstructionBegun, Advanced
  <2>2. k' = 2 /\ pc' = Inc16(pc) /\ UNCHANGED <<sp, reg, status, memory>>
    BY <1>6 DEF At, Continue, ContinueWith, Fetch
  <2>3. ZP' = Operand(s)
    <3>1. ZP' = Read(pc)
      BY <1>5, <1>6 DEF Fetch, ZP, Latch
    <3> QED
      BY <1>5, <2>1, <3>1, ReadIsCell DEF Operand, Kept
  <2>4. pc' = Add16(s.pc, 2)
    BY <1>3, <2>1, <2>2, NextBytes DEF MachineState
  <2>5. JMPProgress(i.mode, s)'
    BY <1>5, <2>2, <2>3, <2>4 DEF JMPProgress, Kept, At, From, Advanced
  <2> QED
    BY <1>4, <1>6, <2>5
<1>7. CASE At(2) /\ Fetch("adh") /\ Continue
  <2>1. pc = Add16(s.pc, 2) /\ ZP = Operand(s)
    BY <1>3, <1>7 DEF JMPProgress, Advanced
  <2>2. k' = 3 /\ UNCHANGED <<sp, reg, status, memory>>
    BY <1>7 DEF At, Continue, ContinueWith, Fetch
  <2>3. EA' = CombineToU16(Read(pc), ZP)
    BY <1>5, <1>7 DEF Fetch, EA, ZP, Latch
  <2>4. EA' = a
    BY <1>3, <1>5, <2>1, <2>3, OperandBytes, ReadIsCell DEF Kept
  <2>5. JMPProgress(i.mode, s)'
    BY <1>5, <2>2, <2>4 DEF JMPProgress, Kept, At, From, Advanced
  <2> QED
    BY <1>4, <1>7, <2>5
<1>8. CASE At(3) /\ ReadTo("op_latch", EA) /\ Continue
  <2>1. EA = a
    BY <1>3, <1>8 DEF JMPProgress, At, From
  <2>2. k' = 4 /\ UNCHANGED <<sp, reg, status, memory>>
    BY <1>8 DEF At, Continue, ContinueWith, ReadTo
  <2>3. EA' = EA /\ Pointer' = Read(EA)
    BY <1>5, <1>8 DEF ReadTo, EA, Pointer, Latch
  <2>4. Pointer' = Cell(s.memory, a)
    BY <1>5, <2>1, <2>3, ReadIsCell DEF Kept
  <2>5. JMPProgress(i.mode, s)'
    BY <1>5, <2>1, <2>2, <2>3, <2>4 DEF JMPProgress, Kept, At, From, Advanced
  <2> QED
    BY <1>4, <1>8, <2>5
<1>9. CASE /\ At(4)
           /\ pc' = CombineToU16(Read(CombineToU16(latch["adh"], Inc8(latch["adl"]))), Pointer)
           /\ Finish /\ UNCHANGED <<sp, reg, status, memory>>
  <2>1. EA = a /\ Pointer = Cell(s.memory, a)
    BY <1>3, <1>9 DEF JMPProgress, At, From
  <2>2. latch["adh"] = U16High(a) /\ latch["adl"] = U16Low(a)
    BY <1>5, <2>1, CombineParts DEF EA, Latch
  <2>3. pc' = PointerAt(s.memory, a)
    BY <1>5, <1>9, <2>1, <2>2, ReadIsCell DEF PointerAt, Kept
  <2>4. Machine' = State(PointerAt(s.memory, a), s.sp, s.reg, s.status, s.memory)
    BY <1>5, <1>9, <2>3, MachineAfter DEF Kept
  <2>5. Machine' = Processor!Effect(i, s) /\ Processor!Penalty(i, s) = 0
    BY <2>4, JumpEffects DEF InstructionUnderway
  <2> QED
    BY <1>1, <1>9, <2>5 DEF Completes, Performed, At, Finish
<1> QED
  BY <1>2, <1>6, <1>7, <1>8, <1>9 DEF JMPIndirect, Absolute

LEMMA ExecuteJumpPerformed ==
    ASSUME NEW i, NEW s, InstructionUnderway(i, s), ExecuteJump(i)
    PROVE  Performed(i, s)
BY JMPAbsolutePerformed, JMPIndirectPerformed, JSRPerformed, RTSPerformed, RTIPerformed,
   BRKPerformed DEF ExecuteJump

-----------------------------------------------------------------------------
(* The branches.                                                           *)

\* pc plus the operand as an i8 is the target of a branch.
LEMMA TargetTaken ==
    ASSUME NEW s, MachineState(s), pc = Add16(s.pc, 2), Pointer = Operand(s)
    PROVE  BranchTarget = Processor!TakenTarget(s) /\ BranchTarget \in Word
<1>1. Pointer \in Byte /\ pc \in Word
  BY OperandType, Add16Type DEF MachineState
<1>2. Processor!TakenTarget(s) =
        IF Pointer < 128 THEN Add16(pc, Pointer) ELSE Add16(pc, 65536 + Pointer - 256)
  BY SameMemory, SameWords DEF Processor!TakenTarget
<1>3. BranchTarget = (pc + Pointer + (IF Pointer >= 128 THEN 65280 ELSE 0)) % 65536
  BY DEF BranchTarget, Negative
<1> HIDE DEF Pointer, BranchTarget
<1>4. CASE Pointer < 128
  <2>1. BranchTarget = (pc + Pointer) % 65536
    BY <1>1, <1>3, <1>4 DEF Byte, Word
  <2> QED
    BY <1>1, <1>2, <1>4, <2>1 DEF Add16, Byte, Word
<1>5. CASE ~(Pointer < 128)
  <2>1. BranchTarget = (pc + Pointer + 65280) % 65536
    BY <1>1, <1>3, <1>5 DEF Byte, Word
  <2>2. 65536 + Pointer - 256 = Pointer + 65280
    BY <1>1 DEF Byte
  <2> QED
    BY <1>1, <1>2, <1>5, <2>1, <2>2 DEF Add16, Byte, Word
<1> QED
  BY <1>4, <1>5

LEMMA ExecuteBranchPerformed ==
    ASSUME NEW i, NEW s, InstructionUnderway(i, s), ExecuteBranch(i)
    PROVE  Performed(i, s)
<1> DEFINE next   == Add16(s.pc, 2)
           target == Processor!TakenTarget(s)
           k      == instruction_cycle
           taken  == ExecuteCondition(i.name, s.status)
           goes(w) == State(w, s.sp, s.reg, s.status, s.memory)
<1>1. i.mode = "Relative" /\ i.name \in Branches /\ i.cycles = 2 /\ RelativeBranch(i.name)
  BY DEF ExecuteBranch, InstructionUnderway, Entry
<1>2. k \in 1 .. 3 /\ ~InvalidCycle(3)
  BY <1>1 DEF InstructionUnderway, InstructionInProgress, InProgress, LastCycle, InvalidCycle
<1>3. BranchProgress(i.name, s) /\ MachineState(s)
  BY <1>1, JumpBegun DEF InstructionUnderway
<1>4. Kept(s) /\ latch \in [Latch -> Byte]
  BY <1>3 DEF BranchProgress, InstructionUnderway, MachineType
<1>5. ASSUME k' = k + 1, BranchProgress(i.name, s)' PROVE Performed(i, s)
  <2>1. ~At(1)'
    BY <1>2, <1>5, SMT DEF At
  <2> QED
    BY <1>1, <1>5, <2>1, JumpBegun DEF Performed, Resumes
<1>6. ASSUME k' = 0, NEW w, pc' = w, UNCHANGED <<sp, reg, status, memory>>
      PROVE  Machine' = goes(w)
  BY <1>4, <1>6, MachineAfter DEF Kept
<1>7. /\ ~taken => Processor!Effect(i, s) = goes(next) /\ Processor!Penalty(i, s) = 0
      /\ taken => Processor!Effect(i, s) = goes(target)
      /\ taken /\ U16High(target) = U16High(next) => Processor!Penalty(i, s) = 1
      /\ taken /\ U16High(target) # U16High(next) => Processor!Penalty(i, s) = 2
  BY <1>1, JumpEffects DEF InstructionUnderway
<1>8. next \in Word /\ target \in Word
  <2>1. Operand(s) \in Byte /\ next \in Word
    BY <1>3, OperandType, Add16Type DEF MachineState
  <2>2. target = IF Operand(s) < 128 THEN Add16(next, Operand(s))
                 ELSE Add16(next, 65536 + Operand(s) - 256)
    BY SameMemory, SameWords DEF Processor!TakenTarget
  <2>3. Operand(s) \in Nat /\ 65536 + Operand(s) - 256 \in Nat
    BY <2>1 DEF Byte
  <2> QED
    BY <2>1, <2>2, <2>3, Add16Type
<1>9. ASSUME k' = 0, Machine' = Processor!Effect(i, s), k + 1 = 2 + Processor!Penalty(i, s)
      PROVE  Performed(i, s)
  BY <1>1, <1>9 DEF Performed, Completes
<1>10. CASE /\ At(1) /\ Fetch("op_latch")
            /\ k' = IF ExecuteCondition(i.name, status) THEN 2 ELSE 0
  <2>1. pc = Add16(s.pc, 1)
    BY <1>10 DEF InstructionUnderway, InstructionBegun, Advanced
  <2>2. k = 1 /\ pc' = Inc16(pc) /\ UNCHANGED <<sp, reg, status, memory>>
    BY <1>10 DEF At, Fetch
  <2>3. pc' = next
    BY <1>3, <2>1, <2>2, NextBytes DEF MachineState
  <2>4. Pointer' = Operand(s)
    <3>1. Pointer' = Read(pc)
      BY <1>4, <1>10 DEF Fetch, Pointer, Latch
    <3> QED
      BY <1>4, <2>1, <3>1, ReadIsCell DEF Operand, Kept
  <2>5. CASE taken
    <3>1. k' = 2
      BY <1>4, <1>10, <2>5 DEF Kept
    <3>2. BranchProgress(i.name, s)'
      BY <1>4, <2>2, <2>3, <2>4, <2>5, <3>1 DEF BranchProgress, Kept, At, From
    <3> QED
      BY <1>5, <2>2, <3>1, <3>2
  <2>6. CASE ~taken
    <3>1. k' = 0
      BY <1>4, <1>10, <2>6 DEF Kept
    <3> QED
      BY <1>6, <1>7, <1>9, <2>2, <2>3, <2>6, <3>1
  <2> QED
    BY <2>5, <2>6
<1>11. CASE /\ At(2)
            /\ page_crossed' = (U16High(BranchTarget) # U16High(pc))
            /\ pc' = CombineToU16(U16High(pc), U16Low(BranchTarget))
            /\ latch' = IF page_crossed'
                        THEN [latch EXCEPT !["op_latch"] = U16High(BranchTarget)]
                        ELSE latch
            /\ k' = IF page_crossed' THEN 3 ELSE 0
            /\ UNCHANGED <<sp, reg, status, memory>>
  <2>1. k = 2 /\ taken /\ pc = next /\ Pointer = Operand(s)
    BY <1>3, <1>11 DEF BranchProgress, At, From
  <2>2. BranchTarget = target
    BY <1>3, <2>1, TargetTaken
  <2>3. U16High(next) \in Byte /\ U16Low(target) \in Byte
    BY <1>8, U16HighType, U16LowType, WordIsNat
  <2>4. CASE U16High(target) # U16High(next)
    <3>1. k' = 3 /\ pc' = CombineToU16(U16High(next), U16Low(target))
      BY <1>11, <2>1, <2>2, <2>4
    <3>2. Pointer' = U16High(target)
      BY <1>4, <1>11, <2>1, <2>2, <2>4 DEF Pointer, Latch
    <3>3. U16Low(pc') = U16Low(target)
      BY <2>3, <3>1, CombineParts
    <3>4. BranchProgress(i.name, s)'
      BY <1>4, <1>11, <2>1, <2>4, <3>1, <3>2, <3>3 DEF BranchProgress, Kept, At, From
    <3> QED
      BY <1>5, <2>1, <3>1, <3>4
  <2>5. CASE U16High(target) = U16High(next)
    <3>1. k' = 0 /\ pc' = CombineToU16(U16High(target), U16Low(target))
      BY <1>11, <2>1, <2>2, <2>5
    <3>2. pc' = target
      BY <1>8, <3>1, PartsCombine
    <3> QED
      BY <1>6, <1>7, <1>9, <1>11, <2>1, <2>5, <3>1, <3>2
  <2> QED
    BY <2>4, <2>5
<1>12. CASE /\ At(3)
            /\ pc' = CombineToU16(Pointer, U16Low(pc))
            /\ FinishCrossed
            /\ UNCHANGED <<sp, reg, status, latch, memory>>
  <2>1. /\ k = 3 /\ k' = 0 /\ taken /\ Pointer = U16High(target)
        /\ U16High(target) # U16High(next) /\ U16Low(pc) = U16Low(target)
    BY <1>3, <1>12 DEF BranchProgress, At, From, FinishCrossed
  <2>2. pc' = target
    BY <1>8, <1>12, <2>1, PartsCombine
  <2> QED
    BY <1>6, <1>7, <1>9, <1>12, <2>1, <2>2
<1> QED
  BY <1>1, <1>2, <1>10, <1>11, <1>12 DEF RelativeBranch

-----------------------------------------------------------------------------
(* Any cycle of any instruction.                                           *)

\* Whatever the instruction, a cycle brings it a step further or completes it;
\* if it has an operand in memory, the bus sees the access listed for the cycle.
LEMMA InstructionPerformed ==
    ASSUME NEW i, NEW s, InstructionUnderway(i, s), Executes(i)
    PROVE  Performed(i, s) /\ (HasOperand(i) => Accessed(i, s))
<1>1. CASE HasOperand(i)
  BY <1>1, OperandExecuted DEF OperandPerformed, Performed
<1>2. CASE ~HasOperand(i)
  <2>1. ~ExecuteLoad(i) /\ ~ExecuteStore(i) /\ ~ExecuteRegisterOperation(i)
    <3>1. i.name \notin Loads \cup Stores \cup Binary
      BY <1>2 DEF InstructionUnderway, Entry, HasOperand, OperandModes
    <3> QED
      BY <3>1, Dispatched DEF ExecuteLoad, ExecuteStore, ExecuteRegisterOperation
  <2>2. ExecuteModify(i) => i.mode = "Implied"
    BY <1>2, Dispatched DEF ExecuteModify, HasOperand
  <2> QED
    BY <1>2, <2>1, <2>2, ExecuteImpliedPerformed, ExecuteTransferPerformed,
       ExecuteStackPerformed, ExecuteJumpPerformed, ExecuteBranchPerformed,
       ExecuteFlagPerformed DEF Executes, Performed
<1> QED
  BY <1>1, <1>2

-----------------------------------------------------------------------------
(* What a reset has done when it reaches its next cycle, and what it       *)
(* leaves.                                                                 *)

\* What the reset has established when it reaches its next cycle.
ResetProgress ==
    glabal_mode = "RESET" =>
      /\ interrupt_cycle = 1 => status = {}
      /\ interrupt_cycle >= 1 => instruction_cycle = 0
      /\ interrupt_cycle >= 2 => sp = 253 /\ status = {interrupt_disable, unused}
      /\ interrupt_cycle >= 3 => pc_adl = Read(ResetVector)
      /\ interrupt_cycle >= 4 => pc_adh = Read(ResetVector + 1)

ResetInvariant == TypeOK /\ CycleInvariant /\ ResetProgress

\* The action of ResetOutcome.
Outcomes ==
    glabal_mode = "RESET" /\ glabal_mode' = "RUN" =>
      /\ pc' = CombineToU16(Read(ResetVector + 1), Read(ResetVector))
      /\ sp' = 253
      /\ status' = {interrupt_disable, unused}
      /\ instruction_cycle' = 0

LEMMA HandleResetProgress ==
    ASSUME ResetInvariant, glabal_mode = "RESET", HandleReset
    PROVE  ResetProgress' /\ Outcomes
<1>0. interrupt_cycle \in 0 .. 4
  BY DEF ResetInvariant, TypeOK, CycleInvariant, CycleDiscipline
<1>1. CASE interrupt_cycle = 0 /\ ResetCycle0
  BY <1>1 DEF ResetCycle0, ResetProgress, Outcomes
<1>2. CASE /\ interrupt_cycle = 1
           /\ sp' = 253
           /\ status' = status \cup {interrupt_disable, unused}
           /\ NextCycle
           /\ UNCHANGED <<instruction_cycle, memory>>
  BY <1>2 DEF ResetInvariant, ResetProgress, NextCycle, Outcomes
<1>3. CASE /\ interrupt_cycle = 2
           /\ DummyRead(ResetVector) /\ pc_adl' = Read(ResetVector)
           /\ NextCycle
           /\ UNCHANGED instruction_cycle
  BY <1>3 DEF ResetInvariant, ResetProgress, NextCycle, DummyRead, Read, Outcomes
<1>4. CASE /\ interrupt_cycle = 3
           /\ DummyRead(ResetVector + 1) /\ pc_adh' = Read(ResetVector + 1)
           /\ NextCycle
           /\ UNCHANGED <<pc_adl, instruction_cycle>>
  BY <1>4 DEF ResetInvariant, ResetProgress, NextCycle, DummyRead, Read, Outcomes
<1>5. CASE /\ interrupt_cycle = 4
           /\ pc' = CombineToU16(pc_adh, pc_adl)
           /\ ToRun
           /\ UNCHANGED <<sp, status, instruction_cycle>>
  BY <1>5 DEF ResetInvariant, ResetProgress, ToRun, Outcomes
<1> QED
  BY <1>0, <1>1, <1>2, <1>3, <1>4, <1>5 DEF HandleReset, InvalidInterruptCycle

LEMMA OtherModes ==
    ASSUME ResetInvariant, glabal_mode # "RESET", Step
    PROVE  ResetProgress' /\ Outcomes
<1>1. Execute => glabal_mode' = glabal_mode
  BY DEF Execute
<1>2. HandleInterrupt(NMIVector) \/ HandleInterrupt(IRQVector) =>
        glabal_mode' \in {glabal_mode, "RUN"}
  BY DEF HandleInterrupt, NextCycle, ToRun, InvalidInterruptCycle
<1>3. EnterNMI \/ EnterIRQ \/ FetchOpcode => glabal_mode' # "RESET"
  BY DEF EnterNMI, EnterIRQ, EnterInterrupt, FetchOpcode
<1>4. glabal_mode' # "RESET"
  BY <1>1, <1>2, <1>3 DEF Step
<1> QED
  BY <1>4 DEF ResetProgress, Outcomes

LEMMA NextProgress ==
    ASSUME ResetsAreClean, ResetInvariant, [Next]_vars
    PROVE  ResetProgress' /\ Outcomes
<1>1. CASE Step
  <2>1. CASE glabal_mode = "RESET"
    <3>1. HandleReset
      BY <1>1, <2>1 DEF Step
    <3> QED
      BY <2>1, <3>1, HandleResetProgress
  <2> QED
    BY <1>1, <2>1, OtherModes
<1>2. CASE Reset
  <2>1. glabal_mode \in {"RESET", "RUN"} /\ glabal_mode' = "RESET"
    BY <1>2 DEF Reset, ResetsAreClean
  <2>2. UNCHANGED <<interrupt_cycle, status, sp, pc_adl, pc_adh, memory, instruction_cycle>>
    BY <1>2 DEF Reset
  <2>3. CASE glabal_mode = "RUN"
    <3>1. interrupt_cycle' = 0
      BY <2>2, <2>3 DEF ResetInvariant, CycleInvariant, CycleDiscipline
    <3> QED
      BY <2>1, <3>1 DEF ResetProgress, Outcomes
  <2>4. CASE glabal_mode = "RESET"
    BY <2>1, <2>2, <2>4 DEF ResetInvariant, ResetProgress, Outcomes, Read
  <2> QED
    BY <2>1, <2>3, <2>4
<1>3. CASE SignalNMI \/ SignalIRQ \/ UNCHANGED vars
  <2>1. UNCHANGED <<glabal_mode, interrupt_cycle, status, sp, pc_adl, pc_adh,
                    memory, instruction_cycle>>
    BY <1>3 DEF SignalNMI, SignalIRQ, vars
  <2> QED
    BY <2>1 DEF ResetInvariant, ResetProgress, Outcomes, Read
<1> QED
  BY <1>1, <1>2, <1>3 DEF Next

\* HSpec only adds history and bounds to the CPU.
LEMMA HistoryStep == ASSUME [HNext]_allVars PROVE [Next]_vars
BY DEF HNext, HStep, HReset, HSignalNMI, HSignalIRQ, allVars, Next

\* With every reset requested in RUN mode or during a reset, at any cycle of
\* an instruction and whatever was signalled, the machine that starts to run is
\* the one reset.cpp expects: the vector in pc, 0xFD in sp, I and U in status
\* and no instruction in progress (Reset and HandleReset).
THEOREM ResetOutcomeHolds == ASSUME ResetsAreClean PROVE HSpec => ResetOutcome
<1>1. HInit => ResetInvariant
  <2>1. Init => ResetProgress
    BY DEF Init, ResetProgress
  <2> QED
    BY <2>1, InitType, InitInvariant DEF HInit, ResetInvariant
<1>2. ResetInvariant /\ [HNext]_allVars => ResetInvariant' /\ Outcomes
  BY HistoryStep, NextType, NextInvariant, NextProgress DEF ResetInvariant
<1>3. Outcomes <=> (glabal_mode = "RESET" /\ glabal_mode' = "RUN" =>
         /\ pc' = CombineToU16(Read(ResetVector + 1), Read(ResetVector))
         /\ sp' = 253
         /\ status' = {interrupt_disable, unused}
         /\ instruction_cycle' = 0)
  BY DEF Outcomes
<1> QED
  BY <1>1, <1>2, <1>3, PTL DEF HSpec, ResetOutcome

-----------------------------------------------------------------------------
(* The invariant, and the step of IsaSpec that each step of HSpec is.      *)

\* arch holds a machine, of the types of the CPU's own registers.
MachineKnown ==
    \E phase, s, n :
        arch = [phase |-> phase, m |-> s, cycles |-> n] /\ MachineState(s)

RefinementInvariant == ResetInvariant /\ MachineKnown /\ StepInProgress

\* A step of the processor or a stutter, which leaves the history as it must be.
Refines ==
    MachineKnown' /\ StepInProgress' /\ [Processor!Next]_(Processor!vars)

LEMMA Known ==
    ASSUME MachineKnown
    PROVE  /\ arch = [phase |-> arch.phase, m |-> arch.m, cycles |-> arch.cycles]
           /\ MachineState(arch.m)
BY DEF MachineKnown

\* The progress relative to a given machine.
LEMMA ProgressOf ==
    ASSUME NEW s
    PROVE  /\ StepInProgress /\ arch.m = s =>
                /\ glabal_mode = "RESET" => ResetInProgress(s)
                /\ glabal_mode = "RUN"   => RunInProgress(s)
                /\ glabal_mode = "NMI"   => HandlerInProgress(NMIVector, s)
                /\ glabal_mode = "IRQ"   => HandlerInProgress(IRQVector, s)
                                            /\ interrupt_disable \notin s.status
           /\ /\ arch'.m = s
              /\ glabal_mode' = "RESET" => ResetInProgress(s)'
              /\ glabal_mode' = "RUN"   => RunInProgress(s)'
              /\ glabal_mode' = "NMI"   => HandlerInProgress(NMIVector, s)'
              /\ glabal_mode' = "IRQ"   => HandlerInProgress(IRQVector, s)'
                                           /\ interrupt_disable \notin s.status
              => StepInProgress'
BY DEF StepInProgress

\* Within an instruction, an interrupt or a reset IsaSpec stands still.
LEMMA StandsStill ==
    ASSUME MachineKnown, arch' = arch, NEW s, s = arch.m,
           glabal_mode' = "RESET" => ResetInProgress(s)',
           glabal_mode' = "RUN"   => RunInProgress(s)',
           glabal_mode' = "NMI"   => HandlerInProgress(NMIVector, s)',
           glabal_mode' = "IRQ"   => HandlerInProgress(IRQVector, s)'
                                     /\ interrupt_disable \notin s.status
    PROVE  Refines
<1>1. MachineKnown'
  BY DEF MachineKnown
<1>2. StepInProgress'
  BY ProgressOf
<1>3. UNCHANGED Processor!vars
  BY DEF Processor!vars
<1> QED
  BY <1>1, <1>2, <1>3 DEF Refines

\* At a boundary the history catches up with the machine.
LEMMA CatchesUp ==
    ASSUME MachineType', Boundary', HStep
    PROVE  /\ MachineKnown' /\ StepInProgress'
           /\ arch'.phase = "run" /\ arch'.m = Machine' /\ arch'.cycles = spent + 1
<1>1. PICK t : t = Machine'
  OBVIOUS
<1>2. arch' = [phase |-> "run", m |-> t, cycles |-> spent + 1] /\ spent' = 0
  BY <1>1 DEF HStep
<1>3. MachineState(t)
  BY <1>1 DEF MachineType, MachineState, Machine, State
<1>4. arch'.phase = "run" /\ arch'.m = t /\ arch'.cycles = spent + 1
  BY <1>2
<1>5. MachineKnown'
  BY <1>2, <1>3 DEF MachineKnown
<1>6. RunInProgress(t)' /\ glabal_mode' = "RUN"
  BY <1>1, <1>2, <1>4 DEF RunInProgress, Boundary, At
<1> QED
  BY <1>1, <1>4, <1>5, <1>6, ProgressOf

-----------------------------------------------------------------------------
(* Steps in RUN mode.                                                      *)

\* What the history does when no boundary is reached.
LEMMA Spends ==
    ASSUME HStep, ~Boundary', spent \in 0 .. 7
    PROVE  arch' = arch /\ spent' = spent + 1
BY DEF HStep, MaxSpent

LEMMA UnderwayInstruction ==
    ASSUME ResetInvariant, NEW s, MachineState(s), RunInProgress(s), glabal_mode = "RUN",
           ~At(0), ir \in Opcodes, NEW i, i = Instructions[ir]
    PROVE  InstructionUnderway(i, s) /\ spent = instruction_cycle /\ ir = Cell(s.memory, s.pc)
<1>1. MachineType
  BY TypeParts DEF ResetInvariant
<1>2. InstructionInProgress(i)
  BY DEF ResetInvariant, CycleInvariant, CycleDiscipline, At
<1>3. Row(i) /\ Entry(i)
  BY InstructionEntry
<1>4. InstructionBegun(i, s) /\ spent = instruction_cycle /\ ir = Cell(s.memory, s.pc)
  BY DEF RunInProgress
<1> QED
  BY <1>1, <1>2, <1>3, <1>4 DEF InstructionUnderway

LEMMA ExecutesInstruction ==
    ASSUME ir \in Opcodes, NEW i, i = Instructions[ir], Execute
    PROVE  Executes(i) /\ glabal_mode' = glabal_mode /\ ir' = ir
<1>1. ~ExecuteUndefined
  BY InstructionRow DEF ExecuteUndefined, InvalidInstruction, E
<1> QED
  BY <1>1 DEF Execute, Executes

LEMMA ExecuteRefines ==
    ASSUME RefinementInvariant, MachineType', glabal_mode = "RUN", ~At(0), Execute, HStep
    PROVE  Refines
<1>1. PICK s : s = arch.m
  OBVIOUS
<1>2. ResetInvariant /\ MachineState(s) /\ RunInProgress(s)
  BY <1>1, Known, ProgressOf DEF RefinementInvariant
<1>3. glabal_mode' = "RUN" /\ ir' = ir /\ MachineKnown
  BY DEF Execute, RefinementInvariant
<1>4. CASE ir \in Opcodes
  <2>1. PICK i : i = Instructions[ir]
    OBVIOUS
  <2>2. InstructionUnderway(i, s) /\ spent = instruction_cycle /\ ir = Cell(s.memory, s.pc)
    BY <1>2, <1>4, <2>1, UnderwayInstruction
  <2>3. Performed(i, s)
    BY <1>4, <2>1, <2>2, ExecutesInstruction, InstructionPerformed
  <2>4. instruction_cycle \in 1 .. 6
    BY <1>2 DEF ResetInvariant, TypeOK, At
  <2>5. CASE Resumes(i, s)
    <3>1. instruction_cycle' = instruction_cycle + 1 /\ instruction_cycle' # 0
      BY <2>4, <2>5 DEF Resumes
    <3>2. arch' = arch /\ spent' = spent + 1
      BY <2>2, <2>4, <3>1, Spends DEF Boundary
    <3>3. InstructionBegun(Instructions[ir], s)'
      BY <1>3, <2>1, <2>5 DEF Resumes
    <3>4. RunInProgress(s)'
      BY <1>2, <1>3, <1>4, <2>2, <3>1, <3>2, <3>3 DEF RunInProgress, At
    <3> QED
      BY <1>1, <1>3, <3>2, <3>4, StandsStill
  <2>6. CASE Completes(i, s)
    <3>1. Boundary'
      BY <1>3, <2>6 DEF Completes, Boundary
    <3>2. /\ MachineKnown' /\ StepInProgress'
          /\ arch'.phase = "run" /\ arch'.m = Machine' /\ arch'.cycles = spent + 1
      BY <3>1, CatchesUp
    <3>3. Machine' = Processor!Effect(i, s) /\ spent + 1 = i.cycles + Processor!Penalty(i, s)
      BY <2>2, <2>6 DEF Completes
    <3>4. Processor!Instruction
      <4>1. arch.phase = "run"
        BY <1>2 DEF RunInProgress
      <4>2. Processor!Cell(s.memory, s.pc) = ir
        BY <2>2, SameMemory
      <4>3. Processor!Instructions[ir] = i /\ ir \in Processor!Opcodes
        BY <1>4, <2>1, SameTable
      <4> QED
        BY <1>1, <3>2, <3>3, <4>1, <4>2, <4>3 DEF Processor!Instruction
    <3> QED
      BY <3>2, <3>4 DEF Refines, Processor!Next
  <2> QED
    BY <2>3, <2>5, <2>6 DEF Performed
<1>5. CASE ir \notin Opcodes
  <2>1. ExecuteUndefined
    BY <1>5 DEF Execute
  <2>2. UNCHANGED <<pc, sp, reg, status, memory, instruction_cycle>>
    BY <2>1 DEF ExecuteUndefined
  <2>3. ~Boundary' /\ arch' = arch
    BY <2>2 DEF Boundary, At, HStep
  <2>4. RunInProgress(s)'
    BY <1>2, <1>3, <1>5, <2>2, <2>3 DEF RunInProgress, At, Kept
  <2> QED
    BY <1>1, <1>3, <2>3, <2>4, StandsStill
<1> QED
  BY <1>4, <1>5

\* The opcode is fetched: nothing of the instruction is done yet.
LEMMA FirstCycleBegun ==
    ASSUME NEW i, NEW s, Row(i), Entry(i), At(1)', Advanced(s, 1)', Kept(s)'
    PROVE  InstructionBegun(i, s)'
<1>1. instruction_cycle' = 1 /\ \A n \in Nat : n > 1 => ~At(n)' /\ ~From(n)'
  BY SMT DEF At, From
<1>2. HasOperand(i) => OperandProgress(i, s)'
  <2> SUFFICES ASSUME HasOperand(i) PROVE OperandProgress(i, s)'
    OBVIOUS
  <2>1. /\ ~At(2)' /\ ~At(3)' /\ ~At(4)' /\ ~From(2)' /\ ~From(3)' /\ ~From(5)'
    BY <1>1
  <2>2. i.mode \in OperandModes
    BY DEF Entry, HasOperand, OperandModes
  <2>3. FirstAccess(i.mode) \in 1 .. 5 /\ (i.mode \in Indexed => FirstAccess(i.mode) \in 3 .. 4)
    BY <2>2 DEF FirstAccess, OperandModes, Indexed
  <2>4. ~From(FirstAccess(i.mode) + 1)' /\ (i.mode \in Indexed => ~At(FirstAccess(i.mode))')
    BY <1>1, <2>3
  <2>5. Aimed(i.mode, s)'
    BY <2>1 DEF Aimed
  <2>6. Carried(i.mode, s)'
    BY <2>4 DEF Carried
  <2>7. ReadProgress(i, s)'
    BY <2>4 DEF ReadProgress, Kept
  <2>8. i.name \in Unary => ModifyProgress(i, s)'
    <3> SUFFICES ASSUME i.name \in Unary PROVE ModifyProgress(i, s)'
      OBVIOUS
    <3>1. i.cycles \in 5 .. 7
      BY Dispatched DEF Row, ModifyRow, HasOperand, Entry
    <3>2. ~At(i.cycles - 3 + 1)' /\ ~At(i.cycles - 3 + 2)'
      BY <1>1, <3>1
    <3> QED
      BY <3>2 DEF ModifyProgress, Kept
  <2> QED
    BY <2>5, <2>6, <2>7, <2>8 DEF OperandProgress
<1>3. /\ ~At(2)' /\ ~At(3)' /\ ~At(4)' /\ ~At(5)' /\ ~At(6)' /\ ~From(2)' /\ ~From(3)' /\ ~From(5)'
  BY <1>1
<1>4. StackProgress(s)'
  BY <1>3 DEF StackProgress, Kept
<1>5. RTSProgress(s)' /\ RTIProgress(s)'
  BY <1>3 DEF RTSProgress, RTIProgress, Kept
<1>6. BRKProgress(s)' /\ JSRProgress(s)'
  BY <1>3 DEF BRKProgress, JSRProgress, Kept
<1>7. JMPProgress(i.mode, s)' /\ BranchProgress(i.name, s)'
  BY <1>3 DEF JMPProgress, BranchProgress, Kept
<1> QED
  BY <1>2, <1>4, <1>5, <1>6, <1>7 DEF InstructionBegun

LEMMA FetchRefines ==
    ASSUME RefinementInvariant, glabal_mode = "RUN", FetchOpcode, HStep
    PROVE  Refines
<1>1. PICK s : s = arch.m
  OBVIOUS
<1>2. /\ MachineState(s) /\ RunInProgress(s) /\ MachineKnown
      /\ At(0) /\ s = Machine /\ spent = 0 /\ arch.phase = "run"
  BY <1>1, Known, ProgressOf DEF RefinementInvariant, RunInProgress, FetchOpcode
<1>3. /\ glabal_mode' = "RUN" /\ instruction_cycle' = 1 /\ ir' = Read(pc) /\ pc' = Inc16(pc)
      /\ UNCHANGED <<sp, reg, status, memory>>
  BY DEF FetchOpcode
<1>4. arch' = arch /\ spent' = 1
  BY <1>2, <1>3, Spends DEF Boundary
<1>5. Kept(s)' /\ s.pc = pc /\ s.memory = memory
  BY <1>2, <1>3 DEF Kept, Machine
<1>6. Advanced(s, 1)' /\ ir' = Cell(s.memory, s.pc)
  BY <1>2, <1>3, <1>5, NextBytes, ReadIsCell DEF Advanced, MachineState
<1>7. ir' \in Opcodes => InstructionBegun(Instructions[ir], s)'
  <2> SUFFICES ASSUME ir' \in Opcodes PROVE InstructionBegun(Instructions[ir], s)'
    OBVIOUS
  <2>1. PICK i : i = Instructions[ir']
    OBVIOUS
  <2>2. InstructionBegun(i, s)'
    BY <1>3, <1>5, <1>6, <2>1, InstructionEntry, FirstCycleBegun DEF At
  <2> QED
    BY <2>1, <2>2
<1>8. RunInProgress(s)'
  BY <1>2, <1>3, <1>4, <1>5, <1>6, <1>7 DEF RunInProgress, At
<1> QED
  BY <1>1, <1>2, <1>3, <1>4, <1>8, StandsStill

LEMMA EnterRefines ==
    ASSUME RefinementInvariant, glabal_mode = "RUN", EnterNMI \/ EnterIRQ, HStep
    PROVE  Refines
<1>1. PICK s : s = arch.m
  OBVIOUS
<1>2. /\ MachineState(s) /\ MachineKnown
      /\ s = Machine /\ spent = 0 /\ arch.phase = "run"
  BY <1>1, Known, ProgressOf DEF RefinementInvariant, RunInProgress, EnterNMI, EnterIRQ
<1>3. /\ glabal_mode' = "NMI" \/ (glabal_mode' = "IRQ" /\ interrupt_disable \notin status)
      /\ interrupt_cycle' = 1
      /\ UNCHANGED <<pc, sp, reg, status, memory>>
  BY DEF EnterNMI, EnterIRQ, EnterInterrupt, DummyRead
<1>4. arch' = arch /\ spent' = 1
  BY <1>2, <1>3, Spends DEF Boundary
<1>5. /\ s.pc = pc /\ s.sp = sp /\ s.reg = reg /\ s.status = status /\ s.memory = memory
  BY <1>2 DEF Machine
<1>6. \A p : Stacked(s, s.pc, p, 0)'
  BY <1>2, <1>3, <1>5, StackedBytes, StackedPush
<1>7. ASSUME NEW vector PROVE HandlerInProgress(vector, s)'
  BY <1>2, <1>3, <1>4, <1>5, <1>6 DEF HandlerInProgress
<1> QED
  BY <1>1, <1>2, <1>3, <1>4, <1>5, <1>7, StandsStill

-----------------------------------------------------------------------------
(* The interrupt sequences.                                                *)

\* The sequence pushes pc and status, sets I and loads the vector, cycle by cycle.
LEMMA HandlerCycle ==
    ASSUME ResetInvariant, MachineKnown, glabal_mode \in {"NMI", "IRQ"}, HStep,
           NEW vector \in {NMIVector, IRQVector}, HandleInterrupt(vector),
           NEW s, s = arch.m, HandlerInProgress(vector, s)
    PROVE  LET p == (s.status \ {break_command}) \cup {unused}
           IN  \/ /\ glabal_mode' = glabal_mode /\ arch' = arch
                  /\ HandlerInProgress(vector, s)'
               \/ /\ Boundary' /\ spent = 6
                  /\ Machine' = Processor!Interrupted(s, s.pc, p, vector)
<1> DEFINE p == (s.status \ {break_command}) \cup {unused}
           w == s.pc
           k == interrupt_cycle
<1>1. /\ MachineState(s) /\ MachineType /\ arch.phase = "run"
      /\ k \in 1 .. 6 /\ spent = k /\ instruction_cycle = 0
  BY Known, TypeParts DEF ResetInvariant, CycleInvariant, CycleDiscipline, TypeOK,
     HandlerInProgress
<1>2. /\ reg = s.reg
      /\ k \in 1 .. 3 => pc = w /\ status = s.status
      /\ k = 1 => Stacked(s, w, p, 0)
      /\ k = 2 => Stacked(s, w, p, 1)
      /\ k = 3 => Stacked(s, w, p, 2)
      /\ k \in 4 .. 6 => Stacked(s, w, p, 3)
      /\ k = 4 => status = p
      /\ k \in 5 .. 6 => status = p \cup {interrupt_disable}
      /\ k = 6 => U16Low(pc) = Read(vector)
  BY <1>1 DEF HandlerInProgress
<1>3. ASSUME NextCycle, reg' = s.reg,
             k' \in 2 .. 3 => pc' = w /\ status' = s.status,
             k' = 2 => Stacked(s, w, p, 1)',
             k' = 3 => Stacked(s, w, p, 2)',
             k' \in 4 .. 6 => Stacked(s, w, p, 3)',
             k' = 4 => status' = p,
             k' \in 5 .. 6 => status' = p \cup {interrupt_disable},
             k' = 6 => U16Low(pc') = Read(vector)',
             k' \in 2 .. 6
      PROVE  /\ glabal_mode' = glabal_mode /\ arch' = arch
             /\ HandlerInProgress(vector, s)'
  <2>1. k' = k + 1 /\ glabal_mode' = glabal_mode
    BY <1>3 DEF NextCycle
  <2>2. arch' = arch /\ spent' = spent + 1
    BY <1>1, <2>1, Spends DEF Boundary
  <2>3. spent' = k'
    BY <1>1, <2>1, <2>2
  <2> QED
    BY <1>1, <1>3, <2>1, <2>2, <2>3 DEF HandlerInProgress
<1>4. /\ UNCHANGED instruction_cycle /\ ~InvalidInterruptCycle(6)
      /\ k # 0
  BY <1>1 DEF HandleInterrupt, InvalidInterruptCycle
<1>5. vector \in {ResetVector, NMIVector, IRQVector}
  OBVIOUS
<1> HIDE DEF p, w, k
<1>6. CASE k = 1 /\ Push(U16High(pc)) /\ NextCycle /\ UNCHANGED <<pc, status>>
  <2>1. k' = 2 /\ reg' = reg /\ UNCHANGED <<pc, status>>
    BY <1>6 DEF NextCycle, Push, k
  <2>2. Stacked(s, w, p, 1)'
    BY <1>1, <1>2, <1>6, StackedPush
  <2> QED
    BY <1>2, <1>3, <1>6, <2>1, <2>2
<1>7. CASE k = 2 /\ Push(U16Low(pc)) /\ NextCycle /\ UNCHANGED <<pc, status>>
  <2>1. k' = 3 /\ reg' = reg /\ UNCHANGED <<pc, status>>
    BY <1>7 DEF NextCycle, Push, k
  <2>2. Stacked(s, w, p, 2)'
    BY <1>1, <1>2, <1>7, StackedPush
  <2> QED
    BY <1>2, <1>3, <1>7, <2>1, <2>2
<1>8. CASE /\ k = 3 /\ Push(FromBits((status \ {break_command}) \cup {unused}))
           /\ status' = (status \ {break_command}) \cup {unused}
           /\ NextCycle /\ UNCHANGED pc
  <2>1. k' = 4 /\ reg' = reg
    BY <1>8 DEF NextCycle, Push, k
  <2>2. (status \ {break_command}) \cup {unused} = p
    BY <1>2, <1>8 DEF p
  <2>3. Stacked(s, w, p, 3)' /\ status' = p
    BY <1>1, <1>2, <1>8, <2>2, StackedPush
  <2> QED
    BY <1>2, <1>3, <1>8, <2>1, <2>3
<1>9. CASE /\ k = 4 /\ status' = status \cup {interrupt_disable}
           /\ NextCycle /\ UNCHANGED <<pc, sp, reg, latch, addr, memory>>
  <2>1. k' = 5 /\ UNCHANGED <<pc, sp, reg, memory>>
    BY <1>9 DEF NextCycle, k
  <2>2. Stacked(s, w, p, 3)'
    BY <1>1, <1>2, <1>9, <2>1, StackedPush
  <2> QED
    BY <1>2, <1>3, <1>9, <2>1, <2>2
<1>10. CASE /\ k = 5 /\ VectorByte(vector, CombineToU16(U16High(pc), Read(vector)))
            /\ NextCycle
  <2>1. /\ k' = 6 /\ UNCHANGED <<sp, reg, status, memory>>
        /\ pc' = CombineToU16(U16High(pc), Read(vector))
    BY <1>10 DEF NextCycle, VectorByte, k
  <2>2. Stacked(s, w, p, 3)'
    BY <1>1, <1>2, <1>10, <2>1, StackedPush
  <2>3. U16Low(pc') = Read(vector)'
    <3>1. U16High(pc) \in Byte /\ Read(vector) \in Byte
      BY <1>1, U16HighType, ReadType DEF MachineType
    <3>2. U16Low(pc') = Read(vector)
      BY <2>1, <3>1, CombineParts
    <3> QED
      BY <2>1, <3>2 DEF Read
  <2> QED
    BY <1>2, <1>3, <1>10, <2>1, <2>2, <2>3
<1>11. CASE /\ k = 6 /\ VectorByte(vector + 1, CombineToU16(Read(vector + 1), U16Low(pc)))
            /\ ToRun
  <2>1. /\ glabal_mode' = "RUN" /\ UNCHANGED <<sp, reg, status, memory>>
        /\ pc' = CombineToU16(Read(vector + 1), U16Low(pc))
    BY <1>11 DEF ToRun, VectorByte
  <2>2. memory = Third(s, w, p) /\ sp = Dec8(Dec8(Dec8(s.sp)))
    BY <1>1, <1>2, <1>11, StackedBytes
  <2>3. pc' = WordAt(memory, vector)
    BY <1>2, <1>5, <1>11, <2>1, VectorWord
  <2>4. Machine' = State(WordAt(Third(s, w, p), vector), Dec8(Dec8(Dec8(s.sp))), s.reg,
                         p \cup {interrupt_disable}, Third(s, w, p))
    <3>1. status' = p \cup {interrupt_disable} /\ reg' = s.reg
      BY <1>2, <1>11, <2>1
    <3> QED
      BY <2>1, <2>2, <2>3, <3>1, MachineAfter
  <2>5. Machine' = Processor!Interrupted(s, s.pc, p, vector)
    BY <1>1, <2>4, InterruptedState DEF w
  <2>6. Boundary' /\ spent = 6
    BY <1>1, <1>4, <1>11, <2>1 DEF Boundary, k
  <2> QED
    BY <2>5, <2>6 DEF p
<1> QED
  BY <1>1, <1>4, <1>6, <1>7, <1>8, <1>9, <1>10, <1>11 DEF HandleInterrupt, k

LEMMA HandlerRefines ==
    ASSUME RefinementInvariant, MachineType', HStep,
           \/ glabal_mode = "NMI" /\ HandleInterrupt(NMIVector)
           \/ glabal_mode = "IRQ" /\ HandleInterrupt(IRQVector)
    PROVE  Refines
<1>1. PICK s : s = arch.m
  OBVIOUS
<1>2. PICK vector \in {NMIVector, IRQVector} :
        /\ HandleInterrupt(vector)
        /\ glabal_mode = "NMI" => vector = NMIVector
        /\ glabal_mode = "IRQ" => vector = IRQVector
  OBVIOUS
<1>3. /\ ResetInvariant /\ MachineKnown /\ glabal_mode \in {"NMI", "IRQ"}
      /\ HandlerInProgress(vector, s)
      /\ glabal_mode = "IRQ" => interrupt_disable \notin s.status
  BY <1>1, <1>2, ProgressOf DEF RefinementInvariant
<1> DEFINE p == (s.status \ {break_command}) \cup {unused}
<1>4. \/ /\ glabal_mode' = glabal_mode /\ arch' = arch
         /\ HandlerInProgress(vector, s)'
      \/ /\ Boundary' /\ spent = 6
         /\ Machine' = Processor!Interrupted(s, s.pc, p, vector)
  BY <1>1, <1>2, <1>3, HandlerCycle
<1> HIDE DEF p
<1>5. CASE glabal_mode' = glabal_mode /\ arch' = arch /\ HandlerInProgress(vector, s)'
  BY <1>1, <1>2, <1>3, <1>5, StandsStill
<1>6. CASE Boundary' /\ spent = 6 /\ Machine' = Processor!Interrupted(s, s.pc, p, vector)
  <2>1. /\ MachineKnown' /\ StepInProgress'
        /\ arch'.phase = "run" /\ arch'.m = Machine' /\ arch'.cycles = 7
    BY <1>6, CatchesUp
  <2>2. arch.phase = "run"
    BY <1>3 DEF HandlerInProgress
  <2>3. Processor!Interrupt(vector)
    BY <1>1, <1>6, <2>1, <2>2, SameFlags DEF Processor!Interrupt, p
  <2>4. CASE glabal_mode = "NMI"
    <3>1. vector = 65530
      BY <1>2, <2>4, SMT DEF NMIVector
    <3>2. Processor!NMI
      BY <2>3, <3>1, SMT DEF Processor!NMI
    <3> QED
      BY <2>1, <3>2 DEF Refines, Processor!Next
  <2>5. CASE glabal_mode = "IRQ"
    <3>1. vector = 65534
      BY <1>2, <2>5, SMT DEF IRQVector
    <3>2. Processor!interrupt_disable \notin arch.m.status
      BY <1>1, <1>3, <2>5, SameFlags
    <3>3. Processor!IRQ
      BY <2>3, <3>1, <3>2, SMT DEF Processor!IRQ
    <3> QED
      BY <2>1, <3>3 DEF Refines, Processor!Next
  <2> QED
    BY <1>3, <2>4, <2>5
<1> QED
  BY <1>4, <1>5, <1>6

-----------------------------------------------------------------------------
(* Resets.                                                                 *)

\* A memory written over at the cells of S only.
Overwritten(mem, new, S) ==
    /\ DOMAIN mem \subseteq DOMAIN new
    /\ \A d \in DOMAIN new : d \notin S => Cell(mem, d) = new[d]

LEMMA OverwrittenFew ==
    ASSUME NEW s, NEW a, NEW b, NEW c, Overwritten(s.memory, memory, {a, b, c})
    PROVE  Disturbed(s)
<1> DEFINE C == Processor!Changed(s.memory, memory)
<1>1. C \subseteq {a, b, c}
  BY SameMemory DEF Processor!Changed, Overwritten
<1>2. IsFiniteSet({a, b, c}) /\ Cardinality({a, b, c}) <= 3
  <2>1. IsFiniteSet({c}) /\ Cardinality({c}) = 1
    BY FS_Singleton
  <2>2. /\ IsFiniteSet({c} \cup {b})
        /\ Cardinality({c} \cup {b}) \in {1, 2}
    BY <2>1, FS_AddElement
  <2>3. /\ IsFiniteSet(({c} \cup {b}) \cup {a})
        /\ Cardinality(({c} \cup {b}) \cup {a}) \in {1, 2, 3}
    BY <2>2, FS_AddElement
  <2>4. ({c} \cup {b}) \cup {a} = {a, b, c}
    OBVIOUS
  <2> QED
    BY <2>3, <2>4
<1>3. IsFiniteSet(C) /\ Cardinality(C) <= Cardinality({a, b, c})
  BY <1>1, <1>2, FS_Subset
<1>4. Cardinality(C) \in Nat /\ Cardinality({a, b, c}) \in Nat
  BY <1>2, <1>3, FS_CardinalityType
<1>5. Cardinality(C) <= 3
  BY <1>2, <1>3, <1>4
<1> QED
  BY <1>5 DEF Disturbed, Overwritten

LEMMA PutOverwrites ==
    ASSUME NEW mem, NEW new, NEW S, Overwritten(mem, new, S), NEW a, NEW v
    PROVE  Overwritten(mem, Put(new, a, v), S \cup {a})
<1> DEFINE put == Put(new, a, v)
<1>1. DOMAIN put = DOMAIN new \cup {a}
  BY DEF Put
<1>2. ASSUME NEW d \in DOMAIN new, d # a PROVE put[d] = new[d]
  BY <1>2 DEF Put
<1> HIDE DEF put
<1>3. ASSUME NEW d \in DOMAIN put, d \notin S \cup {a} PROVE Cell(mem, d) = put[d]
  BY <1>1, <1>2, <1>3 DEF Overwritten
<1> QED
  BY <1>1, <1>3 DEF Overwritten, put

\* Up to three bytes leave a memory that a reset may find.
LEMMA PutsDisturb ==
    ASSUME NEW s, NEW a, NEW b, NEW c, NEW u, NEW v, NEW w,
           \/ memory = s.memory
           \/ memory = Put(s.memory, a, u)
           \/ memory = Put(Put(s.memory, a, u), b, v)
           \/ memory = Put(Put(Put(s.memory, a, u), b, v), c, w)
    PROVE  Disturbed(s)
<1>1. Overwritten(s.memory, s.memory, {})
  BY DEF Overwritten, Cell
<1>2. Overwritten(s.memory, Put(s.memory, a, u), {} \cup {a})
  BY <1>1, PutOverwrites
<1>3. Overwritten(s.memory, Put(Put(s.memory, a, u), b, v), ({} \cup {a}) \cup {b})
  BY <1>2, PutOverwrites
<1>4. Overwritten(s.memory, Put(Put(Put(s.memory, a, u), b, v), c, w),
                  (({} \cup {a}) \cup {b}) \cup {c})
  BY <1>3, PutOverwrites
<1> DEFINE S == {a, b, c}
<1>5. /\ {} \subseteq S /\ {} \cup {a} \subseteq S /\ ({} \cup {a}) \cup {b} \subseteq S
      /\ (({} \cup {a}) \cup {b}) \cup {c} \subseteq S
  OBVIOUS
<1> HIDE DEF S
<1>6. ASSUME NEW T, T \subseteq S, Overwritten(s.memory, memory, T)
      PROVE  Overwritten(s.memory, memory, S)
  BY <1>6 DEF Overwritten
<1>7. Overwritten(s.memory, memory, S)
  BY <1>1, <1>2, <1>3, <1>4, <1>5, <1>6
<1> QED
  BY <1>7, OverwrittenFew DEF S

\* What an instruction in progress has written so far.
LEMMA BegunDisturbs ==
    ASSUME NEW i, NEW s, InstructionUnderway(i, s)
    PROVE  Disturbed(s)
<1> DEFINE k == instruction_cycle
<1>1. k \in 1 .. LastCycle(i) /\ MachineState(s)
  BY DEF InstructionUnderway, InstructionInProgress, InProgress
<1>2. memory = s.memory => Disturbed(s)
  BY PutsDisturb
<1>3. Kept(s) => Disturbed(s)
  BY <1>2 DEF Kept
<1>4. At(1) => Kept(s)
  BY DEF InstructionUnderway, InstructionBegun
<1>5. CASE HasOperand(i)
  <2>1. OperandProgress(i, s)
    BY <1>5 DEF InstructionUnderway, InstructionBegun
  <2>2. CASE i.name \in Loads \cup Binary
    BY <1>2, <2>1, <2>2 DEF OperandProgress, ReadProgress
  <2>3. CASE i.name \in Stores
    BY <1>3, <2>1, <2>3 DEF OperandProgress
  <2>4. CASE i.name \in Unary
    <3>1. ModifyProgress(i, s)
      BY <2>1, <2>4 DEF OperandProgress
    <3>2. LastCycle(i) = i.cycles - 1 /\ i.cycles \in 2 .. 7
      <4>1. i.name \notin Loads \cup Binary
        BY <2>4 DEF Loads, Binary, Unary
      <4>2. i.mode # "Relative"
        BY <2>4 DEF InstructionUnderway, Entry
      <4> QED
        BY <4>1, <4>2, Dispatched DEF LastCycle, IndexedRead, InstructionUnderway, Row
    <3>3. \/ k <= (i.cycles - 3) + 1
          \/ k = (i.cycles - 3) + 2
      BY <1>1, <3>2
    <3> QED
      BY <1>2, <3>1, <3>3, PutsDisturb DEF ModifyProgress, At
  <2> QED
    BY <1>5, <2>2, <2>3, <2>4 DEF HasOperand
<1>6. CASE i.name \in {"PHA", "PHP", "PLA", "PLP"}
  BY <1>2, <1>6 DEF InstructionUnderway, InstructionBegun, StackProgress
<1>7. CASE i.name \in {"RTS", "RTI"}
  BY <1>2, <1>7 DEF InstructionUnderway, InstructionBegun, RTSProgress, RTIProgress
<1>8. CASE i.name = "JMP"
  BY <1>3, <1>8, JumpBegun DEF InstructionUnderway, JMPProgress
<1>9. CASE i.name \in Branches
  BY <1>3, <1>9, JumpBegun DEF InstructionUnderway, BranchProgress
<1>10. CASE i.name = "BRK"
  <2> DEFINE p == s.status \cup {break_command, unused}
             w == Add16(s.pc, 2)
  <2>1. i.mode = "Implied" /\ i.cycles = 7 /\ i.name \notin Loads \cup Binary
    BY <1>10 DEF InstructionUnderway, Row, ImpliedRow, Loads, Binary
  <2>2. k \in 1 .. 6
    BY <2>1, PlainCycles
  <2>3. BRKProgress(s)
    BY <1>10, JumpBegun DEF InstructionUnderway
  <2>4. k \in 2 .. 6 => \E n \in 0 .. 3 : Stacked(s, w, p, n)
    BY <2>3, SMT DEF BRKProgress, From, At
  <2> HIDE DEF p, w
  <2>5. k \in 2 .. 6 => Disturbed(s)
    BY <1>1, <2>4, StackedBytes, PutsDisturb DEF First, Second, Third
  <2> QED
    BY <1>3, <1>4, <2>2, <2>5 DEF At
<1>11. CASE i.name = "JSR"
  <2> DEFINE w == Add16(s.pc, 2)
  <2>1. i.mode = "Absolute" /\ i.cycles = 6 /\ i.name \notin Loads \cup Binary
    BY <1>11 DEF InstructionUnderway, Row, JumpRow, Loads, Binary
  <2>2. k \in 1 .. 5
    BY <2>1, PlainCycles
  <2>3. JSRProgress(s)
    BY <1>11, JumpBegun DEF InstructionUnderway
  <2>4. k \in 2 .. 5 => \E n \in 0 .. 3 : Stacked(s, w, s.status, n)
    BY <2>3, SMT DEF JSRProgress, From, At
  <2> HIDE DEF w
  <2>5. k \in 2 .. 5 => Disturbed(s)
    BY <1>1, <2>4, StackedBytes, PutsDisturb DEF First, Second, Third
  <2> QED
    BY <1>3, <1>4, <2>2, <2>5 DEF At
<1>12. CASE i.name \in Unary \cup Counting /\ ~HasOperand(i)
  <2>1. i.mode = "Implied"
    BY <1>12 DEF HasOperand, InstructionUnderway, Entry
  <2>2. i.cycles = 2
    BY <1>12, <2>1, Dispatched DEF InstructionUnderway, Row, ModifyRow
  <2> QED
    BY <1>3, <2>1, <2>2, TwoCycles
<1>13. CASE i.name \in TransferNames \cup FlagNames
  BY <1>3, <1>13, TwoCycles DEF InstructionUnderway, Row, ImpliedRow
<1> QED
  <2>1. i.name \in Mnemonics
    BY DEF InstructionUnderway, Entry
  <2>2. i.name \in Loads \cup Binary \cup Stores => HasOperand(i)
    BY DEF InstructionUnderway, Entry, HasOperand, OperandModes
  <2> QED
    BY <1>5, <1>6, <1>7, <1>8, <1>9, <1>10, <1>11, <1>12, <1>13, <2>1, <2>2 DEF Mnemonics

LEMMA RunDisturbs ==
    ASSUME ResetInvariant, NEW s, MachineState(s), RunInProgress(s), glabal_mode = "RUN"
    PROVE  Disturbed(s)
<1>1. memory = s.memory => Disturbed(s)
  BY PutsDisturb
<1>2. CASE At(0)
  BY <1>1, <1>2 DEF RunInProgress, Machine
<1>3. CASE ~At(0) /\ ir \notin Opcodes
  BY <1>1, <1>3 DEF RunInProgress, Kept
<1>4. CASE ~At(0) /\ ir \in Opcodes
  BY <1>4, UnderwayInstruction, BegunDisturbs
<1> QED
  BY <1>2, <1>3, <1>4

\* A reset is requested: IsaSpec begins one, unless it has begun already.
LEMMA ResetRefines ==
    ASSUME ResetsAreClean, RefinementInvariant, HReset
    PROVE  Refines
<1>1. PICK s : s = arch.m
  OBVIOUS
<1>2. ResetInvariant /\ MachineState(s) /\ MachineKnown
  BY <1>1, Known DEF RefinementInvariant
<1>3. /\ glabal_mode \in {"RESET", "RUN"} /\ glabal_mode' = "RESET"
      /\ UNCHANGED <<memory, interrupt_cycle>>
      /\ arch' = [arch EXCEPT !.phase = "reset"]
      /\ spent' = IF glabal_mode = "RESET" THEN spent ELSE 0
  BY DEF HReset, Reset, ResetsAreClean
<1>4. arch = [phase |-> arch.phase, m |-> s, cycles |-> arch.cycles]
  BY <1>1, <1>2, Known
<1>5. arch' = [phase |-> "reset", m |-> s, cycles |-> arch.cycles]
  BY <1>3, <1>4
<1>6. arch'.phase = "reset" /\ arch'.m = s /\ arch'.cycles = arch.cycles
  BY <1>5
<1>7. MachineKnown'
  BY <1>2, <1>5 DEF MachineKnown
<1>8. Disturbed(s) /\ spent' = interrupt_cycle'
  <2>1. CASE glabal_mode = "RESET"
    BY <1>1, <1>3, <2>1, ProgressOf DEF RefinementInvariant, ResetInProgress
  <2>2. CASE glabal_mode = "RUN"
    <3>1. interrupt_cycle = 0
      BY <1>2, <2>2 DEF ResetInvariant, CycleInvariant, CycleDiscipline
    <3>2. Disturbed(s)
      BY <1>1, <1>2, <2>2, ProgressOf, RunDisturbs DEF RefinementInvariant
    <3> QED
      BY <1>3, <2>2, <3>1, <3>2
  <2> QED
    BY <1>3, <2>1, <2>2
<1>9. ResetInProgress(s)'
  BY <1>3, <1>6, <1>8 DEF ResetInProgress, Disturbed
<1>10. StepInProgress'
  BY <1>3, <1>6, <1>9, ProgressOf
<1>11. CASE arch.phase = "reset"
  <2>1. UNCHANGED Processor!vars
    BY <1>1, <1>6, <1>11 DEF Processor!vars
  <2> QED
    BY <1>7, <1>10, <2>1 DEF Refines
<1>12. CASE arch.phase # "reset"
  <2>1. glabal_mode = "RUN"
    BY <1>1, <1>3, <1>12, ProgressOf DEF RefinementInvariant, ResetInProgress
  <2>2. arch.phase = "run"
    BY <1>1, <2>1, ProgressOf DEF RefinementInvariant, RunInProgress
  <2>3. Processor!BeginReset
    BY <1>1, <1>6, <2>2 DEF Processor!BeginReset
  <2> QED
    BY <1>7, <1>10, <2>3 DEF Refines, Processor!Next
<1> QED
  BY <1>11, <1>12

LEMMA SameCardinality == \A S : Processor!Cardinality(S) = Cardinality(S)
BY DEF Processor!Cardinality, Cardinality

\* A cycle of a reset; the last one ends it with the outcome of IsaSpec.
LEMMA ResetCycleRefines ==
    ASSUME RefinementInvariant, MachineType', glabal_mode = "RESET", HandleReset, HStep
    PROVE  Refines
<1>1. PICK s : s = arch.m
  OBVIOUS
<1>2. ResetInvariant /\ MachineState(s) /\ MachineKnown /\ ResetInProgress(s)
  BY <1>1, Known, ProgressOf DEF RefinementInvariant
<1>3. interrupt_cycle \in 0 .. 4 /\ spent = interrupt_cycle
  BY <1>2 DEF ResetInvariant, TypeOK, CycleInvariant, CycleDiscipline, ResetInProgress
<1>4. UNCHANGED <<memory, reg>>
  BY DEF HandleReset, ResetCycle0, DummyRead, InvalidInterruptCycle
<1>5. \/ glabal_mode' = "RESET" /\ interrupt_cycle' = interrupt_cycle + 1
      \/ glabal_mode' = "RUN" /\ interrupt_cycle = 4
  BY <1>3 DEF HandleReset, ResetCycle0, NextCycle, ToRun, InvalidInterruptCycle
<1>6. CASE glabal_mode' = "RESET" /\ interrupt_cycle' = interrupt_cycle + 1
  <2>1. arch' = arch /\ spent' = spent + 1
    BY <1>3, <1>6, Spends DEF Boundary
  <2>2. ResetInProgress(s)'
    BY <1>2, <1>4, <1>6, <2>1 DEF ResetInProgress, Disturbed
  <2> QED
    BY <1>1, <1>2, <1>6, <2>1, <2>2, StandsStill
<1>7. CASE glabal_mode' = "RUN" /\ interrupt_cycle = 4
  <2>1. /\ pc' = CombineToU16(Read(ResetVector + 1), Read(ResetVector))
        /\ sp' = 253 /\ status' = {interrupt_disable, unused} /\ instruction_cycle' = 0
    BY <1>2, <1>7, HandleResetProgress DEF Outcomes
  <2>2. /\ MachineKnown' /\ StepInProgress'
        /\ arch'.phase = "run" /\ arch'.m = Machine' /\ arch'.cycles = 5
    BY <1>3, <1>7, <2>1, CatchesUp DEF Boundary
  <2>3. pc' = WordAt(memory', ResetVector)
    BY <1>4, <2>1, VectorWord
  <2>4. Machine' = State(WordAt(memory', ResetVector), 253, reg',
                         {interrupt_disable, unused}, memory')
    BY <2>1, <2>3, MachineAfter
  <2>5. arch'.m.reg = reg' /\ arch'.m.memory = memory'
    BY <2>2, <2>4, Components
  <2>6. reg' \in Processor!Registers
    BY DEF MachineType, Reg, Processor!Registers, Processor!Byte, Byte
  <2>7. Processor!EndReset
    <3>1. arch.phase = "reset" /\ Disturbed(s)
      BY <1>2 DEF ResetInProgress
    <3>2. /\ DOMAIN s.memory \subseteq DOMAIN memory'
          /\ Cardinality(Processor!Changed(s.memory, memory')) <= 3
      BY <1>4, <3>1 DEF Disturbed
    <3>3. arch'.m = [pc |-> Processor!WordAt(arch'.m.memory, 65532), sp |-> 253,
                     reg |-> arch'.m.reg,
                     status |-> {Processor!interrupt_disable, Processor!unused},
                     memory |-> arch'.m.memory]
      <4>1. ResetVector = 65532
        BY SMT DEF ResetVector
      <4>2. Machine' = [pc |-> Processor!WordAt(memory', ResetVector), sp |-> 253,
                        reg |-> reg',
                        status |-> {Processor!interrupt_disable, Processor!unused},
                        memory |-> memory']
        BY <2>4, SameWords, SameFlags DEF State
      <4> QED
        BY <2>2, <2>5, <4>1, <4>2, SMT
    <3>4. /\ arch'.m.reg \in Processor!Registers
          /\ DOMAIN arch.m.memory \subseteq DOMAIN arch'.m.memory
          /\ Processor!Cardinality(Processor!Changed(arch.m.memory, arch'.m.memory)) <= 3
      BY <1>1, <2>5, <2>6, <3>2, SameCardinality
    <3> QED
      BY <2>2, <3>1, <3>3, <3>4, SMT DEF Processor!EndReset
  <2> QED
    BY <2>2, <2>7 DEF Refines, Processor!Next
<1> QED
  BY <1>5, <1>6, <1>7

-----------------------------------------------------------------------------
(* Signals, and steps of the environment.                                  *)

\* What the progress predicates are about.
progress == <<pc, sp, reg, status, latch, memory, page_crossed, instruction_cycle>>

LEMMA SameOperandProgress ==
    ASSUME NEW i, NEW s, UNCHANGED progress
    PROVE  OperandProgress(i, s) => OperandProgress(i, s)'
<1>1. /\ \A n : (At(n)' <=> At(n)) /\ (From(n)' <=> From(n)) /\ (Advanced(s, n)' <=> Advanced(s, n))
      /\ Kept(s)' <=> Kept(s)
      /\ ZP' = ZP /\ EA' = EA /\ Pointer' = Pointer
  BY DEF progress, At, From, Advanced, Kept, ZP, EA, Pointer
<1>2. Aimed(i.mode, s) => Aimed(i.mode, s)'
  BY <1>1 DEF Aimed
<1>3. Carried(i.mode, s) => Carried(i.mode, s)'
  BY <1>1 DEF Carried, progress
<1>4. ReadProgress(i, s) => ReadProgress(i, s)'
  BY <1>1 DEF ReadProgress, progress
<1>5. ModifyProgress(i, s) => ModifyProgress(i, s)'
  BY <1>1 DEF ModifyProgress, progress
<1> QED
  BY <1>1, <1>2, <1>3, <1>4, <1>5 DEF OperandProgress

LEMMA SameInstruction ==
    ASSUME NEW i, NEW s, UNCHANGED progress
    PROVE  InstructionBegun(i, s) => InstructionBegun(i, s)'
<1>1. /\ \A n : (At(n)' <=> At(n)) /\ (From(n)' <=> From(n)) /\ (Advanced(s, n)' <=> Advanced(s, n))
      /\ Kept(s)' <=> Kept(s)
      /\ ZP' = ZP /\ EA' = EA /\ Pointer' = Pointer
      /\ \A w, p, n : Stacked(s, w, p, n)' <=> Stacked(s, w, p, n)
      /\ \A a : Read(a)' = Read(a)
  BY DEF progress, At, From, Advanced, Kept, ZP, EA, Pointer, Stacked, Read
<1>2. StackProgress(s) => StackProgress(s)'
  BY <1>1 DEF StackProgress, progress
<1>3. RTSProgress(s) => RTSProgress(s)'
  BY <1>1 DEF RTSProgress, progress
<1>4. RTIProgress(s) => RTIProgress(s)'
  BY <1>1 DEF RTIProgress, progress
<1>5. BRKProgress(s) => BRKProgress(s)'
  BY <1>1, SMT DEF BRKProgress, progress
<1>6. JSRProgress(s) => JSRProgress(s)'
  BY <1>1 DEF JSRProgress, progress
<1>7. JMPProgress(i.mode, s) => JMPProgress(i.mode, s)'
  BY <1>1 DEF JMPProgress, progress
<1>8. BranchProgress(i.name, s) => BranchProgress(i.name, s)'
  BY <1>1 DEF BranchProgress, progress
<1> QED
  BY <1>1, <1>2, <1>3, <1>4, <1>5, <1>6, <1>7, <1>8, SameOperandProgress
  DEF InstructionBegun

\* A signal, or nothing at all, leaves every step in progress as it is.
LEMMA QuietRefines ==
    ASSUME RefinementInvariant, HSignalNMI \/ HSignalIRQ \/ UNCHANGED allVars
    PROVE  Refines
<1>1. PICK s : s = arch.m
  OBVIOUS
<1>2. /\ UNCHANGED <<pc, sp, reg, status, memory, instruction_cycle, ir>>
      /\ UNCHANGED <<glabal_mode, interrupt_cycle, arch, spent>>
      /\ UNCHANGED progress
  BY DEF HSignalNMI, HSignalIRQ, SignalNMI, SignalIRQ, allVars, vars, history, progress
<1>3. MachineKnown
  BY DEF RefinementInvariant
<1>4. ResetInProgress(s) => ResetInProgress(s)'
  BY <1>2 DEF ResetInProgress, Disturbed
<1>5. RunInProgress(s) => RunInProgress(s)'
  <2>1. PICK i : i = Instructions[ir]
    OBVIOUS
  <2>2. InstructionBegun(Instructions[ir], s) => InstructionBegun(Instructions[ir], s)'
    <3>1. InstructionBegun(i, s) => InstructionBegun(i, s)'
      BY <1>2, SameInstruction
    <3>2. Instructions[ir'] = i
      BY <1>2, <2>1
    <3> QED
      BY <2>1, <3>1, <3>2
  <2>3. Kept(s)' <=> Kept(s)
    BY <1>2 DEF Kept
  <2> QED
    BY <1>2, <2>2, <2>3 DEF RunInProgress, At, Machine
<1>6. ASSUME NEW vector PROVE HandlerInProgress(vector, s) => HandlerInProgress(vector, s)'
  <2>1. /\ \A w, p, n : Stacked(s, w, p, n)' <=> Stacked(s, w, p, n)
        /\ \A a : Read(a)' = Read(a)
    BY <1>2 DEF Stacked, Read
  <2> QED
    BY <1>2, <2>1 DEF HandlerInProgress
<1> QED
  BY <1>1, <1>2, <1>3, <1>4, <1>5, <1>6, ProgressOf, StandsStill DEF RefinementInvariant

-----------------------------------------------------------------------------
(* The theorems.                                                           *)

LEMMA InitRefines ==
    ASSUME HInit PROVE RefinementInvariant /\ Processor!Init
<1>1. PICK s : s = Machine
  OBVIOUS
<1>2. /\ TypeOK /\ CycleInvariant /\ MachineType
      /\ glabal_mode = "RESET" /\ interrupt_cycle = 0
  BY InitType, InitInvariant, TypeParts DEF HInit, Init
<1>3. ResetInvariant
  BY <1>2 DEF ResetInvariant, ResetProgress
<1>4. arch = [phase |-> "reset", m |-> s, cycles |-> 0] /\ spent = 0 /\ MachineState(s)
  BY <1>1, <1>2, MachineIsState DEF HInit
<1>5. arch.phase = "reset" /\ arch.m = s /\ arch.cycles = 0
  BY <1>4
<1>6. MachineKnown
  BY <1>4 DEF MachineKnown
<1>7. s.memory = memory
  BY <1>1 DEF Machine
<1>8. ResetInProgress(s)
  BY <1>2, <1>4, <1>5, <1>7, PutsDisturb DEF ResetInProgress
<1>9. StepInProgress
  BY <1>2, <1>5, <1>8 DEF StepInProgress
<1>10. Processor!Init
  <2>1. s = [pc |-> 0, sp |-> 0, reg |-> [r \in {"a", "x", "y"} |-> 0],
             status |-> {}, memory |-> s.memory]
    BY <1>1, <1>7 DEF HInit, Init, Machine, Reg
  <2>2. DOMAIN s.memory \subseteq Processor!Word /\ s.memory \in [DOMAIN s.memory -> Processor!Byte]
    BY <1>4 DEF MachineState, IsMemory, Processor!Word, Word, Processor!Byte, Byte
  <2> QED
    BY <1>5, <2>1, <2>2 DEF Processor!Init
<1> QED
  BY <1>3, <1>6, <1>9, <1>10 DEF RefinementInvariant

LEMMA StepRefines ==
    ASSUME RefinementInvariant, MachineType', HStep PROVE Refines
<1>1. Step
  BY DEF HStep
<1> QED
  BY <1>1, ResetCycleRefines, HandlerRefines, EnterRefines, FetchRefines, ExecuteRefines
  DEF Step

LEMMA NextRefines ==
    ASSUME ResetsAreClean, RefinementInvariant, [HNext]_allVars
    PROVE  RefinementInvariant' /\ [Processor!Next]_(Processor!vars)
<1>1. ResetInvariant'
  BY HistoryStep, NextType, NextInvariant, NextProgress DEF RefinementInvariant, ResetInvariant
<1>2. MachineType'
  BY <1>1, TypePartsNext DEF ResetInvariant
<1>3. Refines
  BY <1>2, StepRefines, ResetRefines, QuietRefines DEF HNext
<1> QED
  BY <1>1, <1>3 DEF RefinementInvariant, Refines

\* With every reset requested in RUN mode or during a reset, at any cycle:
\* whatever the program, the registers, the memory and the latches hold at every
\* cycle of every routine exactly what the step of IsaSpec has done so far, and
\* a step has spent as many Steps as its cycle number says.
THEOREM StepInProgressHolds == ASSUME ResetsAreClean PROVE HSpec => []StepInProgress
<1>1. HInit => RefinementInvariant
  BY InitRefines
<1>2. RefinementInvariant /\ [HNext]_allVars => RefinementInvariant'
  BY NextRefines
<1>3. RefinementInvariant => StepInProgress
  BY DEF RefinementInvariant
<1> QED
  BY <1>1, <1>2, <1>3, PTL DEF HSpec

\* The CPU is back at a boundary within seven Steps, whatever the program, the data
\* and the signals, unless it executes an opcode that is not in the table: Step
\* looks at pending requests again at instruction_cycle = 0 (qnes_cpu.cpp:31).
THEOREM BoundaryWithinSevenHolds == ASSUME ResetsAreClean PROVE HSpec => []BoundaryWithinSeven
<1>1. HInit => RefinementInvariant
  BY InitRefines
<1>2. RefinementInvariant /\ [HNext]_allVars => RefinementInvariant'
  BY NextRefines
<1>3. RefinementInvariant => BoundaryWithinSeven
  <2> SUFFICES ASSUME RefinementInvariant,
                      glabal_mode # "RUN" \/ instruction_cycle = 0 \/ ir \in Opcodes
               PROVE  spent < 7
    BY DEF BoundaryWithinSeven
  <2>1. /\ TypeOK
        /\ glabal_mode = "RESET" => ResetInProgress(arch.m)
        /\ glabal_mode = "RUN" => RunInProgress(arch.m)
        /\ glabal_mode = "NMI" => HandlerInProgress(NMIVector, arch.m)
        /\ glabal_mode = "IRQ" => HandlerInProgress(IRQVector, arch.m)
    BY DEF RefinementInvariant, ResetInvariant, StepInProgress
  <2>2. CASE glabal_mode = "RUN" /\ instruction_cycle = 0
    BY <2>1, <2>2 DEF RunInProgress, At
  <2>3. CASE glabal_mode = "RUN" /\ instruction_cycle # 0
    <3>1. ir \in Opcodes /\ spent = instruction_cycle
      BY <2>1, <2>3 DEF RunInProgress, At
    <3> QED
      BY <2>1, <3>1 DEF TypeOK
  <2>4. CASE glabal_mode # "RUN"
    <3>1. spent = interrupt_cycle
      BY <2>1, <2>4 DEF TypeOK, GlobalMode, ResetInProgress, HandlerInProgress
    <3>2. interrupt_cycle \in 0 .. 6
      BY <2>1 DEF TypeOK
    <3> QED
      BY <3>1, <3>2
  <2> QED
    BY <2>2, <2>3, <2>4
<1> QED
  BY <1>1, <1>2, <1>3, PTL DEF HSpec

\* Cycle by cycle the CPU implements the atomic processor: at its last cycle, and
\* in the number of cycles cpu_isa.hpp announces, every instruction has exactly
\* the effect of its mnemonic and addressing mode; interrupts and resets come
\* between instructions, with any memory contents and any signals.
THEOREM IsaImplemented == ASSUME ResetsAreClean PROVE HSpec => ImplementsIsa
<1>1. HInit => RefinementInvariant /\ Processor!Init
  BY InitRefines
<1>2. RefinementInvariant /\ [HNext]_allVars =>
        RefinementInvariant' /\ [Processor!Next]_(Processor!vars)
  BY NextRefines
<1> QED
  BY <1>1, <1>2, PTL DEF HSpec, ImplementsIsa, Processor!Spec

\* In every cycle after the opcode fetch the bus sees the access that Addressing
\* lists for the instruction in progress, a write only where it lists one, and as
\* many cycles as it lists: whatever the program, the operands and the signals.
THEOREM BusProtocolHolds == ASSUME ResetsAreClean PROVE HSpec => BusProtocol
<1> DEFINE Protocol ==
      /\ glabal_mode = "RUN" /\ instruction_cycle > 0
      /\ ir \in Opcodes /\ HasOperand(Instructions[ir])
      /\ Step
      =>
         LET accesses == Accesses(Instructions[ir], arch.m)
             access   == accesses[instruction_cycle]
         IN  /\ addr' = access.address
             /\ memory' # memory => access.kind = "write"
             /\ access.kind = "write" => memory' = Written(addr', memory'[addr'])
             /\ instruction_cycle' = 0 <=> instruction_cycle = Len(accesses)
<1>1. HInit => RefinementInvariant
  BY InitRefines
<1>2. RefinementInvariant /\ [HNext]_allVars => RefinementInvariant'
  BY NextRefines
<1>3. RefinementInvariant => Protocol
  <2> SUFFICES ASSUME RefinementInvariant, glabal_mode = "RUN", instruction_cycle > 0,
                      ir \in Opcodes, HasOperand(Instructions[ir]), Step
               PROVE  Accessed(Instructions[ir], arch.m)
    BY DEF Accessed
  <2>1. PICK s, i : s = arch.m /\ i = Instructions[ir]
    OBVIOUS
  <2>2. ~At(0) /\ Execute
    BY DEF Step, At, EnterNMI, EnterIRQ, FetchOpcode
  <2>3. ResetInvariant /\ MachineState(s) /\ RunInProgress(s)
    BY <2>1, Known, ProgressOf DEF RefinementInvariant
  <2>4. InstructionUnderway(i, s)
    BY <2>1, <2>2, <2>3, UnderwayInstruction
  <2>5. Accessed(i, s)
    BY <2>1, <2>2, <2>4, ExecutesInstruction, InstructionPerformed
  <2> QED
    BY <2>1, <2>5
<1> QED
  BY <1>1, <1>2, <1>3, PTL DEF HSpec, BusProtocol

-----------------------------------------------------------------------------
(* The frames of the interrupts in progress.                               *)

\* Pushing a status and pulling it loses nothing.
LEMMA StatusOfByte == ASSUME NEW S \in Status PROVE Bits(FromBits(S)) = S
<1> DEFINE d(k) == IF k \in S THEN 1 ELSE 0
           n == d(0) + 2 * d(1) + 4 * d(2) + 8 * d(3) + 16 * d(4) + 32 * d(5)
                  + 64 * d(6) + 128 * d(7)
<1>1. FromBits(S) = n
  BY DEF FromBits
<1>2. \A k \in BitIndex : d(k) \in {0, 1} /\ (d(k) = 1 <=> k \in S)
  OBVIOUS
<1>3. /\ n % 2 = d(0) /\ (n \div 2) % 2 = d(1) /\ (n \div 4) % 2 = d(2)
      /\ (n \div 8) % 2 = d(3) /\ (n \div 16) % 2 = d(4) /\ (n \div 32) % 2 = d(5)
      /\ (n \div 64) % 2 = d(6) /\ (n \div 128) % 2 = d(7)
  <2>1. PICK d0, d1, d2, d3, d4, d5, d6, d7 \in {0, 1} :
          /\ d0 = d(0) /\ d1 = d(1) /\ d2 = d(2) /\ d3 = d(3)
          /\ d4 = d(4) /\ d5 = d(5) /\ d6 = d(6) /\ d7 = d(7)
    OBVIOUS
  <2> QED
    BY <2>1
<1>4. /\ 2 ^ 0 = 1 /\ 2 ^ 1 = 2 /\ 2 ^ 2 = 4 /\ 2 ^ 3 = 8
      /\ 2 ^ 4 = 16 /\ 2 ^ 5 = 32 /\ 2 ^ 6 = 64 /\ 2 ^ 7 = 128
  OBVIOUS
<1>5. n \in Nat /\ n \div 1 = n
  BY <1>2 DEF BitIndex
<1> HIDE DEF d, n
<1>6. /\ 0 \in Bits(n) <=> n % 2 = 1
      /\ 1 \in Bits(n) <=> (n \div 2) % 2 = 1
      /\ 2 \in Bits(n) <=> (n \div 4) % 2 = 1
      /\ 3 \in Bits(n) <=> (n \div 8) % 2 = 1
      /\ 4 \in Bits(n) <=> (n \div 16) % 2 = 1
      /\ 5 \in Bits(n) <=> (n \div 32) % 2 = 1
      /\ 6 \in Bits(n) <=> (n \div 64) % 2 = 1
      /\ 7 \in Bits(n) <=> (n \div 128) % 2 = 1
  <2>1. \A k \in BitIndex : k \in Bits(n) <=> (n \div 2 ^ k) % 2 = 1
    BY DEF Bits
  <2> QED
    BY <1>4, <1>5, <2>1 DEF BitIndex
<1>7. \A k \in BitIndex : k \in Bits(n) <=> k \in S
  BY <1>2, <1>3, <1>6 DEF BitIndex
<1>8. Bits(n) \subseteq BitIndex /\ S \subseteq BitIndex
  BY DEF Bits, Status
<1> QED
  BY <1>1, <1>7, <1>8

\* The cells of a frame, as the pushes and the pulls address them.
LEMMA FrameAddresses ==
    ASSUME NEW b \in Byte
    PROVE  /\ FrameCell(b, 0) = 256 + b
           /\ FrameCell(b, 1) = 256 + Dec8(b)
           /\ FrameCell(b, 2) = 256 + Dec8(Dec8(b))
           /\ FrameCells(b) = {FrameCell(b, 0), FrameCell(b, 1), FrameCell(b, 2)}
           /\ FrameCell(b, 0) # FrameCell(b, 1) /\ FrameCell(b, 0) # FrameCell(b, 2)
           /\ FrameCell(b, 1) # FrameCell(b, 2)
<1>1. /\ (b + 256 - 0) % 256 = b
      /\ (b + 256 - 1) % 256 = Dec8(b)
      /\ (b + 256 - 2) % 256 = Dec8(Dec8(b))
  BY DEF Byte, Dec8
<1>2. b # Dec8(b) /\ b # Dec8(Dec8(b)) /\ Dec8(b) # Dec8(Dec8(b))
  BY DEF Byte, Dec8
<1>3. Dec8(b) \in Byte /\ Dec8(Dec8(b)) \in Byte
  BY Dec8Type
<1>4. FrameCells(b) = {FrameCell(b, 0), FrameCell(b, 1), FrameCell(b, 2)}
  BY DEF FrameCells
<1> QED
  BY <1>1, <1>2, <1>3, <1>4 DEF FrameCell, Byte

LEMMA ReturnAddresses ==
    ASSUME NEW b \in Byte, NEW q, q = (b + 253) % 256
    PROVE  /\ 256 + ((q + 1) % 256) = FrameCell(b, 2)
           /\ 256 + ((q + 2) % 256) = FrameCell(b, 1)
           /\ 256 + ((q + 3) % 256) = FrameCell(b, 0)
           /\ (q + 3) % 256 = b
BY DEF Byte, FrameCell

LEMMA PutCell ==
    ASSUME NEW mem, NEW a, NEW v, NEW b
    PROVE  Cell(Put(mem, a, v), b) = IF b = a THEN v ELSE Cell(mem, b)
BY DEF Put, Cell

\* An interrupt leaves its frame on the stack and the rest of the memory alone.
LEMMA ThirdCells ==
    ASSUME NEW s, MachineState(s), NEW w, NEW p
    PROVE  LET mem == Third(s, w, p)
           IN  /\ Cell(mem, FrameCell(s.sp, 0)) = U16High(w)
               /\ Cell(mem, FrameCell(s.sp, 1)) = U16Low(w)
               /\ Cell(mem, FrameCell(s.sp, 2)) = FromBits(p)
               /\ \A a : a \notin FrameCells(s.sp) => Cell(mem, a) = Cell(s.memory, a)
<1>1. s.sp \in Byte
  BY DEF MachineState
<1>2. PICK a0, a1, a2 :
        a0 = FrameCell(s.sp, 0) /\ a1 = FrameCell(s.sp, 1) /\ a2 = FrameCell(s.sp, 2)
  OBVIOUS
<1>3. /\ FrameCells(s.sp) = {a0, a1, a2} /\ a0 # a1 /\ a0 # a2 /\ a1 # a2
      /\ Third(s, w, p) =
           Put(Put(Put(s.memory, a0, U16High(w)), a1, U16Low(w)), a2, FromBits(p))
  BY <1>1, <1>2, FrameAddresses DEF Third, Second, First
<1> QED
  BY <1>2, <1>3, PutCell

LEMMA FrameStacked ==
    ASSUME NEW s, MachineState(s), NEW w, NEW p \in Status, NEW f,
           f.pc = w, f.sp = s.sp, Visible(f.status) = Visible(p)
    PROVE  HeldBy(Third(s, w, p), f)
BY ThirdCells, StatusOfByte DEF HeldBy

LEMMA HeldElsewhere ==
    ASSUME NEW mem, NEW new, NEW f, HeldBy(mem, f),
           \A a \in FrameCells(f.sp) : Cell(new, a) = Cell(mem, a)
    PROVE  HeldBy(new, f)
<1>1. \A n \in 0 .. 2 : Cell(new, FrameCell(f.sp, n)) = Cell(mem, FrameCell(f.sp, n))
  BY DEF FrameCells
<1> QED
  BY <1>1 DEF HeldBy

\* A status register with the visible flags of another agrees with it on I.
LEMMA VisibleMask ==
    ASSUME NEW t, NEW u, Visible(t) = Visible(u)
    PROVE  interrupt_disable \in t <=> interrupt_disable \in u
BY DEF Visible, interrupt_disable, break_command, unused

\* What an interrupt or a BRK does to the visible flags.
LEMMA PushedFlags ==
    ASSUME NEW t \in Status
    PROVE  /\ (t \ {break_command}) \cup {unused} \in Status
           /\ t \cup {break_command, unused} \in Status
           /\ Visible((t \ {break_command}) \cup {unused}) = Visible(t)
           /\ Visible(t \cup {break_command, unused}) = Visible(t)
BY DEF Visible, Status, BitIndex, break_command, unused

\* The interrupted machine that a frame describes.
Context == [kind : {"NMI", "IRQ", "BRK"}, pc : Word, sp : Byte,
            reg : [Reg -> Byte], status : Status]

\* An RTI that starts three bytes below the frame's stack pointer gets the frame.
LEMMA FrameReturned ==
    ASSUME NEW s, MachineState(s), NEW f \in Context, HeldBy(s.memory, f),
           s.sp = (f.sp + 253) % 256
    PROVE  /\ CombineToU16(Processor!Pulled(s, 3), Processor!Pulled(s, 2)) = f.pc
           /\ (s.sp + 3) % 256 = f.sp
           /\ Visible(Bits(Processor!Pulled(s, 1))) = Visible(f.status)
<1>1. f.pc \in Word /\ f.sp \in Byte
  BY DEF Context
<1>2. PICK q : q = s.sp
  OBVIOUS
<1>3. /\ 256 + ((q + 1) % 256) = FrameCell(f.sp, 2)
      /\ 256 + ((q + 2) % 256) = FrameCell(f.sp, 1)
      /\ 256 + ((q + 3) % 256) = FrameCell(f.sp, 0)
      /\ (q + 3) % 256 = f.sp
  BY <1>1, <1>2, ReturnAddresses
<1>4. /\ Processor!Pulled(s, 1) = Cell(s.memory, FrameCell(f.sp, 2))
      /\ Processor!Pulled(s, 2) = Cell(s.memory, FrameCell(f.sp, 1))
      /\ Processor!Pulled(s, 3) = Cell(s.memory, FrameCell(f.sp, 0))
  BY <1>2, <1>3, PulledFrom
<1> QED
  BY <1>1, <1>2, <1>3, <1>4, PartsCombine DEF HeldBy

-----------------------------------------------------------------------------
(* The instructions that leave I as it is.                                 *)

LEMMA FlagKeepsMask ==
    ASSUME NEW t, NEW f \in {carry, zero, overflow, negative}, NEW on
    PROVE  interrupt_disable \in SetFlag(t, f, on) <=> interrupt_disable \in t
BY DEF SetFlag, carry, zero, overflow, negative, interrupt_disable

LEMMA ZNKeepsMask ==
    ASSUME NEW t, NEW v
    PROVE  interrupt_disable \in SetZNFlags(t, v) <=> interrupt_disable \in t
BY FlagKeepsMask DEF SetZNFlags

LEMMA ADCKeepsMask ==
    ASSUME NEW r, NEW v, NEW t
    PROVE  interrupt_disable \in ADC(r, v, t).status <=> interrupt_disable \in t
<1> DEFINE sum == r + v + CarryIn(t)
           low == U16Low(sum)
           zn  == SetZNFlags(SetFlag(t, carry, sum > 255), low)
<1>1. ADC(r, v, t).status = SetArithmeticOverflowFlag(zn, r, v, low)
  BY DEF ADC, Outcome
<1>2. interrupt_disable \in SetFlag(t, carry, sum > 255) <=> interrupt_disable \in t
  BY FlagKeepsMask
<1>3. interrupt_disable \in zn <=> interrupt_disable \in t
  BY <1>2, ZNKeepsMask
<1> HIDE DEF zn, low
<1>4. interrupt_disable \in SetArithmeticOverflowFlag(zn, r, v, low)
        <=> interrupt_disable \in zn
  BY FlagKeepsMask, Zenon DEF SetArithmeticOverflowFlag
<1> QED
  BY <1>1, <1>3, <1>4

LEMMA OperationKeepsMask ==
    ASSUME NEW op \in Operation, NEW r, NEW v, NEW t
    PROVE  interrupt_disable \in ExecuteOperation(op, r, v, t).status
             <=> interrupt_disable \in t
<1> DEFINE Keeps(out) == interrupt_disable \in out.status <=> interrupt_disable \in t
<1>1. \A n : Keeps(WithZN(n, t))
  BY ZNKeepsMask DEF WithZN, Outcome
<1>2. Keeps(ADC(r, v, t)) /\ Keeps(SBC(r, v, t))
  BY ADCKeepsMask DEF SBC
<1>3. Keeps(CMP(r, v, t)) /\ Keeps(BIT(r, v, t))
  BY FlagKeepsMask, ZNKeepsMask DEF CMP, BIT, Outcome
<1>4. \A b : Keeps(ShiftLeft(r, b, t)) /\ Keeps(ShiftRight(r, b, t))
  BY FlagKeepsMask, ZNKeepsMask DEF ShiftLeft, ShiftRight, WithZN, Outcome
<1> HIDE DEF Keeps
<1>5. Keeps(ExecuteOperation(op, r, v, t))
  BY <1>1, <1>2, <1>3, <1>4 DEF ExecuteOperation, Operation
<1> QED
  BY <1>5 DEF Keeps

\* Of the instructions only CLI, PLP and RTI can clear I.
LEMMA ImpliedKeepsMask ==
    ASSUME NEW s, MachineState(s), NEW i, Row(i), Entry(i), i.mode = "Implied",
           i.name \notin {"CLI", "PLP", "RTI"}, interrupt_disable \in s.status
    PROVE  interrupt_disable \in Processor!ImpliedEffect(i.name, Begun(s)).status
<1>1. PICK t : t = Begun(s)
  OBVIOUS
<1>2. /\ t.status = s.status /\ t = State(t.pc, t.sp, t.reg, t.status, t.memory)
  BY <1>1, BegunComponents DEF Begun
<1> DEFINE Keeps(u) == interrupt_disable \in u.status
<1>3. Keeps(t)
  BY <1>2
<1>4. ASSUME NEW r, NEW v PROVE Keeps(Processor!LoadReg(t, r, v))
  <2>1. PICK x, u : x = [t.reg EXCEPT ![r] = v] /\ u = SetZNFlags(t.status, v)
    OBVIOUS
  <2>2. Processor!LoadReg(t, r, v) = State(t.pc, t.sp, x, u, t.memory)
    BY <1>2, <2>1, LoadResult
  <2>3. interrupt_disable \in u
    BY <1>2, <2>1, ZNKeepsMask
  <2> QED
    BY <2>2, <2>3, Components
<1>5. ASSUME NEW v
      PROVE  Keeps(Processor!SetSP(t, v)) /\ Keeps(Processor!PushByte(t, v))
  BY <1>2, Changes, Pushes, Components
<1>6. ASSUME NEW u, interrupt_disable \in u PROVE Keeps(Processor!SetStatus(t, u))
  BY <1>2, <1>6, Changes, Components
<1>7. i.name \in Unary \cup Counting => Keeps(Processor!ImpliedEffect(i.name, t))
  <2> SUFFICES ASSUME i.name \in Unary \cup Counting
               PROVE  Keeps(Processor!ImpliedEffect(i.name, t))
    OBVIOUS
  <2>1. PICK r, out :
          /\ r = Subject(i.name)
          /\ out = ExecuteOperation(Function(i.name), t.reg[r], 0, t.status)
    OBVIOUS
  <2>2. Processor!ImpliedEffect(i.name, t) = Processor!ToRegister(t, r, out)
    BY <2>1, OperationArm
  <2>3. Processor!ToRegister(t, r, out).status = out.status
    <3>1. PICK x : x = [t.reg EXCEPT ![r] = out.reg]
      OBVIOUS
    <3>2. Processor!ToRegister(State(t.pc, t.sp, t.reg, t.status, t.memory), r, out) =
            State(t.pc, t.sp, x, out.status, t.memory)
      BY <3>1, RegisterResult
    <3> QED
      BY <1>2, <3>2, Components
  <2>4. interrupt_disable \in out.status
    BY <1>2, <2>1, Dispatched, OperationKeepsMask
  <2> QED
    BY <2>2, <2>3, <2>4
<1>8. i.name \in TransferNames \cup {"NOP"} => Keeps(Processor!ImpliedEffect(i.name, t))
  <2> HIDE DEF Keeps
  <2> QED
    BY <1>3, <1>4, <1>5, TransferArms DEF TransferNames
<1>9. i.name \in FlagNames \ {"CLI", "NOP"} => Keeps(Processor!ImpliedEffect(i.name, t))
  <2>1. /\ interrupt_disable \in t.status \ {carry}
        /\ interrupt_disable \in t.status \cup {carry}
        /\ interrupt_disable \in t.status \ {decimal_mode}
        /\ interrupt_disable \in t.status \cup {decimal_mode}
        /\ interrupt_disable \in t.status \cup {interrupt_disable}
        /\ interrupt_disable \in t.status \ {overflow}
    BY <1>2 DEF carry, decimal_mode, overflow, interrupt_disable
  <2> HIDE DEF Keeps
  <2>2. /\ Keeps(Processor!ImpliedEffect("CLC", t)) /\ Keeps(Processor!ImpliedEffect("SEC", t))
        /\ Keeps(Processor!ImpliedEffect("CLD", t)) /\ Keeps(Processor!ImpliedEffect("SED", t))
        /\ Keeps(Processor!ImpliedEffect("SEI", t)) /\ Keeps(Processor!ImpliedEffect("CLV", t))
    <3>1. /\ Keeps(Processor!SetStatus(t, t.status \ {carry}))
          /\ Keeps(Processor!SetStatus(t, t.status \cup {carry}))
          /\ Keeps(Processor!SetStatus(t, t.status \ {decimal_mode}))
          /\ Keeps(Processor!SetStatus(t, t.status \cup {decimal_mode}))
          /\ Keeps(Processor!SetStatus(t, t.status \cup {interrupt_disable}))
          /\ Keeps(Processor!SetStatus(t, t.status \ {overflow}))
      BY <1>6, <2>1
    <3> QED
      BY <3>1, FlagArms
  <2> QED
    BY <2>2 DEF FlagNames
<1>10. i.name \in {"PHA", "PHP"} => Keeps(Processor!ImpliedEffect(i.name, t))
  <2> HIDE DEF Keeps
  <2> QED
    BY <1>5, PHAArm, PHPArm
<1>11. i.name = "PLA" => Keeps(Processor!ImpliedEffect(i.name, t))
  <2>1. PICK q, v : q = (t.sp + 1) % 256 /\ v = Processor!Pulled(t, 1)
    OBVIOUS
  <2>2. Processor!SetSP(t, q) = State(t.pc, q, t.reg, t.status, t.memory)
    BY <1>2, Changes
  <2>3. Processor!LoadReg(Processor!SetSP(t, q), "a", v) =
          State(t.pc, q, [t.reg EXCEPT !["a"] = v], SetZNFlags(t.status, v), t.memory)
    BY <2>2, LoadResult
  <2>4. Keeps(Processor!LoadReg(Processor!SetSP(t, q), "a", v))
    BY <1>2, <2>3, Components, ZNKeepsMask
  <2> QED
    BY <2>1, <2>4, PLAArm
<1>12. i.name = "RTS" => Keeps(Processor!ImpliedEffect(i.name, t))
  BY <1>1, ReturnEffects, Components
<1>13. i.name = "BRK" => Keeps(Processor!ImpliedEffect(i.name, t))
  <2>1. PICK w, p, n, mem :
          /\ p = s.status \cup {break_command, unused} /\ mem = Third(s, Add16(s.pc, 2), p)
          /\ w = WordAt(mem, IRQVector) /\ n = Dec8(Dec8(Dec8(s.sp)))
    OBVIOUS
  <2>2. Processor!ImpliedEffect("BRK", t) = State(w, n, s.reg, p \cup {interrupt_disable}, mem)
    BY <1>1, <2>1, BreakEffect
  <2> QED
    BY <2>2, Components
<1>14. i.name \in Mnemonics /\ i.name \notin Branches \cup Loads \cup Binary \cup Stores
       /\ i.name \notin {"JSR", "JMP"}
  BY DEF Entry, OperandModes, Row, JumpRow
<1>15. Keeps(Processor!ImpliedEffect(i.name, t))
  <2> HIDE DEF Keeps
  <2> QED
    BY <1>7, <1>8, <1>9, <1>10, <1>11, <1>12, <1>13, <1>14 DEF Mnemonics, FlagNames
<1> QED
  BY <1>1, <1>15

LEMMA EffectKeepsMask ==
    ASSUME NEW s, MachineState(s), NEW i, Row(i), Entry(i),
           i.name \notin {"CLI", "PLP", "RTI"}, interrupt_disable \in s.status
    PROVE  interrupt_disable \in Processor!Effect(i, s).status
<1>1. CASE i.mode = "Implied"
  <2>1. i.name \notin Branches \cup {"JMP", "JSR"}
    BY <1>1 DEF Entry, Row, JumpRow
  <2> QED
    BY <1>1, <2>1, WithoutOperand, ImpliedKeepsMask DEF Begun
<1>2. CASE i.name \in {"JMP", "JSR"} \cup Branches
  BY <1>2, JumpEffects, Components DEF Entry
<1>3. CASE HasOperand(i)
  <2>1. i.mode \in OperandModes
    BY <1>3 DEF HasOperand, Entry, OperandModes
  <2>2. PICK a, v, r, bin, un :
          /\ a = Effective(i.mode, s) /\ v = Cell(s.memory, a) /\ r = Subject(i.name)
          /\ bin = ExecuteOperation(Function(i.name), s.reg[r], v, s.status)
          /\ un = ExecuteOperation(Function(i.name), v, 0, s.status)
    OBVIOUS
  <2>3. /\ i.name \in Binary => interrupt_disable \in bin.status
        /\ i.name \in Unary => interrupt_disable \in un.status
    BY <2>2, Dispatched, OperationKeepsMask
  <2>4. /\ i.name \in Loads => Processor!Effect(i, s).status = SetZNFlags(s.status, v)
        /\ i.name \in Stores => Processor!Effect(i, s).status = s.status
        /\ i.name \in Binary => Processor!Effect(i, s).status = bin.status
        /\ i.name \in Unary => Processor!Effect(i, s).status = un.status
    <3>1. PICK load, operation :
            load = [s.reg EXCEPT ![r] = v] /\ operation = [s.reg EXCEPT ![r] = bin.reg]
      OBVIOUS
    <3>2. /\ i.name \in Loads => Processor!Effect(i, s) =
               Left(i, s, s.sp, load, SetZNFlags(s.status, v), s.memory)
          /\ i.name \in Stores => Processor!Effect(i, s) =
               Left(i, s, s.sp, s.reg, s.status, Put(s.memory, a, s.reg[r]))
          /\ i.name \in Binary => Processor!Effect(i, s) =
               Left(i, s, s.sp, operation, bin.status, s.memory)
          /\ i.name \in Unary => Processor!Effect(i, s) =
               Left(i, s, s.sp, s.reg, un.status, Put(s.memory, a, un.reg))
      BY <2>1, <2>2, <3>1, OperandEffects
    <3> QED
      BY <3>2, Components DEF Left
  <2> QED
    BY <1>3, <2>3, <2>4, ZNKeepsMask DEF HasOperand
<1> QED
  <2>1. i.name \in Loads \cup Binary \cup Stores => HasOperand(i)
    BY DEF HasOperand, Entry, OperandModes
  <2>2. i.name \in Unary => HasOperand(i) \/ i.mode = "Implied"
    BY DEF HasOperand
  <2>3. i.name \in Counting \cup TransferNames \cup FlagNames => i.mode = "Implied"
    BY DEF Entry, Row, ImpliedRow
  <2>4. i.name \in {"PHA", "PHP", "PLA", "PLP", "RTS", "RTI", "BRK"} => i.mode = "Implied"
    BY DEF Row, ImpliedRow
  <2>5. i.name \in Mnemonics
    BY DEF Entry
  <2> QED
    BY <1>1, <1>2, <1>3, <2>1, <2>2, <2>3, <2>4, <2>5 DEF Mnemonics

-----------------------------------------------------------------------------
(* The steps that reach a boundary.                                        *)

\* The last cycle of an interrupt sequence, and of an instruction.
Serves(s) ==
    /\ glabal_mode \in {"NMI", "IRQ"}
    /\ glabal_mode = "IRQ" => interrupt_disable \notin s.status
    /\ \E vector \in {NMIVector, IRQVector} :
         Machine' = Processor!Interrupted(s, s.pc,
                      (s.status \ {break_command}) \cup {unused}, vector)

Finishes(i, s) ==
    /\ glabal_mode = "RUN" /\ instruction_cycle # 0 /\ i = Instructions[ir]
    /\ Row(i) /\ Entry(i)
    /\ Machine' = Processor!Effect(i, s)

LEMMA BoundaryStep ==
    ASSUME RefinementInvariant, MachineType', HStep, Boundary', glabal_mode # "RESET",
           NEW s, s = arch.m
    PROVE  /\ ~Boundary /\ MachineState(s)
           /\ arch'.m = Machine' /\ frames' = NextFrames
           /\ Serves(s) \/ \E i : Finishes(i, s)
<1>1. /\ ResetInvariant /\ MachineKnown /\ MachineState(s)
      /\ arch'.m = Machine' /\ frames' = NextFrames
  BY Known, CatchesUp DEF RefinementInvariant, HStep
<1>2. /\ glabal_mode = "RUN" => RunInProgress(s)
      /\ glabal_mode = "NMI" => HandlerInProgress(NMIVector, s)
      /\ glabal_mode = "IRQ" => HandlerInProgress(IRQVector, s)
                                /\ interrupt_disable \notin s.status
  BY ProgressOf DEF RefinementInvariant
<1>3. CASE \E vector \in {NMIVector, IRQVector} :
             /\ glabal_mode \in {"NMI", "IRQ"} /\ HandleInterrupt(vector)
             /\ HandlerInProgress(vector, s)
  <2>1. PICK vector \in {NMIVector, IRQVector} :
             /\ glabal_mode \in {"NMI", "IRQ"} /\ HandleInterrupt(vector)
             /\ HandlerInProgress(vector, s)
    BY <1>3
  <2>2. \/ glabal_mode' = glabal_mode
        \/ Machine' = Processor!Interrupted(s, s.pc,
                        (s.status \ {break_command}) \cup {unused}, vector)
    BY <1>1, <2>1, HandlerCycle
  <2>3. glabal_mode' # glabal_mode
    BY <2>1 DEF Boundary
  <2>4. Serves(s)
    BY <1>2, <2>1, <2>2, <2>3 DEF Serves
  <2> QED
    BY <1>1, <2>1, <2>4 DEF Boundary
<1>4. CASE glabal_mode = "RUN" /\ ~At(0) /\ Execute
  <2>1. ir \in Opcodes
    <3>1. ir \notin Opcodes => UNCHANGED instruction_cycle
      BY <1>4 DEF Execute, ExecuteUndefined
    <3> QED
      BY <1>4, <3>1 DEF Boundary, At
  <2>2. PICK i : i = Instructions[ir]
    OBVIOUS
  <2>3. InstructionUnderway(i, s)
    BY <1>1, <1>2, <1>4, <2>1, <2>2, UnderwayInstruction
  <2>4. Performed(i, s)
    BY <1>4, <2>1, <2>2, <2>3, ExecutesInstruction, InstructionPerformed
  <2>5. ~Resumes(i, s)
    BY <1>1 DEF Resumes, Boundary, ResetInvariant, TypeOK
  <2>6. Machine' = Processor!Effect(i, s)
    BY <2>4, <2>5 DEF Performed, Completes
  <2>7. Finishes(i, s)
    BY <1>4, <2>2, <2>3, <2>6 DEF Finishes, InstructionUnderway, At
  <2> QED
    BY <1>1, <1>4, <2>7 DEF Boundary, At
<1>5. ~(EnterNMI \/ EnterIRQ \/ FetchOpcode)
  BY DEF EnterNMI, EnterIRQ, EnterInterrupt, FetchOpcode, Boundary
<1> QED
  BY <1>2, <1>3, <1>4, <1>5 DEF HStep, Step

-----------------------------------------------------------------------------
(* The invariant of the frames.                                            *)

\* The frames q are intact in the memory mem, below a handler with the status t.
Intact(q, mem, t) ==
    /\ q \in Seq(Context)
    /\ \A k \in 1 .. Len(q) : HeldBy(mem, q[k])
    /\ q # <<>> => interrupt_disable \in t
    /\ \A k \in 2 .. Len(q) : interrupt_disable \in q[k].status /\ q[k].kind # "IRQ"

FramesInvariant == Intact(frames, arch.m.memory, arch.m.status)

LEMMA FramesParts == FramesInvariant => FramesIntact /\ IRQNeverNests
BY DEF FramesInvariant, Intact, FramesIntact, IRQNeverNests

LEMMA EmptyIntact == ASSUME NEW mem, NEW t PROVE Intact(<<>>, mem, t)
BY DEF Intact

LEMMA KeepIntact ==
    ASSUME NEW q, NEW mem, NEW t, Intact(q, mem, t), NEW new, NEW u,
           \A k \in 1 .. Len(q) : HeldBy(new, q[k]),
           q # <<>> => interrupt_disable \in u
    PROVE  Intact(q, new, u)
BY DEF Intact

\* An IRQ is served with I clear, and then it is the only one in progress.
LEMMA PushIntact ==
    ASSUME NEW q, NEW mem, NEW t, Intact(q, mem, t), NEW new, NEW u,
           \A k \in 1 .. Len(q) : HeldBy(new, q[k]),
           NEW f \in Context, HeldBy(new, f), f.status = t,
           f.kind = "IRQ" => interrupt_disable \notin t, interrupt_disable \in u
    PROVE  Intact(Append(q, f), new, u)
<1>1. PICK r : r = Append(q, f)
  OBVIOUS
<1>2. q \in Seq(Context)
  BY DEF Intact
<1>3. /\ r \in Seq(Context) /\ Len(r) = Len(q) + 1
      /\ \A k \in 1 .. Len(q) : r[k] = q[k]
      /\ r[Len(q) + 1] = f
  BY <1>1, <1>2
<1>4. Len(q) \in Nat /\ (q = <<>> => Len(q) = 0) /\ (q # <<>> => Len(q) >= 1)
  BY <1>2
<1>5. \A k \in 1 .. Len(r) : HeldBy(new, r[k])
  BY <1>3, <1>4
<1>6. \A k \in 2 .. Len(r) : interrupt_disable \in r[k].status /\ r[k].kind # "IRQ"
  <2> SUFFICES ASSUME NEW k \in 2 .. Len(r)
               PROVE  interrupt_disable \in r[k].status /\ r[k].kind # "IRQ"
    OBVIOUS
  <2>1. CASE k \in 2 .. Len(q)
    BY <1>3, <1>4, <2>1 DEF Intact
  <2>2. CASE k = Len(q) + 1
    <3>1. q # <<>>
      BY <1>4, <2>2
    <3> QED
      BY <1>3, <2>2, <3>1 DEF Intact
  <2> QED
    BY <1>3, <1>4, <2>1, <2>2
<1> QED
  BY <1>1, <1>3, <1>5, <1>6 DEF Intact

\* The handler below has I set again, as its frame says.
LEMMA PopIntact ==
    ASSUME NEW q, NEW mem, NEW t, Intact(q, mem, t), q # <<>>, NEW new, NEW u,
           \A k \in 1 .. Len(q) : HeldBy(new, q[k]),
           Visible(u) = Visible(q[Len(q)].status)
    PROVE  Intact(SubSeq(q, 1, Len(q) - 1), new, u)
<1>1. PICK r : r = SubSeq(q, 1, Len(q) - 1)
  OBVIOUS
<1>2. q \in Seq(Context) /\ Len(q) \in Nat /\ Len(q) >= 1
  BY DEF Intact
<1>3. /\ r \in Seq(Context) /\ Len(r) = Len(q) - 1
      /\ \A k \in 1 .. Len(r) : r[k] = q[k]
  <2>1. PICK n : n = Len(q) - 1
    OBVIOUS
  <2>2. n \in 0 .. Len(q) /\ r = SubSeq(q, 1, n)
    BY <1>1, <1>2, <2>1
  <2>3. r \in Seq(Context) /\ Len(r) = n
    BY <1>2, <2>2
  <2>4. \A k \in 1 .. n : r[k] = q[k]
    BY <1>2, <2>2
  <2> QED
    BY <2>1, <2>3, <2>4
<1>4. r # <<>> => Len(q) \in 2 .. Len(q)
  BY <1>2, <1>3
<1>5. r # <<>> => interrupt_disable \in u
  <2>1. r # <<>> => interrupt_disable \in q[Len(q)].status
    BY <1>4 DEF Intact
  <2> QED
    BY <2>1, VisibleMask
<1>6. \A k \in 1 .. Len(r) : HeldBy(new, r[k])
  BY <1>2, <1>3
<1>7. \A k \in 2 .. Len(r) : interrupt_disable \in r[k].status /\ r[k].kind # "IRQ"
  BY <1>2, <1>3 DEF Intact
<1> QED
  BY <1>1, <1>3, <1>5, <1>6, <1>7 DEF Intact

\* The action of InterruptsAreTransparent.
Restored ==
    frames # <<>> /\ Len(frames') < Len(frames) /\ glabal_mode # "RESET" =>
      LET f == frames[Len(frames)]
      IN  /\ pc' = f.pc /\ sp' = f.sp /\ reg' = f.reg
          /\ Visible(status') = Visible(f.status)

\* A boundary is reached from the machine s, and the handlers behave.
ReachesBoundary(s) ==
    /\ FramesInvariant /\ MachineState(s) /\ s = arch.m
    /\ arch'.m = Machine' /\ frames' = NextFrames
    /\ frames # <<>> => Behaves

LEMMA MachineParts ==
    ASSUME NEW p, NEW q, NEW r, NEW t, NEW mem, Machine' = State(p, q, r, t, mem)
    PROVE  pc' = p /\ sp' = q /\ reg' = r /\ status' = t /\ memory' = mem
BY DEF Machine, State

\* How the frames change at an instruction's last cycle.
LEMMA InstructionFrames ==
    ASSUME NEW i, NEW s, Finishes(i, s)
    PROVE  /\ \A name : Ends(name) <=> i.name = name
           /\ i.name = "BRK" =>
                NextFrames = Append(frames, Frame("BRK", (arch.m.pc + 2) % 65536))
           /\ i.name = "RTI" /\ frames # <<>> =>
                NextFrames = SubSeq(frames, 1, Len(frames) - 1)
           /\ i.name # "BRK" /\ ~(i.name = "RTI" /\ frames # <<>>) => NextFrames = frames
<1>1. \A name : Ends(name) <=> i.name = name
  BY DEF Finishes, Ends
<1>2. glabal_mode \notin {"RESET", "NMI", "IRQ"}
  BY DEF Finishes
<1> QED
  BY <1>1, <1>2 DEF NextFrames

LEMMA HandlerFrames ==
    ASSUME glabal_mode \in {"NMI", "IRQ"}
    PROVE  NextFrames = Append(frames, Frame(glabal_mode, arch.m.pc))
<1>1. ~Ends("BRK") /\ ~Ends("RTI") /\ glabal_mode # "RESET"
  BY DEF Ends
<1> QED
  BY <1>1 DEF NextFrames

\* An interrupt or a BRK pushes one more frame, clear of the others.
LEMMA EntryFrames ==
    ASSUME NEW s, ReachesBoundary(s), NEW kind \in {"NMI", "IRQ", "BRK"}, NEW w \in Word,
           NEW p \in Status, Visible(p) = Visible(s.status),
           NEW v, Machine' = State(v, Dec8(Dec8(Dec8(s.sp))), s.reg,
                                   p \cup {interrupt_disable}, Third(s, w, p)),
           NextFrames = Append(frames, Frame(kind, w)),
           kind = "IRQ" => interrupt_disable \notin s.status,
           glabal_mode \in {"NMI", "IRQ"} \/ Ends("BRK")
    PROVE  FramesInvariant' /\ Restored
<1>1. PICK f : f = Frame(kind, w)
  OBVIOUS
<1>2. /\ f.kind = kind /\ f.pc = w /\ f.sp = s.sp /\ f.status = s.status
      /\ f \in Context
  BY <1>1 DEF Frame, Context, ReachesBoundary, MachineState
<1>3. PICK new, u : new = Third(s, w, p) /\ u = p \cup {interrupt_disable}
  OBVIOUS
<1>4. arch'.m.memory = new /\ arch'.m.status = u
  <2>1. Machine' = State(v, Dec8(Dec8(Dec8(s.sp))), s.reg, u, new)
    BY <1>3
  <2> QED
    BY <2>1, Components DEF ReachesBoundary
<1>5. Intact(frames, s.memory, s.status)
  BY DEF ReachesBoundary, FramesInvariant
<1>6. HeldBy(new, f)
  BY <1>2, <1>3, FrameStacked DEF ReachesBoundary
<1>7. ASSUME NEW k \in 1 .. Len(frames) PROVE HeldBy(new, frames[k])
  <2>1. frames # <<>>
    BY <1>5 DEF Intact
  <2>2. FrameCells(s.sp) \cap FrameCells(frames[k].sp) = {}
    BY <2>1 DEF ReachesBoundary, Behaves
  <2>3. \A a \in FrameCells(frames[k].sp) : Cell(new, a) = Cell(s.memory, a)
    BY <1>3, <2>2, ThirdCells DEF ReachesBoundary
  <2> QED
    BY <1>5, <2>3, HeldElsewhere DEF Intact
<1>8. Intact(Append(frames, f), new, u)
  BY <1>2, <1>3, <1>5, <1>6, <1>7, PushIntact
<1>9. frames' = Append(frames, f)
  BY <1>1 DEF ReachesBoundary
<1>10. FramesInvariant'
  BY <1>4, <1>8, <1>9 DEF FramesInvariant
<1>11. Len(frames') = Len(frames) + 1 /\ Len(frames) \in Nat
  BY <1>2, <1>5, <1>9 DEF Intact
<1> QED
  BY <1>10, <1>11 DEF Restored

LEMMA ServesFrames ==
    ASSUME NEW s, ReachesBoundary(s), Serves(s)
    PROVE  FramesInvariant' /\ Restored
<1>1. PICK p : p = (s.status \ {break_command}) \cup {unused}
  OBVIOUS
<1>2. PICK vector \in {NMIVector, IRQVector} :
        Machine' = Processor!Interrupted(s, s.pc, p, vector)
  BY <1>1 DEF Serves
<1>3. MachineState(s) /\ s = arch.m /\ s.status \in Status /\ s.pc \in Word
  BY DEF ReachesBoundary, MachineState
<1>4. p \in Status /\ Visible(p) = Visible(s.status)
  BY <1>1, <1>3, PushedFlags
<1>5. Machine' = State(WordAt(Third(s, s.pc, p), vector), Dec8(Dec8(Dec8(s.sp))), s.reg,
                       p \cup {interrupt_disable}, Third(s, s.pc, p))
  BY <1>2, <1>3, InterruptedState
<1>6. NextFrames = Append(frames, Frame(glabal_mode, s.pc))
  BY <1>3, HandlerFrames DEF Serves
<1>7. /\ glabal_mode \in {"NMI", "IRQ"}
      /\ glabal_mode = "IRQ" => interrupt_disable \notin s.status
  BY DEF Serves
<1> QED
  BY <1>3, <1>4, <1>5, <1>6, <1>7, EntryFrames

LEMMA BreakFrames ==
    ASSUME NEW s, ReachesBoundary(s), NEW i, Finishes(i, s), i.name = "BRK"
    PROVE  FramesInvariant' /\ Restored
<1>1. PICK p, w : p = s.status \cup {break_command, unused} /\ w = Add16(s.pc, 2)
  OBVIOUS
<1>2. MachineState(s) /\ s = arch.m /\ s.status \in Status /\ s.pc \in Word
  BY DEF ReachesBoundary, MachineState
<1>3. p \in Status /\ Visible(p) = Visible(s.status)
  BY <1>1, <1>2, PushedFlags
<1>4. w \in Word /\ w = (arch.m.pc + 2) % 65536
  BY <1>1, <1>2, Add16Type DEF Add16
<1>5. i.mode = "Implied" /\ i.name \notin Branches \cup {"JMP", "JSR"}
  BY DEF Finishes, Row, ImpliedRow, Branches
<1>6. Machine' = Processor!ImpliedEffect("BRK", Begun(s))
  BY <1>2, <1>5, WithoutOperand DEF Finishes, Begun
<1>7. Machine' = State(WordAt(Third(s, w, p), IRQVector), Dec8(Dec8(Dec8(s.sp))), s.reg,
                       p \cup {interrupt_disable}, Third(s, w, p))
  BY <1>1, <1>2, <1>6, BreakEffect
<1>8. PICK kind : kind = "BRK"
  OBVIOUS
<1>9. PICK v : v = WordAt(Third(s, w, p), IRQVector)
  OBVIOUS
<1>10. Machine' = State(v, Dec8(Dec8(Dec8(s.sp))), s.reg,
                        p \cup {interrupt_disable}, Third(s, w, p))
  BY <1>7, <1>9
<1>11. /\ NextFrames = Append(frames, Frame(kind, w)) /\ Ends("BRK")
       /\ kind \in {"NMI", "IRQ", "BRK"} /\ kind # "IRQ"
  BY <1>4, <1>8, InstructionFrames
<1>12. /\ kind = "IRQ" => interrupt_disable \notin s.status
       /\ glabal_mode \in {"NMI", "IRQ"} \/ Ends("BRK")
       /\ w \in Word
  BY <1>4, <1>11
<1>13. NextFrames = Append(frames, Frame(kind, w)) /\ kind \in {"NMI", "IRQ", "BRK"}
  BY <1>11
<1> QED
  BY <1>3, <1>10, <1>12, <1>13, EntryFrames, Zenon

\* The memory of the frames is as it was, for every instruction but BRK.
LEMMA FramesLeftAlone ==
    ASSUME NEW s, ReachesBoundary(s), NEW i, Finishes(i, s), i.name # "BRK"
    PROVE  \A k \in 1 .. Len(frames) : HeldBy(memory', frames[k])
<1>1. ~Ends("BRK") /\ glabal_mode = "RUN"
  BY InstructionFrames DEF Finishes
<1>2. Intact(frames, s.memory, s.status) /\ s = arch.m
  BY DEF ReachesBoundary, FramesInvariant
<1> SUFFICES ASSUME NEW k \in 1 .. Len(frames) PROVE HeldBy(memory', frames[k])
  OBVIOUS
<1>3. frames # <<>>
  BY <1>2 DEF Intact
<1>4. \A a \in FrameCells(frames[k].sp) : Cell(memory', a) = Cell(s.memory, a)
  BY <1>1, <1>2, <1>3 DEF ReachesBoundary, Behaves
<1> QED
  BY <1>2, <1>4, HeldElsewhere DEF Intact

LEMMA ReturnFrames ==
    ASSUME NEW s, ReachesBoundary(s), NEW i, Finishes(i, s), i.name = "RTI", frames # <<>>
    PROVE  FramesInvariant' /\ Restored
<1>1. PICK f : f = frames[Len(frames)]
  OBVIOUS
<1>2. /\ MachineState(s) /\ s = arch.m /\ arch'.m = Machine'
      /\ Intact(frames, s.memory, s.status)
  BY DEF ReachesBoundary, FramesInvariant
<1>3. f \in Context /\ HeldBy(s.memory, f)
  BY <1>1, <1>2 DEF Intact
<1>4. s.sp = (f.sp + 253) % 256 /\ s.reg = f.reg
  BY <1>1, <1>2, InstructionFrames DEF ReachesBoundary, Behaves
<1>5. i.mode = "Implied" /\ i.name \notin Branches \cup {"JMP", "JSR"}
  BY DEF Finishes, Row, ImpliedRow, Branches
<1>6. Machine' = Processor!ImpliedEffect("RTI", Begun(s))
  BY <1>2, <1>5, WithoutOperand DEF Finishes, Begun
<1>7. PICK u : u = Bits(Processor!Pulled(s, 1))
  OBVIOUS
<1>8. Machine' = State(f.pc, f.sp, s.reg, u, s.memory)
  BY <1>2, <1>3, <1>4, <1>6, <1>7, ReturnEffects, FrameReturned
<1>9. pc' = f.pc /\ sp' = f.sp /\ reg' = f.reg /\ status' = u /\ memory' = s.memory
  BY <1>4, <1>8, MachineParts
<1>10. Visible(u) = Visible(f.status)
  BY <1>2, <1>3, <1>4, <1>7, FrameReturned
<1>11. Intact(SubSeq(frames, 1, Len(frames) - 1), s.memory, u)
  BY <1>1, <1>2, <1>10, PopIntact DEF Intact
<1>12. frames' = SubSeq(frames, 1, Len(frames) - 1)
  BY InstructionFrames DEF ReachesBoundary
<1>13. arch'.m.memory = s.memory /\ arch'.m.status = u
  BY <1>2, <1>8, Components
<1> QED
  BY <1>1, <1>9, <1>10, <1>11, <1>12, <1>13 DEF FramesInvariant, Restored

LEMMA OtherFrames ==
    ASSUME NEW s, ReachesBoundary(s), NEW i, Finishes(i, s),
           i.name # "BRK", ~(i.name = "RTI" /\ frames # <<>>)
    PROVE  FramesInvariant' /\ Restored
<1>1. frames' = frames
  BY InstructionFrames DEF ReachesBoundary
<1>2. Intact(frames, s.memory, s.status) /\ s = arch.m /\ MachineState(s)
  BY DEF ReachesBoundary, FramesInvariant
<1>3. arch'.m.memory = memory' /\ arch'.m.status = status'
  BY DEF ReachesBoundary, Machine
<1>4. frames # <<>> => interrupt_disable \in status'
  <2> SUFFICES ASSUME frames # <<>> PROVE interrupt_disable \in status'
    OBVIOUS
  <2>1. CASE i.name \in {"CLI", "PLP"}
    BY <2>1, InstructionFrames DEF ReachesBoundary, Behaves
  <2>2. CASE i.name \notin {"CLI", "PLP"}
    <3>1. interrupt_disable \in s.status
      BY <1>2 DEF Intact
    <3>2. interrupt_disable \in Processor!Effect(i, s).status
      BY <1>2, <2>2, <3>1, EffectKeepsMask DEF Finishes
    <3> QED
      BY <1>3, <3>2 DEF Finishes, ReachesBoundary
  <2> QED
    BY <2>1, <2>2
<1>5. Intact(frames, memory', status')
  BY <1>2, <1>4, FramesLeftAlone, KeepIntact
<1>6. Len(frames) \in Nat
  BY <1>2 DEF Intact
<1> QED
  BY <1>1, <1>3, <1>5, <1>6 DEF FramesInvariant, Restored

\* A step that reaches a boundary, or a reset that ends with no frame left.
LEMMA BoundaryFrames ==
    ASSUME RefinementInvariant, FramesInvariant, MachineType', HStep, Boundary',
           ~Boundary /\ Boundary' /\ glabal_mode # "RESET" /\ frames # <<>> => Behaves
    PROVE  FramesInvariant' /\ Restored
<1>1. CASE glabal_mode = "RESET"
  <2>1. frames' = <<>>
    BY <1>1 DEF HStep, NextFrames, Ends
  <2> QED
    BY <1>1, <2>1, EmptyIntact DEF FramesInvariant, Restored
<1>2. CASE glabal_mode # "RESET"
  <2>1. PICK s : s = arch.m
    OBVIOUS
  <2>2. /\ ~Boundary /\ MachineState(s) /\ arch'.m = Machine' /\ frames' = NextFrames
        /\ Serves(s) \/ \E i : Finishes(i, s)
    BY <1>2, <2>1, BoundaryStep
  <2>3. ReachesBoundary(s)
    BY <1>2, <2>1, <2>2 DEF ReachesBoundary
  <2> QED
    BY <2>2, <2>3, ServesFrames, BreakFrames, ReturnFrames, OtherFrames
<1> QED
  BY <1>1, <1>2

LEMMA NextFramesInvariant ==
    ASSUME RefinementInvariant, FramesInvariant, MachineType', [HNext]_allVars,
           ~Boundary /\ Boundary' /\ glabal_mode # "RESET" /\ frames # <<>> => Behaves
    PROVE  FramesInvariant' /\ Restored
<1>1. CASE HStep /\ Boundary'
  BY <1>1, BoundaryFrames
<1>2. CASE frames' = frames /\ arch'.m = arch.m
  <2>1. Len(frames) \in Nat
    BY DEF FramesInvariant, Intact
  <2> QED
    BY <1>2, <2>1 DEF FramesInvariant, Restored
<1>3. CASE HReset
  <2>1. PICK phase, s, n : arch = [phase |-> phase, m |-> s, cycles |-> n]
    BY DEF RefinementInvariant, MachineKnown
  <2>2. arch'.m = arch.m
    BY <1>3, <2>1 DEF HReset
  <2> QED
    BY <1>2, <1>3, <2>2 DEF HReset
<1> QED
  BY <1>1, <1>2, <1>3 DEF HNext, HStep, HSignalNMI, HSignalIRQ, allVars, history

LEMMA FramesInductive ==
    ASSUME ResetsAreClean
    PROVE  HSpec /\ HandlersBehave =>
             [](RefinementInvariant /\ FramesInvariant) /\ [][Restored]_allVars
<1>1. HInit => RefinementInvariant /\ FramesInvariant
  BY InitRefines, EmptyIntact DEF HInit, FramesInvariant
<1>2. ASSUME RefinementInvariant, FramesInvariant, [HNext]_allVars,
             [~Boundary /\ Boundary' /\ glabal_mode # "RESET" /\ frames # <<>>
                => Behaves]_allVars
      PROVE  RefinementInvariant' /\ FramesInvariant' /\ Restored
  <2>1. RefinementInvariant' /\ MachineType'
    BY <1>2, NextRefines, TypePartsNext DEF RefinementInvariant, ResetInvariant
  <2>2. ~Boundary /\ Boundary' => ~UNCHANGED allVars
    BY DEF Boundary, allVars, vars
  <2> QED
    BY <1>2, <2>1, <2>2, NextFramesInvariant
<1>3. RefinementInvariant /\ FramesInvariant /\ [HNext]_allVars
        /\ [~Boundary /\ Boundary' /\ glabal_mode # "RESET" /\ frames # <<>>
              => Behaves]_allVars
        => RefinementInvariant' /\ FramesInvariant' /\ [Restored]_allVars
  BY <1>2
<1> QED
  BY <1>1, <1>3, PTL DEF HSpec, HandlersBehave

\* In every program whose handlers behave, with signals at any cycle and resets
\* in RUN mode or during a reset: the frame of every open interrupt or BRK, however
\* deep, stays on the stack as it was pushed, and I stays set above it.
THEOREM FramesIntactHolds ==
    ASSUME ResetsAreClean PROVE HSpec /\ HandlersBehave => []FramesIntact
<1>1. RefinementInvariant /\ FramesInvariant => FramesIntact
  BY FramesParts
<1> QED
  BY <1>1, FramesInductive, PTL

\* In every such program no IRQ is served inside a handler, an NMI's or a BRK's included.
THEOREM IRQNeverNestsHolds ==
    ASSUME ResetsAreClean PROVE HSpec /\ HandlersBehave => []IRQNeverNests
<1>1. RefinementInvariant /\ FramesInvariant => IRQNeverNests
  BY FramesParts
<1> QED
  BY <1>1, FramesInductive, PTL

\* In every such program an RTI resumes exactly the program that the innermost open
\* interrupt or BRK has interrupted: HandleNMI, HandleIRQ and BRK push, and RTI
\* pulls, cycle by cycle, whatever came between.
THEOREM InterruptsAreTransparentHolds ==
    ASSUME ResetsAreClean PROVE HSpec /\ HandlersBehave => InterruptsAreTransparent
<1>1. Restored <=>
        (frames # <<>> /\ Len(frames') < Len(frames) /\ glabal_mode # "RESET" =>
           LET f == frames[Len(frames)]
           IN  pc' = f.pc /\ sp' = f.sp /\ reg' = f.reg
                 /\ Visible(status') = Visible(f.status))
  BY DEF Restored
<1> QED
  BY <1>1, FramesInductive, PTL DEF InterruptsAreTransparent
=============================================================================
