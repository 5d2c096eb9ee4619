------------------------------ MODULE IsaSpec ------------------------------
(***************************************************************************)
(* What the processor promises to a program: one atomic step per           *)
(* instruction, per interrupt and per reset, with no bus latches and no    *)
(* micro-cycles.  An instruction reads its operand through the effective   *)
(* address of its addressing mode, has the effect of its mnemonic and      *)
(* takes CYCLES cycles, plus the penalties that the comments beside CYCLES *)
(* in cpu_isa.hpp announce.  CPU implements this specification             *)
(* (CPUHistory!Processor).                                                 *)
(***************************************************************************)
EXTENDS Addressing, FiniteSets

VARIABLES
    phase,     \* "reset" from power-on or Reset() until the vector is loaded
    m,         \* the machine a program sees: pc, sp, reg, status, memory
    cycles     \* the cycles the last step took

vars == <<phase, m, cycles>>

Registers == [{"a", "x", "y"} -> Byte]

-----------------------------------------------------------------------------
(* Instructions.                                                           *)

\* One component of the machine changes.
Goto(s, w)       == [s EXCEPT !.pc = w]
SetSP(s, v)      == [s EXCEPT !.sp = v]
SetReg(s, r, v)  == [s EXCEPT !.reg = [@ EXCEPT ![r] = v]]
SetStatus(s, t)  == [s EXCEPT !.status = t]
SetCell(s, a, v) == [s EXCEPT !.memory = Put(@, a, v)]

\* A register is loaded; the outcome of an operation goes to a register, or
\* back to memory.
LoadReg(s, r, v)       == SetStatus(SetReg(s, r, v), SetZNFlags(s.status, v))
ToRegister(s, r, out)  == SetStatus(SetReg(s, r, out.reg), out.status)
ToMemory(s, a, out)    == SetStatus(SetCell(s, a, out.reg), out.status)

\* Pulls read above sp, pushes write at sp and below; both wrap in page one.
Pulled(s, n)   == Cell(s.memory, 256 + ((s.sp + n) % 256))
PushByte(s, v) == SetSP(SetCell(s, 256 + s.sp, v), Dec8(s.sp))
PushWord(s, w) == PushByte(PushByte(s, U16High(w)), U16Low(w))

\* An interrupt or a BRK that returns to w and stacks the status p.
Interrupted(s, w, p, vector) ==
    LET t == PushByte(PushWord(s, w), FromBits(p))
    IN  Goto(SetStatus(t, p \cup {interrupt_disable}), WordAt(t.memory, vector))

TakenTarget(s) ==
    LET next == Add16(s.pc, 2)
    IN  IF Operand(s) < 128 THEN Add16(next, Operand(s))
        ELSE Add16(next, 65536 + Operand(s) - 256)

\* The instructions with an operand in memory; pc has already advanced in s,
\* v is the operand and a its address.
MemoryEffect(name, s, a, v) ==
    LET r   == Subject(name)
        bin == ExecuteOperation(Function(name), s.reg[r], v, s.status)
        un  == ExecuteOperation(Function(name), v, 0, s.status)
    IN  CASE name \in Loads  -> LoadReg(s, r, v)
          [] name \in Stores -> SetCell(s, a, s.reg[r])
          [] name \in Binary -> ToRegister(s, r, bin)
          [] name \in Unary  -> ToMemory(s, a, un)

\* The instructions without an operand; pc has already advanced in s.
ImpliedEffect(name, s) ==
    LET r   == Subject(name)
        un  == ExecuteOperation(Function(name), s.reg[r], 0, s.status)
        php == s.status \cup {break_command, unused}
        above(n) == SetSP(s, (s.sp + n) % 256)
        flag(f, on) == SetStatus(s, SetFlag(s.status, f, on))
    IN  CASE name \in Unary \cup Counting -> ToRegister(s, r, un)
          [] name = "TAX" -> LoadReg(s, "x", s.reg["a"])
          [] name = "TAY" -> LoadReg(s, "y", s.reg["a"])
          [] name = "TXA" -> LoadReg(s, "a", s.reg["x"])
          [] name = "TYA" -> LoadReg(s, "a", s.reg["y"])
          [] name = "TSX" -> LoadReg(s, "x", s.sp)
          [] name = "TXS" -> SetSP(s, s.reg["x"])
          [] name = "PHA" -> PushByte(s, s.reg["a"])
          [] name = "PHP" -> PushByte(s, FromBits(php))
          [] name = "PLA" -> LoadReg(above(1), "a", Pulled(s, 1))
          [] name = "PLP" -> SetStatus(above(1), Bits(Pulled(s, 1)) \ {break_command})
          [] name = "RTS" ->
                Goto(above(2), Add16(CombineToU16(Pulled(s, 2), Pulled(s, 1)), 1))
          [] name = "RTI" ->
                SetStatus(Goto(above(3), CombineToU16(Pulled(s, 3), Pulled(s, 2))),
                          Bits(Pulled(s, 1)))
          [] name = "BRK" -> Interrupted(s, Add16(s.pc, 1), php, 65534)
          [] name = "CLC" -> flag(carry, FALSE)
          [] name = "SEC" -> flag(carry, TRUE)
          [] name = "CLD" -> flag(decimal_mode, FALSE)
          [] name = "SED" -> flag(decimal_mode, TRUE)
          [] name = "CLI" -> flag(interrupt_disable, FALSE)
          [] name = "SEI" -> flag(interrupt_disable, TRUE)
          [] name = "CLV" -> flag(overflow, FALSE)
          [] name = "NOP" -> s

\* JSR stacks the address of its last byte before it reads that byte.
JumpToSubroutine(s) ==
    LET t == PushWord(s, Add16(s.pc, 2))
    IN  Goto(t, CombineToU16(Cell(t.memory, Add16(s.pc, 2)), Operand(s)))

Effect(i, s) ==
    LET next == Goto(s, Add16(s.pc, Length(i.mode)))
        a    == Effective(i.mode, s)
    IN  CASE i.name = "JMP" /\ i.mode = "Absolute" -> Goto(s, OperandW(s))
          [] i.name = "JMP" /\ i.mode = "Indirect" ->
                Goto(s, PointerAt(s.memory, OperandW(s)))
          [] i.name = "JSR" -> JumpToSubroutine(s)
          [] i.name \in Branches ->
                IF ExecuteCondition(i.name, s.status) THEN Goto(s, TakenTarget(s)) ELSE next
          [] i.mode = "Implied" -> ImpliedEffect(i.name, next)
          [] OTHER -> MemoryEffect(i.name, next, a, Cell(s.memory, a))

\* "+1 if page crossed" for the reads; "+1 if branch taken and +1 to a new page".
Penalty(i, s) ==
    CASE i.name \in Loads \cup Binary -> IF Crosses(i.mode, s) THEN 1 ELSE 0
      [] i.name \in Branches /\ ExecuteCondition(i.name, s.status) ->
            IF U16High(TakenTarget(s)) # U16High(Add16(s.pc, 2)) THEN 2 ELSE 1
      [] OTHER -> 0

-----------------------------------------------------------------------------
(* The steps.                                                              *)

Init ==
    /\ phase = "reset" /\ cycles = 0
    /\ DOMAIN m.memory \subseteq Word /\ m.memory \in [DOMAIN m.memory -> Byte]
    /\ m = [pc |-> 0, sp |-> 0, reg |-> [r \in {"a", "x", "y"} |-> 0],
            status |-> {}, memory |-> m.memory]

Instruction ==
    LET opcode == Cell(m.memory, m.pc)
        i      == Instructions[opcode]
    IN  /\ phase = "run" /\ opcode \in Opcodes
        /\ m' = Effect(i, m)
        /\ cycles' = i.cycles + Penalty(i, m)
        /\ UNCHANGED phase

Interrupt(vector) ==
    /\ phase = "run"
    /\ m' = Interrupted(m, m.pc, (m.status \ {break_command}) \cup {unused}, vector)
    /\ cycles' = 7
    /\ UNCHANGED phase

NMI == Interrupt(65530)
IRQ == interrupt_disable \notin m.status /\ Interrupt(65534)

BeginReset == phase = "run" /\ phase' = "reset" /\ UNCHANGED <<m, cycles>>

\* The instruction or interrupt that the reset cuts short may have written up
\* to three cells (the frame of an interrupt) and a register.
Changed(mem, new) == {a \in DOMAIN new : Cell(mem, a) # new[a]}

EndReset ==
    /\ phase = "reset" /\ phase' = "run"
    /\ m'.reg \in Registers
    /\ DOMAIN m.memory \subseteq DOMAIN m'.memory
    /\ Cardinality(Changed(m.memory, m'.memory)) <= 3
    /\ m' = [pc |-> WordAt(m'.memory, 65532), sp |-> 253, reg |-> m'.reg,
             status |-> {interrupt_disable, unused}, memory |-> m'.memory]
    /\ cycles' = 5

Next == Instruction \/ NMI \/ IRQ \/ BeginReset \/ EndReset

Spec == Init /\ [][Next]_vars
=============================================================================
