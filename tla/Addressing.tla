----------------------------- MODULE Addressing -----------------------------
(***************************************************************************)
(* Where an instruction goes: the addressing modes of cpu_isa.cpp as       *)
(* functions of the machine at the instruction boundary, and the bus       *)
(* accesses that an instruction with an operand in memory makes, one per   *)
(* cycle, on whatever bus the CPU is given.                                *)
(***************************************************************************)
EXTENDS Alu, Isa, Sequences

Add16(w, n) == (w + n) % 65536
WordAt(mem, a) == CombineToU16(Cell(mem, Add16(a, 1)), Cell(mem, a))
\* A pointer in page zero, or one that JMP reads, does not carry into the page.
PointerAt(mem, a) ==
    CombineToU16(Cell(mem, CombineToU16(U16High(a), Inc8(U16Low(a)))), Cell(mem, a))

-----------------------------------------------------------------------------
(* Addressing.                                                             *)

Operand(s)  == Cell(s.memory, Add16(s.pc, 1))
OperandW(s) == WordAt(s.memory, Add16(s.pc, 1))

Length(mode) ==
    CASE mode = "Implied" -> 1
      [] mode \in {"Absolute", "AbsoluteX", "AbsoluteY", "Indirect"} -> 3
      [] OTHER -> 2

IndexRegister(mode) ==
    IF mode \in {"ZeroPageX", "AbsoluteX", "XIndirect"} THEN "x" ELSE "y"

\* The address before the index is added, for the modes that index last.
Base(mode, s) ==
    IF mode = "IndirectY" THEN PointerAt(s.memory, Operand(s)) ELSE OperandW(s)

Effective(mode, s) ==
    LET index == s.reg[IndexRegister(mode)]
    IN  CASE mode = "Immediate" -> Add16(s.pc, 1)
          [] mode = "ZeroPage" -> Operand(s)
          [] mode \in {"ZeroPageX", "ZeroPageY"} -> (Operand(s) + index) % 256
          [] mode = "Absolute" -> OperandW(s)
          [] mode = "XIndirect" -> PointerAt(s.memory, (Operand(s) + index) % 256)
          [] OTHER -> Add16(Base(mode, s), index)

Indexed == {"AbsoluteX", "AbsoluteY", "IndirectY"}

Crosses(mode, s) ==
    mode \in Indexed /\ U16High(Base(mode, s)) # U16High(Effective(mode, s))

-----------------------------------------------------------------------------
(* Instructions.                                                           *)

Loads    == {"LDA", "LDX", "LDY"}
Stores   == {"STA", "STX", "STY"}
Binary   == {"AND", "EOR", "ORA", "BIT", "ADC", "SBC", "CMP", "CPX", "CPY"}
Unary    == {"INC", "DEC", "ASL", "LSR", "ROL", "ROR"}
Counting == {"INX", "INY", "DEX", "DEY"}
Branches == {"BCC", "BCS", "BEQ", "BMI", "BNE", "BPL", "BVC", "BVS"}

Subject(name) ==
    CASE name \in {"LDX", "STX", "CPX", "INX", "DEX"} -> "x"
      [] name \in {"LDY", "STY", "CPY", "INY", "DEY"} -> "y"
      [] OTHER -> "a"

Function(name) ==
    CASE name \in {"CPX", "CPY"} -> "CMP"
      [] name \in {"INX", "INY"} -> "INC"
      [] name \in {"DEX", "DEY"} -> "DEC"
      [] name = "ASL" -> "SHIFT_LEFT"
      [] name = "LSR" -> "SHIFT_RIGHT"
      [] name = "ROL" -> "ROTATE_LEFT"
      [] name = "ROR" -> "ROTATE_RIGHT"
      [] OTHER -> name

-----------------------------------------------------------------------------
(* Bus accesses.                                                           *)

\* Mutant: the first read goes to the address without the index.
UnfixedUnindexed(mode, s) == Base(mode, s)

\* The index is added to the low byte first: one cycle of an indexed access
\* still has the high byte of the base.
Unfixed(mode, s) ==
    CombineToU16(U16High(Base(mode, s)), U16Low(Effective(mode, s)))

R(a) == [kind |-> "read", address |-> a]
W(a) == [kind |-> "write", address |-> a]

AddressCycles(mode, s) ==
    LET zp    == Operand(s)
        fetch == R(Add16(s.pc, 1))
    IN  CASE mode = "Immediate" -> <<>>
          [] mode = "ZeroPage" -> <<fetch>>
          [] mode \in {"ZeroPageX", "ZeroPageY"} -> <<fetch, R(zp)>>
          [] mode = "XIndirect" ->
                LET pointer == U16Low(zp + s.reg["x"])
                IN  <<fetch, R(zp), R(pointer), R(Inc8(pointer))>>
          [] mode = "IndirectY" -> <<fetch, R(zp), R(Inc8(zp))>>
          [] OTHER -> <<fetch, R(Add16(s.pc, 2))>>

\* Reads retry after a page crossing; stores and read-modify-writes, which
\* cannot be undone, always read the unfixed address first.
DataCycles(i, s) ==
    LET a       == Effective(i.mode, s)
        settles == IF i.name \in Stores \cup Unary THEN i.mode \in Indexed
                   ELSE Crosses(i.mode, s)
        first   == IF settles THEN <<R(Unfixed(i.mode, s))>> ELSE <<>>
    IN  first \o CASE i.name \in Stores -> <<W(a)>>
                    [] i.name \in Unary  -> <<R(a), W(a), W(a)>>
                    [] OTHER             -> <<R(a)>>

\* The accesses of the cycles after the opcode fetch.
Accesses(i, s) == AddressCycles(i.mode, s) \o DataCycles(i, s)

HasOperand(i) ==
    i.name \in Loads \cup Stores \cup Binary \cup Unary /\ i.mode # "Implied"
=============================================================================
