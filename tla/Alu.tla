-------------------------------- MODULE Alu --------------------------------
(***************************************************************************)
(* The arithmetic and logic unit: the status flags and ExecuteOperation of *)
(* cpu_isa.cpp.  A status register is the set of the flags that are set; a *)
(* flag is its bit position in CPU::StatusFlags, so Bits and FromBits      *)
(* convert between the register and the byte the program pushes or pulls.  *)
(***************************************************************************)
EXTENDS Bytes

carry == 0
zero == 1
interrupt_disable == 2
decimal_mode == 3
break_command == 4
unused == 5
overflow == 6
negative == 7

Status == SUBSET BitIndex

SetFlag(s, f, on) == IF on THEN s \cup {f} ELSE s \ {f}

SetZNFlags(s, v) == SetFlag(SetFlag(s, zero, v = 0), negative, Negative(v))

\* Mutant: the sign of the value is not compared with the operand's.
OverflowBySignChange(s, value, operand, result) ==
    SetFlag(s, overflow, Negative(value) # Negative(result))

\* The value and the operand agree in sign, and the result does not.
SetArithmeticOverflowFlag(s, value, operand, result) ==
    SetFlag(s, overflow, /\ Negative(value) = Negative(operand)
                         /\ Negative(value) # Negative(result))

CarryIn(s) == IF carry \in s THEN 1 ELSE 0

\* What an operation leaves in its register and in the status register.
Outcome(r, s) == [reg |-> r, status |-> s]

WithZN(r, s) == Outcome(r, SetZNFlags(s, r))

ADC(r, m, s) ==
    LET sum == r + m + CarryIn(s)
        low == U16Low(sum)
        zn  == SetZNFlags(SetFlag(s, carry, sum > 255), low)
    IN  Outcome(low, SetArithmeticOverflowFlag(zn, r, m, low))

\* A - M - (1 - C) is A + ~M + C.
SBC(r, m, s) == ADC(r, NotByte(m), s)

\* Mutant: equality counts as a borrow.
CMPStrict(r, m, s) ==
    Outcome(r, SetZNFlags(SetFlag(s, carry, r > m), (r + 256 - m) % 256))

CMP(r, m, s) ==
    Outcome(r, SetZNFlags(SetFlag(s, carry, r >= m), (r + 256 - m) % 256))

BIT(r, m, s) ==
    LET z  == SetFlag(s, zero, AndByte(r, m) = 0)
        zn == SetFlag(z, negative, Negative(m))
    IN  Outcome(r, SetFlag(zn, overflow, 6 \in Bits(m)))

\* Shifts: bit `in` enters at the free end, the bit that leaves is the carry.
ShiftLeft(r, in, s)  == WithZN((2 * r + in) % 256, SetFlag(s, carry, Negative(r)))

\* Mutant: nothing enters at bit 7.
ShiftRightLogical(r, in, s) == WithZN(r \div 2, SetFlag(s, carry, r % 2 = 1))

ShiftRight(r, in, s) == WithZN(r \div 2 + 128 * in, SetFlag(s, carry, r % 2 = 1))

Operation == {"AND", "EOR", "ORA", "BIT", "ADC", "SBC", "CMP", "INC", "DEC",
              "SHIFT_LEFT", "SHIFT_RIGHT", "ROTATE_LEFT", "ROTATE_RIGHT"}

ExecuteOperation(op, r, m, s) ==
    CASE op = "AND" -> WithZN(AndByte(r, m), s)
      [] op = "EOR" -> WithZN(XorByte(r, m), s)
      [] op = "ORA" -> WithZN(OrByte(r, m), s)
      [] op = "BIT" -> BIT(r, m, s)
      [] op = "ADC" -> ADC(r, m, s)
      [] op = "SBC" -> SBC(r, m, s)
      [] op = "CMP" -> CMP(r, m, s)
      [] op = "INC" -> WithZN(Inc8(r), s)
      [] op = "DEC" -> WithZN(Dec8(r), s)
      [] op = "SHIFT_LEFT"   -> ShiftLeft(r, 0, s)
      [] op = "SHIFT_RIGHT"  -> ShiftRight(r, 0, s)
      [] op = "ROTATE_LEFT"  -> ShiftLeft(r, CarryIn(s), s)
      [] op = "ROTATE_RIGHT" -> ShiftRight(r, CarryIn(s), s)

ExecuteCondition(condition, s) ==
    CASE condition = "BCC" -> carry \notin s
      [] condition = "BCS" -> carry \in s
      [] condition = "BEQ" -> zero \in s
      [] condition = "BMI" -> negative \in s
      [] condition = "BNE" -> zero \notin s
      [] condition = "BPL" -> negative \notin s
      [] condition = "BVC" -> overflow \notin s
      [] condition = "BVS" -> overflow \in s
=============================================================================
