----------------------------- MODULE AluProofs -----------------------------
(***************************************************************************)
(* What the operators of Bytes and Alu return, for every byte: their types *)
(* and the arithmetic meaning of the carry and overflow flags.             *)
(***************************************************************************)
EXTENDS Alu, Integers, TLAPS

-----------------------------------------------------------------------------
(* Types.                                                                  *)

LEMMA U16HighType == ASSUME NEW w \in Word PROVE U16High(w) \in Byte
<1>1. w \div 256 \in Int
  BY DEF Word
<1>2. w \div 256 < 256
  BY DEF Word
<1>3. w \div 256 >= 0
  BY DEF Word
<1> QED
  BY <1>1, <1>2, <1>3 DEF U16High, Byte

LEMMA U16LowType == ASSUME NEW w \in Nat PROVE U16Low(w) \in Byte
BY DEF U16Low, Byte

LEMMA CombineType ==
    ASSUME NEW h \in Byte, NEW l \in Byte
    PROVE  CombineToU16(h, l) \in Word
BY DEF CombineToU16, Byte, Word

LEMMA Inc8Type == ASSUME NEW b \in Byte PROVE Inc8(b) \in Byte
BY DEF Inc8, Byte

LEMMA Dec8Type == ASSUME NEW b \in Byte PROVE Dec8(b) \in Byte
BY DEF Dec8, Byte

LEMMA Inc16Type == ASSUME NEW w \in Word PROVE Inc16(w) \in Word
BY DEF Inc16, Word

LEMMA BitsType == ASSUME NEW b PROVE Bits(b) \in Status
BY DEF Bits, Status

LEMMA FromBitsType == ASSUME NEW S PROVE FromBits(S) \in Byte
BY DEF FromBits, Byte

LEMMA FlagSetType ==
    ASSUME NEW s \in Status, NEW f \in BitIndex PROVE s \cup {f} \in Status
BY DEF Status

LEMMA FlagClearType == ASSUME NEW s \in Status, NEW f PROVE s \ {f} \in Status
BY DEF Status

LEMMA SetFlagType ==
    ASSUME NEW s \in Status, NEW f \in BitIndex, NEW on
    PROVE  SetFlag(s, f, on) \in Status
BY DEF SetFlag, Status

LEMMA SetZNFlagsType ==
    ASSUME NEW s \in Status, NEW v PROVE SetZNFlags(s, v) \in Status
BY DEF SetZNFlags, SetFlag, Status, BitIndex, zero, negative

IsOutcome(out) == out.reg \in Byte /\ out.status \in Status

LEMMA WithZNType ==
    ASSUME NEW r \in Byte, NEW s \in Status PROVE IsOutcome(WithZN(r, s))
BY SetZNFlagsType DEF WithZN, Outcome, IsOutcome

LEMMA CarryInType == ASSUME NEW s PROVE CarryIn(s) \in {0, 1}
BY DEF CarryIn

LEMMA CarrySetType ==
    ASSUME NEW s \in Status, NEW on PROVE SetFlag(s, carry, on) \in Status
BY SetFlagType DEF carry, BitIndex

LEMMA ADCType ==
    ASSUME NEW r \in Byte, NEW m \in Byte, NEW s \in Status
    PROVE  IsOutcome(ADC(r, m, s))
<1> DEFINE sum == r + m + CarryIn(s)
           zn  == SetZNFlags(SetFlag(s, carry, sum > 255), U16Low(sum))
           t   == SetArithmeticOverflowFlag(zn, r, m, U16Low(sum))
<1>1. sum \in Nat
  BY CarryInType DEF Byte
<1>2. U16Low(sum) \in Byte
  BY <1>1, U16LowType
<1>3. zn \in Status
  BY CarrySetType, SetZNFlagsType
<1>4. t \in Status
  BY <1>3 DEF SetArithmeticOverflowFlag, SetFlag, Status, overflow, BitIndex
<1>5. ADC(r, m, s) = Outcome(U16Low(sum), t)
  BY DEF ADC
<1> QED
  BY <1>2, <1>4, <1>5 DEF Outcome, IsOutcome

LEMMA SBCType ==
    ASSUME NEW r \in Byte, NEW m \in Byte, NEW s \in Status
    PROVE  IsOutcome(SBC(r, m, s))
<1>1. NotByte(m) \in Byte
  BY DEF NotByte, Byte
<1> QED
  BY <1>1, ADCType DEF SBC

LEMMA CMPType ==
    ASSUME NEW r \in Byte, NEW m, NEW s \in Status
    PROVE  IsOutcome(CMP(r, m, s))
BY CarrySetType, SetZNFlagsType DEF CMP, Outcome, IsOutcome

LEMMA BITType ==
    ASSUME NEW r \in Byte, NEW m, NEW s \in Status
    PROVE  IsOutcome(BIT(r, m, s))
<1> DEFINE z  == SetFlag(s, zero, AndByte(r, m) = 0)
           zn == SetFlag(z, negative, Negative(m))
<1>1. z \in Status /\ zn \in Status
  BY SetFlagType DEF zero, negative, BitIndex
<1>2. SetFlag(zn, overflow, 6 \in Bits(m)) \in Status
  BY <1>1, SetFlagType DEF overflow, BitIndex
<1> QED
  BY <1>2 DEF BIT, Outcome, IsOutcome

LEMMA ShiftType ==
    ASSUME NEW r \in Byte, NEW in \in {0, 1}, NEW s \in Status
    PROVE  IsOutcome(ShiftLeft(r, in, s)) /\ IsOutcome(ShiftRight(r, in, s))
<1>1. (2 * r + in) % 256 \in Byte
  BY DEF Byte
<1>2. r \div 2 \in 0 .. 127
  <2>1. r \div 2 \in Int
    BY DEF Byte
  <2>2. r \div 2 >= 0 /\ r \div 2 < 128
    BY DEF Byte
  <2> QED
    BY <2>1, <2>2
<1>3. r \div 2 + 128 * in \in Byte
  BY <1>2 DEF Byte
<1> QED
  BY <1>1, <1>3, CarrySetType, WithZNType DEF ShiftLeft, ShiftRight

\* Every operation leaves a byte in its register and flags in the status
\* register (ExecuteOperation of cpu_isa.cpp).
THEOREM OperationType ==
    ASSUME NEW op \in Operation, NEW r \in Byte, NEW m \in Byte, NEW s \in Status
    PROVE  IsOutcome(ExecuteOperation(op, r, m, s))
<1>1. CASE op \in {"AND", "EOR", "ORA"}
  BY <1>1, FromBitsType, WithZNType
  DEF ExecuteOperation, AndByte, XorByte, OrByte
<1>2. CASE op \in {"BIT", "ADC", "SBC", "CMP"}
  BY <1>2, BITType, ADCType, SBCType, CMPType DEF ExecuteOperation
<1>3. CASE op \in {"INC", "DEC"}
  BY <1>3, Inc8Type, Dec8Type, WithZNType DEF ExecuteOperation
<1>4. CASE op \in {"SHIFT_LEFT", "SHIFT_RIGHT", "ROTATE_LEFT", "ROTATE_RIGHT"}
  BY <1>4, CarryInType, ShiftType DEF ExecuteOperation
<1> QED
  BY <1>1, <1>2, <1>3, <1>4 DEF Operation
=============================================================================
