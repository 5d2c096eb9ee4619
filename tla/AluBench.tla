------------------------------ MODULE AluBench -----------------------------
(***************************************************************************)
(* Sixteen-bit arithmetic as 6502 programs do it: two eight-bit operations *)
(* of the ALU chained by the carry flag.  The properties compare the       *)
(* outcome with ordinary integers.                                         *)
(***************************************************************************)
EXTENDS Alu, Integers

CONSTANT Samples       \* the bytes the operands are built from

ASSUME SamplesAssumption == Samples \subseteq Byte

VARIABLES
    kind,      \* the sixteen-bit operation
    a, b,      \* its operands, pairs <<low byte, high byte>>
    lo, hi,    \* the bytes of the result
    s,         \* the status register
    step       \* eight-bit operations done

vars == <<kind, a, b, lo, hi, s, step>>

Kinds == {"add", "subtract", "shift_left", "shift_right"}

Init ==
    /\ kind \in Kinds
    /\ a \in Samples \X Samples /\ b \in Samples \X Samples
    /\ kind \in {"shift_left", "shift_right"} => b = a
    /\ lo = a[1] /\ hi = a[2] /\ step = 0
    /\ s = IF kind = "subtract" THEN {carry} ELSE {}      \* SEC, CLC

OnLow(op) ==
    LET out == ExecuteOperation(op, lo, b[1], s)
    IN  lo' = out.reg /\ s' = out.status /\ UNCHANGED hi

OnHigh(op) ==
    LET out == ExecuteOperation(op, hi, b[2], s)
    IN  hi' = out.reg /\ s' = out.status /\ UNCHANGED lo

First ==
    /\ step = 0 /\ step' = 1
    /\ CASE kind = "add" -> OnLow("ADC")
         [] kind = "subtract" -> OnLow("SBC")
         [] kind = "shift_left" -> OnLow("SHIFT_LEFT")
         [] kind = "shift_right" -> OnHigh("SHIFT_RIGHT")
    /\ UNCHANGED <<kind, a, b>>

Second ==
    /\ step = 1 /\ step' = 2
    /\ CASE kind = "add" -> OnHigh("ADC")
         [] kind = "subtract" -> OnHigh("SBC")
         [] kind = "shift_left" -> OnHigh("ROTATE_LEFT")
         [] kind = "shift_right" -> OnLow("ROTATE_RIGHT")
    /\ UNCHANGED <<kind, a, b>>

Done == step = 2 /\ UNCHANGED vars

Next == First \/ Second \/ Done

Spec == Init /\ [][Next]_vars

-----------------------------------------------------------------------------

Value(p)  == CombineToU16(p[2], p[1])
Signed(w) == IF w >= 32768 THEN w - 65536 ELSE w
SignedByte(n) == IF n >= 128 THEN n - 256 ELSE n

A == Value(a)
B == Value(b)
Result == Value(<<lo, hi>>)

\* Chained additions and subtractions are sixteen-bit ones: the result is
\* right modulo 2^16, the carry is the unsigned overflow (no borrow for SBC)
\* and the overflow flag the signed one.
WideAddition ==
    step = 2 /\ kind \in {"add", "subtract"} =>
      LET exact(x, y) == IF kind = "add" THEN x + y ELSE x - y
          signed == exact(Signed(A), Signed(B))
      IN  /\ Result = (exact(A, B) + 65536) % 65536
          /\ carry \in s <=> IF kind = "add" THEN A + B > 65535 ELSE A >= B
          /\ overflow \in s <=> signed < -32768 \/ signed > 32767
          /\ negative \in s <=> Signed(Result) < 0

\* A shift of one byte and a rotation of the other double or halve the word,
\* and the bit that falls out is left in the carry.
WideShift ==
    step = 2 /\ kind \in {"shift_left", "shift_right"} =>
      IF kind = "shift_left"
      THEN Result = (2 * A) % 65536 /\ (carry \in s <=> A >= 32768)
      ELSE Result = A \div 2 /\ (carry \in s <=> A % 2 = 1)

\* The operations agree with one another: a sum (ADC) is its carries (AND), shifted,
\* plus its digits (EOR), and ORA adds the two without the shift.
OperationsAgree ==
    LET run(name, r, m, t) == ExecuteOperation(name, r, m, t)
        x      == a[1]
        y      == b[2]
        clear  == s \ {carry}
        both   == run("AND", x, y, s).reg
        either == run("EOR", x, y, s).reg
        double == run("SHIFT_LEFT", both, both, s).reg
    IN  /\ run("ADC", x, y, clear).reg = run("ADC", either, double, clear).reg
        /\ run("ORA", x, y, s).reg = run("ADC", both, either, clear).reg

\* After CMP the branches decide the unsigned order (BCS) and equality (BEQ);
\* after SEC and SBC, N # V (BMI and BVS) decides the signed order; after BIT,
\* BMI and BVS decide bits 7 and 6 of the operand whatever the register holds.
BranchesDecide ==
    LET x   == a[1]
        y   == b[2]
        cmp == ExecuteOperation("CMP", x, y, s).status
        sbc == ExecuteOperation("SBC", x, y, s \cup {carry}).status
        bit == ExecuteOperation("BIT", x, y, s).status
        taken(branch, t) == ExecuteCondition(branch, t)
    IN  /\ taken("BCS", cmp) = (x >= y)
        /\ taken("BEQ", cmp) = (x = y)
        /\ (taken("BMI", sbc) # taken("BVS", sbc)) = (SignedByte(x) < SignedByte(y))
        /\ taken("BMI", bit) = (y >= 128)
        /\ taken("BVS", bit) = (y % 128 >= 64)
        /\ \A t \in {cmp, sbc, bit} :
               \A p \in {<<"BCC", "BCS">>, <<"BNE", "BEQ">>,
                         <<"BPL", "BMI">>, <<"BVC", "BVS">>} :
                   taken(p[1], t) # taken(p[2], t)
=============================================================================
