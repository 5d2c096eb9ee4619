--------------------------- MODULE AluBenchProofs ---------------------------
(***************************************************************************)
(* What ADC, SBC and the shifts compute, in ordinary integers and for all  *)
(* bytes, and from that the sixteen-bit properties of AluBench for every   *)
(* set of Samples.                                                         *)
(***************************************************************************)
EXTENDS AluBench, AluProofs

-----------------------------------------------------------------------------
(* The flags, one at a time.                                               *)

LEMMA SetFlagMember ==
    ASSUME NEW t, NEW f, NEW g, NEW on \in BOOLEAN
    PROVE  g \in SetFlag(t, f, on) <=> IF g = f THEN on ELSE g \in t
BY DEF SetFlag

LEMMA ZNMembers ==
    ASSUME NEW t, NEW v \in Byte
    PROVE  /\ carry \in SetZNFlags(t, v) <=> carry \in t
           /\ negative \in SetZNFlags(t, v) <=> v >= 128
BY SetFlagMember DEF SetZNFlags, SetFlag, Negative, carry, zero, negative, Byte

LEMMA CarryInValue ==
    ASSUME NEW t PROVE /\ CarryIn(t) \in {0, 1}
                       /\ CarryIn(t) = 1 <=> carry \in t
BY DEF CarryIn

-----------------------------------------------------------------------------
(* Addition and subtraction.                                               *)

\* The integer e does not fit in a signed byte, or in a signed word.
ByteOverflow(e) == e < -128 \/ e > 127
WordOverflow(e) == e < -32768 \/ e > 32767

\* ADC of cpu_isa.cpp adds exactly: the register and the carry together are the
\* nine-bit sum, V is the signed overflow and N the sign of the result.
THEOREM ADCAdds ==
    ASSUME NEW r \in Byte, NEW m \in Byte, NEW t \in Status
    PROVE  LET out == ADC(r, m, t)
               sum == r + m + CarryIn(t)
           IN  /\ out.reg \in Byte /\ out.status \in Status
               /\ out.reg + 256 * CarryIn(out.status) = sum
               /\ overflow \in out.status <=>
                    ByteOverflow(SignedByte(r) + SignedByte(m) + CarryIn(t))
               /\ negative \in out.status <=> out.reg >= 128
<1> DEFINE sum == r + m + CarryIn(t)
           low == U16Low(sum)
           c   == SetFlag(t, carry, sum > 255)
           zn  == SetZNFlags(c, low)
           out == ADC(r, m, t)
<1>1. sum \in Nat /\ sum < 512
  BY CarryInValue DEF Byte
<1>2. low \in Byte /\ low = IF sum > 255 THEN sum - 256 ELSE sum
  BY <1>1 DEF U16Low, Byte
<1>3. out = Outcome(low, SetArithmeticOverflowFlag(zn, r, m, low))
  BY DEF ADC
<1>4. out.reg = low /\ out.status = SetArithmeticOverflowFlag(zn, r, m, low)
  BY <1>3 DEF Outcome
<1>5. carry \in c <=> sum > 255
  BY <1>1 DEF SetFlag
<1>6. carry \in zn <=> sum > 255
  BY <1>2, <1>5, ZNMembers
<1>7. negative \in zn <=> low >= 128
  BY <1>2, ZNMembers
<1>8. /\ carry \in out.status <=> carry \in zn
      /\ negative \in out.status <=> negative \in zn
      /\ overflow \in out.status <=>
           /\ Negative(r) = Negative(m)
           /\ Negative(r) # Negative(low)
  BY <1>4 DEF SetArithmeticOverflowFlag, SetFlag, carry, negative, overflow
<1>9. out.reg + 256 * CarryIn(out.status) = sum
  BY <1>1, <1>2, <1>4, <1>6, <1>8, CarryInValue DEF Byte
<1>10. overflow \in out.status <=>
         ByteOverflow(SignedByte(r) + SignedByte(m) + CarryIn(t))
  <2> DEFINE k == CarryIn(t)
  <2> HIDE DEF k, out, low
  <2>1. /\ SignedByte(r) = IF r >= 128 THEN r - 256 ELSE r
        /\ SignedByte(m) = IF m >= 128 THEN m - 256 ELSE m
    BY DEF SignedByte
  <2>2. k \in {0, 1} /\ low \in Nat /\ low < 256 /\ r \in Nat /\ r < 256 /\ m \in Nat /\ m < 256
    BY <1>2, CarryInValue DEF k, Byte
  <2>3. low = IF r + m + k > 255 THEN r + m + k - 256 ELSE r + m + k
    BY <1>2, <2>2 DEF k
  <2>4. overflow \in out.status <=>
          (r >= 128 <=> m >= 128) /\ ~(r >= 128 <=> low >= 128)
    BY <1>8 DEF Negative
  <2>5. (r >= 128 <=> m >= 128) /\ ~(r >= 128 <=> low >= 128)
          <=> ByteOverflow(SignedByte(r) + SignedByte(m) + k)
    BY <2>1, <2>2, <2>3 DEF ByteOverflow
  <2> QED
    BY <2>4, <2>5 DEF k
<1>11. out.reg \in Byte /\ out.status \in Status
  BY ADCType DEF IsOutcome
<1>12. negative \in out.status <=> out.reg >= 128
  BY <1>4, <1>7, <1>8
<1> HIDE DEF out
<1> QED
  BY <1>9, <1>10, <1>11, <1>12 DEF out

\* SBC of cpu_isa.cpp subtracts: the carry is the absence of a borrow.
THEOREM SBCSubtracts ==
    ASSUME NEW r \in Byte, NEW m \in Byte, NEW t \in Status
    PROVE  LET out == SBC(r, m, t)
           IN  /\ out.reg \in Byte /\ out.status \in Status
               /\ out.reg - 256 * (1 - CarryIn(out.status)) = r - m - (1 - CarryIn(t))
               /\ overflow \in out.status <=>
                    ByteOverflow(SignedByte(r) - SignedByte(m) - (1 - CarryIn(t)))
               /\ negative \in out.status <=> out.reg >= 128
<1> DEFINE n   == NotByte(m)
           out == ADC(r, n, t)
<1>1. n \in Byte /\ n = 255 - m
  BY DEF NotByte, Byte
<1>2. SignedByte(n) = -1 - SignedByte(m) /\ SignedByte(m) \in Int /\ SignedByte(r) \in Int
  BY <1>1 DEF Byte, SignedByte
<1>3. CarryIn(t) \in {0, 1} /\ CarryIn(out.status) \in {0, 1}
  BY CarryInValue
<1>4. /\ out.reg \in Byte /\ out.status \in Status
      /\ out.reg + 256 * CarryIn(out.status) = r + n + CarryIn(t)
      /\ overflow \in out.status <=>
           ByteOverflow(SignedByte(r) + SignedByte(n) + CarryIn(t))
      /\ negative \in out.status <=> out.reg >= 128
  BY <1>1, ADCAdds
<1>5. out.reg - 256 * (1 - CarryIn(out.status)) = r - m - (1 - CarryIn(t))
  BY <1>1, <1>3, <1>4 DEF Byte
<1>6. SignedByte(r) + SignedByte(n) + CarryIn(t)
        = SignedByte(r) - SignedByte(m) - (1 - CarryIn(t))
  BY <1>2, <1>3
<1> QED
  BY <1>4, <1>5, <1>6 DEF SBC

-----------------------------------------------------------------------------
(* Shifts.                                                                 *)

IsBit(n) == n \in {0, 1}

\* The shifts and rotations of cpu_isa.cpp double or halve, with the carry as
\* the ninth bit.
LEMMA ShiftLeftDoubles ==
    ASSUME NEW r \in Byte, NEW in, IsBit(in), NEW t \in Status
    PROVE  LET out == ShiftLeft(r, in, t)
           IN  /\ out.reg \in Byte /\ out.status \in Status
               /\ out.reg + 256 * CarryIn(out.status) = 2 * r + in
<1> DEFINE out == ShiftLeft(r, in, t)
           v   == (2 * r + in) % 256
           c   == SetFlag(t, carry, Negative(r))
<1>1. out.reg \in Byte /\ out.status \in Status
  BY ShiftType DEF IsOutcome, IsBit
<1>2. out.reg = v /\ out.status = SetZNFlags(c, v)
  BY DEF ShiftLeft, WithZN, Outcome
<1>3. carry \in c <=> r >= 128
  BY DEF SetFlag, Negative
<1>4. carry \in out.status <=> r >= 128
  BY <1>1, <1>2, <1>3, ZNMembers
<1>5. v = IF r >= 128 THEN 2 * r + in - 256 ELSE 2 * r + in
  BY DEF Byte, IsBit
<1>6. out.reg + 256 * CarryIn(out.status) = 2 * r + in
  BY <1>2, <1>4, <1>5, CarryInValue DEF Byte, IsBit
<1> QED
  BY <1>1, <1>6

LEMMA ShiftRightHalves ==
    ASSUME NEW r \in Byte, NEW in, IsBit(in), NEW t \in Status
    PROVE  LET out == ShiftRight(r, in, t)
           IN  /\ out.reg \in Byte /\ out.status \in Status
               /\ 2 * out.reg + CarryIn(out.status) = r + 256 * in
<1> DEFINE out == ShiftRight(r, in, t)
           v   == r \div 2 + 128 * in
           c   == SetFlag(t, carry, r % 2 = 1)
<1>1. out.reg \in Byte /\ out.status \in Status
  BY ShiftType DEF IsOutcome, IsBit
<1>2. out.reg = v /\ out.status = SetZNFlags(c, v)
  BY DEF ShiftRight, WithZN, Outcome
<1>3. carry \in c <=> r % 2 = 1
  BY DEF SetFlag
<1>4. carry \in out.status <=> r % 2 = 1
  BY <1>1, <1>2, <1>3, ZNMembers
<1>5. 2 * (r \div 2) + (r % 2) = r /\ r % 2 \in {0, 1} /\ r \div 2 \in Int
  BY DEF Byte
<1>6. CarryIn(out.status) = r % 2
  BY <1>4, <1>5, CarryInValue
<1>7. 2 * out.reg + CarryIn(out.status) = r + 256 * in
  BY <1>2, <1>5, <1>6 DEF Byte, IsBit
<1> QED
  BY <1>1, <1>7

-----------------------------------------------------------------------------
(* Words from bytes, in numbers only: p and q are the operands' bytes, x and *)
(* y the result's, c and d the carries out of the low and the high byte.     *)

LEMMA SignedWord ==
    ASSUME NEW p1 \in Byte, NEW p2 \in Byte
    PROVE  Signed(256 * p2 + p1) = 256 * SignedByte(p2) + p1
BY DEF Signed, SignedByte, Byte

LEMMA SignedByteRange ==
    ASSUME NEW n \in Byte PROVE SignedByte(n) \in Int
BY DEF SignedByte, Byte

LEMMA SignedWordNegative ==
    ASSUME NEW p1 \in Byte, NEW p2 \in Byte
    PROVE  Signed(256 * p2 + p1) < 0 <=> p2 >= 128
BY DEF Signed, Byte

AreWords(p1, p2, q1, q2, x, y, c, d) ==
    /\ p1 \in Byte /\ p2 \in Byte /\ q1 \in Byte /\ q2 \in Byte
    /\ x \in Byte /\ y \in Byte /\ c \in {0, 1} /\ d \in {0, 1}

Added(p1, p2, q1, q2, x, y, c, d) ==
    /\ AreWords(p1, p2, q1, q2, x, y, c, d)
    /\ x + 256 * c = p1 + q1
    /\ y + 256 * d = p2 + q2 + c

Subtracted(p1, p2, q1, q2, x, y, c, d) ==
    /\ AreWords(p1, p2, q1, q2, x, y, c, d)
    /\ x - 256 * (1 - c) = p1 - q1
    /\ y - 256 * (1 - d) = p2 - q2 - (1 - c)

LEMMA WordSum ==
    ASSUME NEW p1, NEW p2, NEW q1, NEW q2, NEW x, NEW y, NEW c, NEW d,
           Added(p1, p2, q1, q2, x, y, c, d)
    PROVE  LET P == 256 * p2 + p1
               Q == 256 * q2 + q1
           IN  /\ 256 * y + x = (P + Q + 65536) % 65536
               /\ d = 1 <=> P + Q > 65535
               /\ WordOverflow(Signed(P) + Signed(Q))
                    <=> ByteOverflow(SignedByte(p2) + SignedByte(q2) + c)
<1> DEFINE P == 256 * p2 + p1
           Q == 256 * q2 + q1
           W == 256 * y + x
<1>0. /\ p1 \in Byte /\ p2 \in Byte /\ q1 \in Byte /\ q2 \in Byte
      /\ x \in Byte /\ y \in Byte /\ c \in {0, 1} /\ d \in {0, 1}
      /\ x + 256 * c = p1 + q1 /\ y + 256 * d = p2 + q2 + c
  BY DEF AreWords, Added
<1>1. W + 65536 * d = P + Q /\ W \in Nat /\ W < 65536
  BY <1>0 DEF Byte
<1>2. P \in Nat /\ P < 65536 /\ Q \in Nat /\ Q < 65536
  BY <1>0 DEF Byte
<1>3. W = (P + Q + 65536) % 65536 /\ (d = 1 <=> P + Q > 65535)
  <2> HIDE DEF P, Q, W
  <2> QED
    BY <1>0, <1>1, <1>2
<1>4. Signed(P) + Signed(Q) = 256 * (SignedByte(p2) + SignedByte(q2) + c) + x
  <2>1. Signed(P) = 256 * SignedByte(p2) + p1 /\ Signed(Q) = 256 * SignedByte(q2) + q1
    BY <1>0, SignedWord
  <2>2. SignedByte(p2) \in Int /\ SignedByte(q2) \in Int
    BY <1>0, SignedByteRange
  <2> QED
    BY <1>0, <2>1, <2>2 DEF Byte
<1>5. SignedByte(p2) + SignedByte(q2) + c \in Int
  BY <1>0, SignedByteRange
<1>6. WordOverflow(Signed(P) + Signed(Q))
        <=> ByteOverflow(SignedByte(p2) + SignedByte(q2) + c)
  <2> DEFINE h == SignedByte(p2) + SignedByte(q2) + c
             e == Signed(P) + Signed(Q)
  <2>1. h \in Int /\ x \in Nat /\ x < 256 /\ e = 256 * h + x
    BY <1>0, <1>4, <1>5 DEF Byte
  <2> HIDE DEF h, e
  <2>2. WordOverflow(e) <=> ByteOverflow(h)
    BY <2>1 DEF WordOverflow, ByteOverflow
  <2> QED
    BY <2>2 DEF h, e
<1> QED
  BY <1>3, <1>6

LEMMA WordDifference ==
    ASSUME NEW p1, NEW p2, NEW q1, NEW q2, NEW x, NEW y, NEW c, NEW d,
           Subtracted(p1, p2, q1, q2, x, y, c, d)
    PROVE  LET P == 256 * p2 + p1
               Q == 256 * q2 + q1
           IN  /\ 256 * y + x = (P - Q + 65536) % 65536
               /\ d = 1 <=> P >= Q
               /\ WordOverflow(Signed(P) - Signed(Q))
                    <=> ByteOverflow(SignedByte(p2) - SignedByte(q2) - (1 - c))
<1> DEFINE P == 256 * p2 + p1
           Q == 256 * q2 + q1
           W == 256 * y + x
<1>0. /\ p1 \in Byte /\ p2 \in Byte /\ q1 \in Byte /\ q2 \in Byte
      /\ x \in Byte /\ y \in Byte /\ c \in {0, 1} /\ d \in {0, 1}
      /\ x - 256 * (1 - c) = p1 - q1 /\ y - 256 * (1 - d) = p2 - q2 - (1 - c)
  BY DEF AreWords, Subtracted
<1>1. W - 65536 * (1 - d) = P - Q /\ W \in Nat /\ W < 65536
  BY <1>0 DEF Byte
<1>2. P \in Nat /\ P < 65536 /\ Q \in Nat /\ Q < 65536
  BY <1>0 DEF Byte
<1>3. W = (P - Q + 65536) % 65536 /\ (d = 1 <=> P >= Q)
  <2> HIDE DEF P, Q, W
  <2> QED
    BY <1>0, <1>1, <1>2
<1>4. Signed(P) - Signed(Q)
        = 256 * (SignedByte(p2) - SignedByte(q2) - (1 - c)) + x
  <2>1. Signed(P) = 256 * SignedByte(p2) + p1 /\ Signed(Q) = 256 * SignedByte(q2) + q1
    BY <1>0, SignedWord
  <2>2. SignedByte(p2) \in Int /\ SignedByte(q2) \in Int
    BY <1>0, SignedByteRange
  <2> QED
    BY <1>0, <2>1, <2>2 DEF Byte
<1>5. SignedByte(p2) - SignedByte(q2) - (1 - c) \in Int
  BY <1>0, SignedByteRange
<1>6. WordOverflow(Signed(P) - Signed(Q))
        <=> ByteOverflow(SignedByte(p2) - SignedByte(q2) - (1 - c))
  <2> DEFINE h == SignedByte(p2) - SignedByte(q2) - (1 - c)
             e == Signed(P) - Signed(Q)
  <2>1. h \in Int /\ x \in Nat /\ x < 256 /\ e = 256 * h + x
    BY <1>0, <1>4, <1>5 DEF Byte
  <2> HIDE DEF h, e
  <2>2. WordOverflow(e) <=> ByteOverflow(h)
    BY <2>1 DEF WordOverflow, ByteOverflow
  <2> QED
    BY <2>2 DEF h, e
<1> QED
  BY <1>3, <1>6

Doubled(p1, p2, x, y, c, d) ==
    /\ AreWords(p1, p2, p1, p2, x, y, c, d)
    /\ x + 256 * c = 2 * p1
    /\ y + 256 * d = 2 * p2 + c

Halved(p1, p2, x, y, c, d) ==
    /\ AreWords(p1, p2, p1, p2, x, y, c, d)
    /\ 2 * y + c = p2
    /\ 2 * x + d = p1 + 256 * c

LEMMA WordDouble ==
    ASSUME NEW p1, NEW p2, NEW x, NEW y, NEW c, NEW d, Doubled(p1, p2, x, y, c, d)
    PROVE  LET P == 256 * p2 + p1
           IN  256 * y + x = (2 * P) % 65536 /\ (d = 1 <=> P >= 32768)
<1> DEFINE P == 256 * p2 + p1
           W == 256 * y + x
<1>1. P \in Nat /\ P < 65536 /\ W \in Nat /\ W < 65536 /\ W + 65536 * d = 2 * P
  BY DEF Doubled, AreWords, Byte
<1>2. d \in {0, 1}
  BY DEF Doubled, AreWords
<1> HIDE DEF P, W
<1>3. W = (2 * P) % 65536 /\ (d = 1 <=> P >= 32768)
  BY <1>1, <1>2
<1> QED
  BY <1>3 DEF P, W

LEMMA WordHalve ==
    ASSUME NEW p1, NEW p2, NEW x, NEW y, NEW c, NEW d, Halved(p1, p2, x, y, c, d)
    PROVE  LET P == 256 * p2 + p1
           IN  256 * y + x = P \div 2 /\ (d = 1 <=> P % 2 = 1)
<1> DEFINE P == 256 * p2 + p1
           W == 256 * y + x
<1>1. P \in Nat /\ P < 65536 /\ W \in Nat /\ W < 65536 /\ 2 * W + d = P
  BY DEF Halved, AreWords, Byte
<1>2. d \in {0, 1}
  BY DEF Halved, AreWords
<1> HIDE DEF P, W
<1>3. W = P \div 2 /\ (d = 1 <=> P % 2 = 1)
  BY <1>1, <1>2
<1> QED
  BY <1>3 DEF P, W

-----------------------------------------------------------------------------
(* The bench.                                                              *)

BenchType ==
    /\ kind \in Kinds /\ step \in {0, 1, 2}
    /\ a[1] \in Byte /\ a[2] \in Byte /\ b[1] \in Byte /\ b[2] \in Byte
    /\ lo \in Byte /\ hi \in Byte /\ s \in Status

Before ==
    /\ lo = a[1] /\ hi = a[2]
    /\ CarryIn(s) = IF kind = "subtract" THEN 1 ELSE 0

\* After the first operation: its byte is done, and the carry links it to the
\* other byte, which is still as it was.
Between ==
    /\ kind = "add" => hi = a[2] /\ lo + 256 * CarryIn(s) = a[1] + b[1]
    /\ kind = "subtract" => hi = a[2] /\ lo - 256 * (1 - CarryIn(s)) = a[1] - b[1]
    /\ kind = "shift_left" => hi = a[2] /\ lo + 256 * CarryIn(s) = 2 * a[1]
    /\ kind = "shift_right" => lo = a[1] /\ 2 * hi + CarryIn(s) = a[2]

BenchInvariant ==
    /\ BenchType
    /\ step = 0 => Before
    /\ step = 1 => Between
    /\ step = 2 => WideAddition /\ WideShift

LEMMA BenchInit == ASSUME Init PROVE BenchInvariant
<1>1. /\ a[1] \in Byte /\ a[2] \in Byte /\ b[1] \in Byte /\ b[2] \in Byte
  BY SamplesAssumption DEF Init
<1>2. s \in Status
  BY DEF Init, Status, BitIndex, carry
<1>3. Before
  BY DEF Init, Before, CarryIn
<1> QED
  BY <1>1, <1>2, <1>3 DEF Init, BenchInvariant, BenchType

LEMMA FirstAdd ==
    ASSUME BenchType, Before, First, kind = "add" PROVE BenchType' /\ Between'
<1> DEFINE out == ADC(lo, b[1], s)
<1>1. OnLow("ADC") /\ UNCHANGED <<kind, a, b>> /\ step' = 1
  BY DEF First
<1>2. lo' = out.reg /\ s' = out.status /\ hi' = hi
  BY <1>1 DEF OnLow, ExecuteOperation
<1>3. /\ out.reg \in Byte /\ out.status \in Status
      /\ out.reg + 256 * CarryIn(out.status) = lo + b[1] + CarryIn(s)
  BY ADCAdds DEF BenchType
<1> HIDE DEF out
<1>4. lo' + 256 * CarryIn(s') = a[1] + b[1]
  BY <1>2, <1>3 DEF Before, BenchType, Byte
<1>5. BenchType'
  BY <1>1, <1>2, <1>3 DEF BenchType
<1>6. Between'
  BY <1>1, <1>2, <1>4 DEF Before, Between
<1> QED
  BY <1>5, <1>6

LEMMA FirstSubtract ==
    ASSUME BenchType, Before, First, kind = "subtract" PROVE BenchType' /\ Between'
<1> DEFINE out == SBC(lo, b[1], s)
<1>1. OnLow("SBC") /\ UNCHANGED <<kind, a, b>> /\ step' = 1
  BY DEF First
<1>2. lo' = out.reg /\ s' = out.status /\ hi' = hi
  BY <1>1 DEF OnLow, ExecuteOperation
<1>3. /\ out.reg \in Byte /\ out.status \in Status
      /\ out.reg - 256 * (1 - CarryIn(out.status)) = lo - b[1] - (1 - CarryIn(s))
  BY SBCSubtracts DEF BenchType
<1> HIDE DEF out
<1>4. lo' - 256 * (1 - CarryIn(s')) = a[1] - b[1]
  BY <1>2, <1>3 DEF Before, BenchType, Byte
<1>5. BenchType'
  BY <1>1, <1>2, <1>3 DEF BenchType
<1>6. Between'
  BY <1>1, <1>2, <1>4 DEF Before, Between
<1> QED
  BY <1>5, <1>6

LEMMA FirstShift ==
    ASSUME BenchType, Before, First, kind \in {"shift_left", "shift_right"}
    PROVE  BenchType' /\ Between'
<1>1. UNCHANGED <<kind, a, b>> /\ step' = 1
  BY DEF First
<1>2. CASE kind = "shift_left"
  <2>0. PICK in : in = 0 /\ IsBit(in)
    BY DEF IsBit
  <2> DEFINE out == ShiftLeft(lo, in, s)
  <2>1. OnLow("SHIFT_LEFT")
    BY <1>2 DEF First
  <2>2. lo' = out.reg /\ s' = out.status /\ hi' = hi
    BY <2>0, <2>1 DEF OnLow, ExecuteOperation
  <2>3. /\ out.reg \in Byte /\ out.status \in Status
        /\ out.reg + 256 * CarryIn(out.status) = 2 * lo + in
    BY <2>0, ShiftLeftDoubles DEF BenchType
  <2> HIDE DEF out
  <2>4. lo' + 256 * CarryIn(s') = 2 * a[1]
    BY <2>0, <2>2, <2>3, CarryInValue DEF Before, BenchType, Byte
  <2>5. BenchType'
    BY <1>1, <2>2, <2>3 DEF BenchType
  <2>6. Between'
    BY <1>1, <1>2, <2>2, <2>4 DEF Before, Between
  <2> QED
    BY <2>5, <2>6
<1>3. CASE kind = "shift_right"
  <2>0. PICK in : in = 0 /\ IsBit(in)
    BY DEF IsBit
  <2> DEFINE out == ShiftRight(hi, in, s)
  <2>1. OnHigh("SHIFT_RIGHT")
    BY <1>3 DEF First
  <2>2. hi' = out.reg /\ s' = out.status /\ lo' = lo
    BY <2>0, <2>1 DEF OnHigh, ExecuteOperation
  <2>3. /\ out.reg \in Byte /\ out.status \in Status
        /\ 2 * out.reg + CarryIn(out.status) = hi + 256 * in
    BY <2>0, ShiftRightHalves DEF BenchType
  <2> HIDE DEF out
  <2>4. 2 * hi' + CarryIn(s') = a[2]
    BY <2>0, <2>2, <2>3, CarryInValue DEF Before, BenchType, Byte
  <2>5. BenchType'
    BY <1>1, <2>2, <2>3 DEF BenchType
  <2>6. Between'
    BY <1>1, <1>3, <2>2, <2>4 DEF Before, Between
  <2> QED
    BY <2>5, <2>6
<1> QED
  BY <1>2, <1>3

LEMMA SecondAdd ==
    ASSUME BenchType, Between, Second, kind = "add"
    PROVE  BenchType' /\ WideAddition' /\ WideShift'
<1> DEFINE out == ADC(hi, b[2], s)
           c   == CarryIn(s)
           d   == CarryIn(out.status)
<1>1. OnHigh("ADC") /\ UNCHANGED <<kind, a, b>> /\ step' = 2
  BY DEF Second
<1>2. hi' = out.reg /\ s' = out.status /\ lo' = lo
  BY <1>1 DEF OnHigh, ExecuteOperation
<1>3. /\ out.reg \in Byte /\ out.status \in Status
      /\ out.reg + 256 * d = hi + b[2] + c
      /\ overflow \in out.status <=>
           ByteOverflow(SignedByte(hi) + SignedByte(b[2]) + c)
      /\ negative \in out.status <=> out.reg >= 128
  BY ADCAdds DEF BenchType
<1>4. c \in {0, 1} /\ d \in {0, 1} /\ (d = 1 <=> carry \in out.status)
  BY CarryInValue
<1>5. hi = a[2] /\ lo + 256 * c = a[1] + b[1]
  BY DEF Between
<1> HIDE DEF out, c, d
<1>6. A' = 256 * a[2] + a[1] /\ B' = 256 * b[2] + b[1] /\ Result' = 256 * out.reg + lo
  BY <1>1, <1>2 DEF A, B, Result, Value, CombineToU16
<1>7. /\ Result' = (A' + B' + 65536) % 65536
      /\ d = 1 <=> A' + B' > 65535
      /\ WordOverflow(Signed(A') + Signed(B'))
           <=> ByteOverflow(SignedByte(a[2]) + SignedByte(b[2]) + c)
  <2>1. Added(a[1], a[2], b[1], b[2], lo, out.reg, c, d)
    BY <1>3, <1>4, <1>5 DEF Added, AreWords, BenchType
  <2> QED
    BY <1>6, <2>1, WordSum
<1>8. Signed(Result') < 0 <=> out.reg >= 128
  BY <1>3, <1>6, SignedWordNegative DEF BenchType
<1>9. BenchType'
  BY <1>1, <1>2, <1>3 DEF BenchType
<1>10. WideAddition'
  BY <1>1, <1>2, <1>3, <1>4, <1>5, <1>7, <1>8 DEF WideAddition, WordOverflow
<1>11. WideShift'
  BY <1>1 DEF WideShift
<1> QED
  BY <1>9, <1>10, <1>11

LEMMA SecondSubtract ==
    ASSUME BenchType, Between, Second, kind = "subtract"
    PROVE  BenchType' /\ WideAddition' /\ WideShift'
<1> DEFINE out == SBC(hi, b[2], s)
           c   == CarryIn(s)
           d   == CarryIn(out.status)
<1>1. OnHigh("SBC") /\ UNCHANGED <<kind, a, b>> /\ step' = 2
  BY DEF Second
<1>2. hi' = out.reg /\ s' = out.status /\ lo' = lo
  BY <1>1 DEF OnHigh, ExecuteOperation
<1>3. /\ out.reg \in Byte /\ out.status \in Status
      /\ out.reg - 256 * (1 - d) = hi - b[2] - (1 - c)
      /\ overflow \in out.status <=>
           ByteOverflow(SignedByte(hi) - SignedByte(b[2]) - (1 - c))
      /\ negative \in out.status <=> out.reg >= 128
  BY SBCSubtracts DEF BenchType
<1>4. c \in {0, 1} /\ d \in {0, 1} /\ (d = 1 <=> carry \in out.status)
  BY CarryInValue
<1>5. hi = a[2] /\ lo - 256 * (1 - c) = a[1] - b[1]
  BY DEF Between
<1> HIDE DEF out, c, d
<1>6. A' = 256 * a[2] + a[1] /\ B' = 256 * b[2] + b[1] /\ Result' = 256 * out.reg + lo
  BY <1>1, <1>2 DEF A, B, Result, Value, CombineToU16
<1>7. /\ Result' = (A' - B' + 65536) % 65536
      /\ d = 1 <=> A' >= B'
      /\ WordOverflow(Signed(A') - Signed(B'))
           <=> ByteOverflow(SignedByte(a[2]) - SignedByte(b[2]) - (1 - c))
  <2>1. Subtracted(a[1], a[2], b[1], b[2], lo, out.reg, c, d)
    BY <1>3, <1>4, <1>5 DEF Subtracted, AreWords, BenchType
  <2> QED
    BY <1>6, <2>1, WordDifference
<1>8. Signed(Result') < 0 <=> out.reg >= 128
  BY <1>3, <1>6, SignedWordNegative DEF BenchType
<1>9. BenchType'
  BY <1>1, <1>2, <1>3 DEF BenchType
<1>10. WideAddition'
  BY <1>1, <1>2, <1>3, <1>4, <1>5, <1>7, <1>8 DEF WideAddition, WordOverflow
<1>11. WideShift'
  BY <1>1 DEF WideShift
<1> QED
  BY <1>9, <1>10, <1>11

LEMMA SecondShiftLeft ==
    ASSUME BenchType, Between, Second, kind = "shift_left"
    PROVE  BenchType' /\ WideAddition' /\ WideShift'
<1> DEFINE c   == CarryIn(s)
           out == ShiftLeft(hi, c, s)
           d   == CarryIn(out.status)
<1>1. OnHigh("ROTATE_LEFT") /\ UNCHANGED <<kind, a, b>> /\ step' = 2
  BY DEF Second
<1>2. hi' = out.reg /\ s' = out.status /\ lo' = lo
  BY <1>1 DEF OnHigh, ExecuteOperation
<1>3. c \in {0, 1} /\ d \in {0, 1} /\ (d = 1 <=> carry \in out.status)
  BY CarryInValue
<1>4. /\ out.reg \in Byte /\ out.status \in Status
      /\ out.reg + 256 * d = 2 * hi + c
  BY <1>3, ShiftLeftDoubles DEF IsBit, BenchType
<1>5. hi = a[2] /\ lo + 256 * c = 2 * a[1]
  BY DEF Between
<1> HIDE DEF out, c, d
<1>6. A' = 256 * a[2] + a[1] /\ Result' = 256 * out.reg + lo
  BY <1>1, <1>2 DEF A, Result, Value, CombineToU16
<1>7. Result' = (2 * A') % 65536 /\ (d = 1 <=> A' >= 32768)
  <2>1. Doubled(a[1], a[2], lo, out.reg, c, d)
    BY <1>3, <1>4, <1>5 DEF Doubled, AreWords, BenchType
  <2> QED
    BY <1>6, <2>1, WordDouble
<1>8. BenchType'
  BY <1>1, <1>2, <1>4 DEF BenchType
<1>9. WideShift'
  BY <1>1, <1>2, <1>3, <1>7 DEF WideShift
<1>10. WideAddition'
  BY <1>1 DEF WideAddition
<1> QED
  BY <1>8, <1>9, <1>10

LEMMA SecondShiftRight ==
    ASSUME BenchType, Between, Second, kind = "shift_right"
    PROVE  BenchType' /\ WideAddition' /\ WideShift'
<1> DEFINE c   == CarryIn(s)
           out == ShiftRight(lo, c, s)
           d   == CarryIn(out.status)
<1>1. OnLow("ROTATE_RIGHT") /\ UNCHANGED <<kind, a, b>> /\ step' = 2
  BY DEF Second
<1>2. lo' = out.reg /\ s' = out.status /\ hi' = hi
  BY <1>1 DEF OnLow, ExecuteOperation
<1>3. c \in {0, 1} /\ d \in {0, 1} /\ (d = 1 <=> carry \in out.status)
  BY CarryInValue
<1>4. /\ out.reg \in Byte /\ out.status \in Status
      /\ 2 * out.reg + d = lo + 256 * c
  BY <1>3, ShiftRightHalves DEF IsBit, BenchType
<1>5. lo = a[1] /\ 2 * hi + c = a[2]
  BY DEF Between
<1> HIDE DEF out, c, d
<1>6. A' = 256 * a[2] + a[1] /\ Result' = 256 * hi + out.reg
  BY <1>1, <1>2 DEF A, Result, Value, CombineToU16
<1>7. Result' = A' \div 2 /\ (d = 1 <=> A' % 2 = 1)
  <2>1. Halved(a[1], a[2], out.reg, hi, c, d)
    BY <1>3, <1>4, <1>5 DEF Halved, AreWords, BenchType
  <2> QED
    BY <1>6, <2>1, WordHalve
<1>8. BenchType'
  BY <1>1, <1>2, <1>4 DEF BenchType
<1>9. WideShift'
  BY <1>1, <1>2, <1>3, <1>7 DEF WideShift
<1>10. WideAddition'
  BY <1>1 DEF WideAddition
<1> QED
  BY <1>8, <1>9, <1>10

LEMMA BenchNext == ASSUME BenchInvariant, [Next]_vars PROVE BenchInvariant'
<1>1. CASE First
  <2>1. BenchType /\ Before /\ step' = 1
    BY <1>1 DEF First, BenchInvariant
  <2>2. BenchType' /\ Between'
    BY <1>1, <2>1, FirstAdd, FirstSubtract, FirstShift DEF BenchType, Kinds
  <2> QED
    BY <2>1, <2>2 DEF BenchInvariant
<1>2. CASE Second
  <2>1. BenchType /\ Between /\ step' = 2
    BY <1>2 DEF Second, BenchInvariant
  <2>2. BenchType' /\ WideAddition' /\ WideShift'
    BY <1>2, <2>1, SecondAdd, SecondSubtract, SecondShiftLeft, SecondShiftRight
    DEF BenchType, Kinds
  <2> QED
    BY <2>1, <2>2 DEF BenchInvariant
<1>3. CASE UNCHANGED vars
  BY <1>3 DEF vars, BenchInvariant, BenchType, Before, Between, WideAddition, WideShift,
              A, B, Result, Value
<1> QED
  BY <1>1, <1>2, <1>3 DEF Next, Done

\* Sixteen-bit addition, subtraction and shifts programmed with the ALU of
\* cpu_isa.cpp are right for all operands: result, carry, overflow and sign.
THEOREM WideArithmetic == Spec => [](WideAddition /\ WideShift)
<1>1. BenchInvariant => WideAddition /\ WideShift
  BY DEF BenchInvariant, BenchType, WideAddition, WideShift
<1> QED
  BY <1>1, BenchInit, BenchNext, PTL DEF Spec

\* The shifts alone: the word is doubled or halved and the bit that falls out is
\* left in the carry (WideShift).
THEOREM WideShiftHolds == Spec => []WideShift
BY WideArithmetic, PTL

-----------------------------------------------------------------------------
(* Bits: AND, EOR and ORA as arithmetic.                                   *)

Digit(i, S) == IF i \in S THEN 1 ELSE 0

\* The byte of a set of bits is the sum of their values.
LEMMA BytesFromDigits ==
    ASSUME NEW S
    PROVE  FromBits(S) = Digit(0, S) + 2 * Digit(1, S) + 4 * Digit(2, S)
                           + 8 * Digit(3, S) + 16 * Digit(4, S) + 32 * Digit(5, S)
                           + 64 * Digit(6, S) + 128 * Digit(7, S)
BY DEF FromBits, Digit

\* Bits finds the binary digits.
LEMMA DigitOfByte ==
    ASSUME NEW r \in Byte
    PROVE  /\ Digit(0, Bits(r)) = r % 2
           /\ Digit(1, Bits(r)) = (r \div 2) % 2
           /\ Digit(2, Bits(r)) = (r \div 4) % 2
           /\ Digit(3, Bits(r)) = (r \div 8) % 2
           /\ Digit(4, Bits(r)) = (r \div 16) % 2
           /\ Digit(5, Bits(r)) = (r \div 32) % 2
           /\ Digit(6, Bits(r)) = (r \div 64) % 2
           /\ Digit(7, Bits(r)) = (r \div 128) % 2
<1>1. /\ 2 ^ 0 = 1 /\ 2 ^ 1 = 2 /\ 2 ^ 2 = 4 /\ 2 ^ 3 = 8
      /\ 2 ^ 4 = 16 /\ 2 ^ 5 = 32 /\ 2 ^ 6 = 64 /\ 2 ^ 7 = 128
  OBVIOUS
<1>2. \A i \in BitIndex : i \in Bits(r) <=> (r \div 2 ^ i) % 2 = 1
  BY DEF Bits
<1>3. /\ 0 \in Bits(r) <=> r % 2 = 1
      /\ 1 \in Bits(r) <=> (r \div 2) % 2 = 1
      /\ 2 \in Bits(r) <=> (r \div 4) % 2 = 1
      /\ 3 \in Bits(r) <=> (r \div 8) % 2 = 1
      /\ 4 \in Bits(r) <=> (r \div 16) % 2 = 1
      /\ 5 \in Bits(r) <=> (r \div 32) % 2 = 1
      /\ 6 \in Bits(r) <=> (r \div 64) % 2 = 1
      /\ 7 \in Bits(r) <=> (r \div 128) % 2 = 1
  BY <1>1, <1>2 DEF BitIndex, Byte
<1> QED BY <1>3 DEF Digit, Byte

\* FromBits is the inverse of Bits.
LEMMA BitsOfByte == ASSUME NEW r \in Byte PROVE FromBits(Bits(r)) = r
<1>1. FromBits(Bits(r)) = (r % 2) + 2 * ((r \div 2) % 2) + 4 * ((r \div 4) % 2)
         + 8 * ((r \div 8) % 2) + 16 * ((r \div 16) % 2) + 32 * ((r \div 32) % 2)
         + 64 * ((r \div 64) % 2) + 128 * ((r \div 128) % 2)
  BY BytesFromDigits, DigitOfByte
<1>2. r = (r % 2) + 2 * ((r \div 2) % 2) + 4 * ((r \div 4) % 2)
         + 8 * ((r \div 8) % 2) + 16 * ((r \div 16) % 2) + 32 * ((r \div 32) % 2)
         + 64 * ((r \div 64) % 2) + 128 * ((r \div 128) % 2)
  BY DEF Byte
<1> QED BY <1>1, <1>2

\* A half adder: the bits of the sum are EOR, those of the carries AND.
LEMMA HalfAdder ==
    ASSUME NEW m \in Byte, NEW n \in Byte
    PROVE  /\ XorByte(m, n) + 2 * AndByte(m, n) = m + n
           /\ OrByte(m, n) = AndByte(m, n) + XorByte(m, n)
<1> DEFINE and == Bits(m) \cap Bits(n)
           or  == Bits(m) \cup Bits(n)
           xor == (Bits(m) \ Bits(n)) \cup (Bits(n) \ Bits(m))
<1> DEFINE Adds(i) ==
              /\ Digit(i, and) \in Int /\ Digit(i, xor) \in Int
              /\ Digit(i, Bits(m)) \in Int /\ Digit(i, Bits(n)) \in Int
              /\ Digit(i, xor) + 2 * Digit(i, and) = Digit(i, Bits(m)) + Digit(i, Bits(n))
              /\ Digit(i, or) = Digit(i, and) + Digit(i, xor)
<1>1. ASSUME NEW i PROVE Adds(i)
  BY DEF Digit
<1> HIDE DEF Adds
<1>2. /\ Adds(0) /\ Adds(1) /\ Adds(2) /\ Adds(3)
      /\ Adds(4) /\ Adds(5) /\ Adds(6) /\ Adds(7)
  BY <1>1
<1>3. FromBits(Bits(m)) = m /\ FromBits(Bits(n)) = n
  BY BitsOfByte
<1> DEFINE Sum(S) == Digit(0, S) + 2 * Digit(1, S) + 4 * Digit(2, S)
                       + 8 * Digit(3, S) + 16 * Digit(4, S) + 32 * Digit(5, S)
                       + 64 * Digit(6, S) + 128 * Digit(7, S)
<1>6. /\ FromBits(Bits(m)) = Sum(Bits(m)) /\ FromBits(Bits(n)) = Sum(Bits(n))
      /\ FromBits(and) = Sum(and) /\ FromBits(or) = Sum(or) /\ FromBits(xor) = Sum(xor)
  BY BytesFromDigits
<1> HIDE DEF and, or, xor
<1>4. Sum(xor) + 2 * Sum(and) = Sum(Bits(m)) + Sum(Bits(n))
  BY <1>2 DEF Adds
<1>5. Sum(or) = Sum(and) + Sum(xor)
  BY <1>2 DEF Adds
<1> HIDE DEF Sum
<1> QED BY <1>3, <1>4, <1>5, <1>6 DEF and, or, xor, AndByte, OrByte, XorByte

-----------------------------------------------------------------------------
(* The operations and the branches, for every operand.                     *)

\* What ADC leaves in the register.
LEMMA ADCRegister ==
    ASSUME NEW r \in Byte, NEW m \in Byte, NEW t
    PROVE  ExecuteOperation("ADC", r, m, t).reg = (r + m + CarryIn(t)) % 256
BY DEF ExecuteOperation, ADC, Outcome, U16Low

\* A carry-less sum.
LEMMA ADCClear ==
    ASSUME NEW r \in Byte, NEW m \in Byte, NEW t
    PROVE  ExecuteOperation("ADC", r, m, t \ {carry}).reg = (r + m) % 256
<1>1. CarryIn(t \ {carry}) = 0
  BY DEF CarryIn
<1>2. ExecuteOperation("ADC", r, m, t \ {carry}).reg = (r + m + CarryIn(t \ {carry})) % 256
  BY ADCRegister
<1>3. r + m + 0 = r + m
  BY DEF Byte
<1> QED BY <1>1, <1>2, <1>3

\* A sum is its carries, shifted, plus its digits; ORA adds the two (ExecuteOperation).
THEOREM OperationsAgreeHolds == Spec => []OperationsAgree
<1>1. BenchInvariant => OperationsAgree
  <2> SUFFICES ASSUME BenchInvariant PROVE OperationsAgree
    OBVIOUS
  <2> DEFINE x      == a[1]
             y      == b[2]
             clear  == s \ {carry}
             both   == ExecuteOperation("AND", x, y, s).reg
             either == ExecuteOperation("EOR", x, y, s).reg
             double == ExecuteOperation("SHIFT_LEFT", both, both, s).reg
  <2>1. x \in Byte /\ y \in Byte
    BY DEF BenchInvariant, BenchType, Byte
  <2>2. /\ both = AndByte(x, y) /\ either = XorByte(x, y)
        /\ ExecuteOperation("ORA", x, y, s).reg = OrByte(x, y)
    BY DEF ExecuteOperation, WithZN, Outcome
  <2>3. double = (2 * both) % 256
    <3>1. double = (2 * both + 0) % 256
      BY DEF ExecuteOperation, ShiftLeft, WithZN, Outcome
    <3>2. both \in Byte
      BY <2>2, FromBitsType DEF AndByte
    <3> HIDE DEF both, double
    <3> QED BY <3>1, <3>2 DEF Byte
  <2>4. both \in Byte /\ either \in Byte /\ OrByte(x, y) \in Byte
    BY <2>2, FromBitsType DEF AndByte, XorByte, OrByte
  <2>5. either + 2 * both = x + y /\ OrByte(x, y) = both + either
    BY <2>1, <2>2, HalfAdder
  <2> HIDE DEF x, y, clear, both, either, double
  <2>6. double \in Byte
    BY <2>3, <2>4 DEF Byte
  <2>7. ExecuteOperation("ADC", x, y, clear).reg
          = ExecuteOperation("ADC", either, double, clear).reg
    <3>1. ExecuteOperation("ADC", x, y, clear).reg = (x + y) % 256
      BY <2>1, ADCClear DEF clear
    <3>2. ExecuteOperation("ADC", either, double, clear).reg = (either + double) % 256
      BY <2>4, <2>6, ADCClear DEF clear
    <3>3. (either + ((2 * both) % 256)) % 256 = (either + 2 * both) % 256
      BY <2>4 DEF Byte
    <3>4. (either + double) % 256 = (x + y) % 256
      <4>1. either + 2 * both = x + y
        BY <2>5
      <4>2. (either + double) % 256 = (either + ((2 * both) % 256)) % 256
        BY <2>3, <2>4, <2>6 DEF Byte
      <4>3. (either + 2 * both) % 256 = (x + y) % 256
        BY <4>1
      <4> QED BY <3>3, <4>2, <4>3
    <3> QED BY <3>1, <3>2, <3>4
  <2>8. ExecuteOperation("ORA", x, y, s).reg
          = ExecuteOperation("ADC", both, either, clear).reg
    <3>1. ExecuteOperation("ADC", both, either, clear).reg = (both + either) % 256
      BY <2>4, ADCClear DEF clear
    <3>2. (both + either) % 256 = both + either
      BY <2>4, <2>5 DEF Byte
    <3> QED BY <2>2, <2>5, <3>1, <3>2
  <2> QED BY <2>7, <2>8 DEF x, y, clear, both, either, double, OperationsAgree
<1> QED BY <1>1, BenchInit, BenchNext, PTL DEF Spec

\* CMP leaves the unsigned order in C and equality in Z.
LEMMA CMPCompares ==
    ASSUME NEW r \in Byte, NEW m \in Byte, NEW t
    PROVE  LET out == ExecuteOperation("CMP", r, m, t).status
           IN  /\ carry \in out <=> r >= m
               /\ zero \in out <=> r = m
<1> DEFINE v == (r + 256 - m) % 256
           c == SetFlag(t, carry, r >= m)
<1>1. ExecuteOperation("CMP", r, m, t).status = SetZNFlags(c, v)
  BY DEF ExecuteOperation, CMP, Outcome
<1>2. v = 0 <=> r = m
  BY DEF Byte
<1>3. carry \in c <=> r >= m
  BY DEF SetFlag
<1> HIDE DEF c, v
<1>4. /\ carry \in SetZNFlags(c, v) <=> carry \in c
      /\ zero \in SetZNFlags(c, v) <=> v = 0
  BY DEF SetZNFlags, SetFlag, carry, zero, negative
<1> QED BY <1>1, <1>2, <1>3, <1>4

\* BIT copies bits 7 and 6 of the operand.
LEMMA BITCopies ==
    ASSUME NEW r \in Byte, NEW m \in Byte, NEW t
    PROVE  LET out == ExecuteOperation("BIT", r, m, t).status
           IN  /\ negative \in out <=> m >= 128
               /\ overflow \in out <=> m % 128 >= 64
<1> DEFINE z  == SetFlag(t, zero, AndByte(r, m) = 0)
           zn == SetFlag(z, negative, Negative(m))
<1>1. ExecuteOperation("BIT", r, m, t).status = SetFlag(zn, overflow, 6 \in Bits(m))
  BY DEF ExecuteOperation, BIT, Outcome
<1>2. 6 \in Bits(m) <=> m % 128 >= 64
  <2>1. 2 ^ 6 = 64
    OBVIOUS
  <2>2. (m \div 64) % 2 = 1 <=> m % 128 >= 64
    BY DEF Byte
  <2> QED BY <2>1, <2>2 DEF Bits, BitIndex
<1> HIDE DEF z
<1>3. /\ negative \in SetFlag(zn, overflow, 6 \in Bits(m)) <=> Negative(m)
      /\ overflow \in SetFlag(zn, overflow, 6 \in Bits(m)) <=> 6 \in Bits(m)
  BY DEF SetFlag, negative, overflow
<1> HIDE DEF zn
<1> QED BY <1>1, <1>2, <1>3 DEF Negative

\* After SEC and SBC, N and V together decide the signed order.
LEMMA SBCCompares ==
    ASSUME NEW r \in Byte, NEW m \in Byte, NEW t \in Status
    PROVE  LET out == ExecuteOperation("SBC", r, m, t \cup {carry}).status
           IN  ~(negative \in out <=> overflow \in out)
                  <=> SignedByte(r) < SignedByte(m)
<1> DEFINE u   == t \cup {carry}
           out == SBC(r, m, u)
<1>1. u \in Status /\ CarryIn(u) = 1
  BY DEF Status, BitIndex, carry, CarryIn
<1>2. /\ out.reg \in Byte /\ CarryIn(out.status) \in {0, 1}
      /\ out.reg - 256 * (1 - CarryIn(out.status)) = r - m
      /\ overflow \in out.status <=> ByteOverflow(SignedByte(r) - SignedByte(m))
      /\ negative \in out.status <=> out.reg >= 128
  <2>1. SignedByte(r) - SignedByte(m) - (1 - 1) = SignedByte(r) - SignedByte(m)
    BY DEF SignedByte, Byte
  <2>2. r - m - (1 - 1) = r - m
    BY DEF Byte
  <2> HIDE DEF u
  <2> QED BY <1>1, <2>1, <2>2, SBCSubtracts, CarryInValue
<1>3. ExecuteOperation("SBC", r, m, u).status = out.status
  BY DEF ExecuteOperation
<1> DEFINE n == out.reg
           c == CarryIn(out.status)
<1> HIDE DEF u, out
<1>4. ~(n >= 128 <=> ByteOverflow(SignedByte(r) - SignedByte(m)))
         <=> SignedByte(r) < SignedByte(m)
  <2>1. n \in Byte /\ c \in {0, 1} /\ n - 256 * (1 - c) = r - m
    BY <1>2
  <2> HIDE DEF n, c
  <2> QED BY <2>1 DEF SignedByte, ByteOverflow, Byte
<1> QED BY <1>2, <1>3, <1>4 DEF u
\* The branches after CMP, after SEC and SBC, and after BIT decide what programs
\* use them for, and each branch of a pair is taken when the other is not
\* (ExecuteCondition).
THEOREM BranchesDecideHolds == Spec => []BranchesDecide
<1>1. BenchInvariant => BranchesDecide
  <2> SUFFICES ASSUME BenchInvariant PROVE BranchesDecide
    OBVIOUS
  <2> DEFINE x   == a[1]
             y   == b[2]
             cmp == ExecuteOperation("CMP", x, y, s).status
             sbc == ExecuteOperation("SBC", x, y, s \cup {carry}).status
             bit == ExecuteOperation("BIT", x, y, s).status
  <2>1. x \in Byte /\ y \in Byte /\ s \in Status
    BY DEF BenchInvariant, BenchType
  <2>2. /\ carry \in cmp <=> x >= y
        /\ zero \in cmp <=> x = y
    BY <2>1, CMPCompares
  <2>3. ~(negative \in sbc <=> overflow \in sbc) <=> SignedByte(x) < SignedByte(y)
    BY <2>1, SBCCompares
  <2>4. /\ negative \in bit <=> y >= 128
        /\ overflow \in bit <=> y % 128 >= 64
    BY <2>1, BITCopies
  <2>5. \A t : /\ ExecuteCondition("BCS", t) = (carry \in t)
              /\ ExecuteCondition("BCC", t) = (carry \notin t)
              /\ ExecuteCondition("BEQ", t) = (zero \in t)
              /\ ExecuteCondition("BNE", t) = (zero \notin t)
              /\ ExecuteCondition("BMI", t) = (negative \in t)
              /\ ExecuteCondition("BPL", t) = (negative \notin t)
              /\ ExecuteCondition("BVS", t) = (overflow \in t)
              /\ ExecuteCondition("BVC", t) = (overflow \notin t)
    BY DEF ExecuteCondition
  <2> HIDE DEF cmp, sbc, bit
  <2>6. /\ ExecuteCondition("BCS", cmp) = (x >= y)
        /\ ExecuteCondition("BEQ", cmp) = (x = y)
    BY <2>1, <2>2, <2>5
  <2>7. (ExecuteCondition("BMI", sbc) # ExecuteCondition("BVS", sbc))
           = (SignedByte(x) < SignedByte(y))
    BY <2>3, <2>5 DEF SignedByte
  <2>8. /\ ExecuteCondition("BMI", bit) = (y >= 128)
        /\ ExecuteCondition("BVS", bit) = (y % 128 >= 64)
    BY <2>4, <2>5
  <2>9. \A t : /\ ExecuteCondition("BCC", t) # ExecuteCondition("BCS", t)
              /\ ExecuteCondition("BNE", t) # ExecuteCondition("BEQ", t)
              /\ ExecuteCondition("BPL", t) # ExecuteCondition("BMI", t)
              /\ ExecuteCondition("BVC", t) # ExecuteCondition("BVS", t)
    BY <2>5
  <2> HIDE DEF x, y
  <2>10. ASSUME NEW t, NEW p \in {<<"BCC", "BCS">>, <<"BNE", "BEQ">>,
                                 <<"BPL", "BMI">>, <<"BVC", "BVS">>}
         PROVE  ExecuteCondition(p[1], t) # ExecuteCondition(p[2], t)
    BY <2>9
  <2> QED BY <2>6, <2>7, <2>8, <2>10 DEF x, y, cmp, sbc, bit, BranchesDecide
<1> QED BY <1>1, BenchInit, BenchNext, PTL DEF Spec
=============================================================================
