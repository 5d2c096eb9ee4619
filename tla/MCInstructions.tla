-------------------------- MODULE MCInstructions ---------------------------
(***************************************************************************)
(* Every opcode from every corner: one memory image per opcode and set of  *)
(* operands.  A preamble of real instructions, reached through the reset   *)
(* vector, loads sp, x, y, a and the status register; then comes the       *)
(* instruction under test.  Nothing is signalled.                          *)
(***************************************************************************)
EXTENDS CPUProgress, SequencesExt

At0(base, bytes) ==
    [a \in {(base + k - 1) % 65536 : k \in 1 .. Len(bytes)} |->
        bytes[1 + ((a + 65536 - base) % 65536)]]

\* c: sp, x, y, a, pulled status, operand low and high byte, program address.
Program(opcode, c) ==
    <<162, c.sp, 154,          \* LDX #sp  TXS
      162, c.x, 160, c.y,      \* LDX #x   LDY #y
      169, c.a, 40,            \* LDA #a   PLP
      opcode, c.lo, c.hi>>

PreambleLength == 6

\* Page zero and the edges of the pages the operands point to hold data.
Data ==
    [a \in (0 .. 3) \cup (14 .. 18) \cup (126 .. 130) \cup (252 .. 255)
             \cup (528 .. 531) \cup (766 .. 770) |-> (37 * a + 11) % 256]

Vectors(base) ==
    [a \in 65530 .. 65535 |->
        CASE a = 65532 -> U16Low(base)
          [] a = 65533 -> U16High(base)
          [] a % 2 = 0 -> 64            \* NMI and IRQ: 0x0340
          [] OTHER -> 3]

Image(opcode, c) ==
    LET pulled == [a \in {256 + Inc8(c.sp)} |-> c.p]
    IN  At0(c.base, Program(opcode, c)) @@ Vectors(c.base) @@ pulled @@ Data

Corner(s, x, y, a, p, lo, hi, base) ==
    [sp |-> s, x |-> x, y |-> y, a |-> a, p |-> p, lo |-> lo, hi |-> hi, base |-> base]

\* 0x0400: within a page; 0x04EB and 0x04F5: the instruction under test, or
\* its branch target, is beyond a page boundary; 0x01F0: the program lies under
\* the stack it pushes to.
CornerSet ==
    {Corner(s, xy[1], xy[2], ap[1], ap[2], op[1], op[2], base) :
        s \in {0, 253},
        base \in {1024, 1259, 1269},
        xy \in {<<1, 255>>, <<240, 2>>},
        ap \in {<<1, 0>>, <<128, 255>>, <<1, 255>>},
        op \in {<<16, 2>>, <<255, 2>>, <<129, 255>>}}
      \cup
    {Corner(s, 1, 255, 128, 0, 16, 2, 496) : s \in {251, 252, 253, 254, 1}}

MCImages == {Image(opcode, c) : opcode \in Opcodes, c \in CornerSet}

\* Stop at the boundary after the instruction under test.
Limit == PreambleLength + 2

TestNext ==
    \/ executed < Limit /\ HStep
    \/ executed = Limit /\ UNCHANGED allVars

TestSpec == HInit /\ [][TestNext]_allVars
=============================================================================
