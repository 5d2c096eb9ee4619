------------------------------- MODULE Bytes -------------------------------
(***************************************************************************)
(* The fixed-width integers of QNes (u8, u16) and the bit helpers of       *)
(* qnes_bits.hpp.  A byte is also seen as the set of its one bits, so that *)
(* the bitwise operators are set operators.                                *)
(***************************************************************************)
EXTENDS Naturals

Byte == {b \in Nat : b < 256}
Word == {w \in Nat : w < 65536}

U16Low(w) == w % 256
U16High(w) == w \div 256
CombineToU16(high, low) == 256 * high + low

\* ++ and -- on a u8, ++ on a u16.
Inc8(b) == (b + 1) % 256
Dec8(b) == (b + 255) % 256
Inc16(w) == (w + 1) % 65536

BitIndex == 0 .. 7

\* The positions of the one bits of a byte, and the byte that has given ones.
Bits(b) == {i \in BitIndex : (b \div 2 ^ i) % 2 = 1}

FromBits(S) ==
    LET bit(i, v) == IF i \in S THEN v ELSE 0
    IN  bit(0, 1) + bit(1, 2) + bit(2, 4) + bit(3, 8)
          + bit(4, 16) + bit(5, 32) + bit(6, 64) + bit(7, 128)

AndByte(m, n) == FromBits(Bits(m) \cap Bits(n))
\* Mutant: a bit set in both operands is lost.
OrByteExclusive(m, n) == FromBits((Bits(m) \ Bits(n)) \cup (Bits(n) \ Bits(m)))

OrByte(m, n)  == FromBits(Bits(m) \cup Bits(n))
XorByte(m, n) == FromBits((Bits(m) \ Bits(n)) \cup (Bits(n) \ Bits(m)))
NotByte(n)    == 255 - n

\* The sign bit (0x80) of a byte.
Negative(b) == b >= 128

\* Memory is zero-initialised, so only the cells written so far are kept.
Cell(mem, a) == IF a \in DOMAIN mem THEN mem[a] ELSE 0
Put(mem, a, v) ==
    [b \in DOMAIN mem \cup {a} |-> IF b = a THEN v ELSE mem[b]]
=============================================================================
