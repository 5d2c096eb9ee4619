--------------------------- MODULE PowerOnProofs ---------------------------
(***************************************************************************)
(* What the PPU held at power-on is forgotten: for any two contents of its *)
(* uninitialised members, any values the program writes and any number of  *)
(* accesses in between, those to PPUDATA and to OAM among them.            *)
(*                                                                         *)
(* The invariant PairInv says, for every point of the program, which       *)
(* fields of the address and of the mask the two PPUs agree on.            *)
(***************************************************************************)
EXTENDS PowerOnPair, Integers, TLAPS

-----------------------------------------------------------------------------
(* The fields that the writes select, in the address t of fifteen bits.    *)

\* The address with coarse x, both parts of coarse y, the name table, and both
\* parts of fine y: the masks of the registers cut it at these bits.
Joined(x, u, w, h, g, k) == x + 32 * u + 256 * w + 1024 * h + 4096 * g + 16384 * k

LEMMA Parts ==
    ASSUME NEW t \in A!Address
    PROVE  \E x \in 0 .. 31, u \in 0 .. 7, w, h, g \in 0 .. 3, k \in 0 .. 1 :
              t = Joined(x, u, w, h, g, k)
<1> DEFINE x == t % 32
           u == (t \div 32) % 8
           w == (t \div 256) % 4
           h == (t \div 1024) % 4
           g == (t \div 4096) % 4
           k == t \div 16384
<1>1. x \in 0 .. 31 /\ u \in 0 .. 7 /\ w \in 0 .. 3 /\ h \in 0 .. 3 /\ g \in 0 .. 3 /\ k \in 0 .. 1
  BY DEF A!Address
<1>2. t = Joined(x, u, w, h, g, k)
  BY DEF A!Address, Joined
<1> HIDE DEF x, u, w, h, g, k
<1> QED BY <1>1, <1>2

HasParts(t, x, u, w, h, g, k) ==
    /\ x \in 0 .. 31 /\ u \in 0 .. 7 /\ w \in 0 .. 3 /\ h \in 0 .. 3
    /\ g \in 0 .. 3 /\ k \in 0 .. 1
    /\ t \in A!Address
    /\ t % 32 = x
    /\ t % 256 = x + 32 * u
    /\ t % 1024 = x + 32 * u + 256 * w
    /\ (t \div 32) % 32 = u + 8 * w
    /\ (t \div 256) % 64 = w + 4 * h + 16 * g
    /\ (t \div 1024) % 4 = h
    /\ t \div 4096 = g + 4 * k
    /\ (t \div 4096) % 8 = g + 4 * k

LEMMA PartsOf ==
    ASSUME NEW x \in 0 .. 31, NEW u \in 0 .. 7, NEW w \in 0 .. 3, NEW h \in 0 .. 3,
           NEW g \in 0 .. 3, NEW k \in 0 .. 1
    PROVE  HasParts(Joined(x, u, w, h, g, k), x, u, w, h, g, k)
<1> DEFINE t == Joined(x, u, w, h, g, k)
<1>1. t \in A!Address /\ t \in Nat
  BY DEF A!Address, Joined
<1>2. t % 32 = x
  BY DEF Joined
<1>3. t % 256 = x + 32 * u
  BY DEF Joined
<1>4. t % 1024 = x + 32 * u + 256 * w
  BY DEF Joined
<1>5. t \div 32 = u + 8 * w + 32 * h + 128 * g + 512 * k
  BY DEF Joined
<1>6. t \div 256 = w + 4 * h + 16 * g + 64 * k
  BY DEF Joined
<1>7. t \div 1024 = h + 4 * g + 16 * k
  BY DEF Joined
<1>8. t \div 4096 = g + 4 * k
  BY DEF Joined
<1> HIDE DEF t
<1>9. (t \div 32) % 32 = u + 8 * w
  BY <1>5
<1>10. (t \div 256) % 64 = w + 4 * h + 16 * g
  BY <1>6
<1>11. (t \div 1024) % 4 = h
  BY <1>7
<1>12. (t \div 4096) % 8 = g + 4 * k
  BY <1>8
<1> QED
  BY <1>1, <1>2, <1>3, <1>4, <1>8, <1>9, <1>10, <1>11, <1>12 DEF t, HasParts

\* What each write makes of them.  A byte where it stands has no bit above 7.
WrittenParts(t, v, x, u, w, h, g, k) ==
    /\ A!WithCoarseX(t, v) = Joined(v % 32, u, w, h, g, k)
    /\ A!WithCoarseY(t, v) = Joined(x, v \div 32, 0, h, g, k)
    /\ A!WithFineY(t, v) = Joined(x, u, w, h, 0, 0)
    /\ A!WithNameTable(t, v) = Joined(x, u, w, 0, g, k)
    /\ A!WithHighAddress(t, v) = Joined(x, u, 0, 0, 0, k)
    /\ A!WithLowAddress(t, v) = Joined(v % 32, v \div 32, w, h, g, k)

LEMMA PartsWritten ==
    ASSUME NEW x \in 0 .. 31, NEW u \in 0 .. 7, NEW w \in 0 .. 3, NEW h \in 0 .. 3,
           NEW g \in 0 .. 3, NEW k \in 0 .. 1, NEW v \in A!Byte
    PROVE  WrittenParts(Joined(x, u, w, h, g, k), v, x, u, w, h, g, k)
<1> DEFINE t == Joined(x, u, w, h, g, k)
<1>1. /\ t \in A!Address
      /\ t % 32 = x
      /\ t % 256 = x + 32 * u
      /\ (t \div 32) % 32 = u + 8 * w
      /\ (t \div 256) % 64 = w + 4 * h + 16 * g
      /\ (t \div 1024) % 4 = h
      /\ (t \div 4096) % 8 = g + 4 * k
  <2>1. HasParts(t, x, u, w, h, g, k)
    BY PartsOf
  <2> HIDE DEF t
  <2> QED
    BY <2>1 DEF HasParts
<1>2. v \in Nat /\ v < 256 /\ t \in Nat
  BY <1>1 DEF A!Byte, A!Address
<1> DEFINE a == v % 32
           b == v \div 32
<1>15. a \in 0 .. 31 /\ b \in 0 .. 7 /\ v = a + 32 * b
  BY <1>2
<1>16. v \div 1 = v /\ v % 256 = v /\ b % 32 = b
  BY <1>2
<1>17. v \div 256 = 0 /\ v \div 1024 = 0 /\ v \div 4096 = 0
  BY <1>2
<1>18. t \div 1 = t
  <2> HIDE DEF t
  <2> QED BY <1>2
<1>3. t = x + 32 * u + 256 * w + 1024 * h + 4096 * g + 16384 * k
  BY DEF Joined
<1> HIDE DEF t
<1>4. A!WithCoarseX(t, v) = (t - x) + a
  BY <1>1, <1>2, <1>16, <1>18 DEF A!WithCoarseX, A!Replaced, A!Masked
<1>5. A!WithCoarseY(t, v) = (t - 32 * (u + 8 * w)) + 32 * b
  BY <1>1, <1>2, <1>16 DEF A!WithCoarseY, A!Replaced, A!Masked
<1>6. A!WithFineY(t, v) = t - 4096 * (g + 4 * k)
  BY <1>1, <1>2, <1>17 DEF A!WithFineY, A!Replaced, A!Masked
<1>7. A!WithNameTable(t, v) = t - 1024 * h
  BY <1>1, <1>2, <1>17 DEF A!WithNameTable, A!Replaced, A!Masked
<1>8. A!WithHighAddress(t, v) = t - 256 * (w + 4 * h + 16 * g)
  BY <1>1, <1>2, <1>17 DEF A!WithHighAddress, A!Replaced, A!Masked
<1>9. A!WithLowAddress(t, v) = (t - (x + 32 * u)) + v
  BY <1>1, <1>2, <1>16, <1>18 DEF A!WithLowAddress, A!Replaced, A!Masked
<1> HIDE DEF a, b
<1>11. /\ A!WithCoarseX(t, v) = Joined(a, u, w, h, g, k)
       /\ A!WithCoarseY(t, v) = Joined(x, b, 0, h, g, k)
  BY <1>3, <1>4, <1>5, <1>15 DEF Joined
<1>12. /\ A!WithFineY(t, v) = Joined(x, u, w, h, 0, 0)
       /\ A!WithNameTable(t, v) = Joined(x, u, w, 0, g, k)
  BY <1>3, <1>6, <1>7 DEF Joined
<1>13. A!WithHighAddress(t, v) = Joined(x, u, 0, 0, 0, k)
  BY <1>3, <1>8 DEF Joined
<1>14. A!WithLowAddress(t, v) = Joined(a, b, w, h, g, k)
  BY <1>3, <1>9, <1>15 DEF Joined
<1> QED
  BY <1>11, <1>12, <1>13, <1>14 DEF t, a, b, WrittenParts

\* The parts of an address after any write.  Both of coarse and fine y are
\* written at once.
Second(t, v) == A!WithFineY(A!WithCoarseY(t, v), v)

Results(t, v, x, u, w, h, g, k) ==
    /\ HasParts(t, x, u, w, h, g, k)
    /\ A!WithCoarseX(t, v) = Joined(v % 32, u, w, h, g, k)
    /\ Second(t, v) = Joined(x, v \div 32, 0, h, 0, 0)
    /\ A!WithNameTable(t, v) = Joined(x, u, w, 0, g, k)
    /\ A!WithHighAddress(t, v) = Joined(x, u, 0, 0, 0, k)
    /\ A!WithLowAddress(t, v) = Joined(v % 32, v \div 32, w, h, g, k)

LEMMA Cut ==
    ASSUME NEW t \in A!Address, NEW v \in A!Byte
    PROVE  \E x \in 0 .. 31, u \in 0 .. 7, w, h, g \in 0 .. 3, k \in 0 .. 1 :
              Results(t, v, x, u, w, h, g, k)
<1>1. PICK x \in 0 .. 31, u \in 0 .. 7, w, h, g \in 0 .. 3, k \in 0 .. 1 :
        t = Joined(x, u, w, h, g, k)
  BY Parts
<1>2. v \div 32 \in 0 .. 7 /\ 0 \in 0 .. 3 /\ 0 \in 0 .. 1
  BY DEF A!Byte
<1>3. WrittenParts(t, v, x, u, w, h, g, k)
  BY <1>1, PartsWritten
<1> DEFINE b == v \div 32
           y == Joined(x, b, 0, h, g, k)
<1>4. WrittenParts(y, v, x, b, 0, h, g, k)
  <2> HIDE DEF b
  <2> QED
    BY <1>2, PartsWritten DEF b
<1>5. A!WithCoarseY(t, v) = y
  BY <1>3 DEF WrittenParts
<1>6. A!WithFineY(y, v) = Joined(x, b, 0, h, 0, 0)
  BY <1>4 DEF WrittenParts
<1>7. Results(t, v, x, u, w, h, g, k)
  <2> HIDE DEF y
  <2>1. HasParts(t, x, u, w, h, g, k)
    BY <1>1, PartsOf
  <2> QED
    BY <2>1, <1>3, <1>5, <1>6 DEF WrittenParts, Results, Second
<1> QED
  BY <1>7

LEMMA ByteParts ==
    ASSUME NEW v \in A!Byte
    PROVE  v % 32 \in 0 .. 31 /\ v \div 32 \in 0 .. 7 /\ 0 \in 0 .. 3 /\ 0 \in 0 .. 1
BY DEF A!Byte

\* Any parts make an address.
LEMMA JoinedType ==
    ASSUME NEW x \in 0 .. 31, NEW u \in 0 .. 7, NEW w \in 0 .. 3, NEW h \in 0 .. 3,
           NEW g \in 0 .. 3, NEW k \in 0 .. 1
    PROVE  Joined(x, u, w, h, g, k) \in A!Address
BY DEF Joined, A!Address

LEMMA AddressTypes ==
    ASSUME NEW t \in A!Address, NEW v \in A!Byte
    PROVE  /\ A!WithCoarseX(t, v) \in A!Address
           /\ Second(t, v) \in A!Address
           /\ A!WithNameTable(t, v) \in A!Address
           /\ A!WithHighAddress(t, v) \in A!Address
           /\ A!WithLowAddress(t, v) \in A!Address
<1>1. PICK x \in 0 .. 31, u \in 0 .. 7, w, h, g \in 0 .. 3, k \in 0 .. 1 :
        Results(t, v, x, u, w, h, g, k)
  BY Cut
<1>2. PICK a \in 0 .. 31, b \in 0 .. 7, z \in 0 .. 3, o \in 0 .. 1 :
        a = v % 32 /\ b = v \div 32 /\ z = 0 /\ o = 0
  BY ByteParts
<1>3. Joined(a, u, w, h, g, k) \in A!Address /\ Joined(x, b, z, h, z, o) \in A!Address
  BY JoinedType
<1>4. Joined(x, u, w, z, g, k) \in A!Address /\ Joined(x, u, z, z, z, k) \in A!Address
  BY JoinedType
<1>5. Joined(a, b, w, h, g, k) \in A!Address
  BY JoinedType
<1> QED
  BY <1>1, <1>2, <1>3, <1>4, <1>5 DEF Results

-----------------------------------------------------------------------------
(* What two addresses agree on.                                            *)

\* After the first write to PPUSCROLL, and after both.
SameColumn(s, t) == s % 32 = t % 32
SameScroll(s, t) == s % 1024 = t % 1024 /\ s \div 4096 = t \div 4096

LEMMA SameColumnParts ==
    ASSUME NEW s, NEW x, NEW u, NEW w, NEW h, NEW g, NEW k, HasParts(s, x, u, w, h, g, k),
           NEW t, NEW x2, NEW u2, NEW w2, NEW h2, NEW g2, NEW k2,
           HasParts(t, x2, u2, w2, h2, g2, k2)
    PROVE  SameColumn(s, t) <=> x = x2
BY DEF HasParts, SameColumn

LEMMA SameScrollParts ==
    ASSUME NEW s, NEW x, NEW u, NEW w, NEW h, NEW g, NEW k, HasParts(s, x, u, w, h, g, k),
           NEW t, NEW x2, NEW u2, NEW w2, NEW h2, NEW g2, NEW k2,
           HasParts(t, x2, u2, w2, h2, g2, k2)
    PROVE  SameScroll(s, t) <=> x = x2 /\ u = u2 /\ w = w2 /\ g = g2 /\ k = k2
<1>1. /\ x \in 0 .. 31 /\ u \in 0 .. 7 /\ w \in 0 .. 3 /\ g \in 0 .. 3 /\ k \in 0 .. 1
      /\ x2 \in 0 .. 31 /\ u2 \in 0 .. 7 /\ w2 \in 0 .. 3 /\ g2 \in 0 .. 3 /\ k2 \in 0 .. 1
      /\ s % 1024 = x + 32 * u + 256 * w /\ s \div 4096 = g + 4 * k
      /\ t % 1024 = x2 + 32 * u2 + 256 * w2 /\ t \div 4096 = g2 + 4 * k2
  BY DEF HasParts
<1>2. x + 32 * u + 256 * w = x2 + 32 * u2 + 256 * w2 <=> x = x2 /\ u = u2 /\ w = w2
  BY <1>1
<1>3. g + 4 * k = g2 + 4 * k2 <=> g = g2 /\ k = k2
  BY <1>1
<1> QED
  BY <1>1, <1>2, <1>3 DEF SameScroll

\* The parts of an address after each write.
LEMMA ResultParts ==
    ASSUME NEW v \in A!Byte, NEW t, NEW x, NEW u, NEW w, NEW h, NEW g, NEW k,
           Results(t, v, x, u, w, h, g, k)
    PROVE  /\ HasParts(t, x, u, w, h, g, k)
           /\ HasParts(A!WithCoarseX(t, v), v % 32, u, w, h, g, k)
           /\ HasParts(Second(t, v), x, v \div 32, 0, h, 0, 0)
           /\ HasParts(A!WithNameTable(t, v), x, u, w, 0, g, k)
<1>1. PICK a, b, z : a = v % 32 /\ b = v \div 32 /\ z = 0
  OBVIOUS
<1>2. /\ x \in 0 .. 31 /\ u \in 0 .. 7 /\ w \in 0 .. 3 /\ h \in 0 .. 3 /\ g \in 0 .. 3
      /\ k \in 0 .. 1 /\ a \in 0 .. 31 /\ b \in 0 .. 7 /\ z \in 0 .. 3 /\ z \in 0 .. 1
  BY <1>1, ByteParts DEF Results, HasParts
<1>3. /\ A!WithCoarseX(t, v) = Joined(a, u, w, h, g, k)
      /\ Second(t, v) = Joined(x, b, z, h, z, z)
      /\ A!WithNameTable(t, v) = Joined(x, u, w, z, g, k)
  BY <1>1 DEF Results
<1>4. HasParts(A!WithCoarseX(t, v), a, u, w, h, g, k)
  BY <1>2, <1>3, PartsOf
<1>5. HasParts(Second(t, v), x, b, z, h, z, z)
  BY <1>2, <1>3, PartsOf
<1>6. HasParts(A!WithNameTable(t, v), x, u, w, z, g, k)
  BY <1>2, <1>3, PartsOf
<1> QED
  BY <1>1, <1>4, <1>5, <1>6 DEF Results

\* A first write to PPUSCROLL brings the columns together, a second one the rows.
LEMMA ScrollAgrees ==
    ASSUME NEW s \in A!Address, NEW t \in A!Address, NEW v \in A!Byte
    PROVE  /\ SameColumn(A!WithCoarseX(s, v), A!WithCoarseX(t, v))
           /\ SameColumn(s, t) => SameScroll(Second(s, v), Second(t, v))
           /\ SameColumn(s, t) => SameColumn(A!WithNameTable(s, v), A!WithNameTable(t, v))
<1>1. PICK x \in 0 .. 31, u \in 0 .. 7, w, h, g \in 0 .. 3, k \in 0 .. 1 :
        Results(s, v, x, u, w, h, g, k)
  BY Cut
<1>2. PICK x2 \in 0 .. 31, u2 \in 0 .. 7, w2, h2, g2 \in 0 .. 3, k2 \in 0 .. 1 :
        Results(t, v, x2, u2, w2, h2, g2, k2)
  BY Cut
<1>3. /\ HasParts(s, x, u, w, h, g, k) /\ HasParts(t, x2, u2, w2, h2, g2, k2)
      /\ HasParts(A!WithCoarseX(s, v), v % 32, u, w, h, g, k)
      /\ HasParts(A!WithCoarseX(t, v), v % 32, u2, w2, h2, g2, k2)
      /\ HasParts(Second(s, v), x, v \div 32, 0, h, 0, 0)
      /\ HasParts(Second(t, v), x2, v \div 32, 0, h2, 0, 0)
      /\ HasParts(A!WithNameTable(s, v), x, u, w, 0, g, k)
      /\ HasParts(A!WithNameTable(t, v), x2, u2, w2, 0, g2, k2)
  BY <1>1, <1>2, ResultParts
<1>4. SameColumn(s, t) <=> x = x2
  BY <1>3, SameColumnParts
<1>5. SameColumn(A!WithCoarseX(s, v), A!WithCoarseX(t, v))
  BY <1>3, SameColumnParts
<1>6. x = x2 => SameScroll(Second(s, v), Second(t, v))
  BY <1>3, SameScrollParts
<1>7. x = x2 => SameColumn(A!WithNameTable(s, v), A!WithNameTable(t, v))
  BY <1>3, SameColumnParts
<1> QED
  BY <1>4, <1>5, <1>6, <1>7

\* What the scroll leaves undecided is under the masks of PPUCTRL and of the
\* first write to PPUADDR.
LEMMA ScrollDecides ==
    ASSUME NEW s \in A!Address, NEW t \in A!Address, NEW v \in A!Byte, SameScroll(s, t)
    PROVE  /\ SameColumn(s, t)
           /\ SameScroll(A!WithCoarseX(s, v), A!WithCoarseX(t, v))
           /\ A!WithNameTable(s, v) = A!WithNameTable(t, v)
           /\ A!WithHighAddress(s, v) = A!WithHighAddress(t, v)
<1>1. PICK x \in 0 .. 31, u \in 0 .. 7, w, h, g \in 0 .. 3, k \in 0 .. 1 :
        Results(s, v, x, u, w, h, g, k)
  BY Cut
<1>2. PICK x2 \in 0 .. 31, u2 \in 0 .. 7, w2, h2, g2 \in 0 .. 3, k2 \in 0 .. 1 :
        Results(t, v, x2, u2, w2, h2, g2, k2)
  BY Cut
<1>3. /\ HasParts(s, x, u, w, h, g, k) /\ HasParts(t, x2, u2, w2, h2, g2, k2)
      /\ HasParts(A!WithCoarseX(s, v), v % 32, u, w, h, g, k)
      /\ HasParts(A!WithCoarseX(t, v), v % 32, u2, w2, h2, g2, k2)
  BY <1>1, <1>2, ResultParts
<1>4. x = x2 /\ u = u2 /\ w = w2 /\ g = g2 /\ k = k2
  BY <1>3, SameScrollParts
<1>5. SameColumn(s, t)
  BY <1>3, <1>4, SameColumnParts
<1>6. SameScroll(A!WithCoarseX(s, v), A!WithCoarseX(t, v))
  BY <1>3, <1>4, SameScrollParts
<1> QED
  BY <1>1, <1>2, <1>4, <1>5, <1>6 DEF Results

-----------------------------------------------------------------------------
(* What an access does to the members in question.                         *)

\* InternalRegisters, without the width of the address that PPUDATA moves.
Internal ==
    [current_vram_address : Int, temp_vram_address : A!Address,
     fine_x_scroll : 0 .. 7, write_toggle : {0, 1}]

Toggles == [scheduled : BOOLEAN, cycles_to_wait : Int, new_rendering_flags : A!Byte]

\* The mask of the registers g is a byte; h has the same mask, or the same control.
HasMask(g) ==
    "ppu_mask" \in DOMAIN g /\ "ppu_control" \in DOMAIN g /\ g.ppu_mask \in A!Byte
Steady(g, h) ==
    "ppu_mask" \in DOMAIN h /\ "ppu_control" \in DOMAIN h /\ h.ppu_mask = g.ppu_mask
SteadyControl(g, h) == h.ppu_control = g.ppu_control
Flags(g)            == A!RenderingFlags(g.ppu_mask)

\* From the internal registers n to m, by a write of v to PPUSCROLL,
Scrolled(n, m, v) ==
    /\ m \in Internal
    /\ m.write_toggle = 1 - n.write_toggle
    /\ m.current_vram_address = n.current_vram_address
    /\ n.write_toggle = 0 =>
         /\ m.temp_vram_address = A!WithCoarseX(n.temp_vram_address, v)
         /\ m.fine_x_scroll = v % 8
    /\ n.write_toggle = 1 =>
         /\ m.temp_vram_address = Second(n.temp_vram_address, v)
         /\ m.fine_x_scroll = n.fine_x_scroll

\* to PPUADDR,
Addressed(n, m, v, flags) ==
    /\ m \in Internal
    /\ m.write_toggle = 1 - n.write_toggle
    /\ m.fine_x_scroll = n.fine_x_scroll
    /\ n.write_toggle = 0 =>
         /\ m.temp_vram_address = A!WithHighAddress(n.temp_vram_address, v)
         /\ m.current_vram_address = n.current_vram_address
    /\ n.write_toggle = 1 =>
         /\ m.temp_vram_address = A!WithLowAddress(n.temp_vram_address, v)
         /\ m.current_vram_address =
              IF flags # 0 THEN n.current_vram_address ELSE m.temp_vram_address

\* or to PPUCTRL.
Controlled(n, m, v, flags) ==
    /\ m \in Internal
    /\ m.write_toggle = n.write_toggle
    /\ m.fine_x_scroll = n.fine_x_scroll
    /\ m.temp_vram_address = A!WithNameTable(n.temp_vram_address, v)
    /\ m.current_vram_address =
         IF flags # 0 THEN n.current_vram_address ELSE m.temp_vram_address

\* or by an access to PPUDATA, under the given flags and PPUCTRL.
Along(c)          == A!VRAMIncrementFineY(A!VRAMIncrementCoarseX(c))
StrideOf(control) == IF A!Masked(control, 4, 2) # 0 THEN 32 ELSE 1

Moved(n, m, flags, control) ==
    /\ m \in Internal
    /\ m.write_toggle = n.write_toggle
    /\ m.fine_x_scroll = n.fine_x_scroll
    /\ m.temp_vram_address = n.temp_vram_address
    /\ m.current_vram_address =
         IF flags # 0 THEN Along(n.current_vram_address)
         ELSE (n.current_vram_address + StrideOf(control)) % 32768

\* From the mask w and the toggle t to x and r, by a write of v to PPUMASK,
Masking(w, t, x, r, v) ==
    IF (A!RenderingFlags(w) # 0) # (A!RenderingFlags(v) # 0)
    THEN /\ r = [scheduled |-> TRUE, cycles_to_wait |-> 4,
                 new_rendering_flags |-> A!RenderingFlags(v)]
         /\ x = A!WithRenderingFlags(v, 0)
    ELSE x = v /\ r = t

\* or by a dot.
Ticking(w, t, x, r) ==
    \/ /\ t.scheduled /\ t.cycles_to_wait = 0
       /\ x = A!WithRenderingFlags(w, t.new_rendering_flags) /\ r = A!NoToggle
    \/ /\ t.scheduled /\ t.cycles_to_wait > 0
       /\ x = w /\ r = [t EXCEPT !.cycles_to_wait = @ - 1]
    \/ ~t.scheduled /\ x = w /\ r = t

\* B's operators are A's.
LEMMA SameOperators ==
    /\ B!Byte = A!Byte /\ B!NoToggle = A!NoToggle
    /\ \A t, v : /\ B!WithCoarseX(t, v) = A!WithCoarseX(t, v)
                 /\ B!WithFineY(B!WithCoarseY(t, v), v) = Second(t, v)
                 /\ B!WithNameTable(t, v) = A!WithNameTable(t, v)
                 /\ B!WithHighAddress(t, v) = A!WithHighAddress(t, v)
                 /\ B!WithLowAddress(t, v) = A!WithLowAddress(t, v)
                 /\ B!WithRenderingFlags(t, v) = A!WithRenderingFlags(t, v)
    /\ \A w : B!RenderingFlags(w) = A!RenderingFlags(w)
BY DEF B!Byte, A!Byte, B!NoToggle, A!NoToggle,
       B!WithCoarseX, A!WithCoarseX, B!WithFineY, B!WithCoarseY, Second, A!WithFineY,
       A!WithCoarseY, B!WithNameTable, A!WithNameTable, B!WithHighAddress, A!WithHighAddress,
       B!WithLowAddress, A!WithLowAddress, B!WithRenderingFlags, A!WithRenderingFlags,
       B!RenderingFlags, A!RenderingFlags, B!Replaced, A!Replaced, B!Masked, A!Masked

LEMMA SameIncrements ==
    ASSUME NEW c
    PROVE  B!VRAMIncrementFineY(B!VRAMIncrementCoarseX(c)) = Along(c)
<1>1. B!VRAMIncrementCoarseX(c) = A!VRAMIncrementCoarseX(c)
  BY DEF B!VRAMIncrementCoarseX, A!VRAMIncrementCoarseX, B!Flipped, A!Flipped,
         B!WithCoarseX, A!WithCoarseX, B!Replaced, A!Replaced, B!Masked, A!Masked
<1>2. ASSUME NEW a PROVE B!VRAMIncrementFineY(a) = A!VRAMIncrementFineY(a)
  BY DEF B!VRAMIncrementFineY, A!VRAMIncrementFineY, B!Flipped, A!Flipped,
         B!WithFineY, A!WithFineY, B!WithCoarseY, A!WithCoarseY,
         B!Replaced, A!Replaced, B!Masked, A!Masked
<1> QED
  BY <1>1, <1>2 DEF Along

\* Along keeps to the integers, whatever the address.
LEMMA AlongType ==
    ASSUME NEW c \in Int
    PROVE  Along(c) \in Int
<1>1. ASSUME NEW a \in Int
      PROVE  /\ A!WithCoarseX(a, 0) \in Int /\ A!WithCoarseY(a, 0) \in Int
             /\ A!WithFineY(a, 0) \in Int
  BY DEF A!WithCoarseX, A!WithCoarseY, A!WithFineY, A!Replaced, A!Masked
<1>2. ASSUME NEW a \in Int
      PROVE  A!Flipped(a, 1024) \in Int /\ A!Flipped(a, 2048) \in Int
  BY DEF A!Flipped, A!Replaced, A!Masked
<1>3. A!VRAMIncrementCoarseX(c) \in Int
  <2>1. A!WithCoarseX(c, 0) \in Int
    BY <1>1
  <2> DEFINE d == A!WithCoarseX(c, 0)
  <2>2. A!Flipped(d, 1024) \in Int
    BY <2>1, <1>2
  <2>3. A!VRAMIncrementCoarseX(c) = IF c % 32 = 31 THEN A!Flipped(d, 1024) ELSE c + 1
    BY DEF A!VRAMIncrementCoarseX
  <2> HIDE DEF d
  <2> QED
    BY <2>2, <2>3
<1>4. ASSUME NEW a \in Int PROVE A!VRAMIncrementFineY(a) \in Int
  <2> DEFINE next == A!WithFineY(a, 0)
             y == (a \div 32) % 32
  <2>1. next \in Int /\ a + 4096 \in Int
    BY <1>1
  <2>2. A!WithCoarseY(next, 0) \in Int /\ A!WithCoarseY(A!Flipped(next, 2048), 0) \in Int
    <3> HIDE DEF next
    <3>1. A!Flipped(next, 2048) \in Int
      BY <2>1, <1>2
    <3> QED
      BY <2>1, <3>1, <1>1
  <2>3. A!VRAMIncrementFineY(a) =
          IF a \div 4096 # 7 THEN a + 4096
          ELSE CASE y = 29 -> A!WithCoarseY(A!Flipped(next, 2048), 0)
                 [] y = 31 -> A!WithCoarseY(next, 0)
                 [] OTHER  -> next + 32
    BY DEF A!VRAMIncrementFineY
  <2> HIDE DEF next, y
  <2> QED
    BY <2>1, <2>2, <2>3
<1> QED
  BY <1>3, <1>4 DEF Along

LEMMA InternalMembers ==
    ASSUME NEW n \in Internal
    PROVE  /\ n.temp_vram_address \in A!Address /\ n.current_vram_address \in Int
           /\ n.fine_x_scroll \in 0 .. 7 /\ n.write_toggle \in {0, 1}
           /\ 1 - n.write_toggle \in {0, 1}
BY DEF Internal

LEMMA FineByte == ASSUME NEW v \in A!Byte PROVE v % 8 \in 0 .. 7
BY DEF A!Byte

\* The record that a write leaves, and its members.
LEMMA Members ==
    ASSUME NEW n \in Internal, NEW t \in A!Address, NEW c \in Int, NEW f \in 0 .. 7,
           NEW e, e \in Internal,
           e.temp_vram_address = t, e.current_vram_address = c, e.fine_x_scroll = f,
           e.write_toggle = n.write_toggle
    PROVE  /\ A!FlipToggle(e) \in Internal
           /\ A!FlipToggle(e).temp_vram_address = t
           /\ A!FlipToggle(e).current_vram_address = c
           /\ A!FlipToggle(e).fine_x_scroll = f
           /\ A!FlipToggle(e).write_toggle = 1 - n.write_toggle
<1>1. 1 - n.write_toggle \in {0, 1}
  BY InternalMembers
<1> QED
  BY <1>1 DEF Internal, A!FlipToggle

LEMMA ScrollMembers ==
    ASSUME NEW n \in Internal, NEW v \in A!Byte, NEW m,
           m = A!FlipToggle(
              IF n.write_toggle = 1
              THEN [n EXCEPT !.temp_vram_address = A!WithFineY(A!WithCoarseY(@, v), v)]
              ELSE [n EXCEPT !.temp_vram_address = A!WithCoarseX(@, v),
                             !.fine_x_scroll = v % 8])
    PROVE  Scrolled(n, m, v)
<1>1. CASE n.write_toggle = 0
  <2> DEFINE t == A!WithCoarseX(n.temp_vram_address, v)
             f == v % 8
             e == [n EXCEPT !.temp_vram_address = t, !.fine_x_scroll = f]
  <2>1. t \in A!Address /\ f \in 0 .. 7
    BY InternalMembers, AddressTypes, FineByte
  <2>2. m = A!FlipToggle(e)
    BY <1>1
  <2> HIDE DEF t, f
  <2>3. /\ e \in Internal /\ e.temp_vram_address = t /\ e.fine_x_scroll = f
        /\ e.current_vram_address = n.current_vram_address
        /\ e.write_toggle = n.write_toggle
    BY <2>1 DEF Internal
  <2> HIDE DEF e
  <2>4. /\ m \in Internal /\ m.temp_vram_address = t /\ m.fine_x_scroll = f
        /\ m.current_vram_address = n.current_vram_address
        /\ m.write_toggle = 1 - n.write_toggle
    BY <2>1, <2>2, <2>3, Members, InternalMembers
  <2> QED
    BY <1>1, <2>4 DEF Scrolled, t, f
<1>2. CASE n.write_toggle = 1
  <2> DEFINE t == Second(n.temp_vram_address, v)
             e == [n EXCEPT !.temp_vram_address = t]
  <2>1. t \in A!Address
    BY InternalMembers, AddressTypes
  <2>2. m = A!FlipToggle(e)
    BY <1>2 DEF Second
  <2> HIDE DEF t
  <2>3. /\ e \in Internal /\ e.temp_vram_address = t /\ e.fine_x_scroll = n.fine_x_scroll
        /\ e.current_vram_address = n.current_vram_address
        /\ e.write_toggle = n.write_toggle
    BY <2>1 DEF Internal
  <2> HIDE DEF e
  <2>4. /\ m \in Internal /\ m.temp_vram_address = t /\ m.fine_x_scroll = n.fine_x_scroll
        /\ m.current_vram_address = n.current_vram_address
        /\ m.write_toggle = 1 - n.write_toggle
    BY <2>1, <2>2, <2>3, Members, InternalMembers
  <2> QED
    BY <1>2, <2>4 DEF Scrolled, t
<1> QED
  BY <1>1, <1>2, InternalMembers

LEMMA AddressMembers ==
    ASSUME NEW n \in Internal, NEW v \in A!Byte, NEW flags, NEW t, NEW m,
           t = IF n.write_toggle = 1 THEN A!WithLowAddress(n.temp_vram_address, v)
               ELSE A!WithHighAddress(n.temp_vram_address, v),
           m = A!FlipToggle([n EXCEPT !.temp_vram_address = t,
                  !.current_vram_address = IF n.write_toggle = 1 /\ flags = 0 THEN t ELSE @])
    PROVE  Addressed(n, m, v, flags)
<1> DEFINE c == IF n.write_toggle = 1 /\ flags = 0 THEN t ELSE n.current_vram_address
           e == [n EXCEPT !.temp_vram_address = t, !.current_vram_address = c]
<1>1. t \in A!Address /\ c \in Int
  BY InternalMembers, AddressTypes DEF A!Address
<1>2. m = A!FlipToggle(e)
  OBVIOUS
<1>3. c = IF n.write_toggle = 1 /\ flags = 0 THEN t ELSE n.current_vram_address
  OBVIOUS
<1> HIDE DEF c
<1>4. /\ e \in Internal /\ e.temp_vram_address = t /\ e.fine_x_scroll = n.fine_x_scroll
      /\ e.current_vram_address = c /\ e.write_toggle = n.write_toggle
  BY <1>1 DEF Internal
<1> HIDE DEF e
<1>5. /\ m \in Internal /\ m.temp_vram_address = t /\ m.fine_x_scroll = n.fine_x_scroll
      /\ m.current_vram_address = c /\ m.write_toggle = 1 - n.write_toggle
  BY <1>1, <1>2, <1>4, Members, InternalMembers
<1> QED
  BY <1>3, <1>5 DEF Addressed

LEMMA ControlMembers ==
    ASSUME NEW n \in Internal, NEW v \in A!Byte, NEW flags, NEW t, NEW m,
           t = A!WithNameTable(n.temp_vram_address, v),
           m = [n EXCEPT !.temp_vram_address = t,
                         !.current_vram_address = IF flags # 0 THEN @ ELSE t]
    PROVE  Controlled(n, m, v, flags)
<1>1. t \in A!Address /\ t \in Int
  BY InternalMembers, AddressTypes DEF A!Address
<1>2. /\ m \in Internal /\ m.temp_vram_address = t /\ m.fine_x_scroll = n.fine_x_scroll
      /\ m.current_vram_address = IF flags # 0 THEN n.current_vram_address ELSE t
      /\ m.write_toggle = n.write_toggle
  BY <1>1, InternalMembers DEF Internal
<1> QED
  BY <1>2 DEF Controlled

\* A read of PPUSTATUS clears the toggle and nothing else.
Cleared(n, m) ==
    /\ m \in Internal
    /\ m.write_toggle = 0
    /\ m.fine_x_scroll = n.fine_x_scroll
    /\ m.temp_vram_address = n.temp_vram_address
    /\ m.current_vram_address = n.current_vram_address

LEMMA ClearMembers ==
    ASSUME NEW n \in Internal
    PROVE  Cleared(n, [n EXCEPT !.write_toggle = 0])
BY DEF Internal, Cleared

LEMMA DataMembers ==
    ASSUME NEW n \in Internal, NEW flags, NEW control, NEW c, NEW m,
           c = IF flags # 0 THEN Along(n.current_vram_address)
               ELSE (n.current_vram_address + StrideOf(control)) % 32768,
           m = [n EXCEPT !.current_vram_address = c]
    PROVE  Moved(n, m, flags, control)
<1>1. n.current_vram_address \in Int
  BY InternalMembers
<1>2. (n.current_vram_address + StrideOf(control)) % 32768 \in Int
  BY <1>1 DEF StrideOf
<1>3. c \in Int
  BY <1>1, <1>2, AlongType
<1>4. /\ m \in Internal /\ m.current_vram_address = c
      /\ m.temp_vram_address = n.temp_vram_address
      /\ m.fine_x_scroll = n.fine_x_scroll /\ m.write_toggle = n.write_toggle
  BY <1>3 DEF Internal
<1> QED
  BY <1>4 DEF Moved

-----------------------------------------------------------------------------
(* The mask and the toggle that waits to change it.                        *)

\* No rendering flags wait for the toggle.
NoFlags(t) == t.new_rendering_flags = 0

LEMMA FlagTypes ==
    ASSUME NEW w \in A!Byte, NEW f \in A!Byte
    PROVE  /\ A!RenderingFlags(f) \in A!Byte
           /\ A!WithRenderingFlags(w, f) \in A!Byte
           /\ A!RenderingFlags(w) = 0 => A!WithRenderingFlags(w, 0) = w
BY DEF A!RenderingFlags, A!WithRenderingFlags, A!Replaced, A!Masked, A!Byte

\* A write leaves a byte and a toggle, and for a byte without flags the byte itself.
LEMMA MaskingKeeps ==
    ASSUME NEW w \in A!Byte, NEW t \in Toggles, NEW v \in A!Byte, NEW x, NEW r,
           Masking(w, t, x, r, v)
    PROVE  /\ x \in A!Byte /\ r \in Toggles
           /\ A!RenderingFlags(v) = 0 =>
                x = v /\ (NoFlags(t) => NoFlags(r))
<1>1. 0 \in A!Byte /\ 4 \in Int
  BY DEF A!Byte
<1>2. /\ A!RenderingFlags(v) \in A!Byte /\ A!WithRenderingFlags(v, 0) \in A!Byte
      /\ A!RenderingFlags(v) = 0 => A!WithRenderingFlags(v, 0) = v
  BY <1>1, FlagTypes
<1> DEFINE q == [scheduled |-> TRUE, cycles_to_wait |-> 4,
                 new_rendering_flags |-> A!RenderingFlags(v)]
<1>3. q \in Toggles /\ (A!RenderingFlags(v) = 0 => NoFlags(q))
  BY <1>1, <1>2 DEF Toggles, NoFlags
<1>4. \/ r = q /\ x = A!WithRenderingFlags(v, 0)
      \/ r = t /\ x = v
  BY DEF Masking
<1> HIDE DEF q
<1> QED
  BY <1>2, <1>3, <1>4

\* So does a dot; without flags to add it leaves a mask without flags alone.
LEMMA TickingKeeps ==
    ASSUME NEW w \in A!Byte, NEW t \in Toggles, NEW x, NEW r, Ticking(w, t, x, r)
    PROVE  /\ x \in A!Byte /\ r \in Toggles
           /\ NoFlags(t) => NoFlags(r) /\ (A!RenderingFlags(w) = 0 => x = w)
<1>1. 0 \in A!Byte /\ t.new_rendering_flags \in A!Byte /\ t.cycles_to_wait - 1 \in Int
  BY DEF A!Byte, Toggles
<1>2. /\ A!WithRenderingFlags(w, t.new_rendering_flags) \in A!Byte
      /\ A!RenderingFlags(w) = 0 => A!WithRenderingFlags(w, 0) = w
  BY <1>1, FlagTypes
<1>3. A!NoToggle \in Toggles /\ NoFlags(A!NoToggle)
  BY <1>1 DEF A!NoToggle, Toggles, NoFlags
<1>4. CASE t.scheduled /\ t.cycles_to_wait = 0
  BY <1>2, <1>3, <1>4 DEF Ticking, NoFlags
<1>5. CASE ~(t.scheduled /\ t.cycles_to_wait = 0)
  <2>1. x = w /\ (r = t \/ r = [t EXCEPT !.cycles_to_wait = @ - 1])
    BY <1>5 DEF Ticking
  <2> QED
    BY <1>1, <2>1 DEF Toggles, NoFlags
<1> QED
  BY <1>4, <1>5

\* Both are functions of the mask and the toggle.
LEMMA MaskingAgrees ==
    ASSUME NEW w, NEW t, NEW v, NEW x, NEW r, Masking(w, t, x, r, v),
           NEW u, NEW y, NEW s, Masking(w, u, y, s, v)
    PROVE  /\ x = y
           /\ t = u \/ (A!RenderingFlags(w) = 0 /\ A!RenderingFlags(v) # 0) => r = s
<1>1. CASE (A!RenderingFlags(w) # 0) # (A!RenderingFlags(v) # 0)
  BY <1>1 DEF Masking
<1>2. CASE ~((A!RenderingFlags(w) # 0) # (A!RenderingFlags(v) # 0))
  <2>1. x = v /\ r = t /\ y = v /\ s = u
    BY <1>2 DEF Masking
  <2>2. ~(A!RenderingFlags(w) = 0 /\ A!RenderingFlags(v) # 0)
    BY <1>2
  <2> QED
    BY <2>1, <2>2
<1> QED
  BY <1>1, <1>2

LEMMA TickingAgrees ==
    ASSUME NEW w, NEW t, NEW x, NEW r, Ticking(w, t, x, r),
           NEW y, NEW s, Ticking(w, t, y, s)
    PROVE  x = y /\ r = s
BY DEF Ticking

-----------------------------------------------------------------------------
(* The accesses of the first PPU.                                          *)

LEMMA ScrollA ==
    ASSUME NEW v \in A!Byte, internalA \in Internal, HasMask(registersA),
           A!BusWriteMappedRegister(5, v)
    PROVE  /\ Scrolled(internalA, internalA', v)
           /\ Steady(registersA, registersA') /\ toggleA' = toggleA
           /\ SteadyControl(registersA, registersA')
<1>1. A!WritePPUSCROLL(v)
  BY DEF A!BusWriteMappedRegister
<1>2. /\ Steady(registersA, registersA') /\ toggleA' = toggleA
      /\ SteadyControl(registersA, registersA')
  BY <1>1 DEF A!WritePPUSCROLL, HasMask, Steady, SteadyControl
<1>3. internalA' = A!FlipToggle(
         IF internalA.write_toggle = 1
         THEN [internalA EXCEPT !.temp_vram_address = A!WithFineY(A!WithCoarseY(@, v), v)]
         ELSE [internalA EXCEPT !.temp_vram_address = A!WithCoarseX(@, v),
                                !.fine_x_scroll = v % 8])
  BY <1>1 DEF A!WritePPUSCROLL
<1> QED
  BY <1>2, <1>3, ScrollMembers

LEMMA AddressA ==
    ASSUME NEW v \in A!Byte, internalA \in Internal, HasMask(registersA),
           A!BusWriteMappedRegister(6, v)
    PROVE  /\ Addressed(internalA, internalA', v, Flags(registersA))
           /\ Steady(registersA, registersA') /\ toggleA' = toggleA
           /\ SteadyControl(registersA, registersA')
<1>1. A!WritePPUADDR(v)
  BY DEF A!BusWriteMappedRegister
<1>2. /\ Steady(registersA, registersA') /\ toggleA' = toggleA
      /\ SteadyControl(registersA, registersA')
  BY <1>1 DEF A!WritePPUADDR, HasMask, Steady, SteadyControl
<1> DEFINE t == IF internalA.write_toggle = 1
                THEN A!WithLowAddress(internalA.temp_vram_address, v)
                ELSE A!WithHighAddress(internalA.temp_vram_address, v)
<1>3. A!IsRenderingEnabled <=> Flags(registersA) # 0
  BY DEF A!IsRenderingEnabled, Flags
<1>4. internalA' = A!FlipToggle([internalA EXCEPT !.temp_vram_address = t,
         !.current_vram_address =
            IF internalA.write_toggle = 1 /\ Flags(registersA) = 0 THEN t ELSE @])
  BY <1>1, <1>3 DEF A!WritePPUADDR, A!TempAddress
<1> QED
  BY <1>2, <1>4, AddressMembers

LEMMA ControlA ==
    ASSUME NEW v \in A!Byte, internalA \in Internal, HasMask(registersA),
           A!BusWriteMappedRegister(0, v)
    PROVE  /\ Controlled(internalA, internalA', v, Flags(registersA))
           /\ Steady(registersA, registersA') /\ toggleA' = toggleA
           /\ registersA'.ppu_control = v
<1>1. A!WritePPUCONTROL(v)
  BY DEF A!BusWriteMappedRegister
<1>2. /\ Steady(registersA, registersA') /\ toggleA' = toggleA
      /\ registersA'.ppu_control = v
  BY <1>1 DEF A!WritePPUCONTROL, HasMask, Steady
<1> DEFINE t == A!WithNameTable(internalA.temp_vram_address, v)
<1>3. A!IsRenderingEnabled <=> Flags(registersA) # 0
  BY DEF A!IsRenderingEnabled, Flags
<1>4. internalA' = [internalA EXCEPT !.temp_vram_address = t,
         !.current_vram_address = IF Flags(registersA) # 0 THEN @ ELSE t]
  BY <1>1, <1>3 DEF A!WritePPUCONTROL, A!TempAddress
<1> QED
  BY <1>2, <1>4, ControlMembers

LEMMA MaskA ==
    ASSUME NEW v \in A!Byte, HasMask(registersA), toggleA \in Toggles,
           A!BusWriteMappedRegister(1, v)
    PROVE  /\ internalA' = internalA
           /\ HasMask(registersA') /\ toggleA' \in Toggles
           /\ SteadyControl(registersA, registersA')
           /\ Masking(registersA.ppu_mask, toggleA, registersA'.ppu_mask, toggleA', v)
<1>1. A!WritePPUMASK(v)
  BY DEF A!BusWriteMappedRegister
<1> DEFINE w == registersA.ppu_mask
           x == IF (A!RenderingFlags(w) # 0) # (A!RenderingFlags(v) # 0)
                THEN A!WithRenderingFlags(v, 0) ELSE v
<1>2. internalA' = internalA /\ registersA' = [registersA EXCEPT !.ppu_mask = x]
  BY <1>1 DEF A!WritePPUMASK, A!IsRenderingEnabled
<1>3. Masking(w, toggleA, x, toggleA', v)
  BY <1>1 DEF A!WritePPUMASK, A!IsRenderingEnabled, Masking
<1>4. x \in A!Byte /\ toggleA' \in Toggles
  BY <1>3, MaskingKeeps DEF HasMask
<1> HIDE DEF x
<1>5. /\ HasMask(registersA') /\ registersA'.ppu_mask = x
      /\ SteadyControl(registersA, registersA')
  BY <1>2, <1>4 DEF HasMask, SteadyControl
<1> QED
  BY <1>2, <1>3, <1>4, <1>5

LEMMA StatusA ==
    ASSUME internalA \in Internal, HasMask(registersA), A!BusReadMappedRegister(2)
    PROVE  /\ Cleared(internalA, internalA')
           /\ Steady(registersA, registersA') /\ toggleA' = toggleA
           /\ SteadyControl(registersA, registersA')
<1>1. A!ReadPPUSTATUS
  BY DEF A!BusReadMappedRegister
<1>2. /\ Steady(registersA, registersA') /\ toggleA' = toggleA
      /\ SteadyControl(registersA, registersA')
  BY <1>1 DEF A!ReadPPUSTATUS, HasMask, Steady, SteadyControl
<1>3. internalA' = [internalA EXCEPT !.write_toggle = 0]
  BY <1>1 DEF A!ReadPPUSTATUS
<1> QED
  BY <1>2, <1>3, ClearMembers

LEMMA StepA ==
    ASSUME HasMask(registersA), toggleA \in Toggles, A!PPUStep
    PROVE  /\ internalA' = internalA
           /\ HasMask(registersA') /\ toggleA' \in Toggles
           /\ SteadyControl(registersA, registersA')
           /\ Ticking(registersA.ppu_mask, toggleA, registersA'.ppu_mask, toggleA')
<1>1. internalA' = internalA /\ A!UpdateRenderingToggle
  BY DEF A!PPUStep
<1> DEFINE w == registersA.ppu_mask
           z == A!WithRenderingFlags(w, toggleA.new_rendering_flags)
<1>2. /\ HasMask([registersA EXCEPT !.ppu_mask = z])
      /\ [registersA EXCEPT !.ppu_mask = z].ppu_mask = z
      /\ [registersA EXCEPT !.ppu_mask = z].ppu_control = registersA.ppu_control
  <2>1. z \in A!Byte
    BY FlagTypes DEF HasMask, Toggles
  <2> HIDE DEF z
  <2> QED
    BY <2>1 DEF HasMask
<1> DEFINE g == [registersA EXCEPT !.ppu_mask = z]
<1>3. \/ /\ toggleA.scheduled /\ toggleA.cycles_to_wait = 0
         /\ registersA' = g /\ toggleA' = A!NoToggle
      \/ /\ toggleA.scheduled /\ toggleA.cycles_to_wait > 0
         /\ registersA' = registersA
         /\ toggleA' = [toggleA EXCEPT !.cycles_to_wait = @ - 1]
      \/ ~toggleA.scheduled /\ registersA' = registersA /\ toggleA' = toggleA
  BY <1>1 DEF A!UpdateRenderingToggle
<1>4. g.ppu_mask = z /\ HasMask(g) /\ g.ppu_control = registersA.ppu_control
  BY <1>2
<1> HIDE DEF g
<1>5. /\ HasMask(registersA') /\ SteadyControl(registersA, registersA')
      /\ Ticking(w, toggleA, registersA'.ppu_mask, toggleA')
  BY <1>3, <1>4 DEF Ticking, SteadyControl
<1>6. toggleA' \in Toggles
  BY <1>5, TickingKeeps DEF HasMask
<1> QED
  BY <1>1, <1>5, <1>6

LEMMA DataA ==
    ASSUME internalA \in Internal, HasMask(registersA),
           \/ A!BusReadMappedRegister(7)
           \/ \E v \in Values : A!BusWriteMappedRegister(7, v)
    PROVE  /\ Moved(internalA, internalA', Flags(registersA), registersA.ppu_control)
           /\ registersA' = registersA /\ toggleA' = toggleA
<1>1. A!IncrementVRAMAddress /\ registersA' = registersA /\ toggleA' = toggleA
  BY DEF A!BusReadMappedRegister, A!BusWriteMappedRegister, A!ReadPPUDATA, A!WritePPUDATA
<1> DEFINE c == IF Flags(registersA) # 0 THEN Along(internalA.current_vram_address)
                ELSE (internalA.current_vram_address
                        + StrideOf(registersA.ppu_control)) % 32768
<1>2. A!IsRenderingActive <=> Flags(registersA) # 0
  BY DEF A!IsRenderingActive, A!IsRenderingEnabled, Flags
<1>3. A!Stride = StrideOf(registersA.ppu_control)
  BY DEF A!Stride, StrideOf, A!Masked, A!Masked
<1>4. internalA' = [internalA EXCEPT !.current_vram_address = c]
  BY <1>1, <1>2, <1>3 DEF A!IncrementVRAMAddress, Along
<1> QED
  BY <1>1, <1>4, DataMembers

LEMMA OtherA ==
    ASSUME HasMask(registersA),
           \/ \E port \in A!Port \ {2, 7} : A!BusReadMappedRegister(port)
           \/ \E port \in {2, 3, 4}, v \in Values : A!BusWriteMappedRegister(port, v)
    PROVE  /\ internalA' = internalA /\ toggleA' = toggleA
           /\ Steady(registersA, registersA')
           /\ SteadyControl(registersA, registersA')
<1>1. /\ internalA' = internalA /\ toggleA' = toggleA
      /\ \/ registersA' = registersA
         \/ \E v : registersA' = [registersA EXCEPT !["oam_address"] = v]
         \/ \E v : registersA' = [registersA EXCEPT !["oam_data"] = v]
  BY DEF A!BusReadMappedRegister, A!BusWriteMappedRegister, A!ReadOAMDATA,
         A!ReadInvalidRegister, A!WriteInvalidRegister, A!WriteOAM
<1> QED
  BY <1>1 DEF HasMask, Steady, SteadyControl

-----------------------------------------------------------------------------
(* The accesses of the second, whose operators are the same.               *)

LEMMA ScrollB ==
    ASSUME NEW v \in A!Byte, internalB \in Internal, HasMask(registersB),
           B!BusWriteMappedRegister(5, v)
    PROVE  /\ Scrolled(internalB, internalB', v)
           /\ Steady(registersB, registersB') /\ toggleB' = toggleB
           /\ SteadyControl(registersB, registersB')
<1>1. B!WritePPUSCROLL(v)
  BY DEF B!BusWriteMappedRegister
<1>2. /\ Steady(registersB, registersB') /\ toggleB' = toggleB
      /\ SteadyControl(registersB, registersB')
  BY <1>1 DEF B!WritePPUSCROLL, HasMask, Steady, SteadyControl
<1>3. internalB' = A!FlipToggle(
         IF internalB.write_toggle = 1
         THEN [internalB EXCEPT !.temp_vram_address = A!WithFineY(A!WithCoarseY(@, v), v)]
         ELSE [internalB EXCEPT !.temp_vram_address = A!WithCoarseX(@, v),
                                !.fine_x_scroll = v % 8])
  BY <1>1, SameOperators DEF B!WritePPUSCROLL, B!FlipToggle, A!FlipToggle, Second
<1> QED
  BY <1>2, <1>3, ScrollMembers

LEMMA AddressB ==
    ASSUME NEW v \in A!Byte, internalB \in Internal, HasMask(registersB),
           B!BusWriteMappedRegister(6, v)
    PROVE  /\ Addressed(internalB, internalB', v, Flags(registersB))
           /\ Steady(registersB, registersB') /\ toggleB' = toggleB
           /\ SteadyControl(registersB, registersB')
<1>1. B!WritePPUADDR(v)
  BY DEF B!BusWriteMappedRegister
<1>2. /\ Steady(registersB, registersB') /\ toggleB' = toggleB
      /\ SteadyControl(registersB, registersB')
  BY <1>1 DEF B!WritePPUADDR, HasMask, Steady, SteadyControl
<1> DEFINE t == IF internalB.write_toggle = 1
                THEN A!WithLowAddress(internalB.temp_vram_address, v)
                ELSE A!WithHighAddress(internalB.temp_vram_address, v)
<1>3. B!IsRenderingEnabled <=> Flags(registersB) # 0
  BY SameOperators DEF B!IsRenderingEnabled, Flags
<1>4. internalB' = A!FlipToggle([internalB EXCEPT !.temp_vram_address = t,
         !.current_vram_address =
            IF internalB.write_toggle = 1 /\ Flags(registersB) = 0 THEN t ELSE @])
  BY <1>1, <1>3, SameOperators DEF B!WritePPUADDR, B!TempAddress, B!FlipToggle, A!FlipToggle, Second
<1> QED
  BY <1>2, <1>4, AddressMembers

LEMMA ControlB ==
    ASSUME NEW v \in A!Byte, internalB \in Internal, HasMask(registersB),
           B!BusWriteMappedRegister(0, v)
    PROVE  /\ Controlled(internalB, internalB', v, Flags(registersB))
           /\ Steady(registersB, registersB') /\ toggleB' = toggleB
           /\ registersB'.ppu_control = v
<1>1. B!WritePPUCONTROL(v)
  BY DEF B!BusWriteMappedRegister
<1>2. /\ Steady(registersB, registersB') /\ toggleB' = toggleB
      /\ registersB'.ppu_control = v
  BY <1>1 DEF B!WritePPUCONTROL, HasMask, Steady
<1> DEFINE t == A!WithNameTable(internalB.temp_vram_address, v)
<1>3. B!IsRenderingEnabled <=> Flags(registersB) # 0
  BY SameOperators DEF B!IsRenderingEnabled, Flags
<1>4. internalB' = [internalB EXCEPT !.temp_vram_address = t,
         !.current_vram_address = IF Flags(registersB) # 0 THEN @ ELSE t]
  BY <1>1, <1>3, SameOperators DEF B!WritePPUCONTROL, B!TempAddress
<1> QED
  BY <1>2, <1>4, ControlMembers

LEMMA MaskB ==
    ASSUME NEW v \in A!Byte, HasMask(registersB), toggleB \in Toggles,
           B!BusWriteMappedRegister(1, v)
    PROVE  /\ internalB' = internalB
           /\ HasMask(registersB') /\ toggleB' \in Toggles
           /\ SteadyControl(registersB, registersB')
           /\ Masking(registersB.ppu_mask, toggleB, registersB'.ppu_mask, toggleB', v)
<1>1. B!WritePPUMASK(v)
  BY DEF B!BusWriteMappedRegister
<1> DEFINE w == registersB.ppu_mask
           x == IF (A!RenderingFlags(w) # 0) # (A!RenderingFlags(v) # 0)
                THEN A!WithRenderingFlags(v, 0) ELSE v
<1>2. internalB' = internalB /\ registersB' = [registersB EXCEPT !.ppu_mask = x]
  BY <1>1, SameOperators DEF B!WritePPUMASK, B!IsRenderingEnabled
<1>3. Masking(w, toggleB, x, toggleB', v)
  BY <1>1, SameOperators DEF B!WritePPUMASK, B!IsRenderingEnabled, Masking
<1>4. x \in A!Byte /\ toggleB' \in Toggles
  BY <1>3, MaskingKeeps DEF HasMask
<1> HIDE DEF x
<1>5. /\ HasMask(registersB') /\ registersB'.ppu_mask = x
      /\ SteadyControl(registersB, registersB')
  BY <1>2, <1>4 DEF HasMask, SteadyControl
<1> QED
  BY <1>2, <1>3, <1>4, <1>5

LEMMA StatusB ==
    ASSUME internalB \in Internal, HasMask(registersB), B!BusReadMappedRegister(2)
    PROVE  /\ Cleared(internalB, internalB')
           /\ Steady(registersB, registersB') /\ toggleB' = toggleB
           /\ SteadyControl(registersB, registersB')
<1>1. B!ReadPPUSTATUS
  BY DEF B!BusReadMappedRegister
<1>2. /\ Steady(registersB, registersB') /\ toggleB' = toggleB
      /\ SteadyControl(registersB, registersB')
  BY <1>1 DEF B!ReadPPUSTATUS, HasMask, Steady, SteadyControl
<1>3. internalB' = [internalB EXCEPT !.write_toggle = 0]
  BY <1>1 DEF B!ReadPPUSTATUS
<1> QED
  BY <1>2, <1>3, ClearMembers

LEMMA StepB ==
    ASSUME HasMask(registersB), toggleB \in Toggles, B!PPUStep
    PROVE  /\ internalB' = internalB
           /\ HasMask(registersB') /\ toggleB' \in Toggles
           /\ SteadyControl(registersB, registersB')
           /\ Ticking(registersB.ppu_mask, toggleB, registersB'.ppu_mask, toggleB')
<1>1. internalB' = internalB /\ B!UpdateRenderingToggle
  BY DEF B!PPUStep
<1> DEFINE w == registersB.ppu_mask
           z == A!WithRenderingFlags(w, toggleB.new_rendering_flags)
<1>2. /\ HasMask([registersB EXCEPT !.ppu_mask = z])
      /\ [registersB EXCEPT !.ppu_mask = z].ppu_mask = z
      /\ [registersB EXCEPT !.ppu_mask = z].ppu_control = registersB.ppu_control
  <2>1. z \in A!Byte
    BY FlagTypes DEF HasMask, Toggles
  <2> HIDE DEF z
  <2> QED
    BY <2>1 DEF HasMask
<1> DEFINE g == [registersB EXCEPT !.ppu_mask = z]
<1>3. \/ /\ toggleB.scheduled /\ toggleB.cycles_to_wait = 0
         /\ registersB' = g /\ toggleB' = A!NoToggle
      \/ /\ toggleB.scheduled /\ toggleB.cycles_to_wait > 0
         /\ registersB' = registersB
         /\ toggleB' = [toggleB EXCEPT !.cycles_to_wait = @ - 1]
      \/ ~toggleB.scheduled /\ registersB' = registersB /\ toggleB' = toggleB
  BY <1>1, SameOperators DEF B!UpdateRenderingToggle
<1>4. g.ppu_mask = z /\ HasMask(g) /\ g.ppu_control = registersB.ppu_control
  BY <1>2
<1> HIDE DEF g
<1>5. /\ HasMask(registersB') /\ SteadyControl(registersB, registersB')
      /\ Ticking(w, toggleB, registersB'.ppu_mask, toggleB')
  BY <1>3, <1>4 DEF Ticking, SteadyControl
<1>6. toggleB' \in Toggles
  BY <1>5, TickingKeeps DEF HasMask
<1> QED
  BY <1>1, <1>5, <1>6

LEMMA DataB ==
    ASSUME internalB \in Internal, HasMask(registersB),
           \/ B!BusReadMappedRegister(7)
           \/ \E v \in Values : B!BusWriteMappedRegister(7, v)
    PROVE  /\ Moved(internalB, internalB', Flags(registersB), registersB.ppu_control)
           /\ registersB' = registersB /\ toggleB' = toggleB
<1>1. B!IncrementVRAMAddress /\ registersB' = registersB /\ toggleB' = toggleB
  BY DEF B!BusReadMappedRegister, B!BusWriteMappedRegister, B!ReadPPUDATA, B!WritePPUDATA
<1> DEFINE c == IF Flags(registersB) # 0 THEN Along(internalB.current_vram_address)
                ELSE (internalB.current_vram_address
                        + StrideOf(registersB.ppu_control)) % 32768
<1>2. B!IsRenderingActive <=> Flags(registersB) # 0
  BY SameOperators  DEF B!IsRenderingActive, B!IsRenderingEnabled, Flags
<1>3. B!Stride = StrideOf(registersB.ppu_control)
  BY DEF B!Stride, StrideOf, B!Masked, A!Masked
<1>4. internalB' = [internalB EXCEPT !.current_vram_address = c]
  BY <1>1, <1>2, <1>3, SameIncrements DEF B!IncrementVRAMAddress, Along
<1> QED
  BY <1>1, <1>4, DataMembers

LEMMA OtherB ==
    ASSUME HasMask(registersB),
           \/ \E port \in A!Port \ {2, 7} : B!BusReadMappedRegister(port)
           \/ \E port \in {2, 3, 4}, v \in Values : B!BusWriteMappedRegister(port, v)
    PROVE  /\ internalB' = internalB /\ toggleB' = toggleB
           /\ Steady(registersB, registersB')
           /\ SteadyControl(registersB, registersB')
<1>1. /\ internalB' = internalB /\ toggleB' = toggleB
      /\ \/ registersB' = registersB
         \/ \E v : registersB' = [registersB EXCEPT !["oam_address"] = v]
         \/ \E v : registersB' = [registersB EXCEPT !["oam_data"] = v]
  BY DEF B!BusReadMappedRegister, B!BusWriteMappedRegister, B!ReadOAMDATA,
         B!ReadInvalidRegister, B!WriteInvalidRegister, B!WriteOAM
<1> QED
  BY <1>1 DEF HasMask, Steady, SteadyControl

-----------------------------------------------------------------------------
(* The invariant.                                                          *)

\* The types that the accesses rely on.
PairTypes ==
    /\ internalA \in Internal /\ internalB \in Internal
    /\ HasMask(registersA) /\ HasMask(registersB)
    /\ toggleA \in Toggles /\ toggleB \in Toggles
    /\ open \in {0, 5, 6}

\* PPUMASK is the program's, and so are the flags that wait for a toggle: where
\* only one of the toggles is running, it has no flags to set and none to clear.
MaskAgrees ==
    /\ "mask" \notin done => NoFlags(toggleA) /\ NoFlags(toggleB)
    /\ "mask" \in done =>
         /\ registersA.ppu_mask = registersB.ppu_mask
         /\ \/ toggleA = toggleB
            \/ NoFlags(toggleA) /\ NoFlags(toggleB) /\ Flags(registersA) = 0

ControlAgrees ==
    "control" \in done => registersA.ppu_control = registersB.ppu_control

\* A read of PPUSTATUS settles which half comes next.
ToggleAgrees ==
    /\ "status" \notin done => open = 0 /\ "scroll" \notin done
    /\ "status" \in done => /\ internalA.write_toggle = IF open = 0 THEN 0 ELSE 1
                            /\ internalB.write_toggle = IF open = 0 THEN 0 ELSE 1

\* The fine scroll and the address t, by the writes that have been made.
SameFine == internalA.fine_x_scroll = internalB.fine_x_scroll
SameTemp == internalA.temp_vram_address = internalB.temp_vram_address

ScrollHolds ==
    /\ open = 5 =>
         SameColumn(internalA.temp_vram_address, internalB.temp_vram_address) /\ SameFine
    /\ "scroll" \in done =>
         SameScroll(internalA.temp_vram_address, internalB.temp_vram_address) /\ SameFine

AddressHolds ==
    /\ open = 6 /\ "scroll" \in done => SameTemp
    /\ "address" \in done =>
         /\ "mask" \in done /\ "scroll" \in done /\ "control" \in done
         /\ SameTemp
         /\ internalA.current_vram_address = internalB.current_vram_address

PairInv ==
    /\ PairTypes /\ MaskAgrees /\ ControlAgrees
    /\ ToggleAgrees /\ ScrollHolds /\ AddressHolds

\* The parts about the internal registers.
InternalHolds == ToggleAgrees /\ ScrollHolds /\ AddressHolds

LEMMA PairInit == Init => PairInv
<1> SUFFICES ASSUME Init PROVE PairInv
  OBVIOUS
<1>1. PICK p \in PowerOnA : registersA = p.registers /\ internalA = p.internal_registers
  BY DEF Init, A!PPUInit
<1>2. PICK q \in PowerOnB : registersB = q.registers /\ internalB = q.internal_registers
  BY DEF Init, B!PPUInit
<1>3. /\ internalA \in Internal /\ internalB \in Internal
      /\ registersA \in A!Registers /\ registersB \in A!Registers
  <2>1. A!InternalRegisters \subseteq Internal
    BY DEF A!InternalRegisters, Internal, A!Address
  <2> QED
    BY <2>1, <1>1, <1>2, PairAssumption
<1>4. HasMask(registersA) /\ HasMask(registersB)
  BY <1>3 DEF HasMask, A!Registers
<1>5. /\ NoFlags(toggleA) /\ NoFlags(toggleB)
      /\ toggleA \in Toggles /\ toggleB \in Toggles
  BY DEF Init, A!PPUInit, B!PPUInit, A!NoToggle, B!NoToggle, NoFlags, Toggles, A!Byte
<1>6. open = 0 /\ done = {}
  BY DEF Init
<1> QED
  BY <1>3, <1>4, <1>5, <1>6
  DEF PairInv, PairTypes, MaskAgrees, ControlAgrees, ToggleAgrees, ScrollHolds, AddressHolds

\* What is written is a byte.
LEMMA Written == \A v \in Values \cup Masks : v \in A!Byte
BY PairAssumption

\* The flags of two registers with the same mask.
LEMMA SteadyMask ==
    ASSUME NEW g, NEW h, HasMask(g), Steady(g, h)
    PROVE  HasMask(h) /\ h.ppu_mask = g.ppu_mask /\ Flags(h) = Flags(g)
BY DEF HasMask, Steady, Flags

-----------------------------------------------------------------------------
(* Each action keeps it.                                                   *)

\* The internal registers stay, and no pair with them.
LEMMA InternalStays ==
    ASSUME PairInv, internalA' = internalA, internalB' = internalB, open' = open,
           done' = done \/ done' = done \cup {"mask"}
    PROVE  InternalHolds'
<1>1. /\ "status" \in done' <=> "status" \in done
      /\ "scroll" \in done' <=> "scroll" \in done
      /\ "address" \in done' <=> "address" \in done
      /\ done \subseteq done'
  OBVIOUS
<1> QED
  BY <1>1 DEF PairInv, InternalHolds, ToggleAgrees, ScrollHolds, AddressHolds, SameFine, SameTemp

\* The masks and the toggles stay.
LEMMA MaskStays ==
    ASSUME PairInv, Steady(registersA, registersA'), Steady(registersB, registersB'),
           toggleA' = toggleA, toggleB' = toggleB, "mask" \in done' <=> "mask" \in done
    PROVE  /\ MaskAgrees'
           /\ HasMask(registersA') /\ HasMask(registersB')
           /\ toggleA' \in Toggles /\ toggleB' \in Toggles
<1>1. /\ HasMask(registersA') /\ HasMask(registersB')
      /\ registersA'.ppu_mask = registersA.ppu_mask /\ Flags(registersA') = Flags(registersA)
      /\ registersB'.ppu_mask = registersB.ppu_mask
  BY SteadyMask DEF PairInv, PairTypes
<1>2. Flags(registersA)' = Flags(registersA')
  BY DEF Flags
<1> QED
  BY <1>1, <1>2 DEF PairInv, PairTypes, MaskAgrees, NoFlags

\* The controls stay.
LEMMA ControlStays ==
    ASSUME PairInv, SteadyControl(registersA, registersA'),
           SteadyControl(registersB, registersB'), "control" \in done' <=> "control" \in done
    PROVE  ControlAgrees'
BY DEF PairInv, ControlAgrees, SteadyControl

\* Once PPUMASK is written, rendering is on in both or in neither.
LEMMA SameFlags ==
    ASSUME PairInv, "mask" \in done
    PROVE  Flags(registersA) = Flags(registersB)
BY DEF PairInv, MaskAgrees, Flags

LEMMA ClockKeeps ==
    ASSUME PairInv, Step
    PROVE  PairInv'
<1> DEFINE w == registersA.ppu_mask
           u == registersB.ppu_mask
<1>1. /\ internalA' = internalA /\ HasMask(registersA') /\ toggleA' \in Toggles
      /\ SteadyControl(registersA, registersA')
      /\ Ticking(w, toggleA, registersA'.ppu_mask, toggleA')
  BY StepA DEF PairInv, PairTypes, Step
<1>2. /\ internalB' = internalB /\ HasMask(registersB') /\ toggleB' \in Toggles
      /\ SteadyControl(registersB, registersB')
      /\ Ticking(u, toggleB, registersB'.ppu_mask, toggleB')
  BY StepB DEF PairInv, PairTypes, Step
<1>3. open' = open /\ done' = done
  BY DEF Step, program
<1>4. PairTypes'
  BY <1>1, <1>2, <1>3 DEF PairInv, PairTypes
<1>5. w \in A!Byte /\ u \in A!Byte /\ toggleA \in Toggles /\ toggleB \in Toggles
  BY DEF PairInv, PairTypes, HasMask
<1>6. /\ NoFlags(toggleA) => NoFlags(toggleA')
                               /\ (Flags(registersA) = 0 => registersA'.ppu_mask = w)
      /\ NoFlags(toggleB) => NoFlags(toggleB')
                               /\ (Flags(registersB) = 0 => registersB'.ppu_mask = u)
  <2> HIDE DEF w, u
  <2>1. /\ NoFlags(toggleA) => NoFlags(toggleA')
                                 /\ (A!RenderingFlags(w) = 0 => registersA'.ppu_mask = w)
        /\ NoFlags(toggleB) => NoFlags(toggleB')
                                 /\ (A!RenderingFlags(u) = 0 => registersB'.ppu_mask = u)
    BY <1>1, <1>2, <1>5, TickingKeeps
  <2> QED
    BY <2>1 DEF w, u, Flags
<1>7. MaskAgrees'
  <2>1. CASE "mask" \notin done
    BY <2>1, <1>3, <1>6 DEF PairInv, MaskAgrees, NoFlags
  <2>2. CASE "mask" \in done /\ toggleA = toggleB
    <3>1. w = u
      BY <2>2 DEF PairInv, MaskAgrees
    <3> HIDE DEF w, u
    <3>2. registersA'.ppu_mask = registersB'.ppu_mask /\ toggleA' = toggleB'
      BY <3>1, <2>2, <1>1, <1>2, TickingAgrees
    <3> QED
      BY <2>2, <3>2, <1>3 DEF MaskAgrees
  <2>3. CASE "mask" \in done /\ toggleA # toggleB
    <3>1. w = u /\ NoFlags(toggleA) /\ NoFlags(toggleB) /\ Flags(registersA) = 0
      BY <2>3 DEF PairInv, MaskAgrees
    <3>2. Flags(registersB) = 0
      BY <3>1 DEF Flags
    <3>3. registersA'.ppu_mask = w /\ registersB'.ppu_mask = u
          /\ NoFlags(toggleA') /\ NoFlags(toggleB')
      BY <3>1, <3>2, <1>6
    <3>4. Flags(registersA)' = 0
      BY <3>1, <3>3 DEF Flags
    <3> QED
      BY <2>3, <3>1, <3>3, <3>4, <1>3 DEF MaskAgrees, NoFlags
  <2> QED
    BY <2>1, <2>2, <2>3
<1>8. ControlAgrees'
  BY <1>1, <1>2, <1>3, ControlStays
<1>9. InternalHolds'
  BY <1>1, <1>2, <1>3, InternalStays
<1> QED
  BY <1>4, <1>7, <1>8, <1>9 DEF PairInv, InternalHolds

LEMMA MaskKeeps ==
    ASSUME PairInv, WriteMask
    PROVE  PairInv'
<1>1. PICK v \in Masks : ("mask" \in done \/ A!RenderingFlags(v) = 0) /\ Write(1, v)
  BY DEF WriteMask
<1>2. v \in A!Byte
  BY Written
<1> DEFINE w == registersA.ppu_mask
           u == registersB.ppu_mask
<1>3. /\ internalA' = internalA /\ HasMask(registersA') /\ toggleA' \in Toggles
      /\ SteadyControl(registersA, registersA')
      /\ Masking(w, toggleA, registersA'.ppu_mask, toggleA', v)
  BY <1>1, <1>2, MaskA DEF PairInv, PairTypes, Write
<1>4. /\ internalB' = internalB /\ HasMask(registersB') /\ toggleB' \in Toggles
      /\ SteadyControl(registersB, registersB')
      /\ Masking(u, toggleB, registersB'.ppu_mask, toggleB', v)
  BY <1>1, <1>2, MaskB DEF PairInv, PairTypes, Write
<1>5. open' = open /\ done' = done \cup {"mask"}
  BY DEF WriteMask
<1>6. PairTypes'
  BY <1>3, <1>4, <1>5 DEF PairInv, PairTypes
<1>7. w \in A!Byte /\ u \in A!Byte /\ toggleA \in Toggles /\ toggleB \in Toggles
  BY DEF PairInv, PairTypes, HasMask
<1>8. A!RenderingFlags(v) = 0 =>
         /\ registersA'.ppu_mask = v /\ (NoFlags(toggleA) => NoFlags(toggleA'))
         /\ registersB'.ppu_mask = v /\ (NoFlags(toggleB) => NoFlags(toggleB'))
  <2> HIDE DEF w, u
  <2> QED
    BY <1>2, <1>3, <1>4, <1>7, MaskingKeeps
<1>9. A!RenderingFlags(v) = 0 /\ NoFlags(toggleA) /\ NoFlags(toggleB) => MaskAgrees'
  BY <1>5, <1>8 DEF MaskAgrees, NoFlags, Flags
<1>10. w = u => /\ registersA'.ppu_mask = registersB'.ppu_mask
                /\ toggleA = toggleB \/ (A!RenderingFlags(w) = 0 /\ A!RenderingFlags(v) # 0)
                     => toggleA' = toggleB'
  <2> HIDE DEF w, u
  <2> QED
    BY <1>3, <1>4, MaskingAgrees
<1>11. MaskAgrees'
  <2>1. CASE "mask" \notin done
    BY <2>1, <1>1, <1>9 DEF PairInv, MaskAgrees
  <2>2. CASE "mask" \in done /\ toggleA = toggleB
    <3>1. w = u
      BY <2>2 DEF PairInv, MaskAgrees
    <3> QED
      BY <2>2, <3>1, <1>5, <1>10 DEF MaskAgrees
  <2>3. CASE "mask" \in done /\ toggleA # toggleB
    <3>1. w = u /\ NoFlags(toggleA) /\ NoFlags(toggleB) /\ A!RenderingFlags(w) = 0
      BY <2>3 DEF PairInv, MaskAgrees, Flags
    <3>2. CASE A!RenderingFlags(v) = 0
      BY <3>1, <3>2, <1>9
    <3>3. CASE A!RenderingFlags(v) # 0
      BY <3>1, <3>3, <1>5, <1>10 DEF MaskAgrees
    <3> QED
      BY <3>2, <3>3
  <2> QED
    BY <2>1, <2>2, <2>3
<1>12. ControlAgrees'
  BY <1>3, <1>4, <1>5, ControlStays
<1>13. InternalHolds'
  BY <1>3, <1>4, <1>5, InternalStays
<1> QED
  BY <1>6, <1>11, <1>12, <1>13 DEF PairInv, InternalHolds

LEMMA ControlKeeps ==
    ASSUME PairInv, WriteControl
    PROVE  PairInv'
<1>1. PICK v \in Values : Write(0, v)
  BY DEF WriteControl
<1>2. v \in A!Byte
  BY Written
<1> DEFINE s == internalA.temp_vram_address
           t == internalB.temp_vram_address
<1>3. /\ Controlled(internalA, internalA', v, Flags(registersA))
      /\ Steady(registersA, registersA') /\ toggleA' = toggleA
      /\ registersA'.ppu_control = v
  BY <1>1, <1>2, ControlA DEF PairInv, PairTypes, Write
<1>4. /\ Controlled(internalB, internalB', v, Flags(registersB))
      /\ Steady(registersB, registersB') /\ toggleB' = toggleB
      /\ registersB'.ppu_control = v
  BY <1>1, <1>2, ControlB DEF PairInv, PairTypes, Write
<1>5. open' = open /\ done' = done \cup {"control"}
  BY DEF WriteControl
<1>6. s \in A!Address /\ t \in A!Address
  BY InternalMembers DEF PairInv, PairTypes
<1>7. /\ MaskAgrees' /\ HasMask(registersA') /\ HasMask(registersB')
      /\ toggleA' \in Toggles /\ toggleB' \in Toggles
  BY <1>3, <1>4, <1>5, MaskStays
<1>8. PairTypes' /\ ControlAgrees' /\ ToggleAgrees'
  BY <1>3, <1>4, <1>5, <1>7
  DEF PairInv, PairTypes, ControlAgrees, ToggleAgrees, Controlled
<1>9. /\ internalA'.temp_vram_address = A!WithNameTable(s, v)
      /\ internalB'.temp_vram_address = A!WithNameTable(t, v)
      /\ internalA'.fine_x_scroll = internalA.fine_x_scroll
      /\ internalB'.fine_x_scroll = internalB.fine_x_scroll
  BY <1>3, <1>4 DEF Controlled
<1>10. SameColumn(s, t) => SameColumn(A!WithNameTable(s, v), A!WithNameTable(t, v))
  BY <1>2, <1>6, ScrollAgrees
<1>11. SameScroll(s, t) => A!WithNameTable(s, v) = A!WithNameTable(t, v)
  BY <1>2, <1>6, ScrollDecides
<1>12. "scroll" \in done => SameTemp' /\ SameFine'
  BY <1>9, <1>11 DEF PairInv, ScrollHolds, SameTemp, SameFine
<1>13. SameTemp' => SameScroll(internalA.temp_vram_address, internalB.temp_vram_address)'
  BY DEF SameTemp, SameScroll
<1>14. ScrollHolds'
  BY <1>5, <1>9, <1>10, <1>12, <1>13 DEF PairInv, ScrollHolds, SameFine
<1>15. "address" \in done =>
          internalA'.current_vram_address = internalB'.current_vram_address
  <2>1. "address" \in done =>
          /\ "scroll" \in done /\ Flags(registersA) = Flags(registersB)
          /\ internalA.current_vram_address = internalB.current_vram_address
    BY SameFlags DEF PairInv, AddressHolds
  <2> QED
    BY <2>1, <1>3, <1>4, <1>12 DEF Controlled, SameTemp
<1>16. AddressHolds'
  BY <1>5, <1>12, <1>15 DEF PairInv, AddressHolds
<1> QED
  BY <1>7, <1>8, <1>14, <1>16 DEF PairInv

LEMMA StatusKeeps ==
    ASSUME PairInv, ReadStatus
    PROVE  PairInv'
<1>1. /\ Cleared(internalA, internalA')
      /\ Steady(registersA, registersA') /\ toggleA' = toggleA
      /\ SteadyControl(registersA, registersA')
  BY StatusA DEF PairInv, PairTypes, ReadStatus, Read
<1>2. /\ Cleared(internalB, internalB')
      /\ Steady(registersB, registersB') /\ toggleB' = toggleB
      /\ SteadyControl(registersB, registersB')
  BY StatusB DEF PairInv, PairTypes, ReadStatus, Read
<1>3. open' = 0 /\ done' = done \cup {"status"}
  BY DEF ReadStatus
<1>4. /\ MaskAgrees' /\ HasMask(registersA') /\ HasMask(registersB')
      /\ toggleA' \in Toggles /\ toggleB' \in Toggles
  BY <1>1, <1>2, <1>3, MaskStays
<1>5. PairTypes' /\ ToggleAgrees'
  BY <1>1, <1>2, <1>3, <1>4 DEF PairInv, PairTypes, ToggleAgrees, Cleared
<1>7. ControlAgrees'
  BY <1>1, <1>2, <1>3, ControlStays
<1>6. /\ internalA'.temp_vram_address = internalA.temp_vram_address
      /\ internalA'.current_vram_address = internalA.current_vram_address
      /\ internalA'.fine_x_scroll = internalA.fine_x_scroll
      /\ internalB'.temp_vram_address = internalB.temp_vram_address
      /\ internalB'.current_vram_address = internalB.current_vram_address
      /\ internalB'.fine_x_scroll = internalB.fine_x_scroll
  BY <1>1, <1>2 DEF Cleared
<1> QED
  BY <1>3, <1>4, <1>5, <1>6, <1>7 DEF PairInv, ScrollHolds, AddressHolds, SameFine, SameTemp

LEMMA ScrollKeeps ==
    ASSUME PairInv, WriteScroll
    PROVE  PairInv'
<1>1. PICK v \in Values : Write(5, v)
  BY DEF WriteScroll, WriteHalf
<1>2. v \in A!Byte
  BY Written
<1> DEFINE s == internalA.temp_vram_address
           t == internalB.temp_vram_address
<1>3. /\ Scrolled(internalA, internalA', v)
      /\ Steady(registersA, registersA') /\ toggleA' = toggleA
      /\ SteadyControl(registersA, registersA')
  BY <1>1, <1>2, ScrollA DEF PairInv, PairTypes, Write
<1>4. /\ Scrolled(internalB, internalB', v)
      /\ Steady(registersB, registersB') /\ toggleB' = toggleB
      /\ SteadyControl(registersB, registersB')
  BY <1>1, <1>2, ScrollB DEF PairInv, PairTypes, Write
<1>5. /\ open \in {0, 5}
      /\ open' = IF "status" \notin done \/ open = 5 THEN 0 ELSE 5
      /\ done' = IF open = 5 /\ "status" \in done THEN done \cup {"scroll"} ELSE done
  BY DEF WriteScroll, WriteHalf
<1>6. s \in A!Address /\ t \in A!Address
  BY InternalMembers DEF PairInv, PairTypes
<1>7. /\ MaskAgrees' /\ HasMask(registersA') /\ HasMask(registersB')
      /\ toggleA' \in Toggles /\ toggleB' \in Toggles
  BY <1>3, <1>4, <1>5, MaskStays
<1>8. PairTypes' /\ MaskAgrees' /\ ControlAgrees'
  <2>1. ControlAgrees'
    BY <1>3, <1>4, <1>5, ControlStays
  <2> QED
    BY <2>1, <1>3, <1>4, <1>5, <1>7 DEF PairInv, PairTypes, Scrolled
<1>9. ToggleAgrees'
  BY <1>3, <1>4, <1>5 DEF PairInv, ToggleAgrees, Scrolled
<1>10. /\ internalA'.current_vram_address = internalA.current_vram_address
       /\ internalB'.current_vram_address = internalB.current_vram_address
  BY <1>3, <1>4 DEF Scrolled
<1>11. CASE "status" \notin done
  <2>1. open' = 0 /\ done' = done /\ "scroll" \notin done /\ "address" \notin done
    BY <1>5, <1>11 DEF PairInv, ToggleAgrees, AddressHolds
  <2> QED
    BY <2>1, <1>8, <1>9 DEF PairInv, ScrollHolds, AddressHolds
<1>12. CASE "status" \in done /\ open = 0
  <2>1. open' = 5 /\ done' = done
    BY <1>5, <1>12
  <2>2. internalA.write_toggle = 0 /\ internalB.write_toggle = 0
    BY <1>12 DEF PairInv, ToggleAgrees
  <2>3. /\ internalA'.temp_vram_address = A!WithCoarseX(s, v)
        /\ internalB'.temp_vram_address = A!WithCoarseX(t, v)
        /\ SameFine'
    BY <1>3, <1>4, <2>2 DEF Scrolled, SameFine
  <2>4. SameColumn(A!WithCoarseX(s, v), A!WithCoarseX(t, v))
    BY <1>2, <1>6, ScrollAgrees
  <2>5. SameScroll(s, t) => SameScroll(A!WithCoarseX(s, v), A!WithCoarseX(t, v))
    BY <1>2, <1>6, ScrollDecides
  <2>6. ScrollHolds'
    BY <2>1, <2>3, <2>4, <2>5 DEF PairInv, ScrollHolds
  <2>7. AddressHolds'
    BY <2>1, <2>3, <1>10 DEF PairInv, AddressHolds, SameTemp
  <2> QED
    BY <2>6, <2>7, <1>8, <1>9 DEF PairInv
<1>13. CASE "status" \in done /\ open = 5
  <2>1. open' = 0 /\ done' = done \cup {"scroll"}
    BY <1>5, <1>13
  <2>2. /\ internalA.write_toggle = 1 /\ internalB.write_toggle = 1
        /\ SameColumn(s, t) /\ SameFine
    BY <1>13 DEF PairInv, ToggleAgrees, ScrollHolds
  <2>3. /\ internalA'.temp_vram_address = Second(s, v)
        /\ internalB'.temp_vram_address = Second(t, v)
        /\ SameFine'
    BY <1>3, <1>4, <2>2 DEF Scrolled, SameFine
  <2>4. SameScroll(Second(s, v), Second(t, v))
    BY <1>2, <1>6, <2>2, ScrollAgrees
  <2>5. ScrollHolds'
    BY <2>1, <2>3, <2>4 DEF ScrollHolds
  <2>6. AddressHolds'
    BY <2>1, <2>3, <1>10 DEF PairInv, AddressHolds, SameTemp
  <2> QED
    BY <2>5, <2>6, <1>8, <1>9 DEF PairInv
<1> QED
  BY <1>5, <1>11, <1>12, <1>13

LEMMA AddressKeeps ==
    ASSUME PairInv, WriteAddress
    PROVE  PairInv'
<1>1. PICK v \in Values : Write(6, v)
  BY DEF WriteAddress, WriteHalf
<1>2. v \in A!Byte
  BY Written
<1> DEFINE s == internalA.temp_vram_address
           t == internalB.temp_vram_address
<1>3. /\ Addressed(internalA, internalA', v, Flags(registersA))
      /\ Steady(registersA, registersA') /\ toggleA' = toggleA
      /\ SteadyControl(registersA, registersA')
  BY <1>1, <1>2, AddressA DEF PairInv, PairTypes, Write
<1>4. /\ Addressed(internalB, internalB', v, Flags(registersB))
      /\ Steady(registersB, registersB') /\ toggleB' = toggleB
      /\ SteadyControl(registersB, registersB')
  BY <1>1, <1>2, AddressB DEF PairInv, PairTypes, Write
<1> DEFINE counts == /\ {"status", "mask", "scroll", "control"} \subseteq done
                     /\ Flags(registersA) = 0
<1>5. /\ open \in {0, 6}
      /\ open' = IF "status" \notin done \/ open = 6 THEN 0 ELSE 6
      /\ done' = IF open = 6 /\ counts THEN done \cup {"address"} ELSE done
  BY DEF WriteAddress, WriteHalf, A!IsRenderingEnabled, Flags
<1>6. s \in A!Address /\ t \in A!Address
  BY InternalMembers DEF PairInv, PairTypes
<1>7. /\ MaskAgrees' /\ HasMask(registersA') /\ HasMask(registersB')
      /\ toggleA' \in Toggles /\ toggleB' \in Toggles
  BY <1>3, <1>4, <1>5, MaskStays
<1>8. PairTypes' /\ MaskAgrees' /\ ControlAgrees'
  <2>1. ControlAgrees'
    BY <1>3, <1>4, <1>5, ControlStays
  <2> QED
    BY <2>1, <1>3, <1>4, <1>5, <1>7 DEF PairInv, PairTypes, Addressed
<1>9. ToggleAgrees'
  BY <1>3, <1>4, <1>5 DEF PairInv, ToggleAgrees, Addressed
<1>10. /\ internalA'.fine_x_scroll = internalA.fine_x_scroll
       /\ internalB'.fine_x_scroll = internalB.fine_x_scroll
  BY <1>3, <1>4 DEF Addressed
<1>11. SameTemp' => SameScroll(internalA.temp_vram_address, internalB.temp_vram_address)'
  BY DEF SameTemp, SameScroll
<1>12. CASE "status" \notin done
  <2>1. open' = 0 /\ done' = done /\ "scroll" \notin done /\ "address" \notin done
    BY <1>5, <1>12 DEF PairInv, ToggleAgrees, AddressHolds
  <2> QED
    BY <2>1, <1>8, <1>9 DEF PairInv, ScrollHolds, AddressHolds
<1>13. CASE "status" \in done /\ open = 0
  <2>1. open' = 6 /\ done' = done
    BY <1>5, <1>13
  <2>2. internalA.write_toggle = 0 /\ internalB.write_toggle = 0
    BY <1>13 DEF PairInv, ToggleAgrees
  <2>3. /\ internalA'.temp_vram_address = A!WithHighAddress(s, v)
        /\ internalB'.temp_vram_address = A!WithHighAddress(t, v)
        /\ internalA'.current_vram_address = internalA.current_vram_address
        /\ internalB'.current_vram_address = internalB.current_vram_address
    BY <1>3, <1>4, <2>2 DEF Addressed
  <2>4. SameScroll(s, t) => A!WithHighAddress(s, v) = A!WithHighAddress(t, v)
    BY <1>2, <1>6, ScrollDecides
  <2>5. "scroll" \in done => SameTemp' /\ SameFine'
    BY <2>3, <2>4, <1>10 DEF PairInv, ScrollHolds, SameTemp, SameFine
  <2>6. ScrollHolds'
    BY <2>1, <2>5, <1>11 DEF ScrollHolds
  <2>7. AddressHolds'
    BY <2>1, <2>3, <2>5 DEF PairInv, AddressHolds
  <2> QED
    BY <2>6, <2>7, <1>8, <1>9 DEF PairInv
<1>14. CASE "status" \in done /\ open = 6
  <2>1. open' = 0 /\ done \subseteq done'
        /\ ("scroll" \in done' <=> "scroll" \in done)
        /\ ("address" \in done' =>
              /\ "mask" \in done /\ "scroll" \in done /\ "control" \in done
              /\ Flags(registersA) # 0 => "address" \in done)
    BY <1>5, <1>14 DEF PairInv, AddressHolds
  <2>2. /\ internalA.write_toggle = 1 /\ internalB.write_toggle = 1
        /\ "scroll" \in done => s = t /\ SameFine
    BY <1>14 DEF PairInv, ToggleAgrees, ScrollHolds, AddressHolds, SameTemp
  <2>3. /\ internalA'.temp_vram_address = A!WithLowAddress(s, v)
        /\ internalB'.temp_vram_address = A!WithLowAddress(t, v)
        /\ internalA'.current_vram_address =
             IF Flags(registersA) # 0 THEN internalA.current_vram_address
             ELSE internalA'.temp_vram_address
        /\ internalB'.current_vram_address =
             IF Flags(registersB) # 0 THEN internalB.current_vram_address
             ELSE internalB'.temp_vram_address
    BY <1>3, <1>4, <2>2 DEF Addressed
  <2>4. "scroll" \in done => SameTemp' /\ SameFine'
    BY <2>2, <2>3, <1>10 DEF SameTemp, SameFine
  <2>5. /\ "mask" \in done => Flags(registersA) = Flags(registersB)
        /\ "address" \in done =>
             internalA.current_vram_address = internalB.current_vram_address
    BY SameFlags DEF PairInv, AddressHolds
  <2>6. ScrollHolds'
    BY <2>1, <2>4, <1>11 DEF ScrollHolds
  <2>7. "address" \in done' =>
          internalA'.current_vram_address = internalB'.current_vram_address
    BY <2>1, <2>3, <2>4, <2>5 DEF SameTemp
  <2>8. AddressHolds'
    BY <2>1, <2>4, <2>7 DEF AddressHolds
  <2> QED
    BY <2>6, <2>8, <1>8, <1>9 DEF PairInv
<1> QED
  BY <1>5, <1>12, <1>13, <1>14

LEMMA DataKeeps ==
    ASSUME PairInv, AccessData
    PROVE  PairInv'
<1>1. /\ Moved(internalA, internalA', Flags(registersA), registersA.ppu_control)
      /\ registersA' = registersA /\ toggleA' = toggleA
  BY DataA DEF AccessData, Read, Write, PairInv, PairTypes
<1>2. /\ Moved(internalB, internalB', Flags(registersB), registersB.ppu_control)
      /\ registersB' = registersB /\ toggleB' = toggleB
  BY DataB DEF AccessData, Read, Write, PairInv, PairTypes
<1>3. open' = open /\ done' = done
  BY DEF AccessData
<1>4. PairTypes' /\ MaskAgrees' /\ ControlAgrees' /\ ToggleAgrees'
  BY <1>1, <1>2, <1>3
  DEF PairInv, PairTypes, MaskAgrees, ControlAgrees, ToggleAgrees, Moved, Flags, NoFlags
<1>5. /\ internalA'.temp_vram_address = internalA.temp_vram_address
      /\ internalB'.temp_vram_address = internalB.temp_vram_address
      /\ internalA'.fine_x_scroll = internalA.fine_x_scroll
      /\ internalB'.fine_x_scroll = internalB.fine_x_scroll
  BY <1>1, <1>2 DEF Moved
<1>6. ScrollHolds'
  BY <1>3, <1>5 DEF PairInv, ScrollHolds, SameFine
<1>7. "address" \in done =>
          internalA'.current_vram_address = internalB'.current_vram_address
  <2>1. "address" \in done =>
          /\ Flags(registersA) = Flags(registersB)
          /\ registersA.ppu_control = registersB.ppu_control
          /\ internalA.current_vram_address = internalB.current_vram_address
    BY SameFlags DEF PairInv, AddressHolds, ControlAgrees
  <2> QED
    BY <2>1, <1>1, <1>2 DEF Moved
<1>8. AddressHolds'
  BY <1>3, <1>5, <1>7 DEF PairInv, AddressHolds, SameTemp
<1> QED
  BY <1>4, <1>6, <1>8 DEF PairInv

LEMMA OtherKeeps ==
    ASSUME PairInv, AccessOther
    PROVE  PairInv'
<1>1. /\ internalA' = internalA /\ toggleA' = toggleA
      /\ Steady(registersA, registersA') /\ SteadyControl(registersA, registersA')
  BY OtherA DEF AccessOther, Read, Write, PairInv, PairTypes
<1>2. /\ internalB' = internalB /\ toggleB' = toggleB
      /\ Steady(registersB, registersB') /\ SteadyControl(registersB, registersB')
  BY OtherB DEF AccessOther, Read, Write, PairInv, PairTypes
<1>3. open' = open /\ done' = done
  BY DEF AccessOther, program
<1>4. /\ MaskAgrees' /\ HasMask(registersA') /\ HasMask(registersB')
      /\ toggleA' \in Toggles /\ toggleB' \in Toggles
  BY <1>1, <1>2, <1>3, MaskStays
<1>5. ControlAgrees' /\ InternalHolds'
  BY <1>1, <1>2, <1>3, ControlStays, InternalStays
<1>6. PairTypes'
  BY <1>1, <1>2, <1>3, <1>4 DEF PairInv, PairTypes
<1> QED
  BY <1>4, <1>5, <1>6 DEF PairInv, InternalHolds

-----------------------------------------------------------------------------

LEMMA PairKept == PairInv /\ [Next]_pairVars => PairInv'
<1> SUFFICES ASSUME PairInv, [Next]_pairVars PROVE PairInv'
  OBVIOUS
<1>1. CASE Step
  BY <1>1, ClockKeeps
<1>2. CASE WriteMask
  BY <1>2, MaskKeeps
<1>3. CASE WriteControl
  BY <1>3, ControlKeeps
<1>4. CASE ReadStatus
  BY <1>4, StatusKeeps
<1>5. CASE WriteScroll
  BY <1>5, ScrollKeeps
<1>6. CASE WriteAddress
  BY <1>6, AddressKeeps
<1>7. CASE AccessData
  BY <1>7, DataKeeps
<1>8. CASE AccessOther
  BY <1>8, OtherKeeps
<1>9. CASE UNCHANGED pairVars
  BY <1>9 DEF pairVars, PairInv, PairTypes, MaskAgrees, ControlAgrees, ToggleAgrees,
              ScrollHolds, AddressHolds, SameFine, SameTemp, Flags, NoFlags
<1> QED
  BY <1>1, <1>2, <1>3, <1>4, <1>5, <1>6, <1>7, <1>8, <1>9 DEF Next

\* A record of InternalRegisters is its four members.
LEMMA InternalEqual ==
    ASSUME NEW n \in Internal, NEW m \in Internal,
           n.temp_vram_address = m.temp_vram_address,
           n.current_vram_address = m.current_vram_address,
           n.fine_x_scroll = m.fine_x_scroll, n.write_toggle = m.write_toggle
    PROVE  n = m
BY DEF Internal

LEMMA PairMeans == PairInv => PowerOnForgotten
<1> SUFFICES ASSUME PairInv, Initialised
    PROVE  /\ internalA = internalB
           /\ registersA.ppu_mask = registersB.ppu_mask
           /\ registersA.ppu_control = registersB.ppu_control
  BY DEF PowerOnForgotten
<1>1. "mask" \in done /\ "status" \in done /\ "scroll" \in done /\ "address" \in done
      /\ "control" \in done
  BY DEF Initialised
<1>2. /\ registersA.ppu_mask = registersB.ppu_mask
      /\ registersA.ppu_control = registersB.ppu_control
  BY <1>1 DEF PairInv, MaskAgrees, ControlAgrees
<1>3. /\ internalA.temp_vram_address = internalB.temp_vram_address
      /\ internalA.current_vram_address = internalB.current_vram_address
      /\ internalA.fine_x_scroll = internalB.fine_x_scroll
      /\ internalA.write_toggle = internalB.write_toggle
  BY <1>1 DEF PairInv, ToggleAgrees, ScrollHolds, AddressHolds, SameFine, SameTemp
<1>4. internalA = internalB
  BY <1>3, InternalEqual DEF PairInv, PairTypes
<1> QED
  BY <1>2, <1>4

\* Once the program has written PPUMASK and PPUCTRL, read PPUSTATUS and written a
\* pair to PPUSCROLL and then, with rendering off, one to PPUADDR, the two PPUs hold
\* the same internal registers, PPUMASK and PPUCTRL from then on, through every
\* access (PPUDATA and rendering included) and whatever the members that
\* qnes_ppu.hpp leaves uninitialised held at power-on.
THEOREM PowerOnIsForgotten == Spec => []PowerOnForgotten
<1>1. Init => PairInv
  BY PairInit
<1>2. PairInv /\ [Next]_pairVars => PairInv'
  BY PairKept
<1>3. PairInv => PowerOnForgotten
  BY PairMeans
<1> QED
  BY <1>1, <1>2, <1>3, PTL DEF Spec
=============================================================================
