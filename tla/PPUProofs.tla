------------------------------ MODULE PPUProofs ------------------------------
(***************************************************************************)
(* Proofs about the register file of the PPU: for every program, every     *)
(* content of the uninitialised members, every size of the VRAM and any    *)
(* number of accesses between any two dots; and about the PPU behind the   *)
(* bus, accessed by every instruction with an operand in memory.           *)
(***************************************************************************)
EXTENDS PPUHistory, System, AluProofs, SequenceTheorems, TLAPS

-----------------------------------------------------------------------------
(* Bit fields.  One lemma per mask that the code uses.                     *)

\* Writing a byte under a mask stays within fifteen bits.
LEMMA AddressFields ==
    ASSUME NEW t \in Address, NEW value \in Byte
    PROVE  /\ WithCoarseX(t, value) \in Address
           /\ WithCoarseY(t, value) \in Address
           /\ WithFineY(t, value) \in Address
           /\ WithNameTable(t, value) \in Address
           /\ WithHighAddress(t, value) \in Address
           /\ WithLowAddress(t, value) \in Address
<1> USE DEF Address, Byte, Replaced, Masked
<1>1. WithCoarseX(t, value) \in Address
  BY DEF WithCoarseX
<1>2. WithCoarseY(t, value) \in Address
  BY DEF WithCoarseY
<1>3. WithFineY(t, value) \in Address
  BY DEF WithFineY
<1>4. WithNameTable(t, value) \in Address
  BY DEF WithNameTable
<1>5. WithHighAddress(t, value) \in Address
  BY DEF WithHighAddress
<1>6. WithLowAddress(t, value) \in Address
  BY DEF WithLowAddress
<1> QED BY <1>1, <1>2, <1>3, <1>4, <1>5, <1>6

\* The rendering flags are a field of the mask: they can be taken out and put
\* back.
LEMMA MaskFields ==
    ASSUME NEW w \in Byte, NEW value \in Byte
    PROVE  /\ RenderingFlags(w) \in Byte
           /\ RenderingFlags(RenderingFlags(w)) = RenderingFlags(w)
           /\ WithRenderingFlags(w, value) \in Byte
           /\ RenderingFlags(WithRenderingFlags(w, 0)) = 0
           /\ RenderingFlags(w) = 0 => WithRenderingFlags(w, 0) = w
           /\ WithRenderingFlags(WithRenderingFlags(w, 0), RenderingFlags(w)) = w
<1>1. RenderingFlags(w) \in Byte
  BY DEF RenderingFlags, Masked, Byte
<1>2. RenderingFlags(RenderingFlags(w)) = RenderingFlags(w)
  BY DEF RenderingFlags, Masked, Byte
<1>3. WithRenderingFlags(w, value) \in Byte
  BY DEF WithRenderingFlags, Replaced, Masked, Byte
<1>4. RenderingFlags(WithRenderingFlags(w, 0)) = 0
  BY DEF RenderingFlags, WithRenderingFlags, Replaced, Masked, Byte
<1>5. RenderingFlags(w) = 0 => WithRenderingFlags(w, 0) = w
  BY DEF RenderingFlags, WithRenderingFlags, Replaced, Masked, Byte
<1>6. WithRenderingFlags(WithRenderingFlags(w, 0), RenderingFlags(w)) = w
  BY DEF RenderingFlags, WithRenderingFlags, Replaced, Masked, Byte
<1> QED BY <1>1, <1>2, <1>3, <1>4, <1>5, <1>6

-----------------------------------------------------------------------------
(* The position that an address means.                                     *)

Column(a) == (a % 32) + 32 * ((a \div 1024) % 2)
Row(a)    == 8 * ((a \div 32) % 32) + (a \div 4096)
Page(a)   == (a \div 2048) % 2

\* The address with coarse x, coarse y, name table and fine y.
At(x, y, h, p, f) == x + 32 * y + 1024 * h + 2048 * p + 4096 * f

HasFields(a, x, y, h, p, f) ==
    /\ a \in Address
    /\ a % 32 = x
    /\ (a \div 32) % 32 = y
    /\ (a \div 1024) % 2 = h
    /\ (a \div 2048) % 2 = p
    /\ a \div 4096 = f
    /\ Column(a) = x + 32 * h
    /\ Row(a) = 8 * y + f
    /\ Page(a) = p

\* An address is its fields, and they are those that the masks select.
LEMMA Fields ==
    ASSUME NEW a \in Address
    PROVE  \E x \in 0 .. 31, y \in 0 .. 31, h \in {0, 1}, p \in {0, 1}, f \in 0 .. 7 :
              a = At(x, y, h, p, f)
<1> DEFINE x == a % 32
           y == (a \div 32) % 32
           h == (a \div 1024) % 2
           p == (a \div 2048) % 2
           f == a \div 4096
<1>1. x \in 0 .. 31 /\ y \in 0 .. 31 /\ h \in {0, 1} /\ p \in {0, 1} /\ f \in 0 .. 7
  BY DEF Address
<1>2. a = At(x, y, h, p, f)
  BY DEF Address, At
<1> HIDE DEF x, y, h, p, f
<1> QED BY <1>1, <1>2

\* What the fields of an address are.
LEMMA FieldsOf ==
    ASSUME NEW x \in 0 .. 31, NEW y \in 0 .. 31, NEW h \in {0, 1},
           NEW p \in {0, 1}, NEW f \in 0 .. 7
    PROVE  HasFields(At(x, y, h, p, f), x, y, h, p, f)
<1> DEFINE a == At(x, y, h, p, f)
<1>1. a \in Address
  BY DEF Address, At
<1>2. a % 32 = x
  BY DEF At
<1>3. (a \div 32) % 32 = y
  <2>1. a \div 32 = y + 32 * h + 64 * p + 128 * f
    BY DEF At
  <2> HIDE DEF a
  <2> QED BY <2>1
<1>4. (a \div 1024) % 2 = h
  <2>1. a \div 1024 = h + 2 * p + 4 * f
    BY DEF At
  <2> HIDE DEF a
  <2> QED BY <2>1
<1>5. (a \div 2048) % 2 = p
  <2>1. a \div 2048 = p + 2 * f
    BY DEF At
  <2> HIDE DEF a
  <2> QED BY <2>1
<1>6. a \div 4096 = f
  BY DEF At
<1>7. Column(a) = x + 32 * h /\ Row(a) = 8 * y + f /\ Page(a) = p
  BY <1>2, <1>3, <1>4, <1>5, <1>6 DEF Column, Row, Page
<1> QED BY <1>1, <1>2, <1>3, <1>4, <1>5, <1>6, <1>7 DEF HasFields

\* The next column: the second name table after the first.
LEMMA CoarseXAdvances ==
    ASSUME NEW a \in Address
    PROVE  LET b == VRAMIncrementCoarseX(a)
           IN  /\ b \in Address
               /\ Column(b) = (Column(a) + 1) % 64
               /\ Row(b) = Row(a) /\ Page(b) = Page(a)
<1> DEFINE b == VRAMIncrementCoarseX(a)
<1>0. 0 \in 0 .. 31 /\ 0 \in 0 .. 7
  OBVIOUS
<1>1. PICK x \in 0 .. 31, y \in 0 .. 31, h \in {0, 1}, p \in {0, 1}, f \in 0 .. 7 :
         a = At(x, y, h, p, f)
  BY Fields
<1>2. /\ a % 32 = x /\ (a \div 1024) % 2 = h
      /\ Column(a) = x + 32 * h /\ Row(a) = 8 * y + f /\ Page(a) = p
  <2>1. HasFields(a, x, y, h, p, f)
    BY <1>1, FieldsOf
  <2> QED BY <2>1 DEF HasFields
<1>3. CASE x = 31
  <2>1. WithCoarseX(a, 0) = At(0, y, h, p, f)
    BY <1>1, <1>2, <1>3 DEF At, WithCoarseX, Replaced, Masked
  <2> DEFINE c == At(0, y, h, p, f)
  <2>2. (c \div 1024) % 2 = h
    <3>1. HasFields(c, 0, y, h, p, f)
      BY <1>0, FieldsOf
    <3> QED BY <3>1 DEF HasFields
  <2>3. Flipped(c, 1024) = At(0, y, 1 - h, p, f)
    <3>1. Masked(c, 1024, 2) = 1024 * h
      BY <2>2 DEF Masked
    <3>2. Masked(1024 - 1024 * h, 1024, 2) = 1024 * (1 - h)
      BY DEF Masked
    <3>3. Flipped(c, 1024) = (c - 1024 * h) + 1024 * (1 - h)
      BY <3>1, <3>2 DEF Flipped, Replaced
    <3> QED BY <3>3 DEF At
  <2>4. b = At(0, y, 1 - h, p, f)
    BY <1>2, <1>3, <2>1, <2>3 DEF VRAMIncrementCoarseX
  <2>5. 1 - h \in {0, 1}
    OBVIOUS
  <2>6. HasFields(b, 0, y, 1 - h, p, f)
    BY <1>0, <2>4, <2>5, FieldsOf
  <2>7. 0 + 32 * (1 - h) = (Column(a) + 1) % 64
    BY <1>2, <1>3
  <2> HIDE DEF b
  <2> QED BY <1>2, <2>6, <2>7 DEF b, HasFields
<1>4. CASE x # 31
  <2>1. b = At(x + 1, y, h, p, f)
    BY <1>1, <1>2, <1>4 DEF VRAMIncrementCoarseX, At
  <2>2. x + 1 \in 0 .. 31
    BY <1>4
  <2>3. HasFields(b, x + 1, y, h, p, f)
    BY <2>1, <2>2, FieldsOf
  <2>4. (x + 1) + 32 * h = (Column(a) + 1) % 64
    BY <1>2, <1>4
  <2> HIDE DEF b
  <2> QED BY <1>2, <2>3, <2>4 DEF b, HasFields
<1> QED BY <1>3, <1>4

\* The next row: a new page after row 239, the same page after row 255.
LEMMA FineYAdvances ==
    ASSUME NEW a \in Address
    PROVE  LET b == VRAMIncrementFineY(a)
           IN  /\ b \in Address
               /\ Column(b) = Column(a)
               /\ Row(b) = IF Row(a) \in {239, 255} THEN 0 ELSE Row(a) + 1
               /\ Page(b) = IF Row(a) = 239 THEN 1 - Page(a) ELSE Page(a)
<1> DEFINE b == VRAMIncrementFineY(a)
<1>0. 0 \in 0 .. 31 /\ 0 \in 0 .. 7
  OBVIOUS
<1>1. PICK x \in 0 .. 31, y \in 0 .. 31, h \in {0, 1}, p \in {0, 1}, f \in 0 .. 7 :
         a = At(x, y, h, p, f)
  BY Fields
<1>2. /\ (a \div 32) % 32 = y /\ a \div 4096 = f
      /\ Column(a) = x + 32 * h /\ Row(a) = 8 * y + f /\ Page(a) = p
  <2>1. HasFields(a, x, y, h, p, f)
    BY <1>1, FieldsOf
  <2> QED BY <2>1 DEF HasFields
<1>3. CASE f # 7
  <2>1. b = At(x, y, h, p, f + 1)
    <3>1. b = a + 4096
      BY <1>2, <1>3 DEF VRAMIncrementFineY
    <3> HIDE DEF b
    <3> QED BY <1>1, <3>1 DEF At
  <2>2. f + 1 \in 0 .. 7
    BY <1>3
  <2>3. HasFields(b, x, y, h, p, f + 1)
    BY <2>1, <2>2, FieldsOf
  <2>4. Row(a) \notin {239, 255}
    BY <1>2, <1>3
  <2>5. Row(b) = Row(a) + 1
    BY <1>2, <2>3 DEF HasFields
  <2> HIDE DEF b
  <2> QED BY <1>2, <2>3, <2>4, <2>5 DEF b, HasFields
<1>4. CASE f = 7
  <2> DEFINE c == At(x, y, h, p, 0)
  <2>1. WithFineY(a, 0) = c
    <3>1. (a \div 4096) % 8 = 7
      BY <1>2, <1>4
    <3> QED BY <1>1, <1>4, <3>1 DEF At, WithFineY, Replaced, Masked
  <2>2. CASE y = 29
    <3> DEFINE d == At(x, y, h, 1 - p, 0)
    <3>1. Flipped(c, 2048) = d
      <4>1. Masked(c, 2048, 2) = 2048 * p
        <5>1. HasFields(c, x, y, h, p, 0)
          BY <1>0, FieldsOf
        <5>2. (c \div 2048) % 2 = p
          BY <5>1 DEF HasFields
        <5> QED BY <5>2 DEF Masked
      <4>2. Masked(2048 - 2048 * p, 2048, 2) = 2048 * (1 - p)
        BY DEF Masked
      <4>3. Flipped(c, 2048) = (c - 2048 * p) + 2048 * (1 - p)
        BY <4>1, <4>2 DEF Flipped, Replaced
      <4> QED BY <4>3 DEF At
    <3>2. 1 - p \in {0, 1}
      OBVIOUS
    <3>3. WithCoarseY(d, 0) = At(x, 0, h, 1 - p, 0)
      <4>1. HasFields(d, x, y, h, 1 - p, 0)
        BY <1>0, <3>2, FieldsOf
      <4>2. (d \div 32) % 32 = y
        BY <4>1 DEF HasFields
      <4> QED BY <4>2 DEF At, WithCoarseY, Replaced, Masked
    <3>4. b = At(x, 0, h, 1 - p, 0)
      BY <1>2, <1>4, <2>1, <2>2, <3>1, <3>3 DEF VRAMIncrementFineY
    <3>5. HasFields(b, x, 0, h, 1 - p, 0)
      BY <1>0, <3>2, <3>4, FieldsOf
    <3>6. Row(a) = 239
      BY <1>2, <1>4, <2>2
    <3> HIDE DEF b
    <3> QED BY <1>2, <3>5, <3>6 DEF b, HasFields
  <2>3. CASE y = 31
    <3>1. WithCoarseY(c, 0) = At(x, 0, h, p, 0)
      <4>1. HasFields(c, x, y, h, p, 0)
        BY <1>0, FieldsOf
      <4>2. (c \div 32) % 32 = y
        BY <4>1 DEF HasFields
      <4> QED BY <4>2 DEF At, WithCoarseY, Replaced, Masked
    <3>2. b = At(x, 0, h, p, 0)
      BY <1>2, <1>4, <2>1, <2>3, <3>1 DEF VRAMIncrementFineY
    <3>3. HasFields(b, x, 0, h, p, 0)
      BY <1>0, <3>2, FieldsOf
    <3>4. Row(a) = 255
      BY <1>2, <1>4, <2>3
    <3> HIDE DEF b
    <3> QED BY <1>2, <3>3, <3>4 DEF b, HasFields
  <2>4. CASE y \notin {29, 31}
    <3>1. b = At(x, y + 1, h, p, 0)
      BY <1>2, <1>4, <2>1, <2>4 DEF VRAMIncrementFineY, At
    <3>2. y + 1 \in 0 .. 31
      BY <2>4
    <3>3. HasFields(b, x, y + 1, h, p, 0)
      BY <1>0, <3>1, <3>2, FieldsOf
    <3>4. Row(a) \notin {239, 255} /\ 8 * (y + 1) + 0 = Row(a) + 1
      BY <1>2, <1>4, <2>4
    <3> HIDE DEF b
    <3> QED BY <1>2, <3>3, <3>4 DEF b, HasFields
  <2> QED BY <2>2, <2>3, <2>4
<1> QED BY <1>3, <1>4

-----------------------------------------------------------------------------
(* Type correctness.                                                       *)

\* The increment of PPUDATA accesses, in either mode.
LEMMA IncrementType ==
    ASSUME PPUTypeOK, IncrementVRAMAddress
    PROVE  internal_registers' \in InternalRegisters
<1> DEFINE a == internal_registers.current_vram_address
<1>1. a \in Address /\ internal_registers \in InternalRegisters
  BY DEF PPUTypeOK, InternalRegisters
<1>2. VRAMIncrementFineY(VRAMIncrementCoarseX(a)) \in Address
  BY <1>1, CoarseXAdvances, FineYAdvances
<1>3. (a + Stride) % 32768 \in Address
  <2>1. Stride \in Nat
    BY DEF Stride
  <2> HIDE DEF a
  <2> QED BY <1>1, <2>1 DEF Address
<1>4. \E b \in Address :
         internal_registers' = [internal_registers EXCEPT !.current_vram_address = b]
  BY <1>2, <1>3 DEF IncrementVRAMAddress
<1> QED BY <1>1, <1>4 DEF InternalRegisters

\* A dot.
LEMMA StepType == PPUTypeOK /\ PPUStep => PPUTypeOK'
<1> SUFFICES ASSUME PPUTypeOK, PPUStep PROVE PPUTypeOK'
  OBVIOUS
<1> USE DEF PPUTypeOK
<1>1. registers' \in Registers /\ toggle' \in Toggle
  <2>1. registers.ppu_mask \in Byte /\ toggle.new_rendering_flags \in Byte
    BY DEF Registers, Toggle
  <2>2. WithRenderingFlags(registers.ppu_mask, toggle.new_rendering_flags) \in Byte
    BY <2>1, MaskFields
  <2>3. CASE toggle.scheduled /\ toggle.cycles_to_wait = 0
    <3>1. NoToggle \in Toggle
      BY DEF NoToggle, Toggle, Byte
    <3> QED BY <2>2, <2>3, <3>1 DEF PPUStep, UpdateRenderingToggle, Registers
  <2>4. CASE toggle.scheduled /\ toggle.cycles_to_wait > 0
    <3>1. toggle.cycles_to_wait - 1 \in 0 .. 4
      BY <2>4 DEF Toggle
    <3>2. toggle' = [toggle EXCEPT !.cycles_to_wait = @ - 1] /\ registers' = registers
      BY <2>4 DEF PPUStep, UpdateRenderingToggle
    <3> QED BY <3>1, <3>2 DEF Toggle
  <2>5. CASE ~toggle.scheduled
    BY <2>5 DEF PPUStep, UpdateRenderingToggle
  <2>6. toggle.cycles_to_wait = 0 \/ toggle.cycles_to_wait > 0
    BY DEF Toggle
  <2> QED BY <2>3, <2>4, <2>5, <2>6
<1> QED BY <1>1 DEF PPUStep

\* What VRAM returns is a byte.
LEMMA VRAMReadType ==
    ASSUME PPUTypeOK, NEW a \in Nat
    PROVE  VRAMRead(a) \subseteq Byte
<1>1. Cell(vram, a) \in Byte
  BY DEF PPUTypeOK, Cell, Byte
<1>2. Garbage \subseteq Byte
  BY PPUConstantsAssumption
<1> QED BY <1>1, <1>2 DEF VRAMRead

\* Each register read.
LEMMA ReadType ==
    ASSUME PPUTypeOK, NEW port \in Port, BusReadMappedRegister(port)
    PROVE  PPUTypeOK'
<1> USE DEF PPUTypeOK
<1>1. CASE ReadPPUSTATUS
  <2>1. registers.ppu_status \in Byte /\ registers.ppu_status % 128 \in Byte
    BY DEF Registers, Byte
  <2>2. registers' \in Registers
    BY <1>1, <2>1 DEF ReadPPUSTATUS, Registers
  <2>3. internal_registers' \in InternalRegisters
    BY <1>1 DEF ReadPPUSTATUS, InternalRegisters
  <2> QED BY <1>1, <2>1, <2>2, <2>3 DEF ReadPPUSTATUS
<1>2. CASE ReadOAMDATA
  BY <1>2 DEF ReadOAMDATA, Registers
<1>3. CASE ReadPPUDATA
  <2> DEFINE address  == VRAMAddress % 16384
             fetched  == IF address > 16128 THEN address ELSE (address + 61440) % 65536
  <2>1. VRAMAddress \in Nat
    BY DEF VRAMAddress, InternalRegisters, Address
  <2>2. address \in Nat /\ address % 32 \in 0 .. 31 /\ fetched \in Nat
    BY <2>1
  <2>3. ppu_data_buffer' \in Byte
    <3>1. ppu_data_buffer' \in VRAMRead(fetched)
      BY <1>3 DEF ReadPPUDATA
    <3> HIDE DEF fetched
    <3> QED BY <2>2, <3>1, VRAMReadType
  <2>4. data' \in Byte
    BY <1>3, <2>2 DEF ReadPPUDATA
  <2>5. internal_registers' \in InternalRegisters
    BY <1>3, IncrementType DEF ReadPPUDATA
  <2> QED BY <1>3, <2>3, <2>4, <2>5 DEF ReadPPUDATA
<1>4. CASE ReadInvalidRegister
  BY <1>4 DEF ReadInvalidRegister, Byte
<1> QED BY <1>1, <1>2, <1>3, <1>4 DEF BusReadMappedRegister

\* The write toggle stays a bit.
LEMMA FlipType ==
    ASSUME NEW internal \in InternalRegisters
    PROVE  FlipToggle(internal) \in InternalRegisters
<1>1. 1 - internal.write_toggle \in {0, 1}
  BY DEF InternalRegisters
<1> QED BY <1>1 DEF FlipToggle, InternalRegisters

\* The two assignments of a first write to PPUSCROLL.
LEMMA ScrollXType ==
    ASSUME NEW internal \in InternalRegisters, NEW t \in Address, NEW n \in 0 .. 7
    PROVE  [internal EXCEPT !.temp_vram_address = t, !.fine_x_scroll = n]
              \in InternalRegisters
<1>1. [internal EXCEPT !.temp_vram_address = t] \in InternalRegisters
  BY DEF InternalRegisters
<1> QED BY <1>1 DEF InternalRegisters

\* Each register write.
LEMMA WriteType ==
    ASSUME PPUTypeOK, NEW port \in Port, NEW value \in Byte,
           BusWriteMappedRegister(port, value)
    PROVE  PPUTypeOK'
<1> USE DEF PPUTypeOK
<1> DEFINE half == internal_registers.write_toggle
<1>0. /\ TempAddress \in Address /\ VRAMAddress \in Address
      /\ half \in {0, 1} /\ 1 - half \in {0, 1}
      /\ ppu_data_buffer' = ppu_data_buffer /\ data' = data
  BY DEF TempAddress, VRAMAddress, InternalRegisters, BusWriteMappedRegister, Unwritten
<1>1. CASE WritePPUCONTROL(value)
  <2>1. WithNameTable(TempAddress, value) \in Address
    BY <1>0, AddressFields
  <2>2. internal_registers' \in InternalRegisters
    BY <1>1, <2>1 DEF WritePPUCONTROL, InternalRegisters
  <2>3. registers' \in Registers
    BY <1>1 DEF WritePPUCONTROL, Registers
  <2> QED BY <1>0, <1>1, <2>2, <2>3 DEF WritePPUCONTROL
<1>2. CASE WritePPUMASK(value)
  <2>1. RenderingFlags(value) \in Byte
    BY MaskFields
  <2>2. WithRenderingFlags(value, 0) \in Byte
    BY MaskFields DEF Byte
  <2>3. registers' \in Registers
    BY <1>2, <2>2 DEF WritePPUMASK, Registers
  <2>4. toggle' \in Toggle
    <3>1. \/ toggle' = toggle
          \/ toggle' = [scheduled |-> TRUE, cycles_to_wait |-> 4,
                         new_rendering_flags |-> RenderingFlags(value)]
      BY <1>2 DEF WritePPUMASK
    <3>2. CASE toggle' = toggle
      BY <3>2
    <3> DEFINE flags == RenderingFlags(value)
    <3>3. flags \in Byte => [scheduled |-> TRUE, cycles_to_wait |-> 4,
                             new_rendering_flags |-> flags] \in Toggle
      <4> HIDE DEF flags
      <4> QED BY DEF Toggle
    <3> QED BY <2>1, <3>1, <3>2, <3>3
  <2> QED BY <1>0, <1>2, <2>3, <2>4 DEF WritePPUMASK
<1>3. ASSUME NEW register \in {"oam_address", "oam_data"}, WriteOAM(register, value)
      PROVE  PPUTypeOK'
  <2>1. registers' \in Registers
    <3>1. CASE register = "oam_address"
      BY <1>3, <3>1 DEF WriteOAM, Registers
    <3>2. CASE register = "oam_data"
      BY <1>3, <3>2 DEF WriteOAM, Registers
    <3> QED BY <3>1, <3>2
  <2> QED BY <1>0, <1>3, <2>1 DEF WriteOAM
<1>4. CASE WritePPUSCROLL(value)
  <2>1. registers' \in Registers
    BY <1>0, <1>4 DEF WritePPUSCROLL, Registers
  <2>2. internal_registers' \in InternalRegisters
    <3>1. CASE half = 1
      <4>1. WithFineY(WithCoarseY(TempAddress, value), value) \in Address
        BY <1>0, AddressFields
      <4> QED BY <1>0, <1>4, <3>1, <4>1
           DEF WritePPUSCROLL, FlipToggle, TempAddress, InternalRegisters
    <3>2. CASE half = 0
      <4>1. WithCoarseX(TempAddress, value) \in Address
        BY <1>0, AddressFields
      <4>2. value % 8 \in 0 .. 7
        BY DEF Byte
      <4> DEFINE m == [internal_registers EXCEPT
                          !.temp_vram_address = WithCoarseX(TempAddress, value),
                          !.fine_x_scroll = value % 8]
      <4>3. internal_registers' = FlipToggle(m)
        BY <1>4, <3>2 DEF WritePPUSCROLL, TempAddress
      <4>4. m \in InternalRegisters
        BY <4>1, <4>2, ScrollXType
      <4> HIDE DEF m
      <4> QED BY <4>3, <4>4, FlipType
    <3> QED BY <1>0, <3>1, <3>2
  <2> QED BY <1>0, <1>4, <2>1, <2>2 DEF WritePPUSCROLL
<1>5. CASE WritePPUADDR(value)
  <2>1. registers' \in Registers
    BY <1>0, <1>5 DEF WritePPUADDR, Registers
  <2>2. internal_registers' \in InternalRegisters
    <3>1. /\ WithLowAddress(TempAddress, value) \in Address
          /\ WithHighAddress(TempAddress, value) \in Address
      BY <1>0, AddressFields
    <3> QED BY <1>0, <1>5, <3>1 DEF WritePPUADDR, FlipToggle, InternalRegisters
  <2> QED BY <1>0, <1>5, <2>1, <2>2 DEF WritePPUADDR
<1>6. CASE WritePPUDATA(value)
  <2>1. internal_registers' \in InternalRegisters
    BY <1>6, IncrementType DEF WritePPUDATA
  <2>2. VRAMAddress % 16384 \in Nat /\ (VRAMAddress % 16384) % 32 \in 0 .. 31
    BY <1>0 DEF Address
  <2>3. palette_ram' \in [0 .. 31 -> Byte]
    BY <1>6, <2>2 DEF WritePPUDATA
  <2>4. \A a \in DOMAIN vram' : a \in Nat /\ a < VRAMSize /\ vram'[a] \in Byte
    <3>1. CASE vram' = vram
      BY <3>1
    <3>2. CASE /\ VRAMAddress % 16384 < VRAMSize
               /\ vram' = Put(vram, VRAMAddress % 16384, value)
      BY <2>2, <3>2 DEF Put
    <3> QED BY <1>6, <3>1, <3>2 DEF WritePPUDATA
  <2> QED BY <1>0, <1>6, <2>1, <2>3, <2>4 DEF WritePPUDATA
<1>7. CASE WriteInvalidRegister
  BY <1>0, <1>7 DEF WriteInvalidRegister
<1> QED BY <1>1, <1>2, <1>3, <1>4, <1>5, <1>6, <1>7 DEF BusWriteMappedRegister

\* Whatever the uninitialised members hold.
LEMMA InitType == PPUInit => PPUTypeOK
<1> SUFFICES ASSUME PPUInit PROVE PPUTypeOK
  OBVIOUS
<1>1. PICK m \in PowerOn :
         /\ registers = m.registers
         /\ internal_registers = m.internal_registers
         /\ palette_ram = m.palette_ram
  BY DEF PPUInit
<1>2. /\ registers \in Registers /\ internal_registers \in InternalRegisters
      /\ palette_ram \in [0 .. 31 -> Byte]
  BY <1>1, PPUConstantsAssumption
<1>3. NoToggle \in Toggle /\ 0 \in Byte
  BY DEF NoToggle, Toggle, Byte
<1> QED BY <1>2, <1>3 DEF PPUInit, PPUTypeOK

\* Every member keeps its width under any program, for every step of the history.
LEMMA TypeInvariance == PPUTypeOK /\ [PPUHNext]_ppuAllVars => PPUTypeOK'
<1> SUFFICES ASSUME PPUTypeOK, [PPUHNext]_ppuAllVars PROVE PPUTypeOK'
  OBVIOUS
<1>1. CASE Tick
  BY <1>1, StepType DEF Tick
<1>2. ASSUME NEW port \in Ports, ProgramRead(port) PROVE PPUTypeOK'
  BY <1>2, AccessesAssumption, ReadType DEF ProgramRead
<1>3. ASSUME NEW port \in Ports, NEW value \in Values, ProgramWrite(port, value)
      PROVE  PPUTypeOK'
  BY <1>3, AccessesAssumption, WriteType DEF ProgramWrite
<1>4. CASE UNCHANGED ppuAllVars
  BY <1>4 DEF ppuAllVars, ppuVars, PPUTypeOK
<1> QED BY <1>1, <1>2, <1>3, <1>4 DEF PPUHNext

\* Type correctness (PPUTypeOK): for any bytes at power-on and any accesses.
THEOREM TypeCorrect == PPUHSpec => []PPUTypeOK
<1>1. PPUHInit => PPUTypeOK
  BY InitType DEF PPUHInit
<1> QED BY <1>1, TypeInvariance, PTL DEF PPUHSpec

-----------------------------------------------------------------------------
(* The mask.                                                               *)

\* What a toggle in flight holds back, and what it will put in force.
MaskInv ==
    /\ last_mask \in Byte
    /\ RenderingFlags(toggle.new_rendering_flags) = toggle.new_rendering_flags
    /\ ~toggle.scheduled => toggle.new_rendering_flags = 0
    /\ toggle.scheduled =>
          /\ registers.ppu_mask = WithRenderingFlags(last_mask, 0)
          /\ ~cancelled => toggle.new_rendering_flags = RenderingFlags(last_mask)
    /\ ~toggle.scheduled /\ ~cancelled => registers.ppu_mask = last_mask

\* Only a dot and a write to PPUMASK change the mask or the toggle.
LEMMA MaskFrame ==
    ASSUME PPUTypeOK, NEW port \in Port
    PROVE  /\ BusReadMappedRegister(port)
                => registers'.ppu_mask = registers.ppu_mask /\ toggle' = toggle
           /\ \A value \in Byte :
                 port # 1 /\ BusWriteMappedRegister(port, value)
                   => registers'.ppu_mask = registers.ppu_mask /\ toggle' = toggle
<1> USE DEF PPUTypeOK, Registers
<1>1. ASSUME BusReadMappedRegister(port)
      PROVE  registers'.ppu_mask = registers.ppu_mask /\ toggle' = toggle
  BY <1>1 DEF BusReadMappedRegister, ReadPPUSTATUS, ReadOAMDATA, ReadPPUDATA,
              ReadInvalidRegister
<1>2. ASSUME NEW value \in Byte, port # 1, BusWriteMappedRegister(port, value)
      PROVE  registers'.ppu_mask = registers.ppu_mask /\ toggle' = toggle
  <2>1. CASE WritePPUCONTROL(value)
    BY <2>1 DEF WritePPUCONTROL
  <2>2. CASE WriteOAM("oam_address", value) \/ WriteOAM("oam_data", value)
    BY <2>2 DEF WriteOAM
  <2>3. CASE WritePPUSCROLL(value)
    BY <2>3 DEF WritePPUSCROLL
  <2>4. CASE WritePPUADDR(value)
    BY <2>4 DEF WritePPUADDR
  <2>5. CASE WritePPUDATA(value)
    BY <2>5 DEF WritePPUDATA
  <2>6. CASE WriteInvalidRegister
    BY <2>6 DEF WriteInvalidRegister
  <2> QED BY <1>2, <2>1, <2>2, <2>3, <2>4, <2>5, <2>6 DEF BusWriteMappedRegister
<1> QED BY <1>1, <1>2

\* Overlapping writes to PPUMASK, with the toggle in flight at each count.
LEMMA MaskInvariance ==
    PPUTypeOK /\ MaskInv /\ [PPUHNext]_ppuAllVars => MaskInv'
<1> SUFFICES ASSUME PPUTypeOK, MaskInv, [PPUHNext]_ppuAllVars PROVE MaskInv'
  OBVIOUS
<1> USE DEF MaskInv
<1>0. /\ registers.ppu_mask \in Byte /\ toggle.scheduled \in BOOLEAN
      /\ toggle.cycles_to_wait \in 0 .. 4 /\ toggle.new_rendering_flags \in Byte
      /\ 0 \in Byte
  BY DEF PPUTypeOK, Registers, Toggle, Byte
<1>1. CASE Tick
  <2>0. last_mask' = last_mask /\ cancelled' = cancelled
    BY <1>1 DEF Tick
  <2>1. CASE toggle.scheduled /\ toggle.cycles_to_wait = 0
    <3>1. /\ registers'.ppu_mask
               = WithRenderingFlags(registers.ppu_mask, toggle.new_rendering_flags)
          /\ toggle' = NoToggle
      BY <1>1, <2>1 DEF Tick, PPUStep, UpdateRenderingToggle, PPUTypeOK, Registers
    <3>2. ~toggle'.scheduled /\ toggle'.new_rendering_flags = 0
      BY <3>1 DEF NoToggle
    <3>3. RenderingFlags(0) = 0
      BY DEF RenderingFlags, Masked
    <3>4. ~cancelled => registers'.ppu_mask = last_mask
      BY <2>1, <3>1, MaskFields
    <3> QED BY <2>0, <3>2, <3>3, <3>4
  <2>2. CASE toggle.scheduled /\ toggle.cycles_to_wait > 0
    <3>1. /\ registers' = registers /\ toggle'.scheduled = toggle.scheduled
          /\ toggle'.new_rendering_flags = toggle.new_rendering_flags
      <4>1. /\ registers' = registers
            /\ toggle' = [toggle EXCEPT !.cycles_to_wait = @ - 1]
        BY <1>1, <2>2 DEF Tick, PPUStep, UpdateRenderingToggle
      <4> QED BY <4>1 DEF PPUTypeOK, Toggle
    <3> QED BY <2>0, <3>1
  <2>3. CASE ~toggle.scheduled
    <3>1. registers' = registers /\ toggle' = toggle
      BY <1>1, <2>3 DEF Tick, PPUStep, UpdateRenderingToggle
    <3> QED BY <2>0, <3>1
  <2>4. toggle.cycles_to_wait = 0 \/ toggle.cycles_to_wait > 0
    BY <1>0
  <2> QED BY <2>1, <2>2, <2>3, <2>4
<1>2. ASSUME NEW port \in Ports, ProgramRead(port) PROVE MaskInv'
  <2>1. registers'.ppu_mask = registers.ppu_mask /\ toggle' = toggle
    BY <1>2, AccessesAssumption, MaskFrame DEF ProgramRead
  <2>2. last_mask' = last_mask /\ cancelled' = cancelled
    BY <1>2 DEF ProgramRead
  <2> QED BY <2>1, <2>2
<1>3. ASSUME NEW port \in Ports, NEW value \in Values, ProgramWrite(port, value)
      PROVE  MaskInv'
  <2>0. port \in Port /\ value \in Byte
    BY AccessesAssumption
  <2>1. CASE port # 1
    <3>1. registers'.ppu_mask = registers.ppu_mask /\ toggle' = toggle
      BY <1>3, <2>0, <2>1, MaskFrame DEF ProgramWrite
    <3>2. last_mask' = last_mask /\ cancelled' = cancelled
      BY <1>3, <2>1 DEF ProgramWrite
    <3> QED BY <3>1, <3>2
  <2>2. CASE port = 1
    <3>1. WritePPUMASK(value)
      BY <1>3, <2>2 DEF ProgramWrite, BusWriteMappedRegister
    <3>2. last_mask' = value
      BY <1>3, <2>2 DEF ProgramWrite
    <3>3. cancelled' <=> /\ toggle.new_rendering_flags # 0
                         /\ RenderingFlags(value) = 0
      <4>1. cancelled' = (/\ RenderingFlags(toggle.new_rendering_flags) # 0
                          /\ RenderingFlags(value) = 0)
        BY <1>3, <2>2, Zenon DEF ProgramWrite
      <4> QED BY <4>1
    <3>4. CASE IsRenderingEnabled # (RenderingFlags(value) # 0)
      <4>1. /\ toggle'.scheduled
            /\ toggle'.new_rendering_flags = RenderingFlags(value)
            /\ registers'.ppu_mask = WithRenderingFlags(value, 0)
        BY <3>1, <3>4 DEF WritePPUMASK, PPUTypeOK, Registers
      <4> QED BY <2>0, <3>2, <4>1, MaskFields
    <3>5. CASE IsRenderingEnabled = (RenderingFlags(value) # 0)
      <4>1. toggle' = toggle /\ registers'.ppu_mask = value
        BY <3>1, <3>5 DEF WritePPUMASK, PPUTypeOK, Registers
      <4>2. CASE ~toggle.scheduled
        BY <2>0, <3>2, <4>1, <4>2
      <4>3. CASE toggle.scheduled
        <5>1. ~IsRenderingEnabled
          BY <4>3, MaskFields DEF IsRenderingEnabled
        <5>2. RenderingFlags(value) = 0
          BY <3>5, <5>1
        <5>3. WithRenderingFlags(value, 0) = value
          BY <2>0, <5>2, MaskFields
        <5> QED BY <2>0, <3>2, <3>3, <4>1, <4>3, <5>2, <5>3
      <4> QED BY <4>2, <4>3
    <3> QED BY <3>4, <3>5 DEF IsRenderingEnabled
  <2> QED BY <2>1, <2>2
<1>4. CASE UNCHANGED ppuAllVars
  BY <1>4 DEF ppuAllVars, ppuVars, ppuHistory
<1> QED BY <1>1, <1>2, <1>3, <1>4 DEF PPUHNext

\* Once no toggle is in flight, PPUMASK holds the last value written to it, unless
\* that write tried to cancel an enabling toggle (SettledMask): for every sequence
\* of writes, with any number of dots between them.
THEOREM MaskSettles == PPUHSpec => []SettledMask
<1>1. PPUHInit => MaskInv
  <2> SUFFICES ASSUME PPUHInit PROVE MaskInv
    OBVIOUS
  <2>1. registers.ppu_mask \in Byte
    BY InitType DEF PPUHInit, PPUTypeOK, Registers
  <2>2. RenderingFlags(0) = 0
    BY DEF RenderingFlags, Masked
  <2> QED BY <2>1, <2>2 DEF PPUHInit, PPUInit, MaskInv, NoToggle
<1>2. MaskInv => SettledMask
  BY DEF MaskInv, SettledMask
<1> QED BY <1>1, <1>2, TypeCorrect, MaskInvariance, PTL DEF PPUHSpec

\* The toggle of any write is due within five Steps of the last one.
DelayInv ==
    /\ ticks \in Nat
    /\ toggle.scheduled => toggle.cycles_to_wait + ticks <= 4

LEMMA DelayInvariance ==
    PPUTypeOK /\ DelayInv /\ [PPUHNext]_ppuAllVars => DelayInv'
<1> SUFFICES ASSUME PPUTypeOK, DelayInv, [PPUHNext]_ppuAllVars PROVE DelayInv'
  OBVIOUS
<1> USE DEF DelayInv
<1>0. toggle.scheduled \in BOOLEAN /\ toggle.cycles_to_wait \in 0 .. 4
  BY DEF PPUTypeOK, Toggle
<1>1. CASE Tick
  <2>0. ticks' \in Nat /\ ticks' <= ticks + 1
    BY <1>1 DEF Tick, MaxTicks
  <2>1. CASE toggle.scheduled /\ toggle.cycles_to_wait = 0
    <3>1. toggle' = NoToggle
      BY <1>1, <2>1 DEF Tick, PPUStep, UpdateRenderingToggle
    <3> QED BY <2>0, <3>1 DEF NoToggle
  <2>2. CASE toggle.scheduled /\ toggle.cycles_to_wait > 0
    <3>1. toggle' = [toggle EXCEPT !.cycles_to_wait = @ - 1]
      BY <1>1, <2>2 DEF Tick, PPUStep, UpdateRenderingToggle
    <3>2. toggle'.cycles_to_wait = toggle.cycles_to_wait - 1
      BY <3>1 DEF PPUTypeOK, Toggle
    <3> QED BY <1>0, <2>0, <2>2, <3>2
  <2>3. CASE ~toggle.scheduled
    <3>1. toggle' = toggle
      BY <1>1, <2>3 DEF Tick, PPUStep, UpdateRenderingToggle
    <3> QED BY <2>0, <2>3, <3>1
  <2>4. toggle.cycles_to_wait = 0 \/ toggle.cycles_to_wait > 0
    BY <1>0
  <2> QED BY <2>1, <2>2, <2>3, <2>4
<1>2. ASSUME NEW port \in Ports, ProgramRead(port) PROVE DelayInv'
  <2>1. toggle' = toggle
    BY <1>2, AccessesAssumption, MaskFrame DEF ProgramRead
  <2>2. ticks' = ticks
    BY <1>2 DEF ProgramRead
  <2> QED BY <2>1, <2>2
<1>3. ASSUME NEW port \in Ports, NEW value \in Values, ProgramWrite(port, value)
      PROVE  DelayInv'
  <2>0. port \in Port /\ value \in Byte
    BY AccessesAssumption
  <2>1. CASE port # 1
    <3>1. toggle' = toggle
      BY <1>3, <2>0, <2>1, MaskFrame DEF ProgramWrite
    <3>2. ticks' = ticks
      BY <1>3, <2>1 DEF ProgramWrite
    <3> QED BY <3>1, <3>2
  <2>2. CASE port = 1
    <3>1. WritePPUMASK(value)
      BY <1>3, <2>2 DEF ProgramWrite, BusWriteMappedRegister
    <3>2. ticks' = 0
      BY <1>3, <2>2 DEF ProgramWrite
    <3>3. toggle' = toggle \/ toggle'.cycles_to_wait = 4
      BY <3>1 DEF WritePPUMASK
    <3> QED BY <1>0, <3>2, <3>3
  <2> QED BY <2>1, <2>2
<1>4. CASE UNCHANGED ppuAllVars
  BY <1>4 DEF ppuAllVars, ppuVars, ppuHistory
<1> QED BY <1>1, <1>2, <1>3, <1>4 DEF PPUHNext

\* Five Steps after a write to PPUMASK no toggle is in flight and the mask holds
\* what was written, whatever was scheduled before it (MaskInForce).
THEOREM MaskInForceHolds == PPUHSpec => []MaskInForce
<1>1. PPUHInit => DelayInv
  BY DEF PPUHInit, PPUInit, DelayInv, NoToggle
<1>2. DelayInv /\ PPUTypeOK /\ SettledMask => MaskInForce
  <2> SUFFICES ASSUME DelayInv, PPUTypeOK, SettledMask, ticks >= 5 PROVE ~toggle.scheduled
    BY DEF MaskInForce, SettledMask
  <2>1. toggle.cycles_to_wait \in 0 .. 4
    BY DEF PPUTypeOK, Toggle
  <2> QED BY <2>1 DEF DelayInv
<1> QED BY <1>1, <1>2, TypeCorrect, MaskSettles, DelayInvariance, PTL DEF PPUHSpec

-----------------------------------------------------------------------------
(* The VRAM address.                                                       *)

\* What an access may do to the VRAM address.
Moves ==
    \/ VRAMAddress' = VRAMAddress
    \/ /\ registers'.ppu_mask = registers.ppu_mask
       /\ IncrementVRAMAddress \/ ~IsRenderingEnabled

\* Every access leaves the address, increments it, or finds rendering off.
LEMMA AccessMoves ==
    ASSUME PPUTypeOK, NEW port \in Port
    PROVE  /\ BusReadMappedRegister(port) => Moves
           /\ \A value \in Byte : BusWriteMappedRegister(port, value) => Moves
<1> USE DEF PPUTypeOK
<1>1. ASSUME BusReadMappedRegister(port) PROVE Moves
  <2>1. CASE ReadPPUSTATUS
    BY <2>1 DEF ReadPPUSTATUS, Moves, VRAMAddress, InternalRegisters
  <2>2. CASE ReadOAMDATA
    BY <2>2 DEF ReadOAMDATA, Moves, VRAMAddress
  <2>3. CASE ReadPPUDATA
    BY <2>3 DEF ReadPPUDATA, Moves
  <2>4. CASE ReadInvalidRegister
    BY <2>4 DEF ReadInvalidRegister, Moves, VRAMAddress
  <2> QED BY <1>1, <2>1, <2>2, <2>3, <2>4 DEF BusReadMappedRegister
<1>2. ASSUME NEW value \in Byte, BusWriteMappedRegister(port, value) PROVE Moves
  <2>1. CASE WritePPUCONTROL(value)
    <3>1. registers'.ppu_mask = registers.ppu_mask
      BY <2>1 DEF WritePPUCONTROL, Registers
    <3>2. IsRenderingEnabled => VRAMAddress' = VRAMAddress
      BY <2>1 DEF WritePPUCONTROL, VRAMAddress, InternalRegisters
    <3> QED BY <3>1, <3>2 DEF Moves
  <2>2. CASE WritePPUMASK(value)
    BY <2>2 DEF WritePPUMASK, Moves, VRAMAddress
  <2>3. CASE WriteOAM("oam_address", value) \/ WriteOAM("oam_data", value)
    BY <2>3 DEF WriteOAM, Moves, VRAMAddress
  <2>4. CASE WritePPUSCROLL(value)
    BY <2>4 DEF WritePPUSCROLL, FlipToggle, Moves, VRAMAddress, InternalRegisters
  <2>5. CASE WritePPUADDR(value)
    <3>1. registers'.ppu_mask = registers.ppu_mask
      BY <2>5 DEF WritePPUADDR, Registers
    <3>2. IsRenderingEnabled => VRAMAddress' = VRAMAddress
      BY <2>5 DEF WritePPUADDR, FlipToggle, VRAMAddress, InternalRegisters
    <3> QED BY <3>1, <3>2 DEF Moves
  <2>6. CASE WritePPUDATA(value)
    BY <2>6 DEF WritePPUDATA, Moves
  <2>7. CASE WriteInvalidRegister
    BY <2>7 DEF WriteInvalidRegister, Moves, VRAMAddress
  <2> QED BY <1>2, <2>1, <2>2, <2>3, <2>4, <2>5, <2>6, <2>7
          DEF BusWriteMappedRegister
<1> QED BY <1>1, <1>2

\* The fields of an address are in range.
LEMMA PositionType ==
    ASSUME NEW a \in Address
    PROVE  /\ Column(a) \in Nat /\ Column(a) < 64
           /\ Row(a) \in Nat /\ Row(a) < 256
           /\ Page(a) \in {0, 1}
<1>1. PICK x \in 0 .. 31, y \in 0 .. 31, h \in {0, 1}, p \in {0, 1}, f \in 0 .. 7 :
         a = At(x, y, h, p, f)
  BY Fields
<1>2. HasFields(a, x, y, h, p, f)
  BY <1>1, FieldsOf
<1> QED BY <1>2 DEF HasFields

\* Each step is a step of ScrollSpec or leaves its variables alone.
LEMMA ScrollStep ==
    PPUTypeOK /\ PPUTypeOK' /\ [PPUHNext]_ppuAllVars => [Scroll!Next]_(Scroll!vars)
<1> SUFFICES ASSUME PPUTypeOK, PPUTypeOK', [PPUHNext]_ppuAllVars
             PROVE  [Scroll!Next]_(Scroll!vars)
  OBVIOUS
<1> DEFINE a == VRAMAddress
<1>0. a \in Address /\ a' \in Address
  BY DEF PPUTypeOK, InternalRegisters, VRAMAddress
<1>1. CASE a' = a
  <2>1. CASE IsRenderingEnabled' = IsRenderingEnabled
    BY <1>1, <2>1 DEF Scroll!vars
  <2>2. CASE IsRenderingEnabled' # IsRenderingEnabled
    <3>1. IsRenderingEnabled' = ~IsRenderingEnabled
      BY <2>2 DEF IsRenderingEnabled
    <3>2. Scroll!Toggle
      BY <1>1, <3>1 DEF Scroll!Toggle
    <3> QED BY <3>2 DEF Scroll!Next
  <2> QED BY <2>1, <2>2
<1>2. CASE /\ registers'.ppu_mask = registers.ppu_mask
           /\ IncrementVRAMAddress \/ ~IsRenderingEnabled
  <2>1. IsRenderingEnabled' = IsRenderingEnabled
    BY <1>2 DEF IsRenderingEnabled
  <2>2. CASE ~IsRenderingEnabled
    <3>1. Scroll!Position'
      BY <1>0, PositionType DEF Scroll!Position, Column, Row, Page
    <3> QED BY <2>1, <2>2, <3>1 DEF Scroll!Move, Scroll!Next
  <2>3. CASE IsRenderingEnabled
    <3> DEFINE b == VRAMIncrementCoarseX(a)
    <3>1. a' = VRAMIncrementFineY(b)
      BY <1>2, <2>3 DEF IncrementVRAMAddress, IsRenderingActive, VRAMAddress,
                        PPUTypeOK, InternalRegisters
    <3>2. /\ b \in Address
          /\ Column(b) = (Column(a) + 1) % 64
          /\ Row(b) = Row(a) /\ Page(b) = Page(a)
      BY <1>0, CoarseXAdvances
    <3>3. /\ Column(a') = Column(b)
          /\ Row(a') = IF Row(b) \in {239, 255} THEN 0 ELSE Row(b) + 1
          /\ Page(a') = IF Row(b) = 239 THEN 1 - Page(b) ELSE Page(b)
      <4> HIDE DEF b
      <4> QED BY <3>1, <3>2, FineYAdvances
    <3>4. /\ Column(a') = (Column(a) + 1) % 64
          /\ Row(a') = IF Row(a) \in {239, 255} THEN 0 ELSE Row(a) + 1
          /\ Page(a') = IF Row(a) = 239 THEN 1 - Page(a) ELSE Page(a)
      BY <3>2, <3>3
    <3>5. Scroll!Advance
      BY <2>1, <2>3, <3>4 DEF Scroll!Advance, Column, Row, Page
    <3> QED BY <3>5 DEF Scroll!Next
  <2> QED BY <2>2, <2>3
<1>3. a' = a \/ /\ registers'.ppu_mask = registers.ppu_mask
                /\ IncrementVRAMAddress \/ ~IsRenderingEnabled
  <2>1. CASE Tick
    BY <2>1 DEF Tick, PPUStep, VRAMAddress
  <2>2. ASSUME NEW port \in Ports, ProgramRead(port) PROVE Moves
    BY <2>2, AccessesAssumption, AccessMoves DEF ProgramRead
  <2>3. ASSUME NEW port \in Ports, NEW value \in Values, ProgramWrite(port, value)
        PROVE  Moves
    BY <2>3, AccessesAssumption, AccessMoves DEF ProgramWrite
  <2>4. CASE UNCHANGED ppuAllVars
    BY <2>4 DEF ppuAllVars, ppuVars, VRAMAddress
  <2> QED BY <2>1, <2>2, <2>3, <2>4 DEF PPUHNext, Moves
<1> QED BY <1>1, <1>2, <1>3

\* The increments and the writes of the PPU implement ScrollSpec, from every
\* address and for every sequence of accesses (ImplementsScroll).
THEOREM ScrollRefinement == PPUHSpec => ImplementsScroll
<1>1. PPUHInit => Scroll!Init
  <2> SUFFICES ASSUME PPUHInit PROVE Scroll!Init
    OBVIOUS
  <2>1. VRAMAddress \in Address
    BY InitType DEF PPUHInit, PPUTypeOK, InternalRegisters, VRAMAddress
  <2>2. Scroll!Position
    BY <2>1, PositionType DEF Scroll!Position, Column, Row, Page
  <2> QED BY <2>2 DEF Scroll!Init, IsRenderingEnabled
<1> QED BY <1>1, TypeCorrect, ScrollStep, PTL
        DEF PPUHSpec, ImplementsScroll, Scroll!Spec

-----------------------------------------------------------------------------
(* The halves of PPUSCROLL and PPUADDR.                                    *)

Write == [port : {5, 6}, value : Byte]

\* Write k of `log' is the last of its register and its parity.
LastOfParity(log, k) ==
    \A j \in k + 1 .. Len(log) : log[j].port = log[k].port => j % 2 # k % 2

\* What the registers hold after the writes in `log'.
Recorded(log, scroll, address) ==
    \A k \in 1 .. Len(log) :
        LastOfParity(log, k) =>
          (IF log[k].port = 5 THEN scroll ELSE address)[(k + 1) % 2] = log[k].value

HalvesInv ==
    /\ halves \in Seq(Write)
    /\ synced \in BOOLEAN
    /\ synced =>
         /\ internal_registers.write_toggle = Len(halves) % 2
         /\ Recorded(halves, registers.ppu_scroll, registers.ppu_address)

\* If the parities of n + 1 and k differ, so do those of n and k + 1.
LEMMA Opposite ==
    ASSUME NEW n \in Nat, NEW k \in Nat, (n + 1) % 2 # k % 2
    PROVE  (k + 1) % 2 # n % 2
OBVIOUS

\* One more write, to the half that the parity of the log selects.
LEMMA Alternates ==
    ASSUME NEW log \in Seq(Write), NEW scroll \in [{0, 1} -> Byte],
           NEW address \in [{0, 1} -> Byte], Recorded(log, scroll, address),
           NEW value \in Byte
    PROVE  /\ Recorded(Append(log, [port |-> 5, value |-> value]),
                       [scroll EXCEPT ![Len(log) % 2] = value], address)
           /\ Recorded(Append(log, [port |-> 6, value |-> value]),
                       scroll, [address EXCEPT ![Len(log) % 2] = value])
<1> DEFINE n == Len(log)
<1>0. n \in Nat /\ n % 2 \in {0, 1} /\ (n + 2) % 2 = n % 2
  OBVIOUS
<1>1. ASSUME NEW port \in {5, 6}, NEW k \in 1 .. n + 1,
             NEW log2, log2 = Append(log, [port |-> port, value |-> value]),
             LastOfParity(log2, k)
      PROVE  (IF log2[k].port = 5
              THEN IF port = 5 THEN [scroll EXCEPT ![n % 2] = value] ELSE scroll
              ELSE IF port = 5 THEN address ELSE [address EXCEPT ![n % 2] = value])
                [(k + 1) % 2] = log2[k].value
  <2> DEFINE w == [port |-> port, value |-> value]
  <2>0. /\ Len(log2) = n + 1 /\ log2[n + 1] = w
        /\ \A j \in 1 .. n : log2[j] = log[j]
    <3>1. w \in Write
      BY DEF Write
    <3>2. log2 = Append(log, w)
      BY <1>1
    <3> HIDE DEF w
    <3> QED BY <3>1, <3>2
  <2>1. CASE k = n + 1
    <3>1. (k + 1) % 2 = n % 2
      BY <1>0, <2>1
    <3>2. log2[k].port = port /\ log2[k].value = value
      BY <2>0, <2>1
    <3> QED BY <1>0, <3>1, <3>2
  <2>2. CASE k \in 1 .. n
    <3>1. log2[k] = log[k] /\ log[k] \in Write
      BY <2>0, <2>2
    <3>2. LastOfParity(log, k)
      <4> SUFFICES ASSUME NEW j \in k + 1 .. n, log[j].port = log[k].port
                   PROVE  j % 2 # k % 2
        BY DEF LastOfParity
      <4>1. j \in 1 .. n /\ j \in k + 1 .. Len(log2)
        BY <1>0, <2>0, <2>2
      <4>2. log2[j].port = log2[k].port
        BY <2>0, <3>1, <4>1
      <4> QED BY <1>1, <4>1, <4>2 DEF LastOfParity
    <3>3. (IF log[k].port = 5 THEN scroll ELSE address)[(k + 1) % 2] = log[k].value
      BY <2>2, <3>2 DEF Recorded
    <3>4. log[k].port = port => (k + 1) % 2 # n % 2
      <4> SUFFICES ASSUME log[k].port = port PROVE (k + 1) % 2 # n % 2
        OBVIOUS
      <4>1. n + 1 \in k + 1 .. Len(log2)
        BY <1>0, <2>0, <2>2
      <4>2. log2[n + 1].port = log2[k].port
        BY <2>0, <3>1
      <4>3. (n + 1) % 2 # k % 2
        BY <1>1, <4>1, <4>2 DEF LastOfParity
      <4>4. k \in Nat /\ n \in Nat
        BY <1>0, <2>2
      <4> QED BY <4>3, <4>4, Opposite
    <3>5. (k + 1) % 2 \in {0, 1}
      BY <2>2
    <3>6. log[k].port \in {5, 6}
      BY <3>1 DEF Write
    <3> QED BY <3>1, <3>3, <3>4, <3>5, <3>6
  <2> QED BY <1>0, <2>1, <2>2
<1>2. \A port \in {5, 6} : Len(Append(log, [port |-> port, value |-> value])) = n + 1
  OBVIOUS
<1> HIDE DEF n
<1>3. Recorded(Append(log, [port |-> 5, value |-> value]),
               [scroll EXCEPT ![n % 2] = value], address)
  <2> DEFINE log5 == Append(log, [port |-> 5, value |-> value])
  <2> SUFFICES ASSUME NEW k \in 1 .. n + 1, LastOfParity(log5, k)
               PROVE  (IF log5[k].port = 5 THEN [scroll EXCEPT ![n % 2] = value]
                       ELSE address)[(k + 1) % 2] = log5[k].value
    BY <1>2 DEF Recorded
  <2>1. 5 \in {5, 6}
    OBVIOUS
  <2> QED BY <1>1, <2>1
<1>4. Recorded(Append(log, [port |-> 6, value |-> value]),
               scroll, [address EXCEPT ![n % 2] = value])
  <2> DEFINE log6 == Append(log, [port |-> 6, value |-> value])
  <2> SUFFICES ASSUME NEW k \in 1 .. n + 1, LastOfParity(log6, k)
               PROVE  (IF log6[k].port = 5 THEN scroll
                       ELSE [address EXCEPT ![n % 2] = value])[(k + 1) % 2] = log6[k].value
    BY <1>2 DEF Recorded
  <2>1. 6 \in {5, 6} /\ 6 # 5
    OBVIOUS
  <2> QED BY <1>1, <2>1
<1> QED BY <1>3, <1>4 DEF n

\* Only the reads of PPUSTATUS and the writes to the two registers touch the
\* write toggle and the halves.
LEMMA HalvesFrame ==
    ASSUME PPUTypeOK, NEW port \in Port
    PROVE  /\ port # 2 /\ BusReadMappedRegister(port) =>
                /\ internal_registers'.write_toggle = internal_registers.write_toggle
                /\ registers'.ppu_scroll = registers.ppu_scroll
                /\ registers'.ppu_address = registers.ppu_address
           /\ \A value \in Byte :
                port \notin {5, 6} /\ BusWriteMappedRegister(port, value) =>
                  /\ internal_registers'.write_toggle = internal_registers.write_toggle
                  /\ registers'.ppu_scroll = registers.ppu_scroll
                  /\ registers'.ppu_address = registers.ppu_address
<1> DEFINE Same ==
       /\ internal_registers'.write_toggle = internal_registers.write_toggle
       /\ registers'.ppu_scroll = registers.ppu_scroll
       /\ registers'.ppu_address = registers.ppu_address
<1> USE DEF PPUTypeOK
<1>0. IncrementVRAMAddress
         => internal_registers'.write_toggle = internal_registers.write_toggle
  BY DEF IncrementVRAMAddress, InternalRegisters
<1>1. ASSUME port # 2, BusReadMappedRegister(port) PROVE Same
  <2>1. CASE ReadOAMDATA
    BY <2>1 DEF ReadOAMDATA
  <2>2. CASE ReadPPUDATA
    BY <1>0, <2>2 DEF ReadPPUDATA
  <2>3. CASE ReadInvalidRegister
    BY <2>3 DEF ReadInvalidRegister
  <2> QED BY <1>1, <2>1, <2>2, <2>3 DEF BusReadMappedRegister
<1>2. ASSUME NEW value \in Byte, port \notin {5, 6}, BusWriteMappedRegister(port, value)
      PROVE  Same
  <2>1. CASE WritePPUCONTROL(value)
    BY <2>1 DEF WritePPUCONTROL, Registers, InternalRegisters
  <2>2. CASE WritePPUMASK(value)
    BY <2>2 DEF WritePPUMASK, Registers
  <2>3. CASE WriteOAM("oam_address", value) \/ WriteOAM("oam_data", value)
    BY <2>3 DEF WriteOAM, Registers
  <2>4. CASE WritePPUDATA(value)
    BY <1>0, <2>4 DEF WritePPUDATA
  <2>5. CASE WriteInvalidRegister
    BY <2>5 DEF WriteInvalidRegister
  <2> QED BY <1>2, <2>1, <2>2, <2>3, <2>4, <2>5 DEF BusWriteMappedRegister
<1> QED BY <1>1, <1>2

\* What a write to one of the two registers does to them.
LEMMA HalfWritten ==
    ASSUME PPUTypeOK, NEW value \in Byte
    PROVE  LET half == internal_registers.write_toggle
           IN  /\ WritePPUSCROLL(value) =>
                    /\ internal_registers'.write_toggle = 1 - half
                    /\ registers'.ppu_scroll = [registers.ppu_scroll EXCEPT ![half] = value]
                    /\ registers'.ppu_address = registers.ppu_address
               /\ WritePPUADDR(value) =>
                    /\ internal_registers'.write_toggle = 1 - half
                    /\ registers'.ppu_scroll = registers.ppu_scroll
                    /\ registers'.ppu_address = [registers.ppu_address EXCEPT ![half] = value]
<1> USE DEF PPUTypeOK
<1> DEFINE half == internal_registers.write_toggle
<1>1. ASSUME WritePPUSCROLL(value)
      PROVE  /\ internal_registers'.write_toggle = 1 - half
             /\ registers'.ppu_scroll = [registers.ppu_scroll EXCEPT ![half] = value]
             /\ registers'.ppu_address = registers.ppu_address
  <2>1. registers' = [registers EXCEPT !.ppu_scroll[half] = value]
    BY <1>1 DEF WritePPUSCROLL
  <2>2. internal_registers'.write_toggle = 1 - half
    BY <1>1 DEF WritePPUSCROLL, FlipToggle, InternalRegisters
  <2> QED BY <2>1, <2>2 DEF Registers
<1>2. ASSUME WritePPUADDR(value)
      PROVE  /\ internal_registers'.write_toggle = 1 - half
             /\ registers'.ppu_scroll = registers.ppu_scroll
             /\ registers'.ppu_address = [registers.ppu_address EXCEPT ![half] = value]
  <2>1. registers' = [registers EXCEPT !.ppu_address[half] = value]
    BY <1>2 DEF WritePPUADDR
  <2>2. internal_registers'.write_toggle = 1 - half
    BY <1>2 DEF WritePPUADDR, FlipToggle, InternalRegisters
  <2> QED BY <2>1, <2>2 DEF Registers
<1> QED BY <1>1, <1>2

\* Every access keeps the parity and the recorded halves.
LEMMA HalvesInvariance ==
    PPUTypeOK /\ HalvesInv /\ [PPUHNext]_ppuAllVars => HalvesInv'
<1> SUFFICES ASSUME PPUTypeOK, HalvesInv, [PPUHNext]_ppuAllVars PROVE HalvesInv'
  OBVIOUS
<1> USE DEF HalvesInv
<1>1. CASE Tick
  <2>1. UNCHANGED <<synced, halves, internal_registers>>
    BY <1>1 DEF Tick, PPUStep
  <2>2. /\ registers'.ppu_scroll = registers.ppu_scroll
        /\ registers'.ppu_address = registers.ppu_address
    BY <1>1 DEF Tick, PPUStep, UpdateRenderingToggle, PPUTypeOK, Registers
  <2> QED BY <2>1, <2>2
<1>2. ASSUME NEW port \in Ports, ProgramRead(port) PROVE HalvesInv'
  <2>1. CASE port = 2
    <3>1. ReadPPUSTATUS /\ halves' = <<>> /\ synced' \in BOOLEAN
      BY <1>2, <2>1 DEF ProgramRead, BusReadMappedRegister
    <3>2. internal_registers'.write_toggle = 0
      BY <3>1 DEF ReadPPUSTATUS, PPUTypeOK, InternalRegisters
    <3>3. Len(halves') = 0 /\ halves' \in Seq(Write)
      BY <3>1
    <3>4. Recorded(halves', registers'.ppu_scroll, registers'.ppu_address)
      BY <3>3 DEF Recorded
    <3> QED BY <3>1, <3>2, <3>3, <3>4
  <2>2. CASE port # 2
    <3>1. halves' = halves /\ synced' = synced
      BY <1>2, <2>2 DEF ProgramRead
    <3>2. /\ internal_registers'.write_toggle = internal_registers.write_toggle
          /\ registers'.ppu_scroll = registers.ppu_scroll
          /\ registers'.ppu_address = registers.ppu_address
      BY <1>2, <2>2, AccessesAssumption, HalvesFrame DEF ProgramRead
    <3> QED BY <3>1, <3>2
  <2> QED BY <2>1, <2>2
<1>3. ASSUME NEW port \in Ports, NEW value \in Values, ProgramWrite(port, value)
      PROVE  HalvesInv'
  <2>0. port \in Port /\ value \in Byte /\ synced' = synced
    BY <1>3, AccessesAssumption DEF ProgramWrite
  <2>1. CASE port \notin {5, 6}
    <3>1. halves' = halves
      BY <1>3, <2>1 DEF ProgramWrite
    <3>2. /\ internal_registers'.write_toggle = internal_registers.write_toggle
          /\ registers'.ppu_scroll = registers.ppu_scroll
          /\ registers'.ppu_address = registers.ppu_address
      BY <1>3, <2>0, <2>1, HalvesFrame DEF ProgramWrite
    <3> QED BY <2>0, <3>1, <3>2
  <2>2. CASE port \in {5, 6}
    <3> DEFINE w == [port |-> port, value |-> value]
    <3>1. halves' = Append(halves, w)
      BY <1>3, <2>2 DEF ProgramWrite
    <3>2. w \in Write
      BY <2>0, <2>2 DEF Write
    <3>3. halves' \in Seq(Write) /\ Len(halves') = Len(halves) + 1
      <4> HIDE DEF w
      <4> QED BY <3>1, <3>2
    <3>4. /\ registers.ppu_scroll \in [{0, 1} -> Byte]
          /\ registers.ppu_address \in [{0, 1} -> Byte]
      BY DEF PPUTypeOK, Registers
    <3>5. /\ port = 5 => WritePPUSCROLL(value)
          /\ port = 6 => WritePPUADDR(value)
      BY <1>3 DEF ProgramWrite, BusWriteMappedRegister
    <3>6. ASSUME synced
          PROVE  /\ internal_registers'.write_toggle = Len(halves') % 2
                 /\ Recorded(halves', registers'.ppu_scroll, registers'.ppu_address)
      <4>1. internal_registers.write_toggle = Len(halves) % 2
        BY <3>6
      <4>2. internal_registers'.write_toggle = 1 - internal_registers.write_toggle
        BY <2>0, <2>2, <3>5, HalfWritten
      <4>3. internal_registers'.write_toggle = Len(halves') % 2
        <5>1. Len(halves) \in Nat
          OBVIOUS
        <5> QED BY <3>3, <4>1, <4>2, <5>1
      <4>4. CASE port = 5
        <5>1. /\ registers'.ppu_scroll
                    = [registers.ppu_scroll EXCEPT ![Len(halves) % 2] = value]
              /\ registers'.ppu_address = registers.ppu_address
          BY <2>0, <3>5, <4>1, <4>4, HalfWritten
        <5>2. Recorded(Append(halves, [port |-> 5, value |-> value]),
                     [registers.ppu_scroll EXCEPT ![Len(halves) % 2] = value],
                     registers.ppu_address)
          BY <2>0, <3>4, <3>6, Alternates
        <5>3. halves' = Append(halves, [port |-> 5, value |-> value])
          BY <3>1, <4>4
        <5>4. Recorded(halves', registers'.ppu_scroll, registers'.ppu_address)
          BY <5>1, <5>2, <5>3
        <5> QED BY <4>3, <5>4
      <4>5. CASE port = 6
        <5>1. /\ registers'.ppu_address
                    = [registers.ppu_address EXCEPT ![Len(halves) % 2] = value]
              /\ registers'.ppu_scroll = registers.ppu_scroll
          BY <2>0, <3>5, <4>1, <4>5, HalfWritten
        <5>2. Recorded(Append(halves, [port |-> 6, value |-> value]),
                     registers.ppu_scroll,
                     [registers.ppu_address EXCEPT ![Len(halves) % 2] = value])
          BY <2>0, <3>4, <3>6, Alternates
        <5>3. halves' = Append(halves, [port |-> 6, value |-> value])
          BY <3>1, <4>5
        <5>4. Recorded(halves', registers'.ppu_scroll, registers'.ppu_address)
          BY <5>1, <5>2, <5>3
        <5> QED BY <4>3, <5>4
      <4> QED BY <2>2, <4>4, <4>5
    <3> QED BY <2>0, <3>3, <3>6
  <2> QED BY <2>1, <2>2
<1>4. CASE UNCHANGED ppuAllVars
  BY <1>4 DEF ppuAllVars, ppuVars, ppuHistory
<1> QED BY <1>1, <1>2, <1>3, <1>4 DEF PPUHNext

\* From a read of PPUSTATUS on, the writes to PPUSCROLL and PPUADDR alternate
\* between halves and both registers hold the last of each parity
\* (HalvesAlternate), for any number of writes and accesses in between.
THEOREM HalvesAlternateHolds == PPUHSpec => []HalvesAlternate
<1>1. PPUHInit => HalvesInv
  <2> SUFFICES ASSUME PPUHInit PROVE HalvesInv
    OBVIOUS
  <2>1. halves = <<>> /\ synced = FALSE
    BY DEF PPUHInit
  <2>2. <<>> \in Seq(Write)
    OBVIOUS
  <2> QED BY <2>1, <2>2 DEF HalvesInv
<1>2. HalvesInv => HalvesAlternate
  <2> SUFFICES ASSUME HalvesInv, synced,
                      NEW k \in 1 .. Len(halves),
                      \A j \in k + 1 .. Len(halves) :
                         halves[j].port = halves[k].port => j % 2 # k % 2
               PROVE  Halves(halves[k].port)[(k + 1) % 2] = halves[k].value
    BY DEF HalvesInv, HalvesAlternate
  <2>1. LastOfParity(halves, k)
    BY DEF LastOfParity
  <2> QED BY <2>1 DEF HalvesInv, Recorded, Halves
<1> QED BY <1>1, <1>2, TypeCorrect, HalvesInvariance, PTL DEF PPUHSpec

-----------------------------------------------------------------------------
(* The write toggle behind the bus: every instruction in RAM, whatever its *)
(* operand, with dots between any two of its accesses.                     *)

\* Targets at which the accesses of an instruction are accounted for, and
\* reads that leave the write toggle alone.
Calm(target) == ~Unmapped(target) /\ ~(InPPU(target) /\ target % 8 = 2)
Quiet(a)     == InRAM(a) \/ Unmapped(a) \/ (InPPU(a) /\ a % 8 # 2)

\* Targets at which a write flips the toggle.
Flips(target) == InPPU(target) /\ target % 8 \in {5, 6}

QuietRead(c, target) ==
    /\ c.kind = "read" /\ c.address \in Nat
    /\ Calm(target) => Quiet(c.address)

\* The writes that an instruction ends with.
Writes(name) == IF name \in Stores THEN 1 ELSE IF name \in Unary THEN 2 ELSE 0

\* Reads, and then the last n accesses write the target.
Shape(list, n, target) ==
    /\ list \in Seq([kind : {"read", "write"}, address : Nat])
    /\ \A k \in 1 .. Len(list) :
          IF k > Len(list) - n THEN list[k] = W(target)
          ELSE QuietRead(list[k], target)

\* An access of an instruction that is under way.
LEMMA ShapeTail ==
    ASSUME NEW n \in 0 .. 2, NEW target, NEW list, Shape(list, n, target),
           list # <<>>
    PROVE  /\ Len(list) \in Nat /\ Len(list) > 0
           /\ Len(list) > n => QuietRead(Head(list), target)
           /\ Len(list) <= n => Head(list) = W(target)
           /\ Shape(Tail(list), n, target)
           /\ Len(Tail(list)) = Len(list) - 1
<1> DEFINE A == [kind : {"read", "write"}, address : Nat]
<1>1. list \in Seq(A) /\ Len(list) \in Nat /\ Len(list) > 0
  BY DEF Shape
<1> HIDE DEF A
<1>2. Head(list) = list[1] /\ 1 \in 1 .. Len(list)
  BY <1>1
<1>3. /\ Tail(list) \in Seq(A) /\ Len(Tail(list)) = Len(list) - 1
      /\ \A k \in 1 .. Len(Tail(list)) : Tail(list)[k] = list[k + 1]
  BY <1>1
<1>4. /\ Len(list) > n => QuietRead(Head(list), target)
      /\ Len(list) <= n => Head(list) = W(target)
  BY <1>1, <1>2 DEF Shape
<1>5. ASSUME NEW k \in 1 .. Len(Tail(list))
      PROVE  IF k > Len(Tail(list)) - n THEN Tail(list)[k] = W(target)
             ELSE QuietRead(Tail(list)[k], target)
  <2>1. k + 1 \in 1 .. Len(list)
    BY <1>1, <1>3
  <2>2. k > Len(Tail(list)) - n <=> k + 1 > Len(list) - n
    BY <1>1, <1>3
  <2>3. Tail(list)[k] = list[k + 1]
    BY <1>3
  <2> QED
    BY <2>1, <2>2, <2>3 DEF Shape
<1>6. Shape(Tail(list), n, target)
  BY <1>3, <1>5 DEF Shape, A
<1> QED
  BY <1>1, <1>3, <1>4, <1>6

\* Reads before them.
LEMMA ShapeConcat ==
    ASSUME NEW n \in 0 .. 2, NEW target, NEW p, NEW q,
           Shape(p, 0, target), Shape(q, n, target), Len(q) >= n
    PROVE  Shape(p \o q, n, target) /\ Len(p \o q) = Len(p) + Len(q)
<1> DEFINE A == [kind : {"read", "write"}, address : Nat]
<1>1. p \in Seq(A) /\ q \in Seq(A) /\ Len(p) \in Nat /\ Len(q) \in Nat
  BY DEF Shape
<1> HIDE DEF A
<1>2. /\ p \o q \in Seq(A) /\ Len(p \o q) = Len(p) + Len(q)
      /\ \A k \in 1 .. Len(p) + Len(q) :
            (p \o q)[k] = IF k <= Len(p) THEN p[k] ELSE q[k - Len(p)]
  BY <1>1, ConcatProperties
<1>3. ASSUME NEW k \in 1 .. Len(p \o q)
      PROVE  IF k > Len(p \o q) - n THEN (p \o q)[k] = W(target)
             ELSE QuietRead((p \o q)[k], target)
  <2>1. CASE k <= Len(p)
    <3>1. k \in 1 .. Len(p) /\ ~(k > Len(p) - 0) /\ (p \o q)[k] = p[k]
          /\ ~(k > Len(p \o q) - n)
      BY <1>1, <1>2, <2>1
    <3> QED
      BY <3>1 DEF Shape
  <2>2. CASE ~(k <= Len(p))
    <3> DEFINE j == k - Len(p)
    <3>1. j \in 1 .. Len(q) /\ (p \o q)[k] = q[j]
          /\ (k > Len(p \o q) - n <=> j > Len(q) - n)
      BY <1>1, <1>2, <2>2
    <3> HIDE DEF j
    <3> QED
      BY <3>1 DEF Shape
  <2> QED
    BY <2>1, <2>2
<1> QED
  BY <1>2, <1>3 DEF Shape, A

-----------------------------------------------------------------------------
(* What an instruction in RAM accesses.                                    *)

\* The machine at the opcode fetch.
Entered(s) ==
    /\ s.pc \in Nat /\ s.pc + 2 < 8192
    /\ \A a \in DOMAIN s.memory : s.memory[a] \in Byte
    /\ s.reg \in [{"a", "x", "y"} -> Byte]

LEMMA MemoryBytes ==
    ASSUME NEW s, Entered(s), NEW a
    PROVE  Cell(s.memory, a) \in Byte
BY DEF Entered, Cell, Byte

LEMMA CombinedWord ==
    ASSUME NEW h \in Byte, NEW l \in Byte
    PROVE  CombineToU16(h, l) \in Word
BY DEF CombineToU16, Byte, Word

LEMMA EnteredWords ==
    ASSUME NEW s, Entered(s), NEW mode
    PROVE  /\ Operand(s) \in Byte
           /\ Base(mode, s) \in Word
           /\ s.reg[IndexRegister(mode)] \in Byte
<1>1. Operand(s) \in Byte
  BY MemoryBytes DEF Operand
<1>2. \A a : WordAt(s.memory, a) \in Word /\ PointerAt(s.memory, a) \in Word
  BY MemoryBytes, CombinedWord DEF WordAt, PointerAt
<1>3. s.reg[IndexRegister(mode)] \in Byte
  BY DEF Entered, IndexRegister
<1> QED
  BY <1>1, <1>2, <1>3 DEF Base, OperandW

LEMMA EffectiveWord ==
    ASSUME NEW s, Entered(s), NEW mode
    PROVE  Effective(mode, s) \in Word
<1> DEFINE x == s.reg[IndexRegister(mode)]
<1>1. Operand(s) \in Byte /\ Base(mode, s) \in Word /\ x \in Byte
  BY EnteredWords
<1>2. \A a : WordAt(s.memory, a) \in Word /\ PointerAt(s.memory, a) \in Word
  BY MemoryBytes, CombinedWord DEF WordAt, PointerAt
<1>3. Add16(s.pc, 1) \in Word /\ Add16(Base(mode, s), x) \in Word
      /\ Operand(s) \in Word /\ (Operand(s) + x) % 256 \in Word
  <2> HIDE DEF x
  <2> QED BY <1>1 DEF Add16, Entered, Byte, Word
<1> QED
  BY <1>1, <1>2, <1>3 DEF Effective, OperandW

\* The unfixed address is the effective one, the one a page before it, or
\* far above the registers: the same register, if any.
LEMMA UnfixedPage ==
    ASSUME NEW b \in Word, NEW x \in Byte
    PROVE  LET e == Add16(b, x)
               u == CombineToU16(U16High(b), U16Low(e))
           IN  u \in Nat /\ e \in Nat /\ (u = e \/ u = e - 256 \/ u >= 16384)
<1> DEFINE h == U16High(b)
           l == U16Low(b)
<1>1. h \in 0 .. 255 /\ l \in 0 .. 255 /\ b = 256 * h + l
  BY DEF U16High, U16Low, Word
<1> DEFINE e == Add16(b, x)
           u == CombineToU16(h, U16Low(e))
<1> HIDE DEF h, l
<1>2. x \in 0 .. 255
  BY DEF Byte
<1>3. CASE l + x < 256
  <2>1. e = 256 * h + (l + x)
    BY <1>1, <1>2, <1>3 DEF Add16
  <2> HIDE DEF e
  <2>2. U16Low(e) = l + x
    BY <1>1, <1>2, <1>3, <2>1 DEF U16Low
  <2> QED
    BY <1>1, <1>2, <2>1, <2>2 DEF CombineToU16, e, h
<1>4. CASE ~(l + x < 256) /\ h < 255
  <2>1. e = 256 * (h + 1) + (l + x - 256)
    BY <1>1, <1>2, <1>4 DEF Add16
  <2> HIDE DEF e
  <2>2. U16Low(e) = l + x - 256
    BY <1>1, <1>2, <1>4, <2>1 DEF U16Low
  <2> QED
    BY <1>1, <1>2, <1>4, <2>1, <2>2 DEF CombineToU16, e, h
<1>5. CASE h = 255
  <2>1. e \in Nat
    BY <1>1, <1>2 DEF Add16
  <2> HIDE DEF e
  <2>2. U16Low(e) \in Nat
    BY <2>1 DEF U16Low
  <2> QED
    BY <1>5, <2>1, <2>2 DEF CombineToU16, e, h
<1> QED
  BY <1>1, <1>3, <1>4, <1>5

LEMMA UnfixedQuiet ==
    ASSUME NEW s, Entered(s), NEW mode \in Indexed, Calm(Effective(mode, s))
    PROVE  Unfixed(mode, s) \in Nat /\ Quiet(Unfixed(mode, s))
<1> DEFINE e == Effective(mode, s)
           u == Unfixed(mode, s)
<1>1. Base(mode, s) \in Word /\ s.reg[IndexRegister(mode)] \in Byte
  BY EnteredWords
<1>2. e = Add16(Base(mode, s), s.reg[IndexRegister(mode)])
  BY DEF Effective, Indexed
<1>3. u \in Nat /\ e \in Nat /\ (u = e \/ u = e - 256 \/ u >= 16384)
  BY <1>1, <1>2, UnfixedPage DEF Unfixed
<1> HIDE DEF e, u
<1>4. e < 16384 /\ ~(e >= 8192 /\ e % 8 = 2)
  BY <1>3 DEF e, Calm, Unmapped, InPPU
<1>5. u < 8192 \/ u >= 16384 \/ (u >= 8192 /\ u < 16384 /\ u % 8 # 2)
  BY <1>3, <1>4
<1> QED
  BY <1>3, <1>5 DEF u, Quiet, InRAM, InPPU, Unmapped

LEMMA ShapeNone == ASSUME NEW target PROVE Shape(<<>>, 0, target)
BY DEF Shape

LEMMA ShapeRead ==
    ASSUME NEW target, NEW a \in Nat, Calm(target) => Quiet(a)
    PROVE  Shape(<<R(a)>>, 0, target)
BY DEF Shape, QuietRead, R

LEMMA ShapeTwo ==
    ASSUME NEW target, NEW a \in Nat, NEW b \in Nat, Quiet(a), Quiet(b)
    PROVE  Shape(<<R(a), R(b)>>, 0, target)
BY DEF Shape, QuietRead, R

LEMMA ShapeThree ==
    ASSUME NEW target, NEW a \in Nat, NEW b \in Nat, NEW c \in Nat,
           Quiet(a), Quiet(b), Quiet(c)
    PROVE  Shape(<<R(a), R(b), R(c)>>, 0, target)
BY DEF Shape, QuietRead, R

LEMMA ShapeFour ==
    ASSUME NEW target, NEW a \in Nat, NEW b \in Nat, NEW c \in Nat, NEW d \in Nat,
           Quiet(a), Quiet(b), Quiet(c), Quiet(d)
    PROVE  Shape(<<R(a), R(b), R(c), R(d)>>, 0, target)
BY DEF Shape, QuietRead, R

LEMMA ShapeWrites ==
    ASSUME NEW target \in Nat
    PROVE  /\ Shape(<<W(target)>>, 1, target)
           /\ Shape(<<R(target), W(target), W(target)>>, 2, target)
BY DEF Shape, QuietRead, R, W, Calm, Quiet, InRAM, InPPU, Unmapped

LEMMA AddressShape ==
    ASSUME NEW s, Entered(s), NEW mode, NEW target
    PROVE  Shape(AddressCycles(mode, s), 0, target) /\ Len(AddressCycles(mode, s)) \in Nat
<1> DEFINE zp == Operand(s)
           f  == Add16(s.pc, 1)
           g  == Add16(s.pc, 2)
           p  == U16Low(zp + s.reg["x"])
           q  == Inc8(p)
           z  == Inc8(zp)
<1>1. zp \in Byte /\ s.reg["x"] \in Byte
  BY EnteredWords DEF Entered
<1>2. /\ f \in Nat /\ f < 8192 /\ g \in Nat /\ g < 8192
  BY DEF Entered, Add16
<1>3. /\ zp \in Nat /\ zp < 8192 /\ p \in Nat /\ p < 8192
      /\ q \in Nat /\ q < 8192 /\ z \in Nat /\ z < 8192
  BY <1>1 DEF Byte, U16Low, Inc8
<1>4. \/ AddressCycles(mode, s) = <<>>
      \/ AddressCycles(mode, s) = <<R(f)>>
      \/ AddressCycles(mode, s) = <<R(f), R(zp)>>
      \/ AddressCycles(mode, s) = <<R(f), R(zp), R(p), R(q)>>
      \/ AddressCycles(mode, s) = <<R(f), R(zp), R(z)>>
      \/ AddressCycles(mode, s) = <<R(f), R(g)>>
  BY DEF AddressCycles
<1> HIDE DEF zp, f, g, p, q, z
<1>5. Quiet(zp) /\ Quiet(f) /\ Quiet(g) /\ Quiet(p) /\ Quiet(q) /\ Quiet(z)
  BY <1>2, <1>3 DEF Quiet, InRAM
<1>6. Shape(AddressCycles(mode, s), 0, target)
  <2>1. Shape(<<>>, 0, target) /\ Shape(<<R(f)>>, 0, target)
    BY <1>2, <1>5, ShapeNone, ShapeRead
  <2>2. Shape(<<R(f), R(zp)>>, 0, target) /\ Shape(<<R(f), R(g)>>, 0, target)
    BY <1>2, <1>3, <1>5, ShapeTwo
  <2>3. Shape(<<R(f), R(zp), R(z)>>, 0, target)
    BY <1>2, <1>3, <1>5, ShapeThree
  <2>4. Shape(<<R(f), R(zp), R(p), R(q)>>, 0, target)
    BY <1>2, <1>3, <1>5, ShapeFour
  <2> QED
    BY <1>4, <2>1, <2>2, <2>3, <2>4
<1> QED
  BY <1>6 DEF Shape

LEMMA AccessShape ==
    ASSUME NEW s, Entered(s), NEW i, HasOperand(i)
    PROVE  /\ Shape(Accesses(i, s), Writes(i.name), Effective(i.mode, s))
           /\ Len(Accesses(i, s)) \in Nat /\ Len(Accesses(i, s)) > 0
           /\ Len(Accesses(i, s)) >= Writes(i.name)
<1> DEFINE a       == Effective(i.mode, s)
           n       == Writes(i.name)
           settles == IF i.name \in Stores \cup Unary THEN i.mode \in Indexed
                      ELSE Crosses(i.mode, s)
           first   == IF settles THEN <<R(Unfixed(i.mode, s))>> ELSE <<>>
           last    == CASE i.name \in Stores -> <<W(a)>>
                        [] i.name \in Unary  -> <<R(a), W(a), W(a)>>
                        [] OTHER             -> <<R(a)>>
<1>1. a \in Nat /\ n \in 0 .. 2
  BY EffectiveWord DEF Word, Writes
<1>2. Shape(last, n, a) /\ Len(last) >= n /\ Len(last) \in Nat /\ Len(last) > 0
  <2> HIDE DEF a
  <2>1. Calm(a) => Quiet(a)
    BY <1>1 DEF Calm, Quiet, InRAM, InPPU, Unmapped
  <2>2. CASE i.name \in Stores
    <3>0. i.name \notin Unary
      BY <2>2 DEF Stores, Unary
    <3>1. last = <<W(a)>> /\ n = 1
      BY <2>2, <3>0 DEF Writes
    <3>2. Shape(<<W(a)>>, 1, a) /\ Len(<<W(a)>>) = 1
      BY <1>1, ShapeWrites
    <3> HIDE DEF last, n
    <3> QED BY <3>1, <3>2
  <2>3. CASE i.name \in Unary
    <3>1. i.name \notin Stores
      BY <2>3 DEF Stores, Unary
    <3>2. last = <<R(a), W(a), W(a)>> /\ n = 2
      BY <2>3, <3>1 DEF Writes
    <3>3. Shape(<<R(a), W(a), W(a)>>, 2, a) /\ Len(<<R(a), W(a), W(a)>>) = 3
      BY <1>1, ShapeWrites
    <3> HIDE DEF last, n
    <3> QED BY <3>2, <3>3
  <2>4. CASE i.name \notin Stores /\ i.name \notin Unary
    <3>1. last = <<R(a)>> /\ n = 0
      BY <2>4 DEF Writes
    <3>2. Shape(<<R(a)>>, 0, a) /\ Len(<<R(a)>>) = 1
      BY <1>1, <2>1, ShapeRead
    <3> HIDE DEF last, n
    <3> QED BY <3>1, <3>2
  <2> QED
    BY <2>2, <2>3, <2>4
<1>3. Shape(first, 0, a) /\ Len(first) \in Nat
  <2>1. settles => i.mode \in Indexed
    BY DEF Crosses
  <2>2. i.mode \in Indexed => Unfixed(i.mode, s) \in Nat /\ (Calm(a) => Quiet(Unfixed(i.mode, s)))
    <3>1. i.mode \in Indexed => Unfixed(i.mode, s) \in Nat
      BY EffectiveWord, EnteredWords DEF Unfixed, CombineToU16, U16High, U16Low, Word
    <3> QED BY <3>1, UnfixedQuiet
  <2> HIDE DEF settles, a
  <2>3. CASE settles
    BY <2>1, <2>2, <2>3, ShapeRead
  <2>4. CASE ~settles
    BY <2>4, ShapeNone
  <2> QED
    BY <2>3, <2>4
<1>4. Accesses(i, s) = AddressCycles(i.mode, s) \o (first \o last)
  BY DEF Accesses, DataCycles
<1> HIDE DEF a, n, first, last
<1> DEFINE rest  == first \o last
           start == AddressCycles(i.mode, s)
<1>5. Shape(rest, n, a) /\ Len(rest) = Len(first) + Len(last)
  BY <1>1, <1>2, <1>3, ShapeConcat
<1>6. Len(rest) >= n
  BY <1>1, <1>2, <1>3, <1>5
<1>7. Shape(start, 0, a) /\ Len(start) \in Nat
  BY AddressShape
<1> HIDE DEF rest, start
<1>8. /\ Shape(Accesses(i, s), n, a)
      /\ Len(Accesses(i, s)) = Len(start) + Len(rest)
  <2>1. Accesses(i, s) = start \o rest
    BY <1>4 DEF rest, start
  <2>2. Shape(start \o rest, n, a) /\ Len(start \o rest) = Len(start) + Len(rest)
    BY <1>1, <1>5, <1>6, <1>7, ShapeConcat
  <2> QED
    BY <2>1, <2>2
<1>9. Len(Accesses(i, s)) \in Nat /\ Len(Accesses(i, s)) > 0 /\ Len(Accesses(i, s)) >= n
  BY <1>1, <1>2, <1>3, <1>5, <1>7, <1>8
<1> QED
  BY <1>8, <1>9 DEF n, a

-----------------------------------------------------------------------------
(* The bus.                                                                *)

RamType == \A a \in DOMAIN ram : a \in Nat /\ a < 2048 /\ ram[a] \in Byte

WriteToggle == internal_registers.write_toggle

LEMMA RamIndex == ASSUME NEW a \in Nat PROVE a % 2048 \in Nat /\ a % 2048 < 2048
OBVIOUS

LEMMA PutType ==
    ASSUME NEW mem, \A a \in DOMAIN mem : a \in Nat /\ a < 2048 /\ mem[a] \in Byte,
           NEW b \in Nat, b < 2048, NEW v \in Byte
    PROVE  \A a \in DOMAIN Put(mem, b, v) :
              a \in Nat /\ a < 2048 /\ Put(mem, b, v)[a] \in Byte
BY DEF Put

LEMMA RegisterPort == ASSUME NEW a \in Nat PROVE a % 8 \in Port
BY DEF Port

LEMMA BusReadEffect ==
    ASSUME PPUTypeOK, RamType, NEW a \in Nat, BusRead(a)
    PROVE  /\ PPUTypeOK' /\ RamType' /\ ram' = ram
           /\ Quiet(a) => WriteToggle' = WriteToggle
<1>1. ram' = ram /\ RamType'
  BY DEF BusRead, RamType
<1>2. CASE ReadRAM(a)
  <2>1. data' \in Byte
    BY <1>2 DEF ReadRAM, RamType, Cell, Byte
  <2> QED
    BY <1>1, <1>2, <2>1 DEF ReadRAM, PPUTypeOK, WriteToggle
<1>3. CASE InPPU(a) /\ BusReadMappedRegister(a % 8)
  <2>1. PPUTypeOK'
    BY <1>3, RegisterPort, ReadType
  <2>2. Quiet(a) => a % 8 # 2
    BY <1>3 DEF Quiet, InRAM, InPPU, Unmapped
  <2>3. Quiet(a) => WriteToggle' = WriteToggle
    BY <1>3, <2>2, RegisterPort, HalvesFrame DEF WriteToggle
  <2> QED
    BY <1>1, <2>1, <2>3
<1>4. CASE ReadUnmapped(a)
  <2>1. data' \in Byte
    BY <1>4 DEF ReadUnmapped, Byte
  <2> QED
    BY <1>1, <1>4, <2>1 DEF ReadUnmapped, PPUTypeOK, WriteToggle
<1> QED
  BY <1>2, <1>3, <1>4 DEF BusRead

LEMMA BusWriteEffect ==
    ASSUME PPUTypeOK, RamType, NEW a \in Nat, NEW v \in Byte, BusWrite(a, v)
    PROVE  /\ PPUTypeOK' /\ RamType'
           /\ WriteToggle' = IF Flips(a) THEN 1 - WriteToggle ELSE WriteToggle
<1>1. CASE InRAM(a) /\ ram' = Put(ram, a % 2048, v) /\ UNCHANGED <<ppuVars, bus_fault>>
  <2>1. RamType'
    <3>1. PICK b : b = a % 2048
      OBVIOUS
    <3>2. b \in Nat /\ b < 2048
      BY <3>1, RamIndex
    <3>3. \A x \in DOMAIN Put(ram, b, v) : x \in Nat /\ x < 2048 /\ Put(ram, b, v)[x] \in Byte
      BY <3>2, PutType DEF RamType
    <3>4. ram' = Put(ram, b, v)
      BY <1>1, <3>1
    <3> QED
      BY <3>3, <3>4 DEF RamType
  <2>2. ~Flips(a)
    BY <1>1 DEF Flips, InRAM, InPPU
  <2> QED
    BY <1>1, <2>1, <2>2 DEF ppuVars, PPUTypeOK, WriteToggle
<1>2. CASE InPPU(a) /\ BusWriteMappedRegister(a % 8, v) /\ UNCHANGED <<ram, bus_fault>>
  <2>1. PPUTypeOK' /\ RamType'
    BY <1>2, RegisterPort, WriteType DEF RamType
  <2>2. CASE a % 8 \in {5, 6}
    <3>1. WritePPUSCROLL(v) \/ WritePPUADDR(v)
      BY <1>2, <2>2 DEF BusWriteMappedRegister
    <3>2. WriteToggle' = 1 - WriteToggle
      BY <3>1, HalfWritten DEF WriteToggle
    <3> QED
      BY <1>2, <2>1, <2>2, <3>2 DEF Flips
  <2>3. CASE a % 8 \notin {5, 6}
    <3>1. WriteToggle' = WriteToggle
      BY <1>2, <2>3, RegisterPort, HalvesFrame DEF WriteToggle
    <3> QED
      BY <2>1, <2>3, <3>1 DEF Flips
  <2> QED
    BY <2>2, <2>3
<1>3. CASE Unmapped(a) /\ bus_fault' = "invalid_address" /\ UNCHANGED <<ppuVars, ram>>
  <2>1. ~Flips(a)
    BY <1>3 DEF Flips, Unmapped, InPPU
  <2> QED
    BY <1>3, <2>1 DEF ppuVars, PPUTypeOK, RamType, WriteToggle
<1> QED
  BY <1>1, <1>2, <1>3 DEF BusWrite

-----------------------------------------------------------------------------
(* The invariant: how many writes of the instruction have been made.       *)

Resetting ==
    /\ job = [kind |-> "reset", accesses |-> job.accesses]
    /\ Shape(job.accesses, 0, 0) /\ job.accesses # <<>>

Underway ==
    /\ job = [kind |-> "instruction", accesses |-> job.accesses,
              instruction |-> job.instruction, target |-> job.target, reg |-> job.reg]
    /\ job.target \in Word /\ job.reg \in [{"a", "x", "y"} -> Byte]
    /\ Shape(job.accesses, Writes(job.instruction.name), job.target)
    /\ job.accesses # <<>>
    /\ Calm(job.target) =>
         WriteToggle =
           IF Flips(job.target) /\ Len(job.accesses) = Writes(job.instruction.name) - 1
           THEN 1 - before ELSE before

SystemInv ==
    /\ PPUTypeOK /\ RamType
    /\ before \in {0, 1}
    /\ job = Idle \/ Resetting \/ Underway

LEMMA ToggleType == ASSUME PPUTypeOK PROVE WriteToggle \in {0, 1}
BY DEF PPUTypeOK, InternalRegisters, WriteToggle

LEMMA SystemStarts == SystemInit => SystemInv
<1> SUFFICES ASSUME SystemInit PROVE SystemInv
  OBVIOUS
<1>1. PPUTypeOK
  BY InitType DEF SystemInit, BusInit
<1>2. before \in {0, 1}
  BY <1>1, ToggleType DEF SystemInit, WriteToggle
<1>3. RamType /\ job = Idle
  BY SystemAssumption DEF SystemInit, RamType
<1> QED
  BY <1>1, <1>2, <1>3 DEF SystemInv

LEMMA ResetBegins == SystemInv /\ BeginReset => SystemInv'
<1> SUFFICES ASSUME SystemInv, BeginReset PROVE SystemInv'
  OBVIOUS
<1>1. PPUTypeOK' /\ RamType' /\ before' \in {0, 1}
  BY DEF SystemInv, BeginReset, busVars, ppuVars, PPUTypeOK, RamType
<1>2. job' = [kind |-> "reset", accesses |-> <<R(65532), R(65533)>>]
  BY DEF BeginReset, ResetJob
<1>3. Quiet(65532) /\ Quiet(65533)
  BY DEF Quiet, Unmapped
<1>4. Shape(<<R(65532), R(65533)>>, 0, 0) /\ <<R(65532), R(65533)>> # <<>>
  BY <1>3, ShapeTwo
<1>5. Resetting'
  BY <1>2, <1>4 DEF Resetting
<1> QED
  BY <1>1, <1>5 DEF SystemInv

LEMMA InstructionBegins == SystemInv /\ BeginInstruction => SystemInv'
<1> SUFFICES ASSUME SystemInv, BeginInstruction PROVE SystemInv'
  OBVIOUS
<1>0. PICK pc \in Entries, r \in Registers6502 :
        \E i, s :
           /\ s = [pc |-> pc, sp |-> 0, reg |-> r, status |-> {}, memory |-> MirroredRAM]
           /\ HasOperand(i) /\ BusRead(pc) /\ job' = InstructionJob(i, s)
           /\ before' = internal_registers.write_toggle
  BY DEF BeginInstruction
<1>1. PICK i, s :
        /\ s = [pc |-> pc, sp |-> 0, reg |-> r, status |-> {}, memory |-> MirroredRAM]
        /\ HasOperand(i) /\ BusRead(pc) /\ job' = InstructionJob(i, s)
        /\ before' = internal_registers.write_toggle
  BY <1>0
<1>2. pc \in Nat /\ pc + 2 < 8192 /\ r \in [{"a", "x", "y"} -> Byte]
  BY SystemAssumption
<1>3. Quiet(pc)
  BY <1>2 DEF Quiet, InRAM
<1>4. PPUTypeOK' /\ RamType' /\ WriteToggle' = WriteToggle
  BY <1>1, <1>2, <1>3, BusReadEffect DEF SystemInv
<1>5. before' \in {0, 1} /\ WriteToggle' = before'
  BY <1>1, <1>4, ToggleType DEF SystemInv, WriteToggle
<1>6. \A a \in DOMAIN MirroredRAM : MirroredRAM[a] \in Byte
  <2> SUFFICES ASSUME NEW a \in DOMAIN MirroredRAM PROVE MirroredRAM[a] \in Byte
    OBVIOUS
  <2>1. MirroredRAM[a] = ram[a % 2048]
    BY DEF MirroredRAM
  <2>2. a % 2048 \in DOMAIN ram
    <3>1. PICK b \in DOMAIN ram, k \in 0 .. 3 : a = b + 2048 * k
      BY DEF MirroredRAM
    <3>2. b \in Nat /\ b < 2048
      BY DEF SystemInv, RamType
    <3>3. a % 2048 = b
      BY <3>1, <3>2
    <3> QED
      BY <3>3
  <2> QED
    BY <2>1, <2>2 DEF SystemInv, RamType
<1>7. Entered(s)
  BY <1>1, <1>2, <1>6 DEF Entered
<1>8. /\ Shape(Accesses(i, s), Writes(i.name), Effective(i.mode, s))
      /\ Len(Accesses(i, s)) \in Nat /\ Len(Accesses(i, s)) > 0
      /\ Len(Accesses(i, s)) >= Writes(i.name)
      /\ Effective(i.mode, s) \in Word
  BY <1>1, <1>7, AccessShape, EffectiveWord
<1>9. /\ Accesses(i, s) # <<>> /\ Len(Accesses(i, s)) # Writes(i.name) - 1
      /\ s.reg = r
  BY <1>1, <1>8 DEF Writes
<1>10. job' = [kind |-> "instruction", accesses |-> Accesses(i, s), instruction |-> i,
               target |-> Effective(i.mode, s), reg |-> r]
  BY <1>1, <1>9 DEF InstructionJob
<1>11. Underway'
  <2>1. PICK list, e : list = Accesses(i, s) /\ e = Effective(i.mode, s)
    OBVIOUS
  <2>2. job' = [kind |-> "instruction", accesses |-> list, instruction |-> i,
                target |-> e, reg |-> r]
    BY <1>10, <2>1
  <2>3. /\ Shape(list, Writes(i.name), e) /\ list # <<>> /\ e \in Word
        /\ Len(list) # Writes(i.name) - 1
    BY <1>8, <1>9, <2>1
  <2>4. /\ job'.kind = "instruction" /\ job'.accesses = list /\ job'.instruction = i
        /\ job'.target = e /\ job'.reg = r
    BY <2>2
  <2>5. Calm(e) => WriteToggle' = IF Flips(e) /\ Len(list) = Writes(i.name) - 1
                                  THEN 1 - before' ELSE before'
    BY <1>5, <2>3
  <2> QED
    BY <1>2, <2>2, <2>3, <2>4, <2>5 DEF Underway
<1> QED
  BY <1>4, <1>5, <1>11 DEF SystemInv

LEMMA DotKeeps == SystemInv /\ Dot => SystemInv'
<1> SUFFICES ASSUME SystemInv, Dot PROVE SystemInv'
  OBVIOUS
<1>1. PPUTypeOK'
  BY StepType DEF SystemInv, Dot
<1>2. /\ internal_registers' = internal_registers /\ ram' = ram
      /\ job' = job /\ before' = before
  BY DEF Dot, PPUStep
<1> QED
  BY <1>1, <1>2 DEF SystemInv, RamType, Resetting, Underway, WriteToggle

\* What a read-modify-write or a store writes.
LEMMA OutputType ==
    ASSUME SystemInv, Underway, Len(job.accesses) <= Writes(job.instruction.name)
    PROVE  Output \in Byte
<1> DEFINE name == job.instruction.name
<1>1. Len(job.accesses) \in Nat /\ Len(job.accesses) > 0
  BY DEF Underway, Shape
<1>2. data \in Byte
  BY DEF SystemInv, PPUTypeOK
<1>3. CASE name \in Stores
  <2>1. Subject(name) \in {"a", "x", "y"}
    BY DEF Subject
  <2>2. job.reg[Subject(name)] \in Byte
    BY <2>1 DEF Underway
  <2> QED
    BY <1>3, <2>2 DEF Output
<1>4. CASE name \notin Stores
  <2>1. name \in Unary
    BY <1>1, <1>4 DEF Writes
  <2>2. Function(name) \in Operation
    BY <2>1 DEF Function, Unary, Operation
  <2>3. 0 \in Byte /\ {} \in Status
    BY DEF Byte, Status
  <2>4. ExecuteOperation(Function(name), data, 0, {}).reg \in Byte
    BY <1>2, <2>2, <2>3, OperationType DEF IsOutcome
  <2> QED
    BY <1>2, <1>4, <2>4 DEF Output
<1> QED
  BY <1>3, <1>4

\* Only the list of accesses changes.
LEMMA ResetWith ==
    ASSUME NEW list, NEW rest
    PROVE  [[kind |-> "reset", accesses |-> list] EXCEPT !.accesses = rest]
             = [kind |-> "reset", accesses |-> rest]
<1>1. PICK j : j = [kind |-> "reset", accesses |-> list]
  OBVIOUS
<1>2. j \in [kind : {"reset"}, accesses : {list}]
  BY <1>1
<1>3. [j EXCEPT !.accesses = rest] \in [kind : {"reset"}, accesses : {rest}]
  BY <1>2
<1>4. [j EXCEPT !.accesses = rest] = [kind |-> "reset", accesses |-> rest]
  BY <1>3
<1> QED
  BY <1>1, <1>4

LEMMA InstructionWith ==
    ASSUME NEW list, NEW rest, NEW i, NEW t, NEW r
    PROVE  [[kind |-> "instruction", accesses |-> list, instruction |-> i,
             target |-> t, reg |-> r] EXCEPT !.accesses = rest]
             = [kind |-> "instruction", accesses |-> rest, instruction |-> i,
                target |-> t, reg |-> r]
<1>1. PICK j : j = [kind |-> "instruction", accesses |-> list, instruction |-> i,
                    target |-> t, reg |-> r]
  OBVIOUS
<1>2. j \in [kind : {"instruction"}, accesses : {list}, instruction : {i},
             target : {t}, reg : {r}]
  BY <1>1
<1>3. [j EXCEPT !.accesses = rest]
        \in [kind : {"instruction"}, accesses : {rest}, instruction : {i},
             target : {t}, reg : {r}]
  BY <1>2
<1>4. [j EXCEPT !.accesses = rest]
        = [kind |-> "instruction", accesses |-> rest, instruction |-> i,
           target |-> t, reg |-> r]
  BY <1>3
<1> QED
  BY <1>1, <1>4

\* How the accesses left are counted against the writes.
LEMMA Countdown ==
    ASSUME NEW k \in Nat, NEW n \in 0 .. 2
    PROVE  /\ k > n => k # n - 1 /\ k # n
           /\ k = n => k # n - 1
           /\ k = n - 1 => k # n
           /\ k >= n => k # n - 1
           /\ k > 0 /\ k <= n => k = n \/ k = n - 1
           /\ k - 1 = n - 1 <=> k = n
OBVIOUS

LEMMA TwoFlips == ASSUME NEW b \in {0, 1} PROVE 1 - (1 - b) = b
OBVIOUS

LEMMA WritesRange == ASSUME NEW name PROVE Writes(name) \in 0 .. 2
BY DEF Writes

\* What an instruction has done to the toggle when it ends.
Accounted ==
    /\ Flips(job.target) /\ job.instruction.name \in Stores => WriteToggle' = 1 - before
    /\ Calm(job.target) /\ ~(Flips(job.target) /\ job.instruction.name \in Stores)
         => WriteToggle' = before

\* An access of an instruction.
LEMMA AccessCounts ==
    ASSUME SystemInv, Underway, Access
    PROVE  /\ PPUTypeOK' /\ RamType' /\ before' = before
           /\ IF job' = Idle THEN Accounted ELSE Underway'
<1>1. PICK list, n, target, c, t, b :
        /\ list = job.accesses /\ n = Writes(job.instruction.name) /\ target = job.target
        /\ c = Head(list) /\ t = WriteToggle /\ b = before
  OBVIOUS
<1>2. /\ n \in 0 .. 2 /\ Shape(list, n, target) /\ list # <<>> /\ target \in Nat
      /\ t \in {0, 1} /\ b \in {0, 1}
  BY <1>1, WritesRange, ToggleType DEF Underway, SystemInv, Word
<1>3. /\ Len(list) \in Nat /\ Len(list) > 0
      /\ Len(list) > n => QuietRead(c, target)
      /\ Len(list) <= n => c = W(target)
      /\ Shape(Tail(list), n, target)
      /\ Len(Tail(list)) = Len(list) - 1
  BY <1>1, <1>2, ShapeTail
<1>4. Calm(target) => t = IF Flips(target) /\ Len(list) = n - 1 THEN 1 - b ELSE b
  BY <1>1 DEF Underway
<1>5. /\ Perform(c) /\ before' = before
      /\ job' = IF Tail(list) = <<>> THEN Idle ELSE [job EXCEPT !.accesses = Tail(@)]
  BY <1>1 DEF Access
<1>6. Flips(target) => Calm(target)
  BY <1>2 DEF Flips, Calm, InPPU, Unmapped
<1>6a. /\ Len(list) > n => Len(list) # n - 1 /\ Len(list) # n
       /\ Len(list) = n => Len(list) # n - 1
       /\ Len(list) = n - 1 => Len(list) # n
       /\ Len(list) <= n => Len(list) = n \/ Len(list) = n - 1
       /\ Len(Tail(list)) = n - 1 <=> Len(list) = n
       /\ 1 - (1 - b) = b
       /\ ~(Len(list) > n /\ Len(list) <= n) /\ (Len(list) > n \/ Len(list) <= n)
  <2> DEFINE k == Len(list)
  <2>1. k \in Nat /\ k > 0 /\ Len(Tail(list)) = k - 1 /\ n \in 0 .. 2 /\ b \in {0, 1}
    BY <1>2, <1>3
  <2> HIDE DEF k
  <2>2. /\ k > n => k # n - 1 /\ k # n
        /\ k = n => k # n - 1
        /\ k = n - 1 => k # n
        /\ k > 0 /\ k <= n => k = n \/ k = n - 1
        /\ k - 1 = n - 1 <=> k = n
    BY <2>1, Countdown
  <2>3. 1 - (1 - b) = b
    BY <2>1, TwoFlips
  <2>4. ~(k > n /\ k <= n) /\ (k > n \/ k <= n)
    BY <2>1
  <2> QED
    BY <2>1, <2>2, <2>3, <2>4 DEF k
<1>7. /\ PPUTypeOK' /\ RamType'
      /\ Calm(target) => WriteToggle' = IF Flips(target) /\ Len(list) = n THEN 1 - b ELSE b
  <2>1. CASE Len(list) > n
    <3>1. c.kind = "read" /\ c.address \in Nat /\ (Calm(target) => Quiet(c.address))
      BY <1>3, <2>1 DEF QuietRead
    <3>2. BusRead(c.address)
      BY <1>5, <3>1 DEF Perform
    <3>3. PPUTypeOK' /\ RamType' /\ (Calm(target) => WriteToggle' = t)
      BY <1>1, <3>1, <3>2, BusReadEffect DEF SystemInv
    <3>4. Len(list) # n - 1 /\ Len(list) # n
      BY <1>6a, <2>1
    <3> QED
      BY <1>4, <3>3, <3>4
  <2>2. CASE Len(list) <= n
    <3>1. c.kind = "write" /\ c.address = target
      BY <1>3, <2>2 DEF W
    <3>2. BusWrite(target, Output)
      BY <1>5, <3>1 DEF Perform
    <3>3. Output \in Byte
      BY <1>1, <2>2, OutputType
    <3>4. /\ PPUTypeOK' /\ RamType'
          /\ WriteToggle' = IF Flips(target) THEN 1 - t ELSE t
      BY <1>1, <1>2, <3>2, <3>3, BusWriteEffect DEF SystemInv
    <3>5. CASE Len(list) = n
      <4> QED
        BY <1>4, <1>6a, <3>4, <3>5
    <3>6. CASE Len(list) = n - 1
      <4> QED
        BY <1>4, <1>6a, <3>4, <3>6
    <3>7. Len(list) = n \/ Len(list) = n - 1
      BY <1>6a, <2>2
    <3> QED
      BY <3>5, <3>6, <3>7
  <2> QED
    BY <1>6a, <2>1, <2>2
<1>8. CASE Tail(list) = <<>>
  <2>1. job' = Idle
    BY <1>5, <1>8
  <2>2. Len(list) = 1
    <3>1. Len(Tail(list)) = 0
      <4>1. PICK rest : rest = Tail(list)
        OBVIOUS
      <4>2. rest = <<>>
        BY <1>8, <4>1
      <4>3. Len(rest) = 0
        BY <4>2
      <4> QED
        BY <4>1, <4>3
    <3> DEFINE k == Len(list)
    <3>2. k \in Nat /\ k - 1 = 0
      BY <1>3, <3>1
    <3> HIDE DEF k
    <3>3. k = 1
      BY <3>2
    <3> QED
      BY <3>3 DEF k
  <2>3. job.instruction.name \in Stores => n = 1
    BY <1>1 DEF Writes
  <2>4. job.instruction.name \notin Stores => n # 1
    BY <1>1 DEF Writes
  <2>5. Accounted
    BY <1>1, <1>6, <1>7, <2>2, <2>3, <2>4 DEF Accounted
  <2> QED
    BY <1>5, <1>7, <2>1, <2>5
<1>9. CASE Tail(list) # <<>>
  <2>1. job' = [job EXCEPT !.accesses = Tail(list)]
    BY <1>1, <1>5, <1>9
  <2>2. job' = [kind |-> "instruction", accesses |-> Tail(list),
                instruction |-> job.instruction, target |-> target, reg |-> job.reg]
    <3>1. PICK i, r, rest : i = job.instruction /\ r = job.reg /\ rest = Tail(list)
      OBVIOUS
    <3>2. job = [kind |-> "instruction", accesses |-> list, instruction |-> i,
                 target |-> target, reg |-> r]
      BY <1>1, <3>1 DEF Underway
    <3>3. [[kind |-> "instruction", accesses |-> list, instruction |-> i,
            target |-> target, reg |-> r] EXCEPT !.accesses = rest]
            = [kind |-> "instruction", accesses |-> rest, instruction |-> i,
               target |-> target, reg |-> r]
      BY InstructionWith
    <3>4. job' = [job EXCEPT !.accesses = rest]
      BY <2>1, <3>1
    <3> QED
      BY <3>1, <3>2, <3>3, <3>4
  <2>3. Len(Tail(list)) = n - 1 <=> Len(list) = n
    BY <1>6a
  <2>4. job' # Idle
    BY <2>2 DEF Idle
  <2>5. Underway'
    BY <1>1, <1>3, <1>5, <1>7, <1>9, <2>2, <2>3 DEF Underway
  <2> QED
    BY <1>5, <1>7, <2>4, <2>5
<1> QED
  BY <1>8, <1>9

LEMMA ResetAccess ==
    ASSUME SystemInv, Resetting, Access
    PROVE  PPUTypeOK' /\ RamType' /\ before' = before /\ (job' = Idle \/ Resetting')
<1>1. PICK list, c : list = job.accesses /\ c = Head(list)
  OBVIOUS
<1>2. 0 \in 0 .. 2 /\ Shape(list, 0, 0) /\ list # <<>>
  BY <1>1 DEF Resetting
<1>3. /\ Len(list) \in Nat /\ Len(list) > 0
      /\ Len(list) > 0 => QuietRead(c, 0)
      /\ Shape(Tail(list), 0, 0)
  BY <1>1, <1>2, ShapeTail
<1>4. /\ Perform(c) /\ before' = before
      /\ job' = IF Tail(list) = <<>> THEN Idle ELSE [job EXCEPT !.accesses = Tail(@)]
  BY <1>1 DEF Access
<1>5. c.kind = "read" /\ c.address \in Nat
  BY <1>3 DEF QuietRead
<1>6. PPUTypeOK' /\ RamType'
  BY <1>4, <1>5, BusReadEffect DEF SystemInv, Perform
<1>7. CASE Tail(list) # <<>>
  <2>1. job' = [kind |-> "reset", accesses |-> Tail(list)]
    <3>1. job = [kind |-> "reset", accesses |-> list]
      BY <1>1 DEF Resetting
    <3>2. job' = [job EXCEPT !.accesses = Tail(list)]
      BY <1>1, <1>4, <1>7
    <3>3. [[kind |-> "reset", accesses |-> list] EXCEPT !.accesses = Tail(list)]
            = [kind |-> "reset", accesses |-> Tail(list)]
      BY ResetWith
    <3> QED
      BY <3>1, <3>2, <3>3
  <2>2. Resetting'
    BY <1>3, <1>7, <2>1 DEF Resetting
  <2> QED
    BY <1>4, <1>6, <2>2
<1> QED
  BY <1>4, <1>6, <1>7

LEMMA AccessKeeps == SystemInv /\ Access => SystemInv'
<1> SUFFICES ASSUME SystemInv, Access PROVE SystemInv'
  OBVIOUS
<1>1. CASE job = Idle
  BY <1>1 DEF Access, Idle
<1>2. CASE Resetting
  BY <1>2, ResetAccess DEF SystemInv
<1>3. CASE Underway
  BY <1>3, AccessCounts DEF SystemInv
<1> QED
  BY <1>1, <1>2, <1>3 DEF SystemInv

LEMMA SystemKept == SystemInv /\ [SystemNext]_systemVars => SystemInv'
<1> SUFFICES ASSUME SystemInv, [SystemNext]_systemVars PROVE SystemInv'
  OBVIOUS
<1>1. CASE UNCHANGED systemVars
  BY <1>1 DEF systemVars, busVars, ppuVars, SystemInv, PPUTypeOK, RamType, Resetting,
              Underway, WriteToggle
<1> QED
  BY <1>1, ResetBegins, InstructionBegins, AccessKeeps, DotKeeps DEF SystemNext

\* Of all the accesses of an instruction only the write of a store to its operand
\* flips the write toggle: for every program in RAM, every operand and index, and
\* dots in between (NESBus, the routines of cpu_isa.cpp).
THEOREM StoreIsOneHalfHolds == SystemSpec => StoreIsOneHalf
<1> DEFINE Half ==
      job.kind = "instruction" /\ job' = Idle /\ ~Unmapped(job.target) =>
         LET port  == job.target % 8
             name  == job.instruction.name
             after == internal_registers'.write_toggle
         IN  /\ InPPU(job.target) /\ port \in {5, 6} /\ name \in Stores
                  => after = 1 - before
             /\ ~(InPPU(job.target) /\ (port = 2 \/ (port \in {5, 6} /\ name \in Stores)))
                  => after = before
<1>1. SystemInit => SystemInv
  BY SystemStarts
<1>2. SystemInv /\ [SystemNext]_systemVars => SystemInv'
  BY SystemKept
<1>3. SystemInv /\ [SystemNext]_systemVars => [Half]_systemVars
  <2> SUFFICES ASSUME SystemInv, SystemNext, job.kind = "instruction", job' = Idle,
                      ~Unmapped(job.target)
               PROVE  Half
    OBVIOUS
  <2>1. Underway
    BY DEF SystemInv, Idle, Resetting
  <2>2. Access
    <3>1. job # Idle /\ job' # job
      BY DEF Idle
    <3> QED
      BY <3>1 DEF SystemNext, BeginReset, BeginInstruction, Dot
  <2>3. Accounted
    BY <2>1, <2>2, AccessCounts
  <2> QED
    BY <2>3 DEF Accounted, Flips, Calm, WriteToggle
<1> QED
  BY <1>1, <1>2, <1>3, PTL DEF SystemSpec, StoreIsOneHalf
=============================================================================
