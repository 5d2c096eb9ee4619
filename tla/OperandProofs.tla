--------------------------- MODULE OperandProofs ----------------------------
(***************************************************************************)
(* The words, addresses and effects IsaSpec speaks of, and the             *)
(* instructions with an operand in memory: cycle by cycle the routines of  *)
(* cpu_isa.cpp bring such an instruction one step of                       *)
(* CPUProgress!OperandProgress further, or complete it with the effect     *)
(* IsaSpec gives it, and the bus sees the access Addressing lists for the  *)
(* cycle.                                                                  *)
(*                                                                         *)
(* The addressing cycles are shared by loads, stores, operations and       *)
(* read-modify-writes, so they are proved once and combined with the       *)
(* cycles that access the operand.  In the lemmas s is the machine at the  *)
(* last boundary and i the instruction in progress.                        *)
(***************************************************************************)
EXTENDS CPUProgress, CPUProofs

-----------------------------------------------------------------------------
(* Bytes of addresses.                                                     *)

LEMMA CombineParts ==
    ASSUME NEW h \in Byte, NEW l \in Byte
    PROVE  U16High(CombineToU16(h, l)) = h /\ U16Low(CombineToU16(h, l)) = l
BY DEF CombineToU16, U16High, U16Low, Byte

LEMMA PartsCombine ==
    ASSUME NEW w \in Word
    PROVE  CombineToU16(U16High(w), U16Low(w)) = w
BY DEF CombineToU16, U16High, U16Low, Word

LEMMA ByteIsLow == ASSUME NEW b \in Byte PROVE U16Low(b) = b
BY DEF U16Low, Byte

LEMMA Add16Type == ASSUME NEW w \in Word, NEW n \in Nat PROVE Add16(w, n) \in Word
BY DEF Add16, Word

LEMMA NextBytes ==
    ASSUME NEW w \in Word
    PROVE  /\ Inc16(w) = Add16(w, 1)
           /\ Inc16(Add16(w, 1)) = Add16(w, 2)
           /\ Inc16(Add16(w, 2)) = Add16(w, 3)
           /\ Add16(Add16(w, 1), 1) = Add16(w, 2)
           /\ Add16(w, 0) = w
BY DEF Inc16, Add16, Word

LEMMA NextStackBytes ==
    ASSUME NEW b \in Byte
    PROVE  /\ Inc8(b) = (b + 1) % 256
           /\ Inc8((b + 1) % 256) = (b + 2) % 256
           /\ Inc8((b + 2) % 256) = (b + 3) % 256
BY DEF Inc8, Byte

\* Adding an index to an address, a byte at a time.
LEMMA IndexedSum ==
    ASSUME NEW b \in Word, NEW x \in Byte
    PROVE  /\ U16Low(Add16(b, x)) = U16Low(U16Low(b) + x)
           /\ U16High(Add16(b, x)) = IF U16Low(b) + x > 255
                                     THEN Inc8(U16High(b)) ELSE U16High(b)
           /\ Inc8(U16High(b)) # U16High(b)
<1> DEFINE h == U16High(b)
           l == U16Low(b)
<1>1. h \in Byte /\ l \in Byte /\ b = 256 * h + l
  BY U16HighType, U16LowType, WordIsNat, PartsCombine DEF CombineToU16
<1> HIDE DEF h, l
<1>2. CASE l + x > 255
  <2>1. CASE h < 255
    <3>1. Add16(b, x) = 256 * (h + 1) + (l + x - 256)
      BY <1>1, <1>2, <2>1 DEF Add16, Byte
    <3>2. U16High(Add16(b, x)) = h + 1 /\ U16Low(Add16(b, x)) = l + x - 256
      BY <1>1, <1>2, <2>1, <3>1 DEF U16High, U16Low, Byte
    <3>3. Inc8(h) = h + 1 /\ U16Low(l + x) = l + x - 256
      BY <1>1, <1>2, <2>1 DEF Inc8, U16Low, Byte
    <3> QED
      BY <1>1, <1>2, <3>2, <3>3 DEF h, l, Byte
  <2>2. CASE h = 255
    <3>1. Add16(b, x) = l + x - 256
      BY <1>1, <1>2, <2>2 DEF Add16, Byte
    <3>2. U16High(Add16(b, x)) = 0 /\ U16Low(Add16(b, x)) = l + x - 256
      BY <1>1, <1>2, <3>1 DEF U16High, U16Low, Byte
    <3>3. Inc8(h) = 0 /\ U16Low(l + x) = l + x - 256
      BY <1>1, <1>2, <2>2 DEF Inc8, U16Low, Byte
    <3> QED
      BY <1>1, <1>2, <2>2, <3>2, <3>3 DEF h, l
  <2> QED
    BY <1>1, <2>1, <2>2 DEF Byte
<1>3. CASE ~(l + x > 255)
  <2>1. Add16(b, x) = 256 * h + (l + x)
    BY <1>1, <1>3 DEF Add16, Byte
  <2>2. U16High(Add16(b, x)) = h /\ U16Low(Add16(b, x)) = l + x
    BY <1>1, <1>3, <2>1 DEF U16High, U16Low, Byte
  <2>3. U16Low(l + x) = l + x
    BY <1>1, <1>3 DEF U16Low, Byte
  <2>4. Inc8(h) # h
    BY <1>1 DEF Inc8, Byte
  <2> QED
    BY <1>1, <1>3, <2>2, <2>3, <2>4 DEF h, l
<1> QED
  BY <1>2, <1>3
-----------------------------------------------------------------------------
(* The machine at the last boundary.                                       *)

State(p, q, r, t, mem) ==
    [pc |-> p, sp |-> q, reg |-> r, status |-> t, memory |-> mem]

MachineState(s) ==
    /\ s = State(s.pc, s.sp, s.reg, s.status, s.memory)
    /\ s.pc \in Word /\ s.sp \in Byte /\ s.reg \in [Reg -> Byte]
    /\ s.status \in Status /\ IsMemory(s.memory)

LEMMA MachineIsState == ASSUME MachineType PROVE MachineState(Machine)
BY DEF MachineType, MachineState, Machine, State

\* How a machine changes in one or more of its components.
LEMMA StateChange ==
    ASSUME NEW p, NEW q, NEW r, NEW t, NEW mem, NEW s, s = State(p, q, r, t, mem), NEW x
    PROVE  /\ s.pc = p /\ s.sp = q /\ s.reg = r /\ s.status = t /\ s.memory = mem
           /\ [s EXCEPT !.pc = x] = State(x, q, r, t, mem)
           /\ [s EXCEPT !.sp = x] = State(p, x, r, t, mem)
           /\ [s EXCEPT !.reg = x] = State(p, q, x, t, mem)
           /\ [s EXCEPT !.status = x] = State(p, q, r, x, mem)
           /\ [s EXCEPT !.memory = x] = State(p, q, r, t, x)
BY DEF State

LEMMA CellType ==
    ASSUME NEW mem, IsMemory(mem), NEW a PROVE Cell(mem, a) \in Byte
BY DEF IsMemory, Cell, Byte

LEMMA PutType ==
    ASSUME NEW mem, IsMemory(mem), NEW a \in Word, NEW v \in Byte
    PROVE  IsMemory(Put(mem, a, v))
BY DEF IsMemory, Put

LEMMA ReadIsCell == ASSUME NEW a PROVE Read(a) = Cell(memory, a)
BY DEF Read, Cell

LEMMA WrittenIsPut == ASSUME NEW a, NEW v PROVE Written(a, v) = Put(memory, a, v)
BY DEF Written, Put

LEMMA PointerType ==
    ASSUME NEW mem, IsMemory(mem), NEW a PROVE PointerAt(mem, a) \in Word
BY CellType, CombineType DEF PointerAt

LEMMA OperandType ==
    ASSUME NEW s, MachineState(s)
    PROVE  Operand(s) \in Byte /\ OperandW(s) \in Word
BY CellType, CombineType DEF MachineState, Operand, OperandW, WordAt

LEMMA OperandBytes ==
    ASSUME NEW s, MachineState(s)
    PROVE  OperandW(s) = CombineToU16(Cell(s.memory, Add16(s.pc, 2)), Operand(s))
BY NextBytes DEF MachineState, OperandW, WordAt, Operand

LEMMA IndexType ==
    ASSUME NEW s, MachineState(s), NEW mode
    PROVE  s.reg[IndexRegister(mode)] \in Byte
BY DEF MachineState, IndexRegister, Reg

LEMMA BaseType ==
    ASSUME NEW s, MachineState(s), NEW mode PROVE Base(mode, s) \in Word
BY OperandType, PointerType DEF MachineState, Base

LEMMA LowByteIsWord == ASSUME NEW n \in Nat PROVE n % 256 \in Word
BY DEF Word

LEMMA EffectiveType ==
    ASSUME NEW s, MachineState(s), NEW mode PROVE Effective(mode, s) \in Word
<1> DEFINE index == s.reg[IndexRegister(mode)]
<1>1. Operand(s) \in Word /\ Operand(s) \in Nat /\ OperandW(s) \in Word /\ s.pc \in Word
  BY OperandType, ByteIsWord, WordIsNat DEF MachineState
<1>2. index \in Nat
  BY IndexType, ByteIsWord, WordIsNat
<1> HIDE DEF index
<1>3. Operand(s) + index \in Nat
  BY <1>1, <1>2
<1>4. (Operand(s) + index) % 256 \in Word
  BY <1>3, LowByteIsWord
<1>5. Add16(s.pc, 1) \in Word /\ Add16(Base(mode, s), index) \in Word
  BY <1>1, <1>2, BaseType, Add16Type
<1>6. PointerAt(s.memory, (Operand(s) + index) % 256) \in Word
  BY PointerType DEF MachineState
<1> QED
  BY <1>1, <1>4, <1>5, <1>6 DEF Effective, index

\* The index is added to the low byte first; the high byte follows a cycle
\* later if there was a carry.
LEMMA IndexedAddressBytes ==
    ASSUME NEW s, MachineState(s), NEW mode \in Indexed
    PROVE  LET b == Base(mode, s)
               x == s.reg[IndexRegister(mode)]
               low == U16Low(U16Low(b) + x)
           IN  /\ Unfixed(mode, s) = CombineToU16(U16High(b), low)
               /\ Crosses(mode, s) <=> U16Low(b) + x > 255
               /\ Effective(mode, s) =
                    CombineToU16(IF Crosses(mode, s) THEN Inc8(U16High(b))
                                 ELSE U16High(b), low)
<1> DEFINE b == Base(mode, s)
           x == s.reg[IndexRegister(mode)]
<1>1. b \in Word /\ x \in Byte
  BY BaseType, IndexType
<1>2. Effective(mode, s) = Add16(b, x)
  BY DEF Effective, Indexed
<1>3. Effective(mode, s) \in Word
  BY EffectiveType
<1> HIDE DEF b, x
<1>4. /\ U16Low(Add16(b, x)) = U16Low(U16Low(b) + x)
      /\ U16High(Add16(b, x)) = IF U16Low(b) + x > 255
                                THEN Inc8(U16High(b)) ELSE U16High(b)
      /\ Inc8(U16High(b)) # U16High(b)
  BY <1>1, IndexedSum
<1>5. Crosses(mode, s) <=> U16Low(b) + x > 255
  BY <1>2, <1>4 DEF Crosses, b
<1>6. Unfixed(mode, s) = CombineToU16(U16High(b), U16Low(U16Low(b) + x))
  BY <1>2, <1>4 DEF Unfixed, b
<1>7. Effective(mode, s) = CombineToU16(U16High(Add16(b, x)), U16Low(Add16(b, x)))
  BY <1>2, <1>3, PartsCombine
<1> QED
  BY <1>4, <1>5, <1>6, <1>7 DEF b, x

-----------------------------------------------------------------------------
(* The addressing cycles.                                                  *)

\* A cycle before the first access through the latches: they are a step
\* further, and the bus saw the access that Addressing lists.
Addressed(mode, s) ==
    /\ instruction_cycle < FirstAccess(mode)
    /\ instruction_cycle' = instruction_cycle + 1
    /\ UNCHANGED <<sp, reg, status, memory>>
    /\ Aimed(mode, s)' /\ Carried(mode, s)'
    /\ addr' = AddressCycles(mode, s)[instruction_cycle].address

\* What the addressing cycles of an instruction find.
Aiming(mode, s) ==
    /\ MachineType /\ MachineState(s)
    /\ reg = s.reg /\ memory = s.memory
    /\ At(1) => Advanced(s, 1)
    /\ Aimed(mode, s)

LEMMA ZeroPageAddressed ==
    ASSUME NEW s, Aiming("ZeroPage", s), ZeroPage
    PROVE  Addressed("ZeroPage", s)
<1>1. At(1) /\ pc = Add16(s.pc, 1) /\ Read(pc) = Operand(s)
  BY ReadIsCell DEF ZeroPage, Aiming, Advanced, Operand
<1>2. pc' = Add16(s.pc, 2) /\ addr' = Add16(s.pc, 1)
  BY <1>1, NextBytes DEF ZeroPage, Fetch, Aiming, MachineState
<1>3. latch'["adl"] = Operand(s)
  BY <1>1 DEF ZeroPage, Fetch, Aiming, MachineType, Latch
<1>4. instruction_cycle' = 2 /\ UNCHANGED <<sp, reg, status, memory>>
  BY <1>1 DEF ZeroPage, Fetch, Continue, ContinueWith, At
<1>5. Aimed("ZeroPage", s)' /\ Carried("ZeroPage", s)'
  BY <1>2, <1>3, <1>4 DEF Aimed, Carried, Indexed, From, At, Advanced, ZP
<1> QED
  BY <1>1, <1>2, <1>4, <1>5 DEF Addressed, AddressCycles, R, At, FirstAccess
LEMMA ZeroPageIndexedAddressed ==
    ASSUME NEW s, NEW mode \in {"ZeroPageX", "ZeroPageY"}, Aiming(mode, s),
           ZeroPageIndexed(reg[IndexRegister(mode)])
    PROVE  Addressed(mode, s)
<1>1. CASE ZeroPage
  <2>1. At(1) /\ pc = Add16(s.pc, 1) /\ Read(pc) = Operand(s)
    BY <1>1, ReadIsCell DEF ZeroPage, Aiming, Advanced, Operand
  <2>2. pc' = Add16(s.pc, 2) /\ addr' = Add16(s.pc, 1)
    BY <1>1, <2>1, NextBytes DEF ZeroPage, Fetch, Aiming, MachineState
  <2>3. latch'["adl"] = Operand(s)
    BY <1>1, <2>1 DEF ZeroPage, Fetch, Aiming, MachineType, Latch
  <2>4. instruction_cycle' = 2 /\ UNCHANGED <<sp, reg, status, memory>>
    BY <1>1, <2>1 DEF ZeroPage, Fetch, Continue, ContinueWith, At
  <2>5. Aimed(mode, s)' /\ Carried(mode, s)'
    BY <2>2, <2>3, <2>4 DEF Aimed, Carried, Indexed, From, At, Advanced, ZP
  <2> QED
    BY <2>1, <2>2, <2>4, <2>5 DEF Addressed, AddressCycles, R, At, FirstAccess
<1>2. CASE At(2) /\ IndexZeroPage("adl", reg[IndexRegister(mode)]) /\ Continue
  <2>1. pc' = Add16(s.pc, 2) /\ latch["adl"] = Operand(s) /\ addr' = Operand(s)
    BY <1>2 DEF IndexZeroPage, Aiming, Aimed, From, At, Advanced, ZP
  <2>2. latch'["adl"] = Effective(mode, s)
    BY <1>2, <2>1 DEF IndexZeroPage, Aiming, MachineType, Latch, Effective, U16Low
  <2>3. instruction_cycle' = 3 /\ UNCHANGED <<sp, reg, status, memory>>
    BY <1>2 DEF IndexZeroPage, Continue, ContinueWith, At
  <2>4. Aimed(mode, s)' /\ Carried(mode, s)'
    BY <2>1, <2>2, <2>3 DEF Aimed, Carried, Indexed, From, At, Advanced, ZP
  <2> QED
    BY <1>2, <2>1, <2>3, <2>4 DEF Addressed, AddressCycles, R, At, FirstAccess
<1> QED
  BY <1>1, <1>2 DEF ZeroPageIndexed

\* The first cycle of the modes with a 16-bit operand.
LEMMA LowAddressed ==
    ASSUME NEW s, NEW mode \in {"Absolute", "AbsoluteX", "AbsoluteY"}, Aiming(mode, s),
           At(1), Fetch("adl"), Continue
    PROVE  Addressed(mode, s)
<1>1. pc = Add16(s.pc, 1) /\ Read(pc) = Operand(s)
  BY ReadIsCell DEF Aiming, Advanced, Operand
<1>2. pc' = Add16(s.pc, 2) /\ addr' = Add16(s.pc, 1)
  BY <1>1, NextBytes DEF Fetch, Aiming, MachineState
<1>3. latch'["adl"] = Operand(s)
  BY <1>1 DEF Fetch, Aiming, MachineType, Latch
<1>4. instruction_cycle' = 2 /\ UNCHANGED <<sp, reg, status, memory>>
  BY <1>1 DEF Fetch, Continue, ContinueWith, At
<1>5. Aimed(mode, s)' /\ Carried(mode, s)'
  BY <1>2, <1>3, <1>4 DEF Aimed, Carried, FirstAccess, From, At, Advanced, ZP
<1> QED
  BY <1>1, <1>2, <1>4, <1>5 DEF Addressed, AddressCycles, R, At, FirstAccess

LEMMA AbsoluteAddressed ==
    ASSUME NEW s, Aiming("Absolute", s), Absolute
    PROVE  Addressed("Absolute", s)
<1>1. CASE At(1) /\ Fetch("adl") /\ Continue
  BY <1>1, LowAddressed
<1>2. CASE At(2) /\ Fetch("adh") /\ Continue
  <2>1. pc = Add16(s.pc, 2) /\ latch["adl"] = Operand(s)
        /\ Read(pc) = Cell(s.memory, Add16(s.pc, 2))
    BY <1>2, ReadIsCell DEF Aiming, Aimed, Advanced, ZP
  <2>2. pc' = Add16(s.pc, 3) /\ addr' = Add16(s.pc, 2)
    BY <1>2, <2>1, NextBytes DEF Fetch, Aiming, MachineState
  <2>3. latch'["adl"] = Operand(s) /\ latch'["adh"] = Cell(s.memory, Add16(s.pc, 2))
    BY <1>2, <2>1 DEF Fetch, Aiming, MachineType, Latch
  <2>4. EA' = Effective("Absolute", s)
    BY <2>3, OperandBytes DEF EA, Effective, Aiming
  <2>5. instruction_cycle' = 3 /\ UNCHANGED <<sp, reg, status, memory>>
    BY <1>2 DEF Fetch, Continue, ContinueWith, At
  <2>6. Aimed("Absolute", s)' /\ Carried("Absolute", s)'
    BY <2>2, <2>4, <2>5 DEF Aimed, Carried, Indexed, From, At, Advanced
  <2> QED
    BY <1>2, <2>2, <2>5, <2>6 DEF Addressed, AddressCycles, R, At, FirstAccess
<1> QED
  BY <1>1, <1>2 DEF Absolute

\* adh is read and the index is added to adl: the latches hold the unfixed
\* address, page_crossed says whether it has to be fixed.
LEMMA HighIndexedCarried ==
    ASSUME NEW s, NEW mode \in Indexed, MachineType, MachineState(s), NEW a,
           HighIndexed(a, s.reg[IndexRegister(mode)]),
           Base(mode, s) = CombineToU16(Read(a), latch["adl"])
    PROVE  EA' = Unfixed(mode, s) /\ page_crossed' = Crosses(mode, s)
<1> DEFINE x == s.reg[IndexRegister(mode)]
<1>1. Read(a) \in Byte /\ latch["adl"] \in Byte
  BY ReadType DEF MachineType, Latch
<1>2. U16High(Base(mode, s)) = Read(a) /\ U16Low(Base(mode, s)) = latch["adl"]
  BY <1>1, CombineParts
<1>3. latch'["adh"] = Read(a) /\ latch'["adl"] = U16Low(latch["adl"] + x)
  BY DEF HighIndexed, MachineType, Latch
<1>4. page_crossed' = (latch["adl"] + x > 255)
  BY DEF HighIndexed, ContinueWith
<1>5. Crosses(mode, s) <=> latch["adl"] + x > 255
  BY <1>2, IndexedAddressBytes
<1>6. Crosses(mode, s) \in BOOLEAN
  BY DEF Crosses
<1>7. Unfixed(mode, s) = CombineToU16(Read(a), U16Low(latch["adl"] + x))
  BY <1>2, IndexedAddressBytes
<1> QED
  BY <1>3, <1>4, <1>5, <1>6, <1>7 DEF EA

LEMMA AbsoluteIndexedAddressed ==
    ASSUME NEW s, NEW mode \in {"AbsoluteX", "AbsoluteY"}, Aiming(mode, s),
           AbsoluteIndexed(reg[IndexRegister(mode)])
    PROVE  Addressed(mode, s)
<1>1. CASE At(1) /\ Fetch("adl") /\ Continue
  BY <1>1, LowAddressed
<1>2. CASE At(2) /\ HighIndexed(pc, reg[IndexRegister(mode)]) /\ pc' = Inc16(pc)
  <2>1. pc = Add16(s.pc, 2) /\ latch["adl"] = Operand(s)
        /\ Read(pc) = Cell(s.memory, Add16(s.pc, 2))
    BY <1>2, ReadIsCell DEF Aiming, Aimed, Advanced, ZP
  <2>2. pc' = Add16(s.pc, 3) /\ addr' = Add16(s.pc, 2)
    BY <1>2, <2>1, NextBytes DEF HighIndexed, Aiming, MachineState
  <2>3. Base(mode, s) = CombineToU16(Read(pc), latch["adl"])
    BY <2>1, OperandBytes DEF Base, Aiming
  <2>4. EA' = Unfixed(mode, s) /\ page_crossed' = Crosses(mode, s)
    BY <1>2, <2>3, HighIndexedCarried DEF Aiming, Indexed
  <2>5. instruction_cycle' = 3 /\ UNCHANGED <<sp, reg, status, memory>>
    BY <1>2 DEF HighIndexed, ContinueWith, At
  <2>6. Aimed(mode, s)'
    BY <2>2, <2>5 DEF Aimed, From, At, Advanced
  <2>7. Carried(mode, s)'
    BY <2>4, <2>5 DEF Carried, FirstAccess, From, At
  <2> QED
    BY <1>2, <2>2, <2>5, <2>6, <2>7 DEF Addressed, AddressCycles, R, At, FirstAccess
<1> QED
  BY <1>1, <1>2 DEF AbsoluteIndexed
LEMMA ZeroPagePointer ==
    ASSUME NEW mem, NEW b \in Byte
    PROVE  PointerAt(mem, b) = CombineToU16(Cell(mem, Inc8(b)), Cell(mem, b))
<1>1. U16High(b) = 0 /\ U16Low(b) = b
  BY DEF U16High, U16Low, Byte
<1>2. CombineToU16(0, Inc8(b)) = Inc8(b)
  BY Inc8Type DEF CombineToU16, Byte
<1> QED
  BY <1>1, <1>2 DEF PointerAt

LEMMA IndexedPointerType ==
    ASSUME NEW s, MachineState(s) PROVE IndexedPointer(s) \in Byte
<1>1. Operand(s) \in Nat /\ s.reg["x"] \in Nat
  BY OperandType DEF MachineState, Reg, Byte
<1> QED
  BY <1>1 DEF IndexedPointer, Byte

\* The operand byte goes to op_latch and points into page zero.
LEMMA PointerFetched ==
    ASSUME NEW s, NEW mode \in {"XIndirect", "IndirectY"}, Aiming(mode, s),
           At(1), Fetch("op_latch"), Continue
    PROVE  Addressed(mode, s)
<1>1. pc = Add16(s.pc, 1) /\ Read(pc) = Operand(s)
  BY ReadIsCell DEF Aiming, Advanced, Operand
<1>2. pc' = Add16(s.pc, 2) /\ addr' = Add16(s.pc, 1)
  BY <1>1, NextBytes DEF Fetch, Aiming, MachineState
<1>3. latch'["op_latch"] = Operand(s)
  BY <1>1 DEF Fetch, Aiming, MachineType, Latch
<1>4. instruction_cycle' = 2 /\ UNCHANGED <<sp, reg, status, memory>>
  BY <1>1 DEF Fetch, Continue, ContinueWith, At
<1>5. Aimed(mode, s)' /\ Carried(mode, s)'
  BY <1>2, <1>3, <1>4 DEF Aimed, Carried, FirstAccess, From, At, Advanced, Pointer
<1> QED
  BY <1>1, <1>2, <1>4, <1>5 DEF Addressed, AddressCycles, R, At, FirstAccess

LEMMA XIndirectAddressed ==
    ASSUME NEW s, Aiming("XIndirect", s), XIndirect(reg["x"])
    PROVE  Addressed("XIndirect", s)
<1> DEFINE p == IndexedPointer(s)
<1>0. p \in Byte
  BY IndexedPointerType DEF Aiming
<1>1. CASE At(1) /\ Fetch("op_latch") /\ Continue
  BY <1>1, PointerFetched
<1>2. CASE At(2) /\ IndexZeroPage("op_latch", reg["x"]) /\ Continue
  <2>1. pc' = Add16(s.pc, 2) /\ Pointer = Operand(s) /\ addr' = Operand(s)
    BY <1>2 DEF IndexZeroPage, Aiming, Aimed, From, At, Advanced, Pointer
  <2>2. latch'["op_latch"] = p
    BY <1>2, <2>1 DEF IndexZeroPage, Aiming, MachineType, Latch, IndexedPointer,
                      U16Low, Pointer
  <2>3. instruction_cycle' = 3 /\ UNCHANGED <<sp, reg, status, memory>>
    BY <1>2 DEF IndexZeroPage, Continue, ContinueWith, At
  <2>4. Aimed("XIndirect", s)' /\ Carried("XIndirect", s)'
    BY <2>1, <2>2, <2>3 DEF Aimed, Carried, Indexed, From, At, Advanced, Pointer
  <2> QED
    BY <1>2, <2>1, <2>3, <2>4 DEF Addressed, AddressCycles, R, At, FirstAccess
<1>3. CASE At(3) /\ ReadTo("adl", Pointer) /\ Continue
  <2>1. pc' = Add16(s.pc, 2) /\ Pointer = p /\ addr' = p
    BY <1>3 DEF ReadTo, Aiming, Aimed, From, At, Advanced
  <2>2. latch'["adl"] = Cell(s.memory, p) /\ latch'["op_latch"] = p
    BY <1>3, <2>1, ReadIsCell DEF ReadTo, Aiming, MachineType, Latch, Pointer
  <2>3. instruction_cycle' = 4 /\ UNCHANGED <<sp, reg, status, memory>>
    BY <1>3 DEF ReadTo, Continue, ContinueWith, At
  <2>4. Aimed("XIndirect", s)' /\ Carried("XIndirect", s)'
    BY <2>1, <2>2, <2>3 DEF Aimed, Carried, Indexed, From, At, Advanced, Pointer, ZP
  <2> QED
    BY <1>3, <2>1, <2>3, <2>4
    DEF Addressed, AddressCycles, R, At, FirstAccess, IndexedPointer, U16Low
<1>4. CASE At(4) /\ ReadTo("adh", Inc8(Pointer)) /\ Continue
  <2>1. /\ pc' = Add16(s.pc, 2) /\ Pointer = p /\ addr' = Inc8(p)
        /\ latch["adl"] = Cell(s.memory, p)
    BY <1>4 DEF ReadTo, Aiming, Aimed, From, At, Advanced, ZP
  <2>2. latch'["adl"] = Cell(s.memory, p) /\ latch'["adh"] = Cell(s.memory, Inc8(p))
    BY <1>4, <2>1, ReadIsCell DEF ReadTo, Aiming, MachineType, Latch, Pointer
  <2>3. EA' = Effective("XIndirect", s)
    <3>1. Effective("XIndirect", s) = PointerAt(s.memory, p)
      BY DEF Effective, IndexRegister, IndexedPointer
    <3> HIDE DEF p
    <3> QED
      BY <1>0, <2>2, <3>1, ZeroPagePointer DEF EA
  <2>4. instruction_cycle' = 5 /\ UNCHANGED <<sp, reg, status, memory>>
    BY <1>4 DEF ReadTo, Continue, ContinueWith, At
  <2>5. Aimed("XIndirect", s)' /\ Carried("XIndirect", s)'
    BY <2>1, <2>3, <2>4 DEF Aimed, Carried, Indexed, From, At, Advanced
  <2> QED
    BY <1>4, <2>1, <2>4, <2>5
    DEF Addressed, AddressCycles, R, At, FirstAccess, IndexedPointer, U16Low
<1> QED
  BY <1>1, <1>2, <1>3, <1>4 DEF XIndirect

LEMMA IndirectYAddressed ==
    ASSUME NEW s, Aiming("IndirectY", s), IndirectY
    PROVE  Addressed("IndirectY", s)
<1> DEFINE p == Operand(s)
<1>0. p \in Byte
  BY OperandType DEF Aiming
<1>1. CASE At(1) /\ Fetch("op_latch") /\ Continue
  BY <1>1, PointerFetched
<1>2. CASE At(2) /\ ReadTo("adl", Pointer) /\ Continue
  <2>1. pc' = Add16(s.pc, 2) /\ Pointer = p /\ addr' = p
    BY <1>2 DEF ReadTo, Aiming, Aimed, From, At, Advanced
  <2>2. latch'["adl"] = Cell(s.memory, p) /\ latch'["op_latch"] = p
    BY <1>2, <2>1, ReadIsCell DEF ReadTo, Aiming, MachineType, Latch, Pointer
  <2>3. instruction_cycle' = 3 /\ UNCHANGED <<sp, reg, status, memory>>
    BY <1>2 DEF ReadTo, Continue, ContinueWith, At
  <2>4. Aimed("IndirectY", s)' /\ Carried("IndirectY", s)'
    BY <2>1, <2>2, <2>3
    DEF Aimed, Carried, FirstAccess, From, At, Advanced, Pointer, ZP
  <2> QED
    BY <1>2, <2>1, <2>3, <2>4 DEF Addressed, AddressCycles, R, At, FirstAccess
<1>3. CASE At(3) /\ HighIndexed(Inc8(Pointer), reg["y"]) /\ UNCHANGED pc
  <2>1. /\ pc' = Add16(s.pc, 2) /\ Pointer = p /\ addr' = Inc8(p)
        /\ latch["adl"] = Cell(s.memory, p)
    BY <1>3 DEF HighIndexed, Aiming, Aimed, From, At, Advanced, ZP
  <2>2. Read(Inc8(Pointer)) = Cell(s.memory, Inc8(p))
    BY <2>1, ReadIsCell DEF Aiming
  <2>3. Base("IndirectY", s) = CombineToU16(Read(Inc8(Pointer)), latch["adl"])
    BY <1>0, <2>1, <2>2, ZeroPagePointer DEF Base
  <2>4. EA' = Unfixed("IndirectY", s) /\ page_crossed' = Crosses("IndirectY", s)
    <3>1. HighIndexed(Inc8(Pointer), s.reg[IndexRegister("IndirectY")])
      BY <1>3 DEF Aiming, IndexRegister
    <3> QED
      BY <2>3, <3>1, HighIndexedCarried DEF Aiming, Indexed
  <2>5. instruction_cycle' = 4 /\ UNCHANGED <<sp, reg, status, memory>>
    BY <1>3 DEF HighIndexed, ContinueWith, At
  <2>6. Aimed("IndirectY", s)'
    BY <2>1, <2>5 DEF Aimed, From, At, Advanced
  <2>7. Carried("IndirectY", s)'
    BY <2>4, <2>5 DEF Carried, FirstAccess, From, At
  <2> QED
    BY <1>3, <2>1, <2>5, <2>6, <2>7 DEF Addressed, AddressCycles, R, At, FirstAccess
<1> QED
  BY <1>1, <1>2, <1>3 DEF IndirectY
-----------------------------------------------------------------------------
(* IsaSpec is instantiated with its own copy of Alu and Addressing.        *)

LEMMA SameMemory ==
    /\ \A mem, a : Processor!Cell(mem, a) = Cell(mem, a)
    /\ \A mem, a, v : Processor!Put(mem, a, v) = Put(mem, a, v)
    /\ \A h, l : Processor!CombineToU16(h, l) = CombineToU16(h, l)
    /\ \A w : Processor!U16Low(w) = U16Low(w) /\ Processor!U16High(w) = U16High(w)
    /\ \A w, n : Processor!Add16(w, n) = Add16(w, n)
    /\ \A b : Processor!Inc8(b) = Inc8(b) /\ Processor!Dec8(b) = Dec8(b)
BY DEF Processor!Cell, Cell, Processor!Put, Put, Processor!CombineToU16, CombineToU16,
       Processor!U16Low, U16Low, Processor!U16High, U16High, Processor!Add16, Add16,
       Processor!Inc8, Inc8, Processor!Dec8, Dec8

LEMMA SameWords ==
    /\ \A mem, a : Processor!WordAt(mem, a) = WordAt(mem, a)
    /\ \A mem, a : Processor!PointerAt(mem, a) = PointerAt(mem, a)
    /\ \A s : Processor!Operand(s) = Operand(s) /\ Processor!OperandW(s) = OperandW(s)
BY SameMemory DEF Processor!WordAt, WordAt, Processor!PointerAt, PointerAt,
       Processor!Operand, Operand, Processor!OperandW, OperandW

LEMMA SameNames ==
    /\ Processor!Loads = Loads /\ Processor!Stores = Stores
    /\ Processor!Binary = Binary /\ Processor!Unary = Unary
    /\ Processor!Counting = Counting /\ Processor!Branches = Branches
    /\ Processor!Indexed = Indexed
BY DEF Processor!Loads, Loads, Processor!Stores, Stores, Processor!Binary, Binary,
       Processor!Unary, Unary, Processor!Counting, Counting, Processor!Branches, Branches,
       Processor!Indexed, Indexed

LEMMA SameModes ==
    /\ \A mode : Processor!Length(mode) = Length(mode)
    /\ \A mode : Processor!IndexRegister(mode) = IndexRegister(mode)
    /\ \A name : Processor!Subject(name) = Subject(name)
    /\ \A name : Processor!Function(name) = Function(name)
BY DEF Processor!Length, Length, Processor!IndexRegister, IndexRegister,
       Processor!Subject, Subject, Processor!Function, Function

LEMMA SameAddress ==
    \A mode, s : /\ Processor!Base(mode, s) = Base(mode, s)
                 /\ Processor!Effective(mode, s) = Effective(mode, s)
                 /\ Processor!Crosses(mode, s) = Crosses(mode, s)
BY SameMemory, SameWords, SameNames, SameModes
DEF Processor!Base, Base, Processor!Effective, Effective, Processor!Crosses, Crosses

LEMMA SameBits ==
    /\ \A b : Processor!Bits(b) = Bits(b)
    /\ \A S : Processor!FromBits(S) = FromBits(S)
    /\ \A b : Processor!Negative(b) = Negative(b)
BY DEF Processor!Bits, Bits, Processor!BitIndex, BitIndex, Processor!FromBits, FromBits,
       Processor!Negative, Negative

LEMMA SameFlags ==
    /\ Processor!carry = carry /\ Processor!zero = zero
    /\ Processor!interrupt_disable = interrupt_disable
    /\ Processor!decimal_mode = decimal_mode /\ Processor!break_command = break_command
    /\ Processor!unused = unused /\ Processor!overflow = overflow
    /\ Processor!negative = negative
BY DEF Processor!carry, carry, Processor!zero, zero, Processor!interrupt_disable,
       interrupt_disable, Processor!decimal_mode, decimal_mode, Processor!break_command,
       break_command, Processor!unused, unused, Processor!overflow, overflow,
       Processor!negative, negative

LEMMA SameSetFlags ==
    /\ \A s, f, on : Processor!SetFlag(s, f, on) = SetFlag(s, f, on)
    /\ \A s, v : Processor!SetZNFlags(s, v) = SetZNFlags(s, v)
BY SameFlags, SameBits
DEF Processor!SetFlag, SetFlag, Processor!SetZNFlags, SetZNFlags

LEMMA SameCondition ==
    \A name, s : Processor!ExecuteCondition(name, s) = ExecuteCondition(name, s)
BY SameFlags DEF Processor!ExecuteCondition, ExecuteCondition
LEMMA SameShifts ==
    /\ \A r, s : Processor!WithZN(r, s) = WithZN(r, s)
    /\ \A s : Processor!CarryIn(s) = CarryIn(s)
    /\ \A r, b, s : Processor!ShiftLeft(r, b, s) = ShiftLeft(r, b, s)
    /\ \A r, b, s : Processor!ShiftRight(r, b, s) = ShiftRight(r, b, s)
BY SameSetFlags, SameFlags, SameBits
DEF Processor!WithZN, WithZN, Processor!Outcome, Outcome, Processor!CarryIn, CarryIn,
    Processor!ShiftLeft, ShiftLeft, Processor!ShiftRight, ShiftRight

LEMMA SameLogic ==
    /\ \A r, m : Processor!AndByte(r, m) = AndByte(r, m)
    /\ \A r, m : Processor!OrByte(r, m) = OrByte(r, m)
    /\ \A r, m : Processor!XorByte(r, m) = XorByte(r, m)
    /\ \A m : Processor!NotByte(m) = NotByte(m)
BY SameBits
DEF Processor!AndByte, AndByte, Processor!OrByte, OrByte, Processor!XorByte, XorByte,
    Processor!NotByte, NotByte

LEMMA SameOverflow ==
    \A s, v, m, r : Processor!SetArithmeticOverflowFlag(s, v, m, r) =
                       SetArithmeticOverflowFlag(s, v, m, r)
BY SameSetFlags, SameFlags, SameBits
DEF Processor!SetArithmeticOverflowFlag, SetArithmeticOverflowFlag

LEMMA SameADC == \A r, m, s : Processor!ADC(r, m, s) = ADC(r, m, s)
BY SameSetFlags, SameFlags, SameOverflow, SameShifts, SameMemory
DEF Processor!ADC, ADC, Processor!Outcome, Outcome

LEMMA SameCMP == \A r, m, s : Processor!CMP(r, m, s) = CMP(r, m, s)
BY SameSetFlags, SameFlags DEF Processor!CMP, CMP, Processor!Outcome, Outcome

LEMMA SameBIT == \A r, m, s : Processor!BIT(r, m, s) = BIT(r, m, s)
BY SameSetFlags, SameFlags, SameBits, SameLogic
DEF Processor!BIT, BIT, Processor!Outcome, Outcome

LEMMA SameOperation ==
    ASSUME NEW op \in Operation, NEW r, NEW m, NEW s
    PROVE  Processor!ExecuteOperation(op, r, m, s) = ExecuteOperation(op, r, m, s)
<1>1. Processor!SBC(r, m, s) = SBC(r, m, s)
  BY SameADC, SameLogic DEF Processor!SBC, SBC
<1> QED
  BY <1>1, SameShifts, SameLogic, SameADC, SameCMP, SameBIT, SameMemory
  DEF Processor!ExecuteOperation, ExecuteOperation, Operation

LEMMA SameTable ==
    Processor!Instructions = Instructions /\ Processor!Opcodes = Opcodes
<1>1. Processor!Implemented = Implemented
  BY DEF Processor!Implemented, Implemented, Processor!E, E,
         Processor!StackInstructions, StackInstructions,
         Processor!LoadInstructions, LoadInstructions,
         Processor!StoreInstructions, StoreInstructions,
         Processor!TransferInstructions, TransferInstructions,
         Processor!LogicalInstructions, LogicalInstructions,
         Processor!ArithmeticInstructions, ArithmeticInstructions,
         Processor!CompareInstructions, CompareInstructions,
         Processor!CountInstructions, CountInstructions,
         Processor!ShiftInstructions, ShiftInstructions,
         Processor!JumpInstructions, JumpInstructions,
         Processor!BranchInstructions, BranchInstructions,
         Processor!FlagInstructions, FlagInstructions,
         Processor!SystemInstructions, SystemInstructions
<1>2. Processor!InvalidInstruction = InvalidInstruction
  BY DEF Processor!InvalidInstruction, InvalidInstruction, Processor!E, E
<1>3. Processor!Opcodes = Opcodes
  BY <1>1 DEF Processor!Opcodes, Opcodes
<1> QED
  BY <1>1, <1>2, <1>3 DEF Processor!Instructions, Instructions
-----------------------------------------------------------------------------
(* The effect of an instruction with an operand in memory.                 *)

OperandModes == {"Immediate", "ZeroPage", "ZeroPageX", "ZeroPageY", "Absolute",
                 "AbsoluteX", "AbsoluteY", "XIndirect", "IndirectY"}

\* What each change of the machine that IsaSpec names does to its components.
LEMMA Changes ==
    \A p, q, r, t, mem :
       /\ \A w : Processor!Goto(State(p, q, r, t, mem), w) = State(w, q, r, t, mem)
       /\ \A v : Processor!SetSP(State(p, q, r, t, mem), v) = State(p, v, r, t, mem)
       /\ \A n, v : Processor!SetReg(State(p, q, r, t, mem), n, v) =
              State(p, q, [r EXCEPT ![n] = v], t, mem)
       /\ \A u : Processor!SetStatus(State(p, q, r, t, mem), u) = State(p, q, r, u, mem)
       /\ \A a, v : Processor!SetCell(State(p, q, r, t, mem), a, v) =
              State(p, q, r, t, Put(mem, a, v))
<1> TAKE p, q, r, t, mem
<1> DEFINE s == State(p, q, r, t, mem)
<1>1. \A w : Processor!Goto(s, w) = State(w, q, r, t, mem)
  BY StateChange DEF Processor!Goto
<1>2. \A v : Processor!SetSP(s, v) = State(p, v, r, t, mem)
  BY StateChange DEF Processor!SetSP
<1>3. ASSUME NEW n, NEW v
      PROVE  Processor!SetReg(s, n, v) = State(p, q, [r EXCEPT ![n] = v], t, mem)
  BY StateChange DEF Processor!SetReg
<1>4. \A u : Processor!SetStatus(s, u) = State(p, q, r, u, mem)
  BY StateChange DEF Processor!SetStatus
<1>5. ASSUME NEW a, NEW v
      PROVE  Processor!SetCell(s, a, v) = State(p, q, r, t, Put(mem, a, v))
  <2> DEFINE x == Put(mem, a, v)
  <2>1. s.memory = mem
    BY StateChange
  <2>2. Processor!SetCell(s, a, v) = [s EXCEPT !.memory = x]
    BY <2>1, SameMemory DEF Processor!SetCell
  <2> HIDE DEF x
  <2>3. [s EXCEPT !.memory = x] = State(p, q, r, t, x)
    BY StateChange
  <2> QED
    BY <2>2, <2>3 DEF x
<1> HIDE DEF s
<1> QED
  BY <1>1, <1>2, <1>3, <1>4, <1>5 DEF s

LEMMA Components ==
    \A p, q, r, t, mem :
       /\ State(p, q, r, t, mem).pc = p /\ State(p, q, r, t, mem).sp = q
       /\ State(p, q, r, t, mem).reg = r /\ State(p, q, r, t, mem).status = t
       /\ State(p, q, r, t, mem).memory = mem
BY DEF State

LEMMA LoadResult ==
    ASSUME NEW p, NEW q, NEW r, NEW t, NEW mem, NEW n, NEW v
    PROVE  Processor!LoadReg(State(p, q, r, t, mem), n, v) =
             State(p, q, [r EXCEPT ![n] = v], SetZNFlags(t, v), mem)
<1> DEFINE f == SetZNFlags(t, v)
           x == [r EXCEPT ![n] = v]
<1>1. Processor!LoadReg(State(p, q, r, t, mem), n, v) =
        Processor!SetStatus(Processor!SetReg(State(p, q, r, t, mem), n, v), f)
  BY Components, SameSetFlags DEF Processor!LoadReg
<1>2. Processor!SetReg(State(p, q, r, t, mem), n, v) = State(p, q, x, t, mem)
  BY Changes
<1> HIDE DEF f, x
<1>3. Processor!SetStatus(State(p, q, x, t, mem), f) = State(p, q, x, f, mem)
  BY Changes
<1> QED
  BY <1>1, <1>2, <1>3 DEF f, x

LEMMA RegisterResult ==
    ASSUME NEW p, NEW q, NEW r, NEW t, NEW mem, NEW n, NEW out
    PROVE  Processor!ToRegister(State(p, q, r, t, mem), n, out) =
             State(p, q, [r EXCEPT ![n] = out.reg], out.status, mem)
<1> DEFINE f == out.status
           x == [r EXCEPT ![n] = out.reg]
<1>1. Processor!SetReg(State(p, q, r, t, mem), n, out.reg) = State(p, q, x, t, mem)
  BY Changes
<1> HIDE DEF f, x
<1>2. Processor!SetStatus(State(p, q, x, t, mem), f) = State(p, q, x, f, mem)
  BY Changes
<1> QED
  BY <1>1, <1>2 DEF f, x, Processor!ToRegister

LEMMA MemoryResult ==
    ASSUME NEW p, NEW q, NEW r, NEW t, NEW mem, NEW a, NEW out
    PROVE  Processor!ToMemory(State(p, q, r, t, mem), a, out) =
             State(p, q, r, out.status, Put(mem, a, out.reg))
BY Changes DEF Processor!ToMemory

\* The bytes that go to the stack, and the state behind the last of them.
LEMMA Pushes ==
    \A p, q, r, t, mem, v :
       Processor!PushByte(State(p, q, r, t, mem), v) =
         State(p, Dec8(q), r, t, Put(mem, 256 + q, v))
BY Changes, Components, SameMemory DEF Processor!PushByte

\* The machine s with its pc behind the instruction i and other contents.
Left(i, s, q, r, t, mem) == State(Add16(s.pc, Length(i.mode)), q, r, t, mem)

LEMMA BehindInstruction ==
    ASSUME NEW s, MachineState(s), NEW i
    PROVE  Processor!Goto(s, Add16(s.pc, Length(i.mode))) =
             Left(i, s, s.sp, s.reg, s.status, s.memory)
BY Changes DEF Left, MachineState

\* An instruction with an operand in memory gets to MemoryEffect.
LEMMA OperandEffect ==
    ASSUME NEW s, NEW i, i.mode \in OperandModes, HasOperand(i)
    PROVE  LET a == Effective(i.mode, s)
           IN  Processor!Effect(i, s) = Processor!MemoryEffect(i.name,
                 Processor!Goto(s, Add16(s.pc, Length(i.mode))), a, Cell(s.memory, a))
<1>1. i.name \notin {"JMP", "JSR"} /\ i.name \notin Branches
  BY DEF HasOperand, Loads, Stores, Binary, Unary, Branches
<1>2. i.mode # "Implied"
  BY DEF OperandModes
<1> QED
  BY <1>1, <1>2, SameMemory, SameModes, SameAddress, SameNames DEF Processor!Effect

\* The four kinds of them.
LEMMA OperandEffects ==
    ASSUME NEW s, MachineState(s), NEW i, i.mode \in OperandModes
    PROVE  LET a   == Effective(i.mode, s)
               v   == Cell(s.memory, a)
               r   == Subject(i.name)
               bin == ExecuteOperation(Function(i.name), s.reg[r], v, s.status)
               un  == ExecuteOperation(Function(i.name), v, 0, s.status)
           IN  /\ i.name \in Loads => Processor!Effect(i, s) =
                    Left(i, s, s.sp, [s.reg EXCEPT ![r] = v], SetZNFlags(s.status, v),
                         s.memory)
               /\ i.name \in Stores => Processor!Effect(i, s) =
                    Left(i, s, s.sp, s.reg, s.status, Put(s.memory, a, s.reg[r]))
               /\ i.name \in Binary => Processor!Effect(i, s) =
                    Left(i, s, s.sp, [s.reg EXCEPT ![r] = bin.reg], bin.status, s.memory)
               /\ i.name \in Unary => Processor!Effect(i, s) =
                    Left(i, s, s.sp, s.reg, un.status, Put(s.memory, a, un.reg))
<1> DEFINE a   == Effective(i.mode, s)
           v   == Cell(s.memory, a)
           r   == Subject(i.name)
           op  == Function(i.name)
           bin == ExecuteOperation(op, s.reg[r], v, s.status)
           un  == ExecuteOperation(op, v, 0, s.status)
           t   == Processor!Goto(s, Add16(s.pc, Length(i.mode)))
<1>1. HasOperand(i) => Processor!Effect(i, s) = Processor!MemoryEffect(i.name, t, a, v)
  BY OperandEffect
<1>2. t = Left(i, s, s.sp, s.reg, s.status, s.memory)
  BY BehindInstruction
<1>3. t.reg = s.reg /\ t.status = s.status
  BY <1>2, StateChange DEF Left
<1>4. i.name \in Loads \cup Stores \cup Binary \cup Unary => HasOperand(i)
  BY DEF HasOperand, OperandModes
<1>5. i.name \in Binary \cup Unary => op \in Operation
  BY DEF Binary, Unary, Function, Operation
<1>10. Processor!Subject(i.name) = r /\ Processor!Function(i.name) = op
  BY SameModes
<1> HIDE DEF t, a, v, op, r
<1>6. ASSUME i.name \in Loads
      PROVE  Processor!Effect(i, s) =
               Left(i, s, s.sp, [s.reg EXCEPT ![r] = v], SetZNFlags(s.status, v), s.memory)
  <2>1. i.name \notin Stores /\ i.name \notin Binary /\ i.name \notin Unary
    BY <1>6 DEF Loads, Stores, Binary, Unary
  <2>2. Processor!MemoryEffect(i.name, t, a, v) = Processor!LoadReg(t, r, v)
    BY <1>6, <1>10, <2>1, SameNames DEF Processor!MemoryEffect
  <2>3. Processor!LoadReg(t, r, v) =
          Left(i, s, s.sp, [s.reg EXCEPT ![r] = v], SetZNFlags(s.status, v), s.memory)
    BY <1>2, LoadResult DEF Left
  <2> QED
    BY <1>1, <1>4, <1>6, <2>2, <2>3
<1>7. ASSUME i.name \in Stores
      PROVE  Processor!Effect(i, s) =
               Left(i, s, s.sp, s.reg, s.status, Put(s.memory, a, s.reg[r]))
  <2>1. i.name \notin Loads /\ i.name \notin Binary /\ i.name \notin Unary
    BY <1>7 DEF Loads, Stores, Binary, Unary
  <2>2. Processor!MemoryEffect(i.name, t, a, v) = Processor!SetCell(t, a, t.reg[r])
    BY <1>7, <1>10, <2>1, SameNames DEF Processor!MemoryEffect
  <2>3. Processor!SetCell(t, a, s.reg[r]) =
          Left(i, s, s.sp, s.reg, s.status, Put(s.memory, a, s.reg[r]))
    BY <1>2, Changes DEF Left
  <2> QED
    BY <1>1, <1>3, <1>4, <1>7, <2>2, <2>3
<1>8. ASSUME i.name \in Binary
      PROVE  Processor!Effect(i, s) =
               Left(i, s, s.sp, [s.reg EXCEPT ![r] = bin.reg], bin.status, s.memory)
  <2>1. i.name \notin Loads /\ i.name \notin Stores /\ i.name \notin Unary
    BY <1>8 DEF Loads, Stores, Binary, Unary
  <2>2. Processor!ExecuteOperation(op, t.reg[r], v, t.status) = bin
    BY <1>3, <1>5, <1>8, SameOperation
  <2>3. Processor!MemoryEffect(i.name, t, a, v) = Processor!ToRegister(t, r, bin)
    BY <1>8, <1>10, <2>1, <2>2, SameNames DEF Processor!MemoryEffect
  <2> HIDE DEF bin
  <2>4. Processor!ToRegister(t, r, bin) =
          Left(i, s, s.sp, [s.reg EXCEPT ![r] = bin.reg], bin.status, s.memory)
    BY <1>2, RegisterResult DEF Left
  <2> QED
    BY <1>1, <1>4, <1>8, <2>3, <2>4
<1>9. ASSUME i.name \in Unary
      PROVE  Processor!Effect(i, s) =
               Left(i, s, s.sp, s.reg, un.status, Put(s.memory, a, un.reg))
  <2>1. i.name \notin Loads /\ i.name \notin Stores /\ i.name \notin Binary
    BY <1>9 DEF Loads, Stores, Binary, Unary
  <2>2. Processor!ExecuteOperation(op, v, 0, t.status) = un
    BY <1>3, <1>5, <1>9, SameOperation
  <2>3. Processor!MemoryEffect(i.name, t, a, v) = Processor!ToMemory(t, a, un)
    BY <1>9, <1>10, <2>1, <2>2, SameNames DEF Processor!MemoryEffect
  <2> HIDE DEF un
  <2>4. Processor!ToMemory(t, a, un) =
          Left(i, s, s.sp, s.reg, un.status, Put(s.memory, a, un.reg))
    BY <1>2, MemoryResult DEF Left
  <2> QED
    BY <1>1, <1>4, <1>9, <2>3, <2>4
<1> QED
  BY <1>6, <1>7, <1>8, <1>9 DEF v, a, r, op

-----------------------------------------------------------------------------
(* The effect of the other instructions.                                   *)

Behind(s) == Add16(s.pc, 1)

LEMMA WithoutOperand ==
    ASSUME NEW s, MachineState(s), NEW i, i.mode = "Implied",
           i.name \notin Branches \cup {"JMP", "JSR"}
    PROVE  Processor!Effect(i, s) =
             Processor!ImpliedEffect(i.name, State(Behind(s), s.sp, s.reg, s.status, s.memory))
<1>1. Length(i.mode) = 1
  BY DEF Length
<1>2. Processor!Effect(i, s) =
        Processor!ImpliedEffect(i.name, Processor!Goto(s, Add16(s.pc, Length(i.mode))))
  BY SameNames, SameMemory, SameModes DEF Processor!Effect
<1>3. Processor!Goto(s, Add16(s.pc, Length(i.mode))) =
        State(Behind(s), s.sp, s.reg, s.status, s.memory)
  BY <1>1, BehindInstruction DEF Left, Behind
<1> QED
  BY <1>2, <1>3

LEMMA TransferArms ==
    ASSUME NEW t
    PROVE  /\ Processor!ImpliedEffect("TAX", t) = Processor!LoadReg(t, "x", t.reg["a"])
           /\ Processor!ImpliedEffect("TAY", t) = Processor!LoadReg(t, "y", t.reg["a"])
           /\ Processor!ImpliedEffect("TXA", t) = Processor!LoadReg(t, "a", t.reg["x"])
           /\ Processor!ImpliedEffect("TYA", t) = Processor!LoadReg(t, "a", t.reg["y"])
           /\ Processor!ImpliedEffect("TSX", t) = Processor!LoadReg(t, "x", t.sp)
           /\ Processor!ImpliedEffect("TXS", t) = Processor!SetSP(t, t.reg["x"])
           /\ Processor!ImpliedEffect("NOP", t) = t
BY DEF Processor!ImpliedEffect, Processor!Unary, Processor!Counting

LEMMA FlagArms ==
    ASSUME NEW t
    PROVE  /\ Processor!ImpliedEffect("CLC", t) = Processor!SetStatus(t, t.status \ {carry})
           /\ Processor!ImpliedEffect("SEC", t) = Processor!SetStatus(t, t.status \cup {carry})
           /\ Processor!ImpliedEffect("CLD", t) =
                Processor!SetStatus(t, t.status \ {decimal_mode})
           /\ Processor!ImpliedEffect("SED", t) =
                Processor!SetStatus(t, t.status \cup {decimal_mode})
           /\ Processor!ImpliedEffect("CLI", t) =
                Processor!SetStatus(t, t.status \ {interrupt_disable})
           /\ Processor!ImpliedEffect("SEI", t) =
                Processor!SetStatus(t, t.status \cup {interrupt_disable})
           /\ Processor!ImpliedEffect("CLV", t) =
                Processor!SetStatus(t, t.status \ {overflow})
<1>1. Processor!ImpliedEffect("CLC", t) =
        Processor!SetStatus(t, Processor!SetFlag(t.status, Processor!carry, FALSE))
  BY DEF Processor!ImpliedEffect, Processor!Unary, Processor!Counting
<1>2. Processor!ImpliedEffect("SEC", t) =
        Processor!SetStatus(t, Processor!SetFlag(t.status, Processor!carry, TRUE))
  BY DEF Processor!ImpliedEffect, Processor!Unary, Processor!Counting
<1>3. Processor!ImpliedEffect("CLD", t) =
        Processor!SetStatus(t, Processor!SetFlag(t.status, Processor!decimal_mode, FALSE))
  BY DEF Processor!ImpliedEffect, Processor!Unary, Processor!Counting
<1>4. Processor!ImpliedEffect("SED", t) =
        Processor!SetStatus(t, Processor!SetFlag(t.status, Processor!decimal_mode, TRUE))
  BY DEF Processor!ImpliedEffect, Processor!Unary, Processor!Counting
<1>5. Processor!ImpliedEffect("CLI", t) =
        Processor!SetStatus(t, Processor!SetFlag(t.status, Processor!interrupt_disable, FALSE))
  BY DEF Processor!ImpliedEffect, Processor!Unary, Processor!Counting
<1>6. Processor!ImpliedEffect("SEI", t) =
        Processor!SetStatus(t, Processor!SetFlag(t.status, Processor!interrupt_disable, TRUE))
  BY DEF Processor!ImpliedEffect, Processor!Unary, Processor!Counting
<1>7. Processor!ImpliedEffect("CLV", t) =
        Processor!SetStatus(t, Processor!SetFlag(t.status, Processor!overflow, FALSE))
  BY DEF Processor!ImpliedEffect, Processor!Unary, Processor!Counting
<1>8. \A f : /\ Processor!SetFlag(t.status, f, FALSE) = t.status \ {f}
             /\ Processor!SetFlag(t.status, f, TRUE) = t.status \cup {f}
  BY DEF Processor!SetFlag
<1> QED
  BY <1>1, <1>2, <1>3, <1>4, <1>5, <1>6, <1>7, <1>8, SameFlags

LEMMA PHAArm ==
    ASSUME NEW t
    PROVE  Processor!ImpliedEffect("PHA", t) = Processor!PushByte(t, t.reg["a"])
BY DEF Processor!ImpliedEffect, Processor!Unary, Processor!Counting

LEMMA PHPArm ==
    ASSUME NEW t
    PROVE  Processor!ImpliedEffect("PHP", t) =
             Processor!PushByte(t, FromBits(t.status \cup {break_command, unused}))
<1>1. Processor!ImpliedEffect("PHP", t) =
        Processor!PushByte(t, Processor!FromBits(
          t.status \cup {Processor!break_command, Processor!unused}))
  BY DEF Processor!ImpliedEffect, Processor!Unary, Processor!Counting
<1> QED
  BY <1>1, SameFlags, SameBits, SameMemory

LEMMA PLAArm ==
    ASSUME NEW t
    PROVE  Processor!ImpliedEffect("PLA", t) =
             Processor!LoadReg(Processor!SetSP(t, (t.sp + 1) % 256), "a",
                               Processor!Pulled(t, 1))
BY DEF Processor!ImpliedEffect, Processor!Unary, Processor!Counting

LEMMA PLPArm ==
    ASSUME NEW t
    PROVE  Processor!ImpliedEffect("PLP", t) =
             Processor!SetStatus(Processor!SetSP(t, (t.sp + 1) % 256),
                                 Bits(Processor!Pulled(t, 1)) \ {break_command})
<1>1. Processor!ImpliedEffect("PLP", t) =
        Processor!SetStatus(Processor!SetSP(t, (t.sp + 1) % 256),
          Processor!Bits(Processor!Pulled(t, 1)) \ {Processor!break_command})
  BY DEF Processor!ImpliedEffect, Processor!Unary, Processor!Counting
<1> QED
  BY <1>1, SameFlags, SameBits, SameMemory

LEMMA RTSArm ==
    ASSUME NEW t
    PROVE  Processor!ImpliedEffect("RTS", t) =
             Processor!Goto(Processor!SetSP(t, (t.sp + 2) % 256),
               Add16(CombineToU16(Processor!Pulled(t, 2), Processor!Pulled(t, 1)), 1))
<1>1. Processor!ImpliedEffect("RTS", t) =
        Processor!Goto(Processor!SetSP(t, (t.sp + 2) % 256),
          Processor!Add16(Processor!CombineToU16(Processor!Pulled(t, 2),
                                                 Processor!Pulled(t, 1)), 1))
  BY DEF Processor!ImpliedEffect, Processor!Unary, Processor!Counting
<1> QED
  BY <1>1, SameFlags, SameBits, SameMemory

LEMMA RTIArm ==
    ASSUME NEW t
    PROVE  Processor!ImpliedEffect("RTI", t) =
             Processor!SetStatus(
               Processor!Goto(Processor!SetSP(t, (t.sp + 3) % 256),
                 CombineToU16(Processor!Pulled(t, 3), Processor!Pulled(t, 2))),
               Bits(Processor!Pulled(t, 1)))
<1>1. Processor!ImpliedEffect("RTI", t) =
        Processor!SetStatus(
          Processor!Goto(Processor!SetSP(t, (t.sp + 3) % 256),
            Processor!CombineToU16(Processor!Pulled(t, 3), Processor!Pulled(t, 2))),
          Processor!Bits(Processor!Pulled(t, 1)))
  BY DEF Processor!ImpliedEffect, Processor!Unary, Processor!Counting
<1> QED
  BY <1>1, SameFlags, SameBits, SameMemory

LEMMA BreakArm ==
    ASSUME NEW t
    PROVE  Processor!ImpliedEffect("BRK", t) =
             Processor!Interrupted(t, Add16(t.pc, 1),
                                   t.status \cup {break_command, unused}, 65534)
<1>1. Processor!ImpliedEffect("BRK", t) =
        Processor!Interrupted(t, Processor!Add16(t.pc, 1),
                              t.status \cup {Processor!break_command, Processor!unused}, 65534)
  BY DEF Processor!ImpliedEffect, Processor!Unary, Processor!Counting
<1> QED
  BY <1>1, SameFlags, SameBits, SameMemory

-----------------------------------------------------------------------------
(* The frame of an interrupt, of BRK and of JSR.                           *)

\* Memory with one, two and three bytes of it.
First(s, w)    == Put(s.memory, 256 + s.sp, U16High(w))
Second(s, w)   == Put(First(s, w), 256 + Dec8(s.sp), U16Low(w))
Third(s, w, p) == Put(Second(s, w), 256 + Dec8(Dec8(s.sp)), FromBits(p))

LEMMA FrameBytes ==
    ASSUME NEW s, MachineState(s), NEW w, NEW p
    PROVE  LET one   == Processor!PushByte(s, U16High(w))
               two   == Processor!PushByte(one, U16Low(w))
               three == Processor!PushByte(two, FromBits(p))
           IN  /\ one = State(s.pc, Dec8(s.sp), s.reg, s.status, First(s, w))
               /\ two = State(s.pc, Dec8(Dec8(s.sp)), s.reg, s.status, Second(s, w))
               /\ three = State(s.pc, Dec8(Dec8(Dec8(s.sp))), s.reg, s.status,
                                Third(s, w, p))
<1> DEFINE one   == Processor!PushByte(s, U16High(w))
           two   == Processor!PushByte(one, U16Low(w))
           three == Processor!PushByte(two, FromBits(p))
<1>1. one = State(s.pc, Dec8(s.sp), s.reg, s.status, First(s, w))
  BY Pushes DEF MachineState, First
<1> HIDE DEF one
<1>2. two = State(s.pc, Dec8(Dec8(s.sp)), s.reg, s.status, Second(s, w))
  BY <1>1, Pushes DEF Second
<1> HIDE DEF two
<1>3. three = State(s.pc, Dec8(Dec8(Dec8(s.sp))), s.reg, s.status, Third(s, w, p))
  BY <1>2, Pushes DEF Third
<1> QED
  BY <1>1, <1>2, <1>3 DEF one, two

LEMMA StackedBytes ==
    ASSUME NEW s, MachineState(s), NEW w, NEW p
    PROVE  /\ Stacked(s, w, p, 0) <=> memory = s.memory /\ sp = s.sp
           /\ Stacked(s, w, p, 1) <=> memory = First(s, w) /\ sp = Dec8(s.sp)
           /\ Stacked(s, w, p, 2) <=> memory = Second(s, w) /\ sp = Dec8(Dec8(s.sp))
           /\ Stacked(s, w, p, 3) <=>
                memory = Third(s, w, p) /\ sp = Dec8(Dec8(Dec8(s.sp)))
           /\ Stacked(s, w, p, 1)' <=> memory' = First(s, w) /\ sp' = Dec8(s.sp)
           /\ Stacked(s, w, p, 2)' <=> memory' = Second(s, w) /\ sp' = Dec8(Dec8(s.sp))
           /\ Stacked(s, w, p, 3)' <=>
                memory' = Third(s, w, p) /\ sp' = Dec8(Dec8(Dec8(s.sp)))
<1> DEFINE one   == Processor!PushByte(s, U16High(w))
           two   == Processor!PushByte(one, U16Low(w))
           three == Processor!PushByte(two, FromBits(p))
<1>1. /\ one.memory = First(s, w) /\ one.sp = Dec8(s.sp)
      /\ two.memory = Second(s, w) /\ two.sp = Dec8(Dec8(s.sp))
      /\ three.memory = Third(s, w, p) /\ three.sp = Dec8(Dec8(Dec8(s.sp)))
  BY FrameBytes, Components
<1> HIDE DEF one, two, three
<1> QED
  BY <1>1 DEF Stacked, one, two, three

\* Each push adds the byte that is due.
LEMMA StackedPush ==
    ASSUME NEW s, MachineState(s), NEW w, NEW p
    PROVE  /\ Stacked(s, w, p, 0) /\ Push(U16High(w)) => Stacked(s, w, p, 1)'
           /\ Stacked(s, w, p, 1) /\ Push(U16Low(w)) => Stacked(s, w, p, 2)'
           /\ Stacked(s, w, p, 2) /\ Push(FromBits(p)) => Stacked(s, w, p, 3)'
           /\ \A n \in 0 .. 3 : Stacked(s, w, p, n) /\ UNCHANGED <<memory, sp>> =>
                                  Stacked(s, w, p, n)'
<1>1. \A a, v : Written(a, v) = Put(memory, a, v)
  BY WrittenIsPut
<1>2. \A n \in 0 .. 3 : Stacked(s, w, p, n) /\ UNCHANGED <<memory, sp>> =>
                          Stacked(s, w, p, n)'
  BY DEF Stacked
<1> QED
  BY <1>1, <1>2, StackedBytes DEF Push, First, Second, Third

LEMMA InterruptedState ==
    ASSUME NEW s, MachineState(s), NEW w, NEW p, NEW vector
    PROVE  Processor!Interrupted(s, w, p, vector) =
             State(WordAt(Third(s, w, p), vector), Dec8(Dec8(Dec8(s.sp))), s.reg,
                   p \cup {interrupt_disable}, Third(s, w, p))
<1> DEFINE q     == Dec8(Dec8(Dec8(s.sp)))
           mem   == Third(s, w, p)
           t     == State(s.pc, q, s.reg, s.status, mem)
           f     == p \cup {interrupt_disable}
<1>1. Processor!PushByte(Processor!PushWord(s, w), Processor!FromBits(p)) = t
  BY FrameBytes, SameMemory, SameBits DEF Processor!PushWord
<1>2. Processor!Interrupted(s, w, p, vector) =
        Processor!Goto(Processor!SetStatus(t, f), Processor!WordAt(t.memory, vector))
  BY <1>1, SameFlags DEF Processor!Interrupted
<1>3. t.memory = mem
  BY Components
<1> HIDE DEF q, mem, f
<1>4. Processor!SetStatus(t, f) = State(s.pc, q, s.reg, f, mem)
  BY Changes
<1> HIDE DEF t
<1> QED
  BY <1>2, <1>3, <1>4, Changes, SameWords DEF q, mem, f

LEMMA CallState ==
    ASSUME NEW s, MachineState(s)
    PROVE  LET w == Add16(s.pc, 2)
           IN  Processor!JumpToSubroutine(s) =
                 State(CombineToU16(Cell(Second(s, w), w), Operand(s)),
                       Dec8(Dec8(s.sp)), s.reg, s.status, Second(s, w))
<1> DEFINE w == Add16(s.pc, 2)
           t == State(s.pc, Dec8(Dec8(s.sp)), s.reg, s.status, Second(s, w))
<1>1. Processor!PushWord(s, Processor!Add16(s.pc, 2)) = t
  BY FrameBytes, SameMemory DEF Processor!PushWord
<1>2. t.memory = Second(s, w)
  BY Components
<1>3. Processor!JumpToSubroutine(s) =
        Processor!Goto(t, CombineToU16(Cell(t.memory, w), Operand(s)))
  BY <1>1, SameMemory, SameWords DEF Processor!JumpToSubroutine
<1> QED
  BY <1>2, <1>3, Changes

-----------------------------------------------------------------------------
(* What Addressing lists for the cycles of an instruction.                 *)

Access  == [kind : {"read", "write"}, address : Word]
Reading == [kind : {"read"}, address : Word]

LEMMA AccessType ==
    ASSUME NEW a \in Word
    PROVE  R(a) \in Access /\ R(a) \in Reading /\ W(a) \in Access
BY DEF Access, Reading, R, W

LEMMA Tuples ==
    ASSUME NEW S, NEW a \in S, NEW b \in S, NEW c \in S, NEW d \in S
    PROVE  /\ <<>> \in Seq(S) /\ Len(<<>>) = 0
           /\ <<a>> \in Seq(S) /\ Len(<<a>>) = 1 /\ <<a>>[1] = a
           /\ <<a, b>> \in Seq(S) /\ Len(<<a, b>>) = 2
           /\ <<a, b, c>> \in Seq(S) /\ Len(<<a, b, c>>) = 3
           /\ <<a, b, c>>[1] = a /\ <<a, b, c>>[2] = b /\ <<a, b, c>>[3] = c
           /\ <<a, b, c, d>> \in Seq(S) /\ Len(<<a, b, c, d>>) = 4
OBVIOUS

LEMMA Appended ==
    ASSUME NEW S, NEW p \in Seq(S), NEW q \in Seq(S)
    PROVE  /\ p \o q \in Seq(S) /\ Len(p \o q) = Len(p) + Len(q)
           /\ \A k \in 1 .. Len(p) : (p \o q)[k] = p[k]
           /\ \A k \in 1 .. Len(q) : (p \o q)[Len(p) + k] = q[k]
OBVIOUS

LEMMA Elements ==
    ASSUME NEW S, NEW T, S \subseteq T, NEW p \in Seq(S)
    PROVE  p \in Seq(T) /\ \A k \in 1 .. Len(p) : p[k] \in S
OBVIOUS

LEMMA ReadingIsAccess == Reading \subseteq Access
BY DEF Reading, Access

\* The address cycles are reads.
LEMMA AddressCyclesType ==
    ASSUME NEW s, MachineState(s), NEW mode \in OperandModes
    PROVE  /\ AddressCycles(mode, s) \in Seq(Reading)
           /\ Len(AddressCycles(mode, s)) = FirstAccess(mode) - 1
           /\ FirstAccess(mode) \in 1 .. 5
<1> DEFINE p  == U16Low(Operand(s) + s.reg["x"])
           f  == R(Add16(s.pc, 1))
           z  == R(Operand(s))
           r1 == R(p)
           r2 == R(Inc8(p))
           r3 == R(Inc8(Operand(s)))
           h  == R(Add16(s.pc, 2))
<1>1. Add16(s.pc, 1) \in Word /\ Add16(s.pc, 2) \in Word /\ Operand(s) \in Byte
  BY Add16Type, OperandType DEF MachineState
<1>2. p \in Byte
  BY IndexedPointerType DEF IndexedPointer, U16Low
<1>3. Inc8(p) \in Byte /\ Inc8(Operand(s)) \in Byte
  BY <1>1, <1>2, Inc8Type
<1>4. /\ f \in Reading /\ z \in Reading /\ r1 \in Reading /\ r2 \in Reading
      /\ r3 \in Reading /\ h \in Reading
  BY <1>1, <1>2, <1>3, ByteIsWord, AccessType
<1>5. CASE mode = "Immediate"
  BY <1>4, <1>5, Tuples DEF AddressCycles, FirstAccess
<1>6. CASE mode = "ZeroPage"
  <2>1. AddressCycles(mode, s) = <<f>> /\ FirstAccess(mode) = 2
    BY <1>6 DEF AddressCycles, FirstAccess
  <2> HIDE DEF f
  <2> QED
    BY <1>4, <2>1, Tuples
<1>7. CASE mode \in {"ZeroPageX", "ZeroPageY"}
  <2>1. AddressCycles(mode, s) = <<f, z>> /\ FirstAccess(mode) = 3
    BY <1>7 DEF AddressCycles, FirstAccess
  <2> HIDE DEF f, z
  <2> QED
    BY <1>4, <2>1, Tuples
<1>8. CASE mode = "XIndirect"
  <2>1. AddressCycles(mode, s) = <<f, z, r1, r2>> /\ FirstAccess(mode) = 5
    BY <1>8 DEF AddressCycles, FirstAccess
  <2> HIDE DEF f, z, r1, r2
  <2> QED
    BY <1>4, <2>1, Tuples
<1>9. CASE mode = "IndirectY"
  <2>1. AddressCycles(mode, s) = <<f, z, r3>> /\ FirstAccess(mode) = 4
    BY <1>9 DEF AddressCycles, FirstAccess
  <2> HIDE DEF f, z, r3
  <2> QED
    BY <1>4, <2>1, Tuples
<1>10. CASE mode \in {"Absolute", "AbsoluteX", "AbsoluteY"}
  <2>1. AddressCycles(mode, s) = <<f, h>> /\ FirstAccess(mode) = 3
    BY <1>10 DEF AddressCycles, FirstAccess
  <2> HIDE DEF f, h
  <2> QED
    BY <1>4, <2>1, Tuples
<1> QED
  BY <1>5, <1>6, <1>7, <1>8, <1>9, <1>10 DEF OperandModes

\* The data cycles: with the unfixed address first if the address settles.
LEMMA DataCyclesList ==
    ASSUME NEW s, MachineState(s), NEW i, HasOperand(i)
    PROVE  LET a       == Effective(i.mode, s)
               u       == Unfixed(i.mode, s)
               settles == IF i.name \in Stores \cup Unary THEN i.mode \in Indexed
                          ELSE Crosses(i.mode, s)
               n       == IF settles THEN 1 ELSE 0
               data    == DataCycles(i, s)
           IN  /\ data \in Seq(Access)
               /\ settles => data[1] = R(u)
               /\ i.name \in Loads \cup Binary => Len(data) = n + 1 /\ data[n + 1] = R(a)
               /\ i.name \in Stores => Len(data) = n + 1 /\ data[n + 1] = W(a)
               /\ i.name \in Unary => /\ Len(data) = n + 3 /\ data[n + 1] = R(a)
                                      /\ data[n + 2] = W(a) /\ data[n + 3] = W(a)
<1> DEFINE a       == Effective(i.mode, s)
           u       == Unfixed(i.mode, s)
           settles == IF i.name \in Stores \cup Unary THEN i.mode \in Indexed
                      ELSE Crosses(i.mode, s)
           n       == IF settles THEN 1 ELSE 0
           first   == IF settles THEN <<R(u)>> ELSE <<>>
           rest    == CASE i.name \in Stores -> <<W(a)>>
                        [] i.name \in Unary  -> <<R(a), W(a), W(a)>>
                        [] OTHER             -> <<R(a)>>
<1>1. DataCycles(i, s) = first \o rest
  BY DEF DataCycles
<1>2. a \in Word /\ u \in Word
  <2>1. U16High(Base(i.mode, s)) \in Byte /\ U16Low(Effective(i.mode, s)) \in Byte
    BY BaseType, EffectiveType, U16HighType, U16LowType, WordIsNat
  <2> QED
    BY <2>1, EffectiveType, CombineType DEF Unfixed
<1> HIDE DEF a, u
<1>3. R(a) \in Access /\ W(a) \in Access /\ R(u) \in Access
  BY <1>2, AccessType
<1>4. first \in Seq(Access) /\ Len(first) = n /\ (settles => first[1] = R(u))
  BY <1>3, Tuples
<1>5. i.name \in Loads \cup Binary => i.name \notin Stores /\ i.name \notin Unary
  BY DEF Loads, Stores, Binary, Unary
<1>6. i.name \in Stores => i.name \notin Unary
  BY DEF Stores, Unary
<1>7. /\ rest \in Seq(Access)
      /\ i.name \in Loads \cup Binary => rest = <<R(a)>>
      /\ i.name \in Stores => rest = <<W(a)>>
      /\ i.name \in Unary => rest = <<R(a), W(a), W(a)>>
  BY <1>3, <1>5, <1>6
<1> HIDE DEF first, rest, settles
<1>8. n \in Nat /\ (settles => n = 1)
  OBVIOUS
<1> HIDE DEF n
<1>9. /\ first \o rest \in Seq(Access) /\ Len(first \o rest) = n + Len(rest)
      /\ settles => (first \o rest)[1] = R(u)
      /\ \A k \in 1 .. Len(rest) : (first \o rest)[n + k] = rest[k]
  <2> HIDE DEF u
  <2>0. first \in Seq(Access) /\ rest \in Seq(Access)
    BY <1>4, <1>7
  <2>1. /\ first \o rest \in Seq(Access) /\ Len(first \o rest) = Len(first) + Len(rest)
        /\ \A k \in 1 .. Len(first) : (first \o rest)[k] = first[k]
        /\ \A k \in 1 .. Len(rest) : (first \o rest)[Len(first) + k] = rest[k]
    BY <2>0
  <2>2. settles => 1 \in 1 .. Len(first)
    BY <1>4, <1>8
  <2>3. settles => (first \o rest)[1] = R(u)
    BY <1>4, <2>1, <2>2
  <2> QED
    BY <1>4, <2>1, <2>3
<1>10. /\ i.name \in Loads \cup Binary => Len(rest) = 1 /\ rest[1] = R(a)
       /\ i.name \in Stores => Len(rest) = 1 /\ rest[1] = W(a)
       /\ i.name \in Unary => /\ Len(rest) = 3 /\ rest[1] = R(a)
                              /\ rest[2] = W(a) /\ rest[3] = W(a)
  BY <1>3, <1>7, Tuples
<1> DEFINE data == first \o rest
<1>11. /\ i.name \in Loads \cup Binary => Len(data) = n + 1 /\ data[n + 1] = R(a)
       /\ i.name \in Stores => Len(data) = n + 1 /\ data[n + 1] = W(a)
       /\ i.name \in Unary => /\ Len(data) = n + 3 /\ data[n + 1] = R(a)
                              /\ data[n + 2] = W(a) /\ data[n + 3] = W(a)
  <2>1. /\ Len(data) = n + Len(rest)
        /\ \A k \in 1 .. Len(rest) : data[n + k] = rest[k]
    BY <1>9
  <2> HIDE DEF data
  <2>2. ASSUME Len(rest) = 1
        PROVE  Len(data) = n + 1 /\ data[n + 1] = rest[1]
    BY <2>1, <2>2
  <2>3. ASSUME Len(rest) = 3
        PROVE  /\ Len(data) = n + 3 /\ data[n + 1] = rest[1]
               /\ data[n + 2] = rest[2] /\ data[n + 3] = rest[3]
    BY <2>1, <2>3
  <2> QED
    BY <1>10, <2>2, <2>3
<1> HIDE DEF data
<1>12. data \in Seq(Access) /\ (settles => data[1] = R(u)) /\ DataCycles(i, s) = data
  BY <1>1, <1>9 DEF data
<1> QED
  BY <1>11, <1>12 DEF a, u, settles, n

LEMMA AddressListed ==
    ASSUME NEW s, MachineState(s), NEW i, HasOperand(i), i.mode \in OperandModes,
           NEW k \in 1 .. FirstAccess(i.mode) - 1
    PROVE  /\ Accesses(i, s)[k] = AddressCycles(i.mode, s)[k]
           /\ Accesses(i, s)[k].kind = "read"
           /\ k < Len(Accesses(i, s))
<1> DEFINE p == AddressCycles(i.mode, s)
           q == DataCycles(i, s)
           n == FirstAccess(i.mode)
<1>1. p \in Seq(Reading) /\ Len(p) = n - 1 /\ n \in 1 .. 5
  BY AddressCyclesType
<1>2. p \in Seq(Access)
  BY <1>1, ReadingIsAccess, Elements
<1>3. q \in Seq(Access) /\ Len(q) >= 1
  BY DataCyclesList DEF HasOperand
<1>4. p[k].kind = "read"
  <2>1. k \in 1 .. Len(p)
    BY <1>1
  <2>2. p[k] \in Reading
    BY <1>1, <2>1, ReadingIsAccess, Elements
  <2> QED
    BY <2>2 DEF Reading
<1>5. Accesses(i, s) = p \o q
  BY DEF Accesses
<1> HIDE DEF p, q, n
<1>6. k \in 1 .. Len(p)
  BY <1>1 DEF n
<1>7. Len(p \o q) = Len(p) + Len(q) /\ (p \o q)[k] = p[k]
  BY <1>2, <1>3, <1>6, Appended
<1> QED
  BY <1>1, <1>3, <1>4, <1>5, <1>6, <1>7 DEF p, n

LEMMA DataListed ==
    ASSUME NEW s, MachineState(s), NEW i, HasOperand(i), i.mode \in OperandModes
    PROVE  LET a == Effective(i.mode, s)
               u == Unfixed(i.mode, s)
               n == FirstAccess(i.mode)
               q == Accesses(i, s)
           IN  /\ i.name \in Loads \cup Binary =>
                    /\ ~Crosses(i.mode, s) => Len(q) = n /\ q[n] = R(a)
                    /\ Crosses(i.mode, s) => Len(q) = n + 1 /\ q[n] = R(u) /\ q[n + 1] = R(a)
               /\ i.name \in Stores =>
                    /\ i.mode \notin Indexed => Len(q) = n /\ q[n] = W(a)
                    /\ i.mode \in Indexed => Len(q) = n + 1 /\ q[n] = R(u) /\ q[n + 1] = W(a)
               /\ i.name \in Unary =>
                    LET f == IF i.mode \in Indexed THEN n + 1 ELSE n
                    IN  /\ Len(q) = f + 2
                        /\ i.mode \in Indexed => q[n] = R(u)
                        /\ q[f] = R(a) /\ q[f + 1] = W(a) /\ q[f + 2] = W(a)
<1> DEFINE a == Effective(i.mode, s)
           u == Unfixed(i.mode, s)
           n == FirstAccess(i.mode)
           q == Accesses(i, s)
           p == AddressCycles(i.mode, s)
           d == DataCycles(i, s)
           settles == IF i.name \in Stores \cup Unary THEN i.mode \in Indexed
                      ELSE Crosses(i.mode, s)
           m == IF settles THEN 1 ELSE 0
<1>1. p \in Seq(Reading) /\ Len(p) = n - 1 /\ n \in 1 .. 5
  BY AddressCyclesType
<1>2. p \in Seq(Access)
  BY <1>1, ReadingIsAccess, Elements
<1>3. /\ d \in Seq(Access)
      /\ settles => d[1] = R(u)
      /\ i.name \in Loads \cup Binary => Len(d) = m + 1 /\ d[m + 1] = R(a)
      /\ i.name \in Stores => Len(d) = m + 1 /\ d[m + 1] = W(a)
      /\ i.name \in Unary => /\ Len(d) = m + 3 /\ d[m + 1] = R(a)
                             /\ d[m + 2] = W(a) /\ d[m + 3] = W(a)
  BY DataCyclesList
<1>4. q = p \o d
  BY DEF Accesses
<1>5. i.name \in Loads \cup Binary => i.name \notin Stores \cup Unary
  BY DEF Loads, Stores, Binary, Unary
<1> HIDE DEF a, u, n, q, p, d
<1>6. Len(q) = n - 1 + Len(d) /\ \A k \in 1 .. Len(d) : q[n - 1 + k] = d[k]
  BY <1>1, <1>2, <1>3, <1>4, Appended
<1>10. /\ n - 1 + 1 = n /\ n - 1 + 2 = n + 1 /\ n - 1 + 3 = n + 2 /\ n - 1 + 4 = n + 3
       /\ n + 1 + 1 = n + 2 /\ n + 1 + 2 = n + 3
  BY <1>1
<1>7. CASE i.name \in Loads \cup Binary
  <2>1. CASE Crosses(i.mode, s)
    <3>1. Len(d) = 2 /\ d[1] = R(u) /\ d[2] = R(a)
      BY <1>3, <1>5, <1>7, <2>1
    <3>2. Len(q) = n + 1 /\ q[n] = R(u) /\ q[n + 1] = R(a)
      BY <1>1, <1>6, <1>10, <3>1
    <3> QED
      BY <1>1, <1>10, <1>5, <1>7, <2>1, <3>2 DEF a, u, n, q
  <2>2. CASE ~Crosses(i.mode, s)
    <3>1. Len(d) = 1 /\ d[1] = R(a)
      BY <1>3, <1>5, <1>7, <2>2
    <3>2. Len(q) = n /\ q[n] = R(a)
      BY <1>1, <1>6, <1>10, <3>1
    <3> QED
      BY <1>1, <1>10, <1>5, <1>7, <2>2, <3>2 DEF a, u, n, q
  <2> QED
    BY <2>1, <2>2
<1>8. CASE i.name \in Stores
  <2>0. i.name \notin Loads \cup Binary \cup Unary
    BY <1>8 DEF Loads, Stores, Binary, Unary
  <2>1. CASE i.mode \in Indexed
    <3>1. Len(d) = 2 /\ d[1] = R(u) /\ d[2] = W(a)
      BY <1>3, <1>8, <2>1
    <3>2. Len(q) = n + 1 /\ q[n] = R(u) /\ q[n + 1] = W(a)
      BY <1>1, <1>6, <1>10, <3>1
    <3> QED
      BY <1>1, <1>10, <1>8, <2>0, <2>1, <3>2 DEF a, u, n, q
  <2>2. CASE i.mode \notin Indexed
    <3>1. Len(d) = 1 /\ d[1] = W(a)
      BY <1>3, <1>8, <2>2
    <3>2. Len(q) = n /\ q[n] = W(a)
      BY <1>1, <1>6, <1>10, <3>1
    <3> QED
      BY <1>1, <1>10, <1>8, <2>0, <2>2, <3>2 DEF a, u, n, q
  <2> QED
    BY <2>1, <2>2
<1>9. CASE i.name \in Unary
  <2>0. i.name \notin Loads \cup Binary \cup Stores
    BY <1>9 DEF Loads, Stores, Binary, Unary
  <2>1. CASE i.mode \in Indexed
    <3>1. Len(d) = 4 /\ d[1] = R(u) /\ d[2] = R(a) /\ d[3] = W(a) /\ d[4] = W(a)
      BY <1>3, <1>9, <2>1
    <3>2. /\ Len(q) = n + 3 /\ q[n] = R(u) /\ q[n + 1] = R(a)
          /\ q[n + 2] = W(a) /\ q[n + 3] = W(a)
      BY <1>1, <1>6, <1>10, <3>1
    <3> QED
      BY <1>1, <1>10, <1>9, <2>0, <2>1, <3>2 DEF a, u, n, q
  <2>2. CASE i.mode \notin Indexed
    <3>1. Len(d) = 3 /\ d[1] = R(a) /\ d[2] = W(a) /\ d[3] = W(a)
      BY <1>3, <1>9, <2>2
    <3>2. /\ Len(q) = n + 2 /\ q[n] = R(a) /\ q[n + 1] = W(a)
          /\ q[n + 2] = W(a)
      BY <1>1, <1>6, <1>10, <3>1
    <3> QED
      BY <1>1, <1>10, <1>9, <2>0, <2>2, <3>2 DEF a, u, n, q
  <2> QED
    BY <2>1, <2>2
<1> QED
  BY <1>7, <1>8, <1>9 DEF HasOperand

-----------------------------------------------------------------------------
(* The instruction table gives every mnemonic its modes.                   *)

Mnemonics ==
    Loads \cup Binary \cup Stores \cup Unary \cup Counting \cup Branches
      \cup TransferNames \cup FlagNames
      \cup {"PHA", "PHP", "PLA", "PLP", "RTS", "RTI", "BRK", "JSR", "JMP"}

Entry(i) ==
    /\ i.name \in Mnemonics
    /\ i.name \in Loads \cup Binary => i.mode \in OperandModes
    /\ i.name \in Stores => i.mode \in OperandModes \ {"Immediate"}
    /\ i.name \in Unary =>
         i.mode \in {"Implied", "ZeroPage", "ZeroPageX", "Absolute", "AbsoluteX"}
    /\ i.name \in Counting => i.mode = "Implied"
    /\ i.name = "JMP" => i.mode \in {"Absolute", "Indirect"}
    /\ i.name \in Branches <=> i.mode = "Relative"
    /\ i.name \in Branches => i.cycles = 2

LEMMA TableEntries == \A i \in Implemented : Entry(i)
<1> USE DEF E, Entry, Loads, Binary, Stores, Unary, Counting, Branches, OperandModes,
            Mnemonics, TransferNames, FlagNames
<1>1. \A i \in StackInstructions : Entry(i)
  BY DEF StackInstructions
<1>2. \A i \in LoadInstructions : Entry(i)
  BY DEF LoadInstructions
<1>3. \A i \in StoreInstructions : Entry(i)
  BY DEF StoreInstructions
<1>4. \A i \in TransferInstructions : Entry(i)
  BY DEF TransferInstructions
<1>5. \A i \in LogicalInstructions : Entry(i)
  BY DEF LogicalInstructions
<1>6. \A i \in ArithmeticInstructions : Entry(i)
  BY DEF ArithmeticInstructions
<1>7. \A i \in CompareInstructions : Entry(i)
  BY DEF CompareInstructions
<1>8. \A i \in CountInstructions : Entry(i)
  BY DEF CountInstructions
<1>9. \A i \in ShiftInstructions : Entry(i)
  BY DEF ShiftInstructions
<1>10. \A i \in JumpInstructions : Entry(i)
  BY DEF JumpInstructions
<1>11. \A i \in BranchInstructions : Entry(i)
  BY DEF BranchInstructions
<1>12. \A i \in FlagInstructions : Entry(i)
  BY DEF FlagInstructions
<1>13. \A i \in SystemInstructions : Entry(i)
  BY DEF SystemInstructions
<1> QED
  BY <1>1, <1>2, <1>3, <1>4, <1>5, <1>6, <1>7, <1>8, <1>9, <1>10, <1>11, <1>12, <1>13
  DEF Implemented

LEMMA InstructionEntry ==
    ASSUME NEW opcode \in Opcodes
    PROVE  Row(Instructions[opcode]) /\ Entry(Instructions[opcode])
<1>1. PICK i \in Implemented : i.opcode = opcode
  BY DEF Opcodes
<1>2. Instructions[opcode] =
        CHOOSE j \in Implemented \cup {InvalidInstruction} : j.opcode = opcode
  BY DEF Instructions
<1>3. /\ Instructions[opcode] \in Implemented \cup {InvalidInstruction}
      /\ Instructions[opcode].opcode = opcode
  BY <1>1, <1>2
<1>4. opcode # 255
  BY <1>1, TableRows DEF Row
<1>5. Instructions[opcode] \in Implemented
  BY <1>3, <1>4 DEF InvalidInstruction, E
<1> QED
  BY <1>5, TableRows, TableEntries

\* The routines are dispatched with the register and the function of IsaSpec.
LEMMA Dispatched ==
    /\ LoadNames = Loads /\ StoreNames = Stores /\ OperationNames = Binary
    /\ ModifyNames = Unary /\ ImpliedNames = Unary \cup Counting
    /\ \A name \in Loads \cup Stores \cup Binary \cup Unary \cup Counting :
         RegisterOf(name) = Subject(name) /\ Subject(name) \in Reg
    /\ \A name \in Binary \cup Unary \cup Counting :
         OperationOf(name) = Function(name) /\ Function(name) \in Operation
    /\ \A mode : IndexOf(mode) = reg[IndexRegister(mode)]
<1>1. /\ LoadNames = Loads /\ StoreNames = Stores /\ OperationNames = Binary
      /\ ModifyNames = Unary /\ ImpliedNames = Unary \cup Counting
  BY DEF LoadNames, Loads, StoreNames, Stores, OperationNames, Binary, ModifyNames, Unary,
         ImpliedNames, Counting
<1>2. \A name \in Loads \cup Stores \cup Binary \cup Unary \cup Counting :
         RegisterOf(name) = Subject(name) /\ Subject(name) \in Reg
  BY DEF RegisterOf, Subject, Reg, Loads, Stores, Binary, Unary, Counting
<1>3. \A name \in Binary \cup Unary \cup Counting :
         OperationOf(name) = Function(name) /\ Function(name) \in Operation
  BY DEF OperationOf, Function, Operation, Binary, Unary, Counting
<1>4. \A mode : IndexOf(mode) = reg[IndexRegister(mode)]
  BY DEF IndexOf, IndexRegister
<1> QED
  BY <1>1, <1>2, <1>3, <1>4

-----------------------------------------------------------------------------
(* The cycles that access the operand.                                     *)

\* An instruction with an operand, at one of its cycles.
OperandUnderway(i, s) ==
    /\ MachineType /\ MachineState(s)
    /\ Row(i) /\ Entry(i) /\ HasOperand(i)
    /\ InstructionInProgress(i)
    /\ At(1) => Advanced(s, 1) /\ Kept(s)
    /\ OperandProgress(i, s)

\* The body of BusProtocol.
Accessed(i, s) ==
    LET accesses == Accesses(i, s)
        access   == accesses[instruction_cycle]
    IN  /\ addr' = access.address
        /\ memory' # memory => access.kind = "write"
        /\ access.kind = "write" => memory' = Written(addr', memory'[addr'])
        /\ instruction_cycle' = 0 <=> instruction_cycle = Len(accesses)

\* A cycle of any instruction brings it a step further or is its last.
Resumes(i, s) ==
    instruction_cycle' = instruction_cycle + 1 /\ InstructionBegun(i, s)'

Completes(i, s) ==
    /\ instruction_cycle' = 0
    /\ Machine' = Processor!Effect(i, s)
    /\ instruction_cycle + 1 = i.cycles + Processor!Penalty(i, s)

OperandPerformed(i, s) == (Resumes(i, s) \/ Completes(i, s)) /\ Accessed(i, s)

LEMMA OperandCycles ==
    ASSUME NEW i, NEW s, OperandUnderway(i, s)
    PROVE  LET n == FirstAccess(i.mode)
               f == IF i.mode \in Indexed THEN n + 1 ELSE n
           IN  /\ i.mode \in OperandModes /\ n \in 1 .. 5
               /\ instruction_cycle \in 1 .. LastCycle(i)
               /\ i.name \in Loads \cup Binary => i.cycles = n + 1 /\ LastCycle(i) = f
               /\ i.name \in Stores => i.cycles = f + 1 /\ LastCycle(i) = f
               /\ i.name \in Unary => i.cycles = f + 3 /\ LastCycle(i) = f + 2
<1>1. i.mode \in OperandModes
  BY DEF OperandUnderway, Entry, HasOperand, OperandModes
<1>2. instruction_cycle \in 1 .. LastCycle(i)
  BY DEF OperandUnderway, InstructionInProgress, InProgress
<1>3. CASE i.name \in Loads \cup Binary
  <2>1. i.name \notin Stores \cup Unary
    BY <1>3 DEF Loads, Stores, Binary, Unary
  <2> QED
    BY <1>1, <1>2, <1>3, <2>1, Dispatched
    DEF OperandUnderway, Row, ReadRow, FirstAccess, OperandModes, LastCycle, IndexedRead,
        IndexedModes, Indexed
<1>4. CASE i.name \in Stores
  <2>1. i.name \notin Loads \cup Binary \cup Unary
    BY <1>4 DEF Loads, Stores, Binary, Unary
  <2>2. i.mode # "Immediate"
    BY <1>4 DEF OperandUnderway, Entry
  <2> QED
    BY <1>1, <1>2, <1>4, <2>1, <2>2, Dispatched
    DEF OperandUnderway, Row, StoreRow, FirstAccess, OperandModes, LastCycle, IndexedRead,
        IndexedModes, Indexed
<1>5. CASE i.name \in Unary
  <2>1. i.name \notin Loads \cup Binary \cup Stores
    BY <1>5 DEF Loads, Stores, Binary, Unary
  <2>2. i.mode \in {"ZeroPage", "ZeroPageX", "Absolute", "AbsoluteX"}
    BY <1>5 DEF OperandUnderway, Entry, HasOperand
  <2> QED
    BY <1>1, <1>2, <1>5, <2>1, <2>2, Dispatched
    DEF OperandUnderway, Row, ModifyRow, FirstAccess, OperandModes, LastCycle, IndexedRead,
        IndexedModes, Indexed
<1> QED
  BY <1>3, <1>4, <1>5 DEF OperandUnderway, HasOperand

\* Where the latches point at the first access and after it.
LEMMA AimedAt ==
    ASSUME NEW i, NEW s, OperandUnderway(i, s), From(FirstAccess(i.mode)),
           i.mode \notin Indexed
    PROVE  LET a == Effective(i.mode, s)
           IN  /\ i.mode = "Immediate" => pc = a /\ Inc16(pc) = Add16(s.pc, Length(i.mode))
               /\ i.mode # "Immediate" => pc = Add16(s.pc, Length(i.mode))
               /\ i.mode \in {"ZeroPage", "ZeroPageX", "ZeroPageY"} => ZP = a
               /\ i.mode \in {"Absolute", "XIndirect"} => EA = a
<1>1. i.mode \in OperandModes /\ instruction_cycle \in 1 .. LastCycle(i)
  BY OperandCycles
<1>2. Aimed(i.mode, s)
  BY DEF OperandUnderway, OperandProgress
<1>3. CASE i.mode = "Immediate"
  <2>1. LastCycle(i) = 1 /\ FirstAccess(i.mode) = 1
    BY <1>3, OperandCycles DEF FirstAccess, Indexed, OperandUnderway, HasOperand, Entry
  <2>2. pc = Add16(s.pc, 1)
    BY <1>1, <2>1 DEF OperandUnderway, Advanced, At
  <2> QED
    BY <1>3, <2>2, NextBytes DEF OperandUnderway, MachineState, Effective, Length
<1>4. CASE i.mode = "Absolute"
  BY <1>1, <1>2, <1>4 DEF FirstAccess, Aimed, From, Advanced, Length
<1>5. CASE i.mode \in {"ZeroPage", "ZeroPageX", "ZeroPageY", "XIndirect"}
  BY <1>1, <1>2, <1>5 DEF FirstAccess, Aimed, From, Advanced, Length, Effective
<1> QED
  BY <1>1, <1>3, <1>4, <1>5 DEF OperandModes, Indexed

LEMMA CarriedAt ==
    ASSUME NEW i, NEW s, OperandUnderway(i, s), i.mode \in Indexed
    PROVE  LET n == FirstAccess(i.mode)
               a == Effective(i.mode, s)
           IN  /\ From(n) => pc = Add16(s.pc, Length(i.mode))
               /\ At(n) => EA = Unfixed(i.mode, s) /\ page_crossed = Crosses(i.mode, s)
               /\ At(n) /\ Crosses(i.mode, s) =>
                    CombineToU16(WithCarry["adh"], WithCarry["adl"]) = a
               /\ ~Crosses(i.mode, s) => Unfixed(i.mode, s) = a
               /\ From(n + 1) => EA = a
<1> DEFINE b == Base(i.mode, s)
           x == s.reg[IndexRegister(i.mode)]
           low == U16Low(U16Low(b) + x)
<1>1. /\ Unfixed(i.mode, s) = CombineToU16(U16High(b), low)
      /\ Effective(i.mode, s) =
           CombineToU16(IF Crosses(i.mode, s) THEN Inc8(U16High(b)) ELSE U16High(b), low)
  BY IndexedAddressBytes DEF OperandUnderway
<1>2. Aimed(i.mode, s) /\ Carried(i.mode, s)
  BY DEF OperandUnderway, OperandProgress
<1>3. From(FirstAccess(i.mode)) => pc = Add16(s.pc, Length(i.mode))
  <2>1. instruction_cycle \in Nat
    BY OperandCycles DEF OperandUnderway, InstructionInProgress, InProgress
  <2> QED
    BY <1>2, <2>1 DEF Indexed, Aimed, From, FirstAccess, Advanced, Length
<1>4. At(FirstAccess(i.mode)) /\ Crosses(i.mode, s) =>
        CombineToU16(WithCarry["adh"], WithCarry["adl"]) = Effective(i.mode, s)
  <2> SUFFICES ASSUME At(FirstAccess(i.mode)), Crosses(i.mode, s)
               PROVE  CombineToU16(WithCarry["adh"], WithCarry["adl"]) =
                        Effective(i.mode, s)
    OBVIOUS
  <2>1. CombineToU16(latch["adh"], latch["adl"]) = CombineToU16(U16High(b), low)
    BY <1>1, <1>2 DEF Carried, EA
  <2>2. /\ latch["adh"] \in Byte /\ latch["adl"] \in Byte
        /\ WithCarry["adh"] = Inc8(latch["adh"]) /\ WithCarry["adl"] = latch["adl"]
    BY DEF OperandUnderway, MachineType, Latch, WithCarry
  <2>3. U16High(b) \in Byte /\ low \in Byte
    <3>1. b \in Word /\ x \in Byte
      BY BaseType, IndexType DEF OperandUnderway
    <3>2. U16Low(b) + x \in Nat
      BY <3>1, U16LowType, WordIsNat DEF Byte
    <3> QED
      BY <3>1, <3>2, U16HighType, U16LowType
  <2> HIDE DEF b, low
  <2>4. latch["adh"] = U16High(b) /\ latch["adl"] = low
    BY <2>1, <2>2, <2>3, CombineParts
  <2> QED
    BY <1>1, <2>2, <2>4 DEF b, low
<1> QED
  BY <1>1, <1>2, <1>3, <1>4 DEF Carried

\* Of an instruction with an operand, InstructionBegun says OperandProgress.
LEMMA OperandBegun ==
    ASSUME NEW i, NEW s, HasOperand(i)
    PROVE  /\ InstructionBegun(i, s) <=>
                (At(1) => Advanced(s, 1) /\ Kept(s)) /\ OperandProgress(i, s)
           /\ InstructionBegun(i, s)' <=>
                (At(1)' => Advanced(s, 1)' /\ Kept(s)') /\ OperandProgress(i, s)'
<1>1. /\ i.name \notin {"PHA", "PHP", "PLA", "PLP"} /\ i.name \notin Branches
      /\ i.name # "RTS" /\ i.name # "RTI" /\ i.name # "BRK" /\ i.name # "JSR"
      /\ i.name # "JMP"
  BY DEF HasOperand, Loads, Stores, Binary, Unary, Branches
<1> QED
  BY <1>1 DEF InstructionBegun

\* The addressing cycles.
LEMMA AddressingPerformed ==
    ASSUME NEW i, NEW s, OperandUnderway(i, s), Addressed(i.mode, s)
    PROVE  OperandPerformed(i, s)
<1> DEFINE n == FirstAccess(i.mode)
           k == instruction_cycle
<1>1. /\ i.mode \in OperandModes /\ n \in 1 .. 5 /\ k \in 1 .. LastCycle(i) /\ k < n
      /\ k' = k + 1
  BY OperandCycles DEF Addressed
<1>2. UNCHANGED <<sp, reg, status, memory>> /\ Aimed(i.mode, s)' /\ Carried(i.mode, s)'
  BY DEF Addressed
<1>3. ~From(n + 1) /\ ~From(n + 1)'
  BY <1>1 DEF From
<1>4. ReadProgress(i, s) => ReadProgress(i, s)'
  BY <1>2, <1>3 DEF ReadProgress
<1>5. Kept(s) => Kept(s)'
  BY <1>2 DEF Kept
<1>6. i.name \in Unary => (ModifyProgress(i, s) => ModifyProgress(i, s)')
  <2> SUFFICES ASSUME i.name \in Unary, ModifyProgress(i, s) PROVE ModifyProgress(i, s)'
    OBVIOUS
  <2>1. n <= i.cycles - 3 /\ i.cycles - 3 \in Nat
    BY <1>1, OperandCycles DEF OperandUnderway, Row
  <2>2. k <= i.cycles - 3 + 1 /\ k' <= i.cycles - 3
    BY <1>1, <2>1
  <2> HIDE DEF k
  <2>3. ~At(i.cycles - 3 + 1)' /\ ~At(i.cycles - 3 + 2)'
    BY <2>1, <2>2 DEF At, k
  <2> QED
    BY <1>2, <2>2, <2>3 DEF ModifyProgress, k
<1>7. OperandProgress(i, s)'
  BY <1>2, <1>4, <1>5, <1>6 DEF OperandUnderway, OperandProgress
<1>8. Resumes(i, s)
  <2>1. ~At(1)'
    BY <1>1 DEF At
  <2> QED
    BY <1>1, <1>7, <2>1, OperandBegun DEF Resumes, OperandUnderway
<1>9. /\ Accesses(i, s)[k] = AddressCycles(i.mode, s)[k]
      /\ Accesses(i, s)[k].kind = "read"
      /\ k < Len(Accesses(i, s))
  <2>1. k \in 1 .. n - 1
    BY <1>1
  <2> QED
    BY <1>1, <2>1, AddressListed DEF OperandUnderway
<1>10. Accessed(i, s)
  BY <1>1, <1>2, <1>9 DEF Accessed, Addressed
<1> QED
  BY <1>8, <1>10 DEF OperandPerformed

\* An access of the list, and the last of them.
Listed(i, s, access) ==
    /\ Accesses(i, s)[instruction_cycle] = access
    /\ instruction_cycle # Len(Accesses(i, s))

LastListed(i, s, access) ==
    /\ Accesses(i, s)[instruction_cycle] = access
    /\ instruction_cycle = Len(Accesses(i, s))
    /\ instruction_cycle + 1 = i.cycles + Processor!Penalty(i, s)

LEMMA ReadListed ==
    ASSUME NEW i, NEW s, OperandUnderway(i, s), i.name \in Loads \cup Binary
    PROVE  LET n == FirstAccess(i.mode)
           IN  /\ At(n) /\ ~Crosses(i.mode, s) => LastListed(i, s, R(Effective(i.mode, s)))
               /\ At(n) /\ Crosses(i.mode, s) => Listed(i, s, R(Unfixed(i.mode, s)))
               /\ At(n + 1) => Crosses(i.mode, s)
               /\ At(n + 1) => LastListed(i, s, R(Effective(i.mode, s)))
<1> DEFINE n == FirstAccess(i.mode)
<1>1. i.mode \in OperandModes /\ n \in 1 .. 5 /\ i.cycles = n + 1
  BY OperandCycles
<1>2. /\ ~Crosses(i.mode, s) => /\ Len(Accesses(i, s)) = n
                                /\ Accesses(i, s)[n] = R(Effective(i.mode, s))
      /\ Crosses(i.mode, s) => /\ Len(Accesses(i, s)) = n + 1
                               /\ Accesses(i, s)[n] = R(Unfixed(i.mode, s))
                               /\ Accesses(i, s)[n + 1] = R(Effective(i.mode, s))
  BY <1>1, DataListed DEF OperandUnderway
<1>3. At(n + 1) => Crosses(i.mode, s)
  <2>1. From(n + 1) => Crosses(i.mode, s)
    BY DEF OperandUnderway, OperandProgress, ReadProgress
  <2> QED
    BY <1>1, <2>1 DEF At, From
<1>4. Processor!Penalty(i, s) = IF Crosses(i.mode, s) THEN 1 ELSE 0
  <2>1. i.name \notin Branches
    BY DEF Loads, Binary, Branches
  <2> QED
    BY <2>1, SameNames, SameAddress DEF Processor!Penalty
<1> QED
  BY <1>1, <1>2, <1>3, <1>4 DEF At, Listed, LastListed

LEMMA StoreListed ==
    ASSUME NEW i, NEW s, OperandUnderway(i, s), i.name \in Stores
    PROVE  LET n == FirstAccess(i.mode)
           IN  /\ At(n) /\ i.mode \notin Indexed =>
                    LastListed(i, s, W(Effective(i.mode, s)))
               /\ At(n) /\ i.mode \in Indexed => Listed(i, s, R(Unfixed(i.mode, s)))
               /\ At(n + 1) => LastListed(i, s, W(Effective(i.mode, s)))
<1> DEFINE n == FirstAccess(i.mode)
<1>1. /\ i.mode \in OperandModes /\ n \in 1 .. 5
      /\ i.mode \in Indexed => i.cycles = n + 2
      /\ i.mode \notin Indexed => i.cycles = n + 1
      /\ At(n + 1) => i.mode \in Indexed
  BY OperandCycles DEF At
<1>2. /\ i.mode \notin Indexed => /\ Len(Accesses(i, s)) = n
                                  /\ Accesses(i, s)[n] = W(Effective(i.mode, s))
      /\ i.mode \in Indexed => /\ Len(Accesses(i, s)) = n + 1
                               /\ Accesses(i, s)[n] = R(Unfixed(i.mode, s))
                               /\ Accesses(i, s)[n + 1] = W(Effective(i.mode, s))
  BY <1>1, DataListed DEF OperandUnderway
<1>3. i.name \notin Loads \cup Binary /\ i.name \notin Branches
  BY DEF Loads, Stores, Binary, Branches
<1>4. Processor!Penalty(i, s) = 0
  BY <1>3, SameNames DEF Processor!Penalty
<1> QED
  BY <1>1, <1>2, <1>4 DEF At, Listed, LastListed

LEMMA ModifyListed ==
    ASSUME NEW i, NEW s, OperandUnderway(i, s), i.name \in Unary
    PROVE  LET n == FirstAccess(i.mode)
               f == IF i.mode \in Indexed THEN n + 1 ELSE n
           IN  /\ f = i.cycles - 3
               /\ At(n) /\ i.mode \in Indexed => Listed(i, s, R(Unfixed(i.mode, s)))
               /\ At(f) => Listed(i, s, R(Effective(i.mode, s)))
               /\ At(f + 1) => Listed(i, s, W(Effective(i.mode, s)))
               /\ At(f + 2) => LastListed(i, s, W(Effective(i.mode, s)))
<1> DEFINE n == FirstAccess(i.mode)
           f == IF i.mode \in Indexed THEN n + 1 ELSE n
<1>1. i.mode \in OperandModes /\ n \in 1 .. 5 /\ i.cycles = f + 3
  BY OperandCycles
<1>2. /\ Len(Accesses(i, s)) = f + 2
      /\ i.mode \in Indexed => Accesses(i, s)[n] = R(Unfixed(i.mode, s))
      /\ Accesses(i, s)[f] = R(Effective(i.mode, s))
      /\ Accesses(i, s)[f + 1] = W(Effective(i.mode, s))
      /\ Accesses(i, s)[f + 2] = W(Effective(i.mode, s))
  BY <1>1, DataListed DEF OperandUnderway
<1>3. i.name \notin Loads \cup Binary /\ i.name \notin Branches
  BY DEF Loads, Unary, Binary, Branches
<1>4. Processor!Penalty(i, s) = 0
  BY <1>3, SameNames DEF Processor!Penalty
<1>5. f \in Nat /\ i.cycles \in Nat /\ n \in Nat /\ (i.mode \in Indexed => f = n + 1)
  BY <1>1
<1> HIDE DEF f, n
<1>6. f = i.cycles - 3
  BY <1>1, <1>5
<1>7. /\ At(n) /\ i.mode \in Indexed => Listed(i, s, R(Unfixed(i.mode, s)))
      /\ At(f) => Listed(i, s, R(Effective(i.mode, s)))
      /\ At(f + 1) => Listed(i, s, W(Effective(i.mode, s)))
      /\ At(f + 2) => LastListed(i, s, W(Effective(i.mode, s)))
  BY <1>1, <1>2, <1>4, <1>5 DEF At, Listed, LastListed
<1> QED
  BY <1>6, <1>7 DEF f, n

\* A value loaded twice leaves what the second load leaves.
LEMMA SecondLoad ==
    /\ \A t, v, w : SetZNFlags(SetZNFlags(t, v), w) = SetZNFlags(t, w)
    /\ \A q, r, v, w : [[q EXCEPT ![r] = v] EXCEPT ![r] = w] = [q EXCEPT ![r] = w]
<1>1. ASSUME NEW t, NEW v, NEW w
      PROVE  SetZNFlags(SetZNFlags(t, v), w) = SetZNFlags(t, w)
  BY DEF SetZNFlags, SetFlag, zero, negative
<1>2. ASSUME NEW q, NEW r, NEW v, NEW w
      PROVE  [[q EXCEPT ![r] = v] EXCEPT ![r] = w] = [q EXCEPT ![r] = w]
  OBVIOUS
<1> QED
  BY <1>1, <1>2

LEMMA ReadAccessed ==
    ASSUME NEW i, NEW s, NEW a, LastListed(i, s, R(a)) \/ Listed(i, s, R(a)),
           addr' = a, memory' = memory,
           instruction_cycle' = 0 <=> LastListed(i, s, R(a))
    PROVE  Accessed(i, s)
BY DEF Accessed, LastListed, Listed, R

LEMMA WriteAccessed ==
    ASSUME NEW i, NEW s, NEW a, NEW v, MachineType,
           LastListed(i, s, W(a)) \/ Listed(i, s, W(a)),
           addr' = a, memory' = Written(a, v),
           instruction_cycle' = 0 <=> LastListed(i, s, W(a))
    PROVE  Accessed(i, s)
<1>1. memory'[a] = v
  BY DEF Written
<1> QED
  BY <1>1 DEF Accessed, LastListed, Listed, W

LEMMA LoadPerformed ==
    ASSUME NEW i, NEW s, OperandUnderway(i, s), i.name \in Loads,
           NEW a, a = Effective(i.mode, s), NEW r, r = Subject(i.name),
           reg' = [reg EXCEPT ![r] = Read(a)],
           status' = SetZNFlags(status, Read(a)),
           pc' = Add16(s.pc, Length(i.mode)), UNCHANGED <<sp, memory>>,
           addr' = a, instruction_cycle' = 0, LastListed(i, s, R(a))
    PROVE  OperandPerformed(i, s)
<1>1. i.mode \in OperandModes
  BY OperandCycles
<1>2. /\ sp = s.sp /\ memory = s.memory
      /\ \/ reg = s.reg /\ status = s.status
         \/ reg = [s.reg EXCEPT ![r] = reg[r]] /\ status = SetZNFlags(s.status, reg[r])
  BY DEF OperandUnderway, OperandProgress, ReadProgress
<1> DEFINE v == Read(a)
<1>3. v = Cell(s.memory, a)
  BY <1>2, ReadIsCell
<1> HIDE DEF v
<1>4. reg' = [s.reg EXCEPT ![r] = v]
  <2>1. reg' = [reg EXCEPT ![r] = v]
    BY DEF v
  <2>2. CASE reg = s.reg
    BY <2>1, <2>2
  <2>3. CASE reg = [s.reg EXCEPT ![r] = reg[r]]
    <3>1. PICK w : w = reg[r]
      OBVIOUS
    <3>2. reg' = [[s.reg EXCEPT ![r] = w] EXCEPT ![r] = v]
      BY <2>1, <2>3, <3>1
    <3> QED
      BY <3>2, SecondLoad
  <2> QED
    BY <1>2, <2>2, <2>3
<1>5. status' = SetZNFlags(s.status, v)
  BY <1>2, SecondLoad DEF v
<1>6. Machine' = State(Add16(s.pc, Length(i.mode)), s.sp, [s.reg EXCEPT ![r] = v],
                       SetZNFlags(s.status, v), s.memory)
  BY <1>2, <1>4, <1>5 DEF Machine, State
<1>7. Processor!Effect(i, s) =
        Left(i, s, s.sp, [s.reg EXCEPT ![r] = v], SetZNFlags(s.status, v), s.memory)
  BY <1>1, <1>3, OperandEffects DEF OperandUnderway
<1>8. Completes(i, s)
  BY <1>6, <1>7 DEF Completes, Left, LastListed
<1> QED
  BY <1>8, ReadAccessed DEF OperandPerformed

LEMMA OperationPerformed ==
    ASSUME NEW i, NEW s, OperandUnderway(i, s), i.name \in Binary,
           NEW a, a = Effective(i.mode, s), NEW r, r = Subject(i.name),
           Operate(Function(i.name), a, r),
           pc' = Add16(s.pc, Length(i.mode)),
           instruction_cycle' = 0, LastListed(i, s, R(a))
    PROVE  OperandPerformed(i, s)
<1>1. i.mode \in OperandModes
  BY OperandCycles
<1>2. sp = s.sp /\ memory = s.memory /\ reg = s.reg /\ status = s.status
  <2>1. i.name \notin Loads
    BY DEF Loads, Binary
  <2> QED
    BY <2>1 DEF OperandUnderway, OperandProgress, ReadProgress
<1> DEFINE v   == Read(a)
           out == ExecuteOperation(Function(i.name), s.reg[r], v, s.status)
<1>3. v = Cell(s.memory, a)
  BY <1>2, ReadIsCell
<1>4. /\ reg' = [s.reg EXCEPT ![r] = out.reg] /\ status' = out.status
      /\ sp' = s.sp /\ memory' = s.memory /\ addr' = a
  BY <1>2 DEF Operate
<1>5. Processor!Effect(i, s) =
        Left(i, s, s.sp, [s.reg EXCEPT ![r] = out.reg], out.status, s.memory)
  BY <1>1, <1>3, OperandEffects DEF OperandUnderway
<1> HIDE DEF v, out
<1>6. Machine' = State(Add16(s.pc, Length(i.mode)), s.sp, [s.reg EXCEPT ![r] = out.reg],
                       out.status, s.memory)
  BY <1>4 DEF Machine, State
<1>7. Completes(i, s)
  BY <1>5, <1>6 DEF Completes, Left, LastListed
<1> QED
  BY <1>2, <1>4, <1>7, ReadAccessed DEF OperandPerformed

LEMMA StorePerformed ==
    ASSUME NEW i, NEW s, OperandUnderway(i, s), i.name \in Stores,
           NEW a, a = Effective(i.mode, s), Store(a, Subject(i.name)),
           pc = Add16(s.pc, Length(i.mode)),
           instruction_cycle' = 0, LastListed(i, s, W(a))
    PROVE  OperandPerformed(i, s)
<1>1. i.mode \in OperandModes
  BY OperandCycles
<1>2. Kept(s)
  BY DEF OperandUnderway, OperandProgress
<1> DEFINE v == s.reg[Subject(i.name)]
<1>3. /\ pc' = pc /\ sp' = s.sp /\ reg' = s.reg /\ status' = s.status
      /\ memory' = Written(a, v) /\ addr' = a
  BY <1>2 DEF Store, Kept
<1>4. memory' = Put(s.memory, a, v)
  BY <1>2, <1>3, WrittenIsPut DEF Kept
<1>5. Processor!Effect(i, s) =
        Left(i, s, s.sp, s.reg, s.status, Put(s.memory, a, v))
  BY <1>1, OperandEffects DEF OperandUnderway
<1> HIDE DEF v
<1>6. Machine' = State(Add16(s.pc, Length(i.mode)), s.sp, s.reg, s.status,
                       Put(s.memory, a, v))
  BY <1>3, <1>4 DEF Machine, State
<1>7. Completes(i, s)
  BY <1>5, <1>6 DEF Completes, Left, LastListed
<1> QED
  BY <1>3, <1>7, WriteAccessed DEF OperandPerformed, OperandUnderway

\* The carry is settled: from now on the latches hold the effective address.
LEMMA FixedAim ==
    ASSUME NEW i, NEW s, OperandUnderway(i, s), i.mode \in Indexed,
           From(FirstAccess(i.mode)), instruction_cycle' = instruction_cycle + 1,
           pc' = pc, EA' = Effective(i.mode, s)
    PROVE  Aimed(i.mode, s)' /\ Carried(i.mode, s)'
<1>1. instruction_cycle \in Nat
  BY DEF OperandUnderway, InstructionInProgress, InProgress
<1>2. pc' = Add16(s.pc, Length(i.mode))
  BY CarriedAt
<1>3. CASE i.mode \in {"AbsoluteX", "AbsoluteY"}
  BY <1>1, <1>2, <1>3 DEF Aimed, Carried, From, At, FirstAccess, Advanced, Length, Indexed
<1>4. CASE i.mode = "IndirectY"
  BY <1>1, <1>2, <1>4 DEF Aimed, Carried, From, At, FirstAccess, Advanced, Length, Indexed
<1> QED
  BY <1>3, <1>4 DEF Indexed

\* The latches are left alone.
LEMMA KeptAim ==
    ASSUME NEW i, NEW s, OperandUnderway(i, s), From(FirstAccess(i.mode)),
           i.mode \in {"ZeroPage", "ZeroPageX", "Absolute"},
           instruction_cycle' = instruction_cycle + 1, pc' = pc, ZP' = ZP, EA' = EA
    PROVE  Aimed(i.mode, s)' /\ Carried(i.mode, s)'
<1>1. instruction_cycle \in Nat
  BY DEF OperandUnderway, InstructionInProgress, InProgress
<1>2. Aimed(i.mode, s)
  BY DEF OperandUnderway, OperandProgress
<1>3. CASE i.mode = "ZeroPage"
  BY <1>1, <1>2, <1>3 DEF Aimed, Carried, From, At, FirstAccess, Advanced, Indexed
<1>4. CASE i.mode = "ZeroPageX"
  BY <1>1, <1>2, <1>4 DEF Aimed, Carried, From, At, FirstAccess, Advanced, Indexed
<1>5. CASE i.mode = "Absolute"
  BY <1>1, <1>2, <1>5 DEF Aimed, Carried, From, At, FirstAccess, Advanced, Indexed
<1> QED
  BY <1>3, <1>4, <1>5

LEMMA OperandResumes ==
    ASSUME NEW i, NEW s, OperandUnderway(i, s),
           instruction_cycle' = instruction_cycle + 1, OperandProgress(i, s)'
    PROVE  Resumes(i, s)
<1>1. ~At(1)'
  BY DEF OperandUnderway, InstructionInProgress, InProgress, At
<1> QED
  BY <1>1, OperandBegun DEF Resumes, OperandUnderway

\* The second load of an indexed load, from the settled address, is due.
LEMMA LoadCrosses ==
    ASSUME NEW i, NEW s, OperandUnderway(i, s), i.name \in Loads, i.mode \in Indexed,
           At(FirstAccess(i.mode)), page_crossed, Load(EA, Subject(i.name)),
           latch' = WithCarry, Continue
    PROVE  OperandPerformed(i, s)
<1> DEFINE n == FirstAccess(i.mode)
           r == Subject(i.name)
           v == Read(EA)
<1>1. EA = Unfixed(i.mode, s) /\ Crosses(i.mode, s) /\ EA' = Effective(i.mode, s)
  BY CarriedAt DEF EA
<1>2. n \in 1 .. 5 /\ instruction_cycle = n /\ instruction_cycle' = n + 1
  BY OperandCycles DEF At, Continue, ContinueWith
<1>3. sp = s.sp /\ memory = s.memory /\ reg = s.reg /\ status = s.status
  BY <1>2 DEF OperandUnderway, OperandProgress, ReadProgress, From
<1>4. /\ reg' = [s.reg EXCEPT ![r] = v] /\ status' = SetZNFlags(s.status, v)
      /\ sp' = s.sp /\ memory' = s.memory /\ pc' = pc /\ addr' = EA
  BY <1>3 DEF Load
<1>5. reg'[r] = v
  BY <1>4, Dispatched DEF OperandUnderway, MachineState
<1> HIDE DEF v, r
<1>6. ReadProgress(i, s)'
  <2>1. /\ reg' = [s.reg EXCEPT ![r] = reg'[r]] /\ status' = SetZNFlags(s.status, reg'[r])
        /\ sp' = s.sp /\ memory' = s.memory
    BY <1>4, <1>5
  <2>2. r = Subject(i.name) /\ From(n + 1)'
    BY <1>2 DEF r, From
  <2> QED
    BY <1>1, <2>1, <2>2 DEF ReadProgress
<1>7. i.name \notin Stores \cup Unary
  BY DEF Loads, Stores, Unary
<1>8. Aimed(i.mode, s)' /\ Carried(i.mode, s)'
  BY <1>1, <1>2, <1>4, FixedAim DEF From
<1>9. OperandProgress(i, s)'
  BY <1>6, <1>7, <1>8 DEF OperandProgress
<1>10. Resumes(i, s)
  BY <1>2, <1>9, OperandResumes
<1>11. Listed(i, s, R(EA))
  BY <1>1, ReadListed
<1>12. Accessed(i, s)
  <2>1. memory' = memory /\ instruction_cycle' # 0 /\ ~LastListed(i, s, R(EA))
    BY <1>2, <1>3, <1>4, <1>11 DEF Listed, LastListed
  <2> QED
    BY <1>4, <1>11, <2>1, ReadAccessed
<1> QED
  BY <1>10, <1>12 DEF OperandPerformed

\* A read of the unfixed address that leaves only a carry.
LEMMA DummyCrosses ==
    ASSUME NEW i, NEW s, OperandUnderway(i, s), i.name \notin Loads, i.mode \in Indexed,
           At(FirstAccess(i.mode)), i.name \in Binary => page_crossed,
           addr' = EA, UNCHANGED <<pc, sp, reg, status, memory>>,
           instruction_cycle' = instruction_cycle + 1,
           latch'["adl"] = latch["adl"],
           latch'["adh"] = IF page_crossed THEN Inc8(latch["adh"]) ELSE latch["adh"]
    PROVE  OperandPerformed(i, s)
<1> DEFINE n == FirstAccess(i.mode)
<1>1. /\ EA = Unfixed(i.mode, s) /\ page_crossed = Crosses(i.mode, s)
      /\ Crosses(i.mode, s) =>
           CombineToU16(WithCarry["adh"], WithCarry["adl"]) = Effective(i.mode, s)
      /\ ~Crosses(i.mode, s) => Unfixed(i.mode, s) = Effective(i.mode, s)
  BY CarriedAt
<1>2. EA' = Effective(i.mode, s)
  <2>1. WithCarry["adh"] = Inc8(latch["adh"]) /\ WithCarry["adl"] = latch["adl"]
    BY DEF WithCarry, OperandUnderway, MachineType, Latch
  <2>2. CASE page_crossed
    BY <1>1, <2>1, <2>2 DEF EA
  <2>3. CASE ~page_crossed
    BY <1>1, <2>3 DEF EA
  <2> QED
    BY <2>2, <2>3
<1>3. n \in 1 .. 5 /\ instruction_cycle = n /\ instruction_cycle' = n + 1
  BY OperandCycles DEF At
<1>4. Aimed(i.mode, s)' /\ Carried(i.mode, s)'
  BY <1>2, <1>3, FixedAim DEF From
<1>5. i.name \in Binary => ReadProgress(i, s)'
  BY <1>1, <1>3 DEF OperandUnderway, OperandProgress, ReadProgress
<1>6. i.name \in Stores => Kept(s)'
  BY DEF OperandUnderway, OperandProgress, Kept
<1>7. i.name \in Unary => ModifyProgress(i, s)'
  <2> SUFFICES ASSUME i.name \in Unary PROVE ModifyProgress(i, s)'
    OBVIOUS
  <2>1. i.cycles - 3 = n + 1 /\ i.name \notin Stores
    BY ModifyListed DEF Unary, Stores
  <2>2. memory = s.memory /\ status = s.status /\ sp = s.sp /\ reg = s.reg
    BY <1>3, <2>1 DEF OperandUnderway, OperandProgress, ModifyProgress
  <2>3. ~At(i.cycles - 3 + 1)' /\ ~At(i.cycles - 3 + 2)'
    BY <1>3, <2>1 DEF At
  <2> QED
    BY <2>2, <2>3 DEF ModifyProgress
<1>8. OperandProgress(i, s)'
  BY <1>4, <1>5, <1>6, <1>7 DEF OperandProgress
<1>9. Resumes(i, s)
  BY <1>8, OperandResumes
<1>10. Listed(i, s, R(EA))
  BY <1>1, ReadListed, StoreListed, ModifyListed DEF OperandUnderway, HasOperand
<1>11. Accessed(i, s)
  <2>1. instruction_cycle' # 0 /\ ~LastListed(i, s, R(EA))
    BY <1>3, <1>10 DEF Listed, LastListed
  <2> QED
    BY <1>10, <2>1, ReadAccessed
<1> QED
  BY <1>9, <1>11 DEF OperandPerformed

-----------------------------------------------------------------------------
(* Read-modify-writes.                                                     *)

\* The operations on one operand do not look at the other.
LEMMA UnaryOperand ==
    ASSUME NEW name \in Unary \cup Counting, NEW r, NEW m, NEW n, NEW t
    PROVE  ExecuteOperation(Function(name), r, m, t) =
             ExecuteOperation(Function(name), r, n, t)
<1>1. Function(name) \in {"INC", "DEC", "SHIFT_LEFT", "SHIFT_RIGHT", "ROTATE_LEFT",
                          "ROTATE_RIGHT"}
  BY DEF Function, Unary, Counting
<1> QED
  BY <1>1 DEF ExecuteOperation

LEMMA SecondPut ==
    ASSUME NEW mem, NEW a, NEW v, NEW w
    PROVE  Put(Put(mem, a, v), a, w) = Put(mem, a, w)
<1>1. DOMAIN Put(mem, a, v) = DOMAIN mem \cup {a}
  BY DEF Put
<1>2. \A b \in DOMAIN mem \cup {a} : b # a => Put(mem, a, v)[b] = mem[b]
  BY DEF Put
<1>3. (DOMAIN mem \cup {a}) \cup {a} = DOMAIN mem \cup {a}
  OBVIOUS
<1> QED
  BY <1>1, <1>2, <1>3 DEF Put

\* The latches of a read-modify-write point at the operand until it ends.
LEMMA ModifyAim ==
    ASSUME NEW i, NEW s, OperandUnderway(i, s), i.name \in Unary,
           From(i.cycles - 3), instruction_cycle' = instruction_cycle + 1,
           pc' = pc, ZP' = ZP, EA' = EA
    PROVE  Aimed(i.mode, s)' /\ Carried(i.mode, s)'
<1> DEFINE n == FirstAccess(i.mode)
<1>1. n \in 1 .. 5 /\ i.cycles = IF i.mode \in Indexed THEN n + 4 ELSE n + 3
  BY OperandCycles
<1>2. i.mode \in {"ZeroPage", "ZeroPageX", "Absolute", "AbsoluteX"}
  BY DEF OperandUnderway, Entry, HasOperand
<1>3. instruction_cycle \in Nat
  BY DEF OperandUnderway, InstructionInProgress, InProgress
<1>4. From(n)
  BY <1>1, <1>3 DEF From
<1>5. CASE i.mode \in Indexed
  <2>1. From(n + 1)
    BY <1>1, <1>5 DEF From
  <2> QED
    BY <1>4, <1>5, <2>1, CarriedAt, FixedAim
<1>6. CASE i.mode \notin Indexed
  BY <1>2, <1>4, <1>6, KeptAim DEF Indexed
<1> QED
  BY <1>5, <1>6

LEMMA ModifyResumes ==
    ASSUME NEW i, NEW s, OperandUnderway(i, s), i.name \in Unary,
           From(i.cycles - 3), instruction_cycle' = instruction_cycle + 1,
           pc' = pc, ZP' = ZP, EA' = EA, ModifyProgress(i, s)'
    PROVE  Resumes(i, s)
<1>1. i.name \notin Loads \cup Binary /\ i.name \notin Stores
  BY DEF Loads, Binary, Stores, Unary
<1>2. OperandProgress(i, s)'
  BY <1>1, ModifyAim DEF OperandProgress
<1> QED
  BY <1>2, OperandResumes

LEMMA ModifyPerformed ==
    ASSUME NEW i, NEW s, OperandUnderway(i, s), i.name \in Unary,
           NEW a, a = Effective(i.mode, s), NEW n \in Nat, n = i.cycles - 3,
           ReadModifyWrite(n, Function(i.name), a), pc = Add16(s.pc, Length(i.mode))
    PROVE  OperandPerformed(i, s)
<1> DEFINE op == Function(i.name)
           k  == instruction_cycle
           v  == Cell(s.memory, a)
           out == ExecuteOperation(op, v, 0, s.status)
<1>1. i.mode \in OperandModes /\ k \in 1 .. n + 2 /\ i.cycles = n + 3
  BY OperandCycles DEF OperandUnderway, Row
<1>2. /\ At(n) => Listed(i, s, R(a))
      /\ At(n + 1) => Listed(i, s, W(a))
      /\ At(n + 2) => LastListed(i, s, W(a))
  BY ModifyListed
<1>3. /\ sp = s.sp /\ reg = s.reg
      /\ k <= n + 1 => memory = s.memory /\ status = s.status
      /\ At(n + 1) => Pointer = v
      /\ At(n + 2) => memory = Put(s.memory, a, v) /\ Pointer = out.reg /\ status = out.status
  BY DEF OperandUnderway, OperandProgress, ModifyProgress, Modified
<1>4. Modified(i, s) = out
  BY DEF Modified
<1>5. v \in Byte /\ latch \in [Latch -> Byte]
  BY CellType DEF OperandUnderway, MachineState, MachineType
<1> HIDE DEF v, out, k
<1>6. CASE At(n) /\ ReadTo("op_latch", a) /\ Continue
  <2>1. /\ k = n /\ instruction_cycle' = n + 1 /\ UNCHANGED <<pc, sp, reg, status, memory>>
        /\ addr' = a
    BY <1>6 DEF At, Continue, ContinueWith, ReadTo, k
  <2>2. Read(a) = v
    BY <1>1, <1>3, <2>1, ReadIsCell DEF v
  <2>3. Pointer' = v /\ ZP' = ZP /\ EA' = EA
    BY <1>5, <1>6, <2>2 DEF ReadTo, Latch, Pointer, ZP, EA
  <2>4. ModifyProgress(i, s)'
    <3>1. ~At(n + 2)' /\ memory' = s.memory /\ status' = s.status /\ sp' = s.sp /\ reg' = s.reg
      BY <1>1, <1>3, <2>1 DEF At
    <3> QED
      BY <2>3, <3>1 DEF ModifyProgress, v
  <2>5. Resumes(i, s)
    BY <2>1, <2>3, <2>4, ModifyResumes DEF From, k
  <2>6. Listed(i, s, R(a)) /\ instruction_cycle' # 0
    BY <1>2, <1>6, <2>1
  <2>7. Accessed(i, s)
    BY <2>1, <2>6, ReadAccessed DEF Listed, LastListed
  <2> QED
    BY <2>5, <2>7 DEF OperandPerformed
<1>7. CASE At(n + 1) /\ Modify(op, a) /\ Continue
  <2>1. /\ k = n + 1 /\ instruction_cycle' = n + 2 /\ UNCHANGED <<pc, sp, reg>>
        /\ addr' = a
    BY <1>7 DEF At, Continue, ContinueWith, Modify, k
  <2>2. Pointer = v /\ memory = s.memory /\ status = s.status
    <3>1. Pointer = v
      BY <1>3, <1>7
    <3>2. k <= n + 1
      BY <2>1
    <3> QED
      BY <1>3, <3>1, <3>2
  <2>3. ExecuteOperation(op, Pointer, Pointer, status) = out
    BY <2>2, UnaryOperand DEF out
  <2>4. Pointer' = out.reg /\ status' = out.status /\ ZP' = ZP /\ EA' = EA
    BY <1>5, <1>7, <2>3 DEF Modify, Latch, Pointer, ZP, EA
  <2>5. memory' = Written(a, v) /\ memory' = Put(s.memory, a, v)
    BY <1>7, <2>2, WrittenIsPut DEF Modify
  <2>6. ModifyProgress(i, s)'
    <3>1. ~At(n + 1)' /\ ~(instruction_cycle' <= n + 1) /\ sp' = s.sp /\ reg' = s.reg
      BY <1>3, <2>1 DEF At
    <3> QED
      BY <1>4, <2>4, <2>5, <3>1 DEF ModifyProgress, v
  <2>7. Resumes(i, s)
    BY <2>1, <2>4, <2>6, ModifyResumes DEF From, k
  <2>8. Listed(i, s, W(a)) /\ instruction_cycle' # 0
    BY <1>2, <1>7, <2>1
  <2>9. Accessed(i, s)
    BY <2>1, <2>5, <2>8, WriteAccessed DEF Listed, LastListed, OperandUnderway
  <2> QED
    BY <2>7, <2>9 DEF OperandPerformed
<1>8. CASE At(n + 2) /\ WriteBack(a) /\ Finish
  <2>1. /\ instruction_cycle' = 0 /\ UNCHANGED <<pc, sp, reg, status>> /\ addr' = a
        /\ memory' = Written(a, Pointer)
    BY <1>8 DEF Finish, WriteBack
  <2>2. memory = Put(s.memory, a, v) /\ Pointer = out.reg /\ status = out.status
    BY <1>3, <1>8
  <2>3. memory' = Put(s.memory, a, out.reg)
    BY <2>1, <2>2, WrittenIsPut, SecondPut
  <2>4. Processor!Effect(i, s) =
          Left(i, s, s.sp, s.reg, out.status, Put(s.memory, a, out.reg))
    BY <1>1, OperandEffects DEF OperandUnderway, out, v
  <2>5. Machine' = State(Add16(s.pc, Length(i.mode)), s.sp, s.reg, out.status,
                         Put(s.memory, a, out.reg))
    BY <1>3, <2>1, <2>2, <2>3 DEF Machine, State
  <2>6. LastListed(i, s, W(a))
    BY <1>2, <1>8
  <2>7. Completes(i, s)
    BY <2>1, <2>4, <2>5, <2>6 DEF Completes, Left, LastListed
  <2>8. Accessed(i, s)
    BY <2>1, <2>6, WriteAccessed DEF OperandUnderway
  <2> QED
    BY <2>7, <2>8 DEF OperandPerformed
<1>9. ~InvalidCycle(n + 2)
  BY <1>1 DEF InvalidCycle, k
<1> QED
  BY <1>6, <1>7, <1>8, <1>9 DEF ReadModifyWrite

-----------------------------------------------------------------------------
(* The routines of the instructions with an operand in memory.             *)

AddressingCycle(mode) ==
    \/ mode = "ZeroPage" /\ ZeroPage
    \/ mode \in {"ZeroPageX", "ZeroPageY"} /\ ZeroPageIndexed(IndexOf(mode))
    \/ mode = "Absolute" /\ Absolute
    \/ mode \in {"AbsoluteX", "AbsoluteY"} /\ AbsoluteIndexed(IndexOf(mode))
    \/ mode = "XIndirect" /\ XIndirect(reg["x"])
    \/ mode = "IndirectY" /\ IndirectY

LEMMA AddressingCyclePerformed ==
    ASSUME NEW i, NEW s, OperandUnderway(i, s), AddressingCycle(i.mode)
    PROVE  OperandPerformed(i, s)
<1> DEFINE n == FirstAccess(i.mode)
<1>1. n \in 1 .. 5 /\ instruction_cycle \in Nat
  BY OperandCycles DEF OperandUnderway, InstructionInProgress, InProgress
<1>2. instruction_cycle < n
  BY DEF AddressingCycle, ZeroPage, ZeroPageIndexed, Absolute, AbsoluteIndexed, XIndirect,
         IndirectY, At, FirstAccess
<1>3. reg = s.reg /\ memory = s.memory
  <2>1. CASE i.name \in Loads \cup Binary
    BY <1>1, <1>2, <2>1 DEF OperandUnderway, OperandProgress, ReadProgress, From
  <2>2. CASE i.name \in Stores
    BY <2>2 DEF OperandUnderway, OperandProgress, Kept
  <2>3. CASE i.name \in Unary
    <3>1. n <= i.cycles - 3
      BY <1>1, <2>3, OperandCycles
    <3>2. instruction_cycle <= i.cycles - 3 + 1
      BY <1>1, <1>2, <2>3, <3>1 DEF OperandUnderway, Row
    <3> QED
      BY <2>3, <3>2 DEF OperandUnderway, OperandProgress, ModifyProgress
  <2> QED
    BY <2>1, <2>2, <2>3 DEF OperandUnderway, HasOperand
<1>4. Aiming(i.mode, s)
  BY <1>3 DEF Aiming, OperandUnderway, OperandProgress
<1>5. \A mode : IndexOf(mode) = reg[IndexRegister(mode)]
  BY Dispatched
<1>6. Addressed(i.mode, s)
  BY <1>4, <1>5, ZeroPageAddressed, ZeroPageIndexedAddressed, AbsoluteAddressed,
     AbsoluteIndexedAddressed, XIndirectAddressed, IndirectYAddressed DEF AddressingCycle
<1> QED
  BY <1>6, AddressingPerformed

\* The counter never exceeds the last cycle of the routine.
LEMMA NoInvalidOperandCycle ==
    ASSUME NEW i, NEW s, OperandUnderway(i, s), InvalidCycle(LastCycle(i))
    PROVE  FALSE
BY DEF OperandUnderway, InstructionInProgress, InProgress, InvalidCycle, LastCycle, Row

LEMMA LoadIndexedPerformed ==
    ASSUME NEW i, NEW s, OperandUnderway(i, s), i.name \in Loads, i.mode \in Indexed,
           LoadIndexed(FirstAccess(i.mode), Subject(i.name))
    PROVE  OperandPerformed(i, s)
<1> DEFINE n == FirstAccess(i.mode)
           r == Subject(i.name)
           a == Effective(i.mode, s)
<1>1. n \in 1 .. 5 /\ LastCycle(i) = n + 1
  BY OperandCycles
<1>2. CASE At(n) /\ page_crossed /\ Load(EA, r) /\ latch' = WithCarry /\ Continue
  BY <1>2, LoadCrosses
<1>3. CASE At(n) /\ ~page_crossed /\ LoadFrom(EA, r) /\ Finish
  <2>1. EA = a /\ ~Crosses(i.mode, s) /\ pc = Add16(s.pc, Length(i.mode))
    BY <1>1, <1>3, CarriedAt DEF From, At
  <2>2. LastListed(i, s, R(a))
    BY <1>3, <2>1, ReadListed
  <2>3. /\ reg' = [reg EXCEPT ![r] = Read(a)] /\ status' = SetZNFlags(status, Read(a))
        /\ pc' = Add16(s.pc, Length(i.mode)) /\ UNCHANGED <<sp, memory>>
        /\ addr' = a /\ instruction_cycle' = 0
    BY <1>3, <2>1 DEF LoadFrom, Load, Finish
  <2> HIDE DEF a, r
  <2> QED
    BY <2>2, <2>3, LoadPerformed DEF a, r
<1>4. CASE At(n + 1) /\ LoadFrom(EA, r) /\ FinishCrossed
  <2>1. EA = a /\ pc = Add16(s.pc, Length(i.mode))
    BY <1>1, <1>4, CarriedAt DEF From, At
  <2>2. LastListed(i, s, R(a))
    BY <1>4, ReadListed
  <2>3. /\ reg' = [reg EXCEPT ![r] = Read(a)] /\ status' = SetZNFlags(status, Read(a))
        /\ pc' = Add16(s.pc, Length(i.mode)) /\ UNCHANGED <<sp, memory>>
        /\ addr' = a /\ instruction_cycle' = 0
    BY <1>4, <2>1 DEF LoadFrom, Load, FinishCrossed
  <2> HIDE DEF a, r
  <2> QED
    BY <2>2, <2>3, LoadPerformed DEF a, r
<1> QED
  BY <1>1, <1>2, <1>3, <1>4, NoInvalidOperandCycle DEF LoadIndexed

\* A load that does not index last.
LEMMA LoadPlainPerformed ==
    ASSUME NEW i, NEW s, OperandUnderway(i, s), i.name \in Loads, i.mode \notin Indexed,
           i.mode # "Immediate", At(FirstAccess(i.mode)), NEW a,
           a = Effective(i.mode, s), LoadFrom(a, Subject(i.name)), Finish
    PROVE  OperandPerformed(i, s)
<1>1. From(FirstAccess(i.mode)) /\ ~Crosses(i.mode, s)
  BY OperandCycles DEF From, At, Crosses
<1>2. pc = Add16(s.pc, Length(i.mode))
  BY <1>1, AimedAt
<1>3. LastListed(i, s, R(a))
  BY <1>1, ReadListed
<1>4. /\ reg' = [reg EXCEPT ![Subject(i.name)] = Read(a)]
      /\ status' = SetZNFlags(status, Read(a))
      /\ pc' = Add16(s.pc, Length(i.mode)) /\ UNCHANGED <<sp, memory>>
      /\ addr' = a /\ instruction_cycle' = 0
  BY <1>2 DEF LoadFrom, Load, Finish
<1> QED
  BY <1>3, <1>4, LoadPerformed

LEMMA ExecuteLoadPerformed ==
    ASSUME NEW i, NEW s, OperandUnderway(i, s), ExecuteLoad(i)
    PROVE  OperandPerformed(i, s)
<1> DEFINE r == Subject(i.name)
           x == IndexOf(i.mode)
           n == FirstAccess(i.mode)
           a == Effective(i.mode, s)
<1>1. i.name \in Loads /\ RegisterOf(i.name) = r
  BY Dispatched DEF ExecuteLoad
<1>2. LastCycle(i) = IF i.mode \in Indexed THEN n + 1 ELSE n
  BY <1>1, OperandCycles
<1>3. n \in 1 .. 5
  BY OperandCycles
<1>4. CASE i.mode = "Absolute" /\ LoadMemoryToRegisterAbsolute(r)
  <2>1. n = 3 /\ LastCycle(i) = 3 /\ i.mode \notin Indexed
    BY <1>2, <1>4 DEF FirstAccess, Indexed
  <2>2. At(3) => EA = a
    BY <1>4, <2>1, AimedAt DEF From, At
  <2> QED
    BY <1>1, <1>4, <2>1, <2>2, AddressingCyclePerformed, NoInvalidOperandCycle,
       LoadPlainPerformed DEF LoadMemoryToRegisterAbsolute, AddressingCycle
<1>5. CASE i.mode = "Immediate" /\ LoadMemoryToRegisterImmediate(r)
  <2>1. n = 1 /\ LastCycle(i) = 1 /\ i.mode \notin Indexed
    BY <1>2, <1>5 DEF FirstAccess, Indexed
  <2>2. At(1) /\ /\ reg' = [reg EXCEPT ![r] = Read(pc)]
                 /\ status' = SetZNFlags(status, Read(pc))
                 /\ addr' = pc /\ pc' = Inc16(pc) /\ Finish /\ UNCHANGED <<sp, memory>>
    BY <1>5, <2>1, NoInvalidOperandCycle DEF LoadMemoryToRegisterImmediate
  <2>3. pc = a /\ Inc16(pc) = Add16(s.pc, Length(i.mode))
    BY <1>5, <2>1, <2>2, AimedAt DEF From, At
  <2>4. ~Crosses(i.mode, s)
    BY <2>1 DEF Crosses
  <2>5. LastListed(i, s, R(a))
    BY <1>1, <2>1, <2>2, <2>4, ReadListed
  <2>6. /\ reg' = [reg EXCEPT ![r] = Read(a)] /\ status' = SetZNFlags(status, Read(a))
        /\ pc' = Add16(s.pc, Length(i.mode)) /\ UNCHANGED <<sp, memory>>
        /\ addr' = a /\ instruction_cycle' = 0
    BY <2>2, <2>3 DEF Finish
  <2> HIDE DEF a, r
  <2> QED
    BY <1>1, <2>5, <2>6, LoadPerformed DEF a, r
<1>6. CASE i.mode = "ZeroPage" /\ LoadMemoryToRegisterZeroPage(r)
  <2>1. n = 2 /\ LastCycle(i) = 2 /\ i.mode \notin Indexed
    BY <1>2, <1>6 DEF FirstAccess, Indexed
  <2>2. At(2) => ZP = a
    BY <1>6, <2>1, AimedAt DEF From, At
  <2> QED
    BY <1>1, <1>6, <2>1, <2>2, AddressingCyclePerformed, NoInvalidOperandCycle,
       LoadPlainPerformed DEF LoadMemoryToRegisterZeroPage, AddressingCycle
<1>7. CASE i.mode \in {"ZeroPageX", "ZeroPageY"} /\ LoadMemoryToRegisterZeroPageIndexed(r, x)
  <2>1. n = 3 /\ LastCycle(i) = 3 /\ i.mode \notin Indexed
    BY <1>2, <1>7 DEF FirstAccess, Indexed
  <2>2. At(3) => ZP = a
    BY <1>7, <2>1, AimedAt DEF From, At
  <2> QED
    BY <1>1, <1>7, <2>1, <2>2, AddressingCyclePerformed, NoInvalidOperandCycle,
       LoadPlainPerformed DEF LoadMemoryToRegisterZeroPageIndexed, AddressingCycle
<1>8. CASE i.mode \in {"AbsoluteX", "AbsoluteY"} /\ LoadMemoryToRegisterAbsoluteIndexed(r, x)
  <2>1. n = 3 /\ i.mode \in Indexed
    BY <1>8 DEF FirstAccess, Indexed
  <2> QED
    BY <1>1, <1>8, <2>1, AddressingCyclePerformed, LoadIndexedPerformed
    DEF LoadMemoryToRegisterAbsoluteIndexed, AddressingCycle
<1>9. CASE i.mode = "XIndirect" /\ LoadMemoryToRegisterXIndirect(r, x)
  <2>1. n = 5 /\ LastCycle(i) = 5 /\ i.mode \notin Indexed /\ x = reg["x"]
    BY <1>2, <1>9 DEF FirstAccess, Indexed, IndexOf
  <2>2. At(5) => EA = a
    BY <1>9, <2>1, AimedAt DEF From, At
  <2> QED
    BY <1>1, <1>9, <2>1, <2>2, AddressingCyclePerformed, NoInvalidOperandCycle,
       LoadPlainPerformed DEF LoadMemoryToRegisterXIndirect, AddressingCycle
<1>10. CASE i.mode = "IndirectY" /\ LoadMemoryToRegisterIndirectY(r)
  <2>1. n = 4 /\ i.mode \in Indexed
    BY <1>10 DEF FirstAccess, Indexed
  <2> QED
    BY <1>1, <1>10, <2>1, AddressingCyclePerformed, LoadIndexedPerformed
    DEF LoadMemoryToRegisterIndirectY, AddressingCycle
<1> QED
  BY <1>1, <1>4, <1>5, <1>6, <1>7, <1>8, <1>9, <1>10 DEF ExecuteLoad

\* A store that does not index last.
LEMMA StorePlainPerformed ==
    ASSUME NEW i, NEW s, OperandUnderway(i, s), i.name \in Stores, i.mode \notin Indexed,
           At(FirstAccess(i.mode)), NEW a, a = Effective(i.mode, s),
           Store(a, Subject(i.name)), Finish
    PROVE  OperandPerformed(i, s)
<1>1. From(FirstAccess(i.mode)) /\ i.mode # "Immediate"
  BY OperandCycles DEF From, At, OperandUnderway, Entry
<1>2. pc = Add16(s.pc, Length(i.mode))
  BY <1>1, AimedAt
<1>3. LastListed(i, s, W(a))
  BY StoreListed
<1> QED
  BY <1>2, <1>3, StorePerformed DEF Finish

LEMMA StoreIndexedPerformed ==
    ASSUME NEW i, NEW s, OperandUnderway(i, s), i.name \in Stores, i.mode \in Indexed,
           StoreIndexed(FirstAccess(i.mode), Subject(i.name))
    PROVE  OperandPerformed(i, s)
<1> DEFINE n == FirstAccess(i.mode)
           a == Effective(i.mode, s)
<1>1. n \in 1 .. 5 /\ LastCycle(i) = n + 1 /\ i.name \notin Loads /\ i.name \notin Binary
  BY OperandCycles DEF Stores, Loads, Binary
<1>2. CASE /\ At(n) /\ addr' = EA
           /\ latch' = IF page_crossed THEN WithCarry ELSE latch
           /\ ContinueWith(FALSE) /\ UNCHANGED <<pc, sp, reg, status, memory>>
  <2>1. WithCarry["adh"] = Inc8(latch["adh"]) /\ WithCarry["adl"] = latch["adl"]
    BY DEF WithCarry, OperandUnderway, MachineType, Latch
  <2>2. /\ latch'["adl"] = latch["adl"]
        /\ latch'["adh"] = IF page_crossed THEN Inc8(latch["adh"]) ELSE latch["adh"]
    BY <1>2, <2>1
  <2> QED
    BY <1>1, <1>2, <2>2, DummyCrosses DEF ContinueWith
<1>3. CASE At(n + 1) /\ Store(EA, Subject(i.name)) /\ Finish
  <2>1. EA = a /\ pc = Add16(s.pc, Length(i.mode))
    BY <1>1, <1>3, CarriedAt DEF From, At
  <2>2. LastListed(i, s, W(a))
    BY <1>3, StoreListed
  <2> QED
    BY <1>3, <2>1, <2>2, StorePerformed DEF Finish
<1> QED
  BY <1>1, <1>2, <1>3, NoInvalidOperandCycle DEF StoreIndexed

LEMMA ExecuteStorePerformed ==
    ASSUME NEW i, NEW s, OperandUnderway(i, s), ExecuteStore(i)
    PROVE  OperandPerformed(i, s)
<1> DEFINE r == Subject(i.name)
           x == IndexOf(i.mode)
           n == FirstAccess(i.mode)
           a == Effective(i.mode, s)
<1>1. i.name \in Stores /\ RegisterOf(i.name) = r
  BY Dispatched DEF ExecuteStore
<1>2. LastCycle(i) = IF i.mode \in Indexed THEN n + 1 ELSE n
  BY <1>1, OperandCycles
<1>3. CASE i.mode = "Absolute" /\ StoreRegisterAbsolute(r)
  <2>1. n = 3 /\ LastCycle(i) = 3 /\ i.mode \notin Indexed
    BY <1>2, <1>3 DEF FirstAccess, Indexed
  <2>2. At(3) => EA = a
    BY <1>3, <2>1, AimedAt DEF From, At
  <2> QED
    BY <1>1, <1>3, <2>1, <2>2, AddressingCyclePerformed, NoInvalidOperandCycle,
       StorePlainPerformed DEF StoreRegisterAbsolute, AddressingCycle
<1>4. CASE i.mode = "ZeroPage" /\ StoreRegisterZeroPage(r)
  <2>1. n = 2 /\ LastCycle(i) = 2 /\ i.mode \notin Indexed
    BY <1>2, <1>4 DEF FirstAccess, Indexed
  <2>2. At(2) => ZP = a
    BY <1>4, <2>1, AimedAt DEF From, At
  <2> QED
    BY <1>1, <1>4, <2>1, <2>2, AddressingCyclePerformed, NoInvalidOperandCycle,
       StorePlainPerformed DEF StoreRegisterZeroPage, AddressingCycle
<1>5. CASE i.mode \in {"ZeroPageX", "ZeroPageY"} /\ StoreRegisterZeroPageIndexed(r, x)
  <2>1. n = 3 /\ LastCycle(i) = 3 /\ i.mode \notin Indexed
    BY <1>2, <1>5 DEF FirstAccess, Indexed
  <2>2. At(3) => ZP = a
    BY <1>5, <2>1, AimedAt DEF From, At
  <2> QED
    BY <1>1, <1>5, <2>1, <2>2, AddressingCyclePerformed, NoInvalidOperandCycle,
       StorePlainPerformed DEF StoreRegisterZeroPageIndexed, AddressingCycle
<1>6. CASE i.mode \in {"AbsoluteX", "AbsoluteY"} /\ StoreRegisterAbsoluteIndexed(r, x)
  <2>1. n = 3 /\ i.mode \in Indexed
    BY <1>6 DEF FirstAccess, Indexed
  <2> QED
    BY <1>1, <1>6, <2>1, AddressingCyclePerformed, StoreIndexedPerformed
    DEF StoreRegisterAbsoluteIndexed, AddressingCycle
<1>7. CASE i.mode = "XIndirect" /\ StoreRegisterXIndirect(r, x)
  <2>1. n = 5 /\ LastCycle(i) = 5 /\ i.mode \notin Indexed /\ x = reg["x"]
    BY <1>2, <1>7 DEF FirstAccess, Indexed, IndexOf
  <2>2. At(5) => EA = a
    BY <1>7, <2>1, AimedAt DEF From, At
  <2> QED
    BY <1>1, <1>7, <2>1, <2>2, AddressingCyclePerformed, NoInvalidOperandCycle,
       StorePlainPerformed DEF StoreRegisterXIndirect, AddressingCycle
<1>8. CASE i.mode = "IndirectY" /\ StoreRegisterIndirectY(r)
  <2>1. n = 4 /\ i.mode \in Indexed
    BY <1>8 DEF FirstAccess, Indexed
  <2> QED
    BY <1>1, <1>8, <2>1, AddressingCyclePerformed, StoreIndexedPerformed
    DEF StoreRegisterIndirectY, AddressingCycle
<1> QED
  BY <1>1, <1>3, <1>4, <1>5, <1>6, <1>7, <1>8 DEF ExecuteStore

\* An operation on a register that does not index last.
LEMMA OperationPlainPerformed ==
    ASSUME NEW i, NEW s, OperandUnderway(i, s), i.name \in Binary, i.mode \notin Indexed,
           i.mode # "Immediate", At(FirstAccess(i.mode)), NEW a,
           a = Effective(i.mode, s), OperateAt(Function(i.name), a, Subject(i.name)), Finish
    PROVE  OperandPerformed(i, s)
<1>1. From(FirstAccess(i.mode)) /\ ~Crosses(i.mode, s)
  BY OperandCycles DEF From, At, Crosses
<1>2. pc = Add16(s.pc, Length(i.mode))
  BY <1>1, AimedAt
<1>3. LastListed(i, s, R(a))
  BY <1>1, ReadListed
<1> QED
  BY <1>2, <1>3, OperationPerformed DEF OperateAt, Finish

LEMMA OperateIndexedPerformed ==
    ASSUME NEW i, NEW s, OperandUnderway(i, s), i.name \in Binary, i.mode \in Indexed,
           OperateIndexed(FirstAccess(i.mode), Function(i.name), Subject(i.name))
    PROVE  OperandPerformed(i, s)
<1> DEFINE n  == FirstAccess(i.mode)
           r  == Subject(i.name)
           op == Function(i.name)
           a  == Effective(i.mode, s)
<1>1. n \in 1 .. 5 /\ LastCycle(i) = n + 1 /\ i.name \notin Loads
  BY OperandCycles DEF Loads, Binary
<1>2. CASE /\ At(n) /\ page_crossed /\ addr' = EA
           /\ latch' = [WithCarry EXCEPT !["op_latch"] = 0]
           /\ Continue /\ UNCHANGED <<pc, sp, reg, status, memory>>
  <2>1. latch'["adh"] = Inc8(latch["adh"]) /\ latch'["adl"] = latch["adl"]
    BY <1>2 DEF WithCarry, OperandUnderway, MachineType, Latch
  <2> QED
    BY <1>1, <1>2, <2>1, DummyCrosses DEF Continue, ContinueWith
<1>3. CASE At(n) /\ ~page_crossed /\ OperateAt(op, EA, r) /\ Finish
  <2>1. EA = a /\ ~Crosses(i.mode, s) /\ pc = Add16(s.pc, Length(i.mode))
    BY <1>1, <1>3, CarriedAt DEF From, At
  <2>2. LastListed(i, s, R(a))
    BY <1>3, <2>1, ReadListed
  <2> QED
    BY <1>3, <2>1, <2>2, OperationPerformed DEF OperateAt, Finish
<1>4. CASE At(n + 1) /\ OperateAt(op, EA, r) /\ FinishCrossed
  <2>1. EA = a /\ pc = Add16(s.pc, Length(i.mode))
    BY <1>1, <1>4, CarriedAt DEF From, At
  <2>2. LastListed(i, s, R(a))
    BY <1>4, ReadListed
  <2> QED
    BY <1>4, <2>1, <2>2, OperationPerformed DEF OperateAt, FinishCrossed
<1> QED
  BY <1>1, <1>2, <1>3, <1>4, NoInvalidOperandCycle DEF OperateIndexed

LEMMA ExecuteOperationPerformed ==
    ASSUME NEW i, NEW s, OperandUnderway(i, s), ExecuteRegisterOperation(i)
    PROVE  OperandPerformed(i, s)
<1> DEFINE r  == Subject(i.name)
           op == Function(i.name)
           x  == IndexOf(i.mode)
           n  == FirstAccess(i.mode)
           a  == Effective(i.mode, s)
<1>1. i.name \in Binary /\ RegisterOf(i.name) = r /\ OperationOf(i.name) = op
  BY Dispatched DEF ExecuteRegisterOperation
<1>2. LastCycle(i) = IF i.mode \in Indexed THEN n + 1 ELSE n
  BY <1>1, OperandCycles
<1>3. CASE i.mode = "Immediate" /\ OperationImmediate(op, r)
  <2>1. n = 1 /\ LastCycle(i) = 1 /\ i.mode \notin Indexed
    BY <1>2, <1>3 DEF FirstAccess, Indexed
  <2>2. At(1) /\ Operate(op, pc, r) /\ pc' = Inc16(pc) /\ Finish
    BY <1>3, <2>1, NoInvalidOperandCycle DEF OperationImmediate
  <2>3. pc = a /\ Inc16(pc) = Add16(s.pc, Length(i.mode))
    BY <1>3, <2>1, <2>2, AimedAt DEF From, At
  <2>4. ~Crosses(i.mode, s)
    BY <2>1 DEF Crosses
  <2>5. LastListed(i, s, R(a))
    BY <1>1, <2>1, <2>2, <2>4, ReadListed
  <2> QED
    BY <1>1, <2>2, <2>3, <2>5, OperationPerformed DEF Finish
<1>4. CASE i.mode = "ZeroPage" /\ OperationZeroPage(op, r)
  <2>1. n = 2 /\ LastCycle(i) = 2 /\ i.mode \notin Indexed
    BY <1>2, <1>4 DEF FirstAccess, Indexed
  <2>2. At(2) => ZP = a
    BY <1>4, <2>1, AimedAt DEF From, At
  <2> QED
    BY <1>1, <1>4, <2>1, <2>2, AddressingCyclePerformed, NoInvalidOperandCycle,
       OperationPlainPerformed DEF OperationZeroPage, AddressingCycle
<1>5. CASE i.mode = "ZeroPageX" /\ OperationZeroPageIndexed(op, r, x)
  <2>1. n = 3 /\ LastCycle(i) = 3 /\ i.mode \notin Indexed
    BY <1>2, <1>5 DEF FirstAccess, Indexed
  <2>2. At(3) => ZP = a
    BY <1>5, <2>1, AimedAt DEF From, At
  <2> QED
    BY <1>1, <1>5, <2>1, <2>2, AddressingCyclePerformed, NoInvalidOperandCycle,
       OperationPlainPerformed DEF OperationZeroPageIndexed, AddressingCycle
<1>6. CASE i.mode = "Absolute" /\ OperationAbsolute(op, r)
  <2>1. n = 3 /\ LastCycle(i) = 3 /\ i.mode \notin Indexed
    BY <1>2, <1>6 DEF FirstAccess, Indexed
  <2>2. At(3) => EA = a
    BY <1>6, <2>1, AimedAt DEF From, At
  <2> QED
    BY <1>1, <1>6, <2>1, <2>2, AddressingCyclePerformed, NoInvalidOperandCycle,
       OperationPlainPerformed DEF OperationAbsolute, AddressingCycle
<1>7. CASE i.mode \in {"AbsoluteX", "AbsoluteY"} /\ OperationAbsoluteIndexed(op, r, x)
  <2>1. n = 3 /\ i.mode \in Indexed
    BY <1>7 DEF FirstAccess, Indexed
  <2> QED
    BY <1>1, <1>7, <2>1, AddressingCyclePerformed, OperateIndexedPerformed
    DEF OperationAbsoluteIndexed, AddressingCycle
<1>8. CASE i.mode = "XIndirect" /\ OperationXIndirect(op, r)
  <2>1. n = 5 /\ LastCycle(i) = 5 /\ i.mode \notin Indexed
    BY <1>2, <1>8 DEF FirstAccess, Indexed
  <2>2. At(5) => EA = a
    BY <1>8, <2>1, AimedAt DEF From, At
  <2> QED
    BY <1>1, <1>8, <2>1, <2>2, AddressingCyclePerformed, NoInvalidOperandCycle,
       OperationPlainPerformed DEF OperationXIndirect, AddressingCycle
<1>9. CASE i.mode = "IndirectY" /\ OperationIndirectY(op, r)
  <2>1. n = 4 /\ i.mode \in Indexed
    BY <1>9 DEF FirstAccess, Indexed
  <2> QED
    BY <1>1, <1>9, <2>1, AddressingCyclePerformed, OperateIndexedPerformed
    DEF OperationIndirectY, AddressingCycle
<1> QED
  BY <1>1, <1>3, <1>4, <1>5, <1>6, <1>7, <1>8, <1>9 DEF ExecuteRegisterOperation

\* A read-modify-write has one cycle more when it indexes last.
LEMMA ExecuteModifyPerformed ==
    ASSUME NEW i, NEW s, OperandUnderway(i, s), ExecuteModify(i)
    PROVE  OperandPerformed(i, s)
<1> DEFINE op == Function(i.name)
           x  == IndexOf(i.mode)
           n  == FirstAccess(i.mode)
           a  == Effective(i.mode, s)
<1>1. i.name \in Unary /\ i.mode # "Implied" /\ OperationOf(i.name) = op
  BY Dispatched DEF ExecuteModify, OperandUnderway, HasOperand
<1>2. /\ i.cycles = IF i.mode \in Indexed THEN n + 4 ELSE n + 3
      /\ n \in 1 .. 5 /\ instruction_cycle \in Nat
  BY <1>1, OperandCycles DEF OperandUnderway, InstructionInProgress, InProgress
<1>3. CASE i.mode = "ZeroPage" /\ OperationZeroPage_ReadModifyWrite(op)
  <2>1. i.cycles - 3 = 2 /\ n = 2 /\ i.mode \notin Indexed
    BY <1>2, <1>3 DEF FirstAccess, Indexed
  <2>2. From(2) => ZP = a /\ pc = Add16(s.pc, Length(i.mode))
    BY <1>3, <2>1, AimedAt
  <2>3. ReadModifyWrite(2, op, ZP) => From(2)
    BY <1>2 DEF ReadModifyWrite, InvalidCycle, At, From
  <2> QED
    BY <1>1, <1>3, <2>1, <2>2, <2>3, AddressingCyclePerformed, ModifyPerformed
    DEF OperationZeroPage_ReadModifyWrite, AddressingCycle
<1>4. CASE i.mode = "ZeroPageX" /\ OperationZeroPageIndexed_ReadModifyWrite(op, x)
  <2>1. i.cycles - 3 = 3 /\ n = 3 /\ i.mode \notin Indexed
    BY <1>2, <1>4 DEF FirstAccess, Indexed
  <2>2. From(3) => ZP = a /\ pc = Add16(s.pc, Length(i.mode))
    BY <1>4, <2>1, AimedAt
  <2>3. ReadModifyWrite(3, op, ZP) => From(3)
    BY <1>2 DEF ReadModifyWrite, InvalidCycle, At, From
  <2> QED
    BY <1>1, <1>4, <2>1, <2>2, <2>3, AddressingCyclePerformed, ModifyPerformed
    DEF OperationZeroPageIndexed_ReadModifyWrite, AddressingCycle
<1>5. CASE i.mode = "Absolute" /\ OperationAbsolute_ReadModifyWrite(op)
  <2>1. i.cycles - 3 = 3 /\ n = 3 /\ i.mode \notin Indexed
    BY <1>2, <1>5 DEF FirstAccess, Indexed
  <2>2. From(3) => EA = a /\ pc = Add16(s.pc, Length(i.mode))
    BY <1>5, <2>1, AimedAt
  <2>3. ReadModifyWrite(3, op, EA) => From(3)
    BY <1>2 DEF ReadModifyWrite, InvalidCycle, At, From
  <2> QED
    BY <1>1, <1>5, <2>1, <2>2, <2>3, AddressingCyclePerformed, ModifyPerformed
    DEF OperationAbsolute_ReadModifyWrite, AddressingCycle
<1>6. CASE i.mode = "AbsoluteX" /\ OperationAbsoluteIndexed_ReadModifyWrite(op, x)
  <2>1. i.cycles - 3 = 4 /\ n = 3 /\ i.mode \in Indexed
    BY <1>2, <1>6 DEF FirstAccess, Indexed
  <2>2. CASE AbsoluteIndexed(x)
    BY <1>6, <2>2, AddressingCyclePerformed DEF AddressingCycle
  <2>3. CASE /\ At(3) /\ addr' = EA
             /\ latch' = [IF page_crossed THEN WithCarry ELSE latch
                              EXCEPT !["op_latch"] = Read(EA)]
             /\ ContinueWith(FALSE) /\ UNCHANGED <<pc, sp, reg, status, memory>>
    <3>1. /\ latch'["adl"] = latch["adl"]
          /\ latch'["adh"] = IF page_crossed THEN Inc8(latch["adh"]) ELSE latch["adh"]
      BY <2>3 DEF WithCarry, OperandUnderway, MachineType, Latch
    <3>2. i.name \notin Loads /\ i.name \notin Binary
      BY <1>1 DEF Unary, Loads, Binary
    <3> QED
      BY <2>1, <2>3, <3>1, <3>2, DummyCrosses DEF ContinueWith
  <2>4. CASE ReadModifyWrite(4, op, EA)
    <3>1. From(4) /\ From(3)
      BY <1>2, <2>4 DEF ReadModifyWrite, InvalidCycle, At, From
    <3>2. EA = a /\ pc = Add16(s.pc, Length(i.mode))
      BY <2>1, <3>1, CarriedAt
    <3> QED
      BY <1>1, <2>1, <2>4, <3>2, ModifyPerformed
  <2> QED
    BY <1>6, <2>2, <2>3, <2>4 DEF OperationAbsoluteIndexed_ReadModifyWrite
<1> QED
  BY <1>1, <1>3, <1>4, <1>5, <1>6 DEF ExecuteModify

-----------------------------------------------------------------------------
(* The dispatch: an instruction in progress, at one of its cycles.         *)

InstructionUnderway(i, s) ==
    /\ MachineType /\ MachineState(s)
    /\ Row(i) /\ Entry(i)
    /\ InstructionInProgress(i)
    /\ InstructionBegun(i, s)

Executes(i) ==
    \/ ExecuteLoad(i)
    \/ ExecuteStore(i)
    \/ ExecuteTransfer(i)
    \/ ExecuteRegisterOperation(i)
    \/ ExecuteModify(i)
    \/ ExecuteStack(i)
    \/ ExecuteJump(i)
    \/ ExecuteBranch(i)
    \/ ExecuteFlag(i)

LEMMA OperandExecuted ==
    ASSUME NEW i, NEW s, InstructionUnderway(i, s), Executes(i), HasOperand(i)
    PROVE  OperandPerformed(i, s)
<1>1. OperandUnderway(i, s)
  BY OperandBegun DEF InstructionUnderway, OperandUnderway
<1>2. i.name \in Loads \cup Stores \cup Binary \cup Unary
  BY DEF HasOperand
<1>3. ~ExecuteTransfer(i) /\ ~ExecuteStack(i) /\ ~ExecuteJump(i) /\ ~ExecuteFlag(i)
  BY <1>2 DEF ExecuteTransfer, ExecuteStack, ExecuteJump, ExecuteFlag, Loads, Stores,
              Binary, Unary
<1>4. ~ExecuteBranch(i)
  <2>1. i.name \notin Branches
    BY <1>2 DEF Loads, Stores, Binary, Unary, Branches
  <2> QED
    BY <2>1 DEF ExecuteBranch, InstructionUnderway, Entry
<1> QED
  BY <1>1, <1>3, <1>4, ExecuteLoadPerformed, ExecuteStorePerformed,
     ExecuteOperationPerformed, ExecuteModifyPerformed DEF Executes
=============================================================================
