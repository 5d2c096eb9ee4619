----------------------------- MODULE CPUProofs -----------------------------
(***************************************************************************)
(* Invariants of CPU, proved for every memory image and for resets in any  *)
(* of the modes the theorem names.                                         *)
(***************************************************************************)
EXTENDS CPU, AluProofs

-----------------------------------------------------------------------------
(* TypeOK, in the parts that the micro-operations, the micro-cycle counter *)
(* and the interrupt handlers change.                                      *)

MachineType ==
    /\ pc \in Word /\ sp \in Byte /\ reg \in [Reg -> Byte] /\ status \in Status
    /\ latch \in [Latch -> Byte] /\ addr \in Word
    /\ IsMemory(memory)

CounterType ==
    page_crossed \in BOOLEAN /\ instruction_cycle \in 0 .. 6 /\ fault \in Fault

ControlType ==
    /\ glabal_mode \in GlobalMode /\ interrupt_cycle \in 0 .. 6
    /\ pc_adl \in Byte /\ pc_adh \in Byte /\ ir \in Byte
    /\ nmi_pending \in BOOLEAN /\ irq_pending \in BOOLEAN

LEMMA TypeParts == TypeOK <=> MachineType /\ CounterType /\ ControlType
BY DEF TypeOK, MachineType, CounterType, ControlType

LEMMA TypePartsNext == TypeOK' <=> MachineType' /\ CounterType' /\ ControlType'
BY DEF TypeOK, MachineType, CounterType, ControlType

LEMMA ReadType == ASSUME MachineType, NEW a PROVE Read(a) \in Byte
BY DEF MachineType, IsMemory, Read, Byte

LEMMA WrittenType ==
    ASSUME MachineType, NEW a \in Word, NEW v \in Byte
    PROVE  IsMemory(Written(a, v))
BY DEF MachineType, IsMemory, Written

LEMMA ByteIsWord == \A b \in Byte : b \in Word
BY DEF Byte, Word

LEMMA WordIsNat == \A w \in Word : w \in Nat
BY DEF Word

LEMMA StackType == ASSUME NEW b \in Byte PROVE 256 + b \in Word
BY DEF Byte, Word

LEMMA AddressTypes ==
    ASSUME MachineType
    PROVE  ZP \in Word /\ EA \in Word /\ Pointer \in Byte /\ Pointer \in Word
BY CombineType, ByteIsWord DEF MachineType, ZP, EA, Pointer, Latch

LEMMA WithCarryType ==
    ASSUME MachineType PROVE WithCarry \in [Latch -> Byte]
BY Inc8Type DEF MachineType, WithCarry, Latch

LEMMA ReadToType ==
    ASSUME MachineType, NEW l \in Latch, NEW a \in Word, ReadTo(l, a)
    PROVE  MachineType'
BY ReadType DEF MachineType, ReadTo

LEMMA DummyReadType ==
    ASSUME MachineType, NEW a \in Word, DummyRead(a) PROVE MachineType'
BY DEF MachineType, DummyRead

LEMMA FetchType ==
    ASSUME MachineType, NEW l \in Latch, Fetch(l) PROVE MachineType'
BY ReadType, Inc16Type DEF MachineType, Fetch

LEMMA LoadType ==
    ASSUME MachineType, NEW a \in Word, NEW r \in Reg, Load(a, r),
           latch' \in [Latch -> Byte]
    PROVE  MachineType'
BY ReadType, SetZNFlagsType DEF MachineType, Load

LEMMA LoadFromType ==
    ASSUME MachineType, NEW a \in Word, NEW r \in Reg, LoadFrom(a, r)
    PROVE  MachineType'
BY LoadType DEF MachineType, LoadFrom

LEMMA StoreType ==
    ASSUME MachineType, NEW a \in Word, NEW r \in Reg, Store(a, r)
    PROVE  MachineType'
BY WrittenType DEF MachineType, Store

LEMMA PushType ==
    ASSUME MachineType, NEW v \in Byte, Push(v), pc' \in Word, status' \in Status
    PROVE  MachineType'
BY WrittenType, StackType, Dec8Type DEF MachineType, Push

LEMMA IndexZeroPageType ==
    ASSUME MachineType, NEW l \in Latch, NEW index \in Byte,
           IndexZeroPage(l, index)
    PROVE  MachineType'
<1>1. latch[l] \in Byte
  BY DEF MachineType
<1>2. latch[l] + index \in Nat
  BY <1>1 DEF Byte
<1>3. U16Low(latch[l] + index) \in Byte
  BY <1>2, U16LowType
<1> QED
  BY <1>1, <1>3, ByteIsWord DEF MachineType, IndexZeroPage

LEMMA ContinueType ==
    ASSUME CounterType, NEW n \in 0 .. 5, At(n), Continue PROVE CounterType'
BY DEF CounterType, At, Continue, ContinueWith

LEMMA ContinueWithType ==
    ASSUME CounterType, NEW n \in 0 .. 5, At(n), NEW b \in BOOLEAN, ContinueWith(b)
    PROVE  CounterType'
BY DEF CounterType, At, ContinueWith

LEMMA ContinueFalseType ==
    ASSUME CounterType, NEW n \in 0 .. 5, At(n), ContinueWith(FALSE)
    PROVE  CounterType'
BY ContinueWithType, Zenon

LEMMA FinishType == ASSUME CounterType, Finish PROVE CounterType'
BY DEF CounterType, Finish

LEMMA FinishCrossedType == ASSUME CounterType, FinishCrossed PROVE CounterType'
<1>1. fault' \in Fault
  <2>1. CASE page_crossed
    BY <2>1 DEF CounterType, FinishCrossed
  <2>2. CASE ~page_crossed
    BY <2>2 DEF FinishCrossed, Fault
  <2> QED
    BY <2>1, <2>2
<1>2. instruction_cycle' = 0 /\ page_crossed' = FALSE
  BY DEF FinishCrossed
<1>3. page_crossed' \in BOOLEAN
  BY <1>2, Zenon
<1> QED
  BY <1>1, <1>2, <1>3 DEF CounterType

LEMMA InvalidCycleType ==
    ASSUME MachineType, CounterType, NEW n, InvalidCycle(n)
    PROVE  MachineType' /\ CounterType'
BY DEF MachineType, CounterType, InvalidCycle, Fault

-----------------------------------------------------------------------------
(* The addressing modes.                                                   *)

LEMMA HighIndexedType ==
    ASSUME MachineType, CounterType, NEW a \in Word, NEW index \in Byte,
           NEW n \in 0 .. 5, At(n), HighIndexed(a, index), pc' \in Word
    PROVE  MachineType' /\ CounterType'
<1>1. latch["adl"] \in Byte
  BY DEF MachineType, Latch
<1>2. latch["adl"] + index \in Nat
  BY <1>1 DEF Byte
<1>3. U16Low(latch["adl"] + index) \in Byte
  BY <1>2, U16LowType
<1>4. latch' \in [Latch -> Byte]
  BY <1>3, ReadType DEF MachineType, HighIndexed
<1>5. MachineType'
  BY <1>4 DEF MachineType, HighIndexed
<1>6. CounterType'
  <2>1. page_crossed' \in BOOLEAN
    <3>1. (latch["adl"] + index > 255) \in BOOLEAN
      BY <1>2
    <3> QED
      BY <3>1, Zenon DEF HighIndexed, ContinueWith
  <2>2. instruction_cycle' = instruction_cycle + 1 /\ fault' = fault
    BY DEF HighIndexed, ContinueWith
  <2> QED
    BY <2>1, <2>2 DEF CounterType, At
<1> QED
  BY <1>5, <1>6

LEMMA ZeroPageType ==
    ASSUME MachineType, CounterType, ZeroPage PROVE MachineType' /\ CounterType'
BY FetchType, ContinueType DEF ZeroPage, Latch

LEMMA ZeroPageIndexedType ==
    ASSUME MachineType, CounterType, NEW index \in Byte, ZeroPageIndexed(index)
    PROVE  MachineType' /\ CounterType'
BY ZeroPageType, IndexZeroPageType, ContinueType DEF ZeroPageIndexed, Latch

LEMMA AbsoluteType ==
    ASSUME MachineType, CounterType, Absolute PROVE MachineType' /\ CounterType'
BY FetchType, ContinueType DEF Absolute, Latch

LEMMA AbsoluteIndexedType ==
    ASSUME MachineType, CounterType, NEW index \in Byte, AbsoluteIndexed(index)
    PROVE  MachineType' /\ CounterType'
<1>1. pc \in Word /\ Inc16(pc) \in Word
  BY Inc16Type DEF MachineType
<1> QED
  BY <1>1, FetchType, ContinueType, HighIndexedType DEF AbsoluteIndexed, Latch

LEMMA XIndirectType ==
    ASSUME MachineType, CounterType, NEW index \in Byte, XIndirect(index)
    PROVE  MachineType' /\ CounterType'
<1>1. Pointer \in Word /\ Inc8(Pointer) \in Word
  BY AddressTypes, Inc8Type, ByteIsWord
<1> QED
  BY <1>1, FetchType, IndexZeroPageType, ReadToType, ContinueType
  DEF XIndirect, Latch

LEMMA IndirectYType ==
    ASSUME MachineType, CounterType, IndirectY
    PROVE  MachineType' /\ CounterType'
<1>1. Pointer \in Word /\ Inc8(Pointer) \in Word
  BY AddressTypes, Inc8Type, ByteIsWord
<1>2. reg["y"] \in Byte /\ pc \in Word
  BY DEF MachineType, Reg
<1>3. CASE At(3) /\ HighIndexed(Inc8(Pointer), reg["y"]) /\ UNCHANGED pc
  BY <1>1, <1>2, <1>3, HighIndexedType
<1> QED
  BY <1>1, <1>3, FetchType, ReadToType, ContinueType DEF IndirectY, Latch

-----------------------------------------------------------------------------
(* Loads, stores and transfers.                                            *)

LEMMA LoadAbsoluteType ==
    ASSUME MachineType, CounterType, NEW r \in Reg, LoadMemoryToRegisterAbsolute(r)
    PROVE  MachineType' /\ CounterType'
BY AbsoluteType, AddressTypes, LoadFromType, FinishType, InvalidCycleType
DEF LoadMemoryToRegisterAbsolute

LEMMA LoadImmediateType ==
    ASSUME MachineType, CounterType, NEW r \in Reg, LoadMemoryToRegisterImmediate(r)
    PROVE  MachineType' /\ CounterType'
<1>1. CASE InvalidCycle(1)
  BY <1>1, InvalidCycleType
<1>2. CASE ~InvalidCycle(1)
  BY <1>2, ReadType, SetZNFlagsType, Inc16Type, FinishType
  DEF LoadMemoryToRegisterImmediate, MachineType
<1> QED
  BY <1>1, <1>2

LEMMA LoadZeroPageType ==
    ASSUME MachineType, CounterType, NEW r \in Reg, LoadMemoryToRegisterZeroPage(r)
    PROVE  MachineType' /\ CounterType'
BY ZeroPageType, AddressTypes, LoadFromType, FinishType, InvalidCycleType
DEF LoadMemoryToRegisterZeroPage

LEMMA LoadZeroPageIndexedType ==
    ASSUME MachineType, CounterType, NEW r \in Reg, NEW index \in Byte,
           LoadMemoryToRegisterZeroPageIndexed(r, index)
    PROVE  MachineType' /\ CounterType'
BY ZeroPageIndexedType, AddressTypes, LoadFromType, FinishType, InvalidCycleType
DEF LoadMemoryToRegisterZeroPageIndexed

LEMMA LoadIndexedType ==
    ASSUME MachineType, CounterType, NEW n \in 0 .. 5, NEW r \in Reg,
           LoadIndexed(n, r)
    PROVE  MachineType' /\ CounterType'
BY AddressTypes, WithCarryType, LoadType, LoadFromType, ContinueType, FinishType,
   FinishCrossedType, InvalidCycleType
DEF LoadIndexed

LEMMA LoadAbsoluteIndexedType ==
    ASSUME MachineType, CounterType, NEW r \in Reg, NEW index \in Byte,
           LoadMemoryToRegisterAbsoluteIndexed(r, index)
    PROVE  MachineType' /\ CounterType'
BY AbsoluteIndexedType, LoadIndexedType DEF LoadMemoryToRegisterAbsoluteIndexed

LEMMA LoadXIndirectType ==
    ASSUME MachineType, CounterType, NEW r \in Reg, NEW index \in Byte,
           LoadMemoryToRegisterXIndirect(r, index)
    PROVE  MachineType' /\ CounterType'
BY XIndirectType, AddressTypes, LoadFromType, FinishType, InvalidCycleType
DEF LoadMemoryToRegisterXIndirect

LEMMA LoadIndirectYType ==
    ASSUME MachineType, CounterType, NEW r \in Reg, LoadMemoryToRegisterIndirectY(r)
    PROVE  MachineType' /\ CounterType'
BY IndirectYType, LoadIndexedType DEF LoadMemoryToRegisterIndirectY

LEMMA StoreAbsoluteType ==
    ASSUME MachineType, CounterType, NEW r \in Reg, StoreRegisterAbsolute(r)
    PROVE  MachineType' /\ CounterType'
BY AbsoluteType, AddressTypes, StoreType, FinishType, InvalidCycleType
DEF StoreRegisterAbsolute

LEMMA StoreZeroPageType ==
    ASSUME MachineType, CounterType, NEW r \in Reg, StoreRegisterZeroPage(r)
    PROVE  MachineType' /\ CounterType'
BY ZeroPageType, AddressTypes, StoreType, FinishType, InvalidCycleType
DEF StoreRegisterZeroPage

LEMMA StoreZeroPageIndexedType ==
    ASSUME MachineType, CounterType, NEW r \in Reg, NEW index \in Byte,
           StoreRegisterZeroPageIndexed(r, index)
    PROVE  MachineType' /\ CounterType'
BY ZeroPageIndexedType, AddressTypes, StoreType, FinishType, InvalidCycleType
DEF StoreRegisterZeroPageIndexed

LEMMA CarrySettledType ==
    ASSUME MachineType, addr' = EA,
           latch' = IF page_crossed THEN WithCarry ELSE latch,
           UNCHANGED <<pc, sp, reg, status, memory>>
    PROVE  MachineType'
<1>1. latch' \in [Latch -> Byte]
  BY WithCarryType DEF MachineType
<1> QED
  BY <1>1, AddressTypes DEF MachineType

LEMMA StoreIndexedType ==
    ASSUME MachineType, CounterType, NEW n \in 0 .. 5, NEW r \in Reg,
           StoreIndexed(n, r)
    PROVE  MachineType' /\ CounterType'
<1>1. CASE At(n) /\ addr' = EA
           /\ latch' = (IF page_crossed THEN WithCarry ELSE latch)
           /\ ContinueWith(FALSE) /\ UNCHANGED <<pc, sp, reg, status, memory>>
  BY <1>1, CarrySettledType, ContinueFalseType
<1>2. CASE Store(EA, r) /\ Finish
  BY <1>2, AddressTypes, StoreType, FinishType
<1>3. CASE InvalidCycle(n + 1)
  BY <1>3, InvalidCycleType
<1> QED
  BY <1>1, <1>2, <1>3 DEF StoreIndexed

LEMMA StoreAbsoluteIndexedType ==
    ASSUME MachineType, CounterType, NEW r \in Reg, NEW index \in Byte,
           StoreRegisterAbsoluteIndexed(r, index)
    PROVE  MachineType' /\ CounterType'
BY AbsoluteIndexedType, StoreIndexedType DEF StoreRegisterAbsoluteIndexed

LEMMA StoreXIndirectType ==
    ASSUME MachineType, CounterType, NEW r \in Reg, NEW index \in Byte,
           StoreRegisterXIndirect(r, index)
    PROVE  MachineType' /\ CounterType'
BY XIndirectType, AddressTypes, StoreType, FinishType, InvalidCycleType
DEF StoreRegisterXIndirect

LEMMA StoreIndirectYType ==
    ASSUME MachineType, CounterType, NEW r \in Reg, StoreRegisterIndirectY(r)
    PROVE  MachineType' /\ CounterType'
BY IndirectYType, StoreIndexedType DEF StoreRegisterIndirectY

LEMMA TransferRegisterType ==
    ASSUME MachineType, CounterType, NEW r \in Reg, NEW v \in Byte,
           TransferRegister(r, v)
    PROVE  MachineType' /\ CounterType'
<1>1. CASE InvalidCycle(1)
  BY <1>1, InvalidCycleType
<1>2. CASE ~InvalidCycle(1)
  BY <1>2, SetZNFlagsType, FinishType DEF TransferRegister, MachineType
<1> QED
  BY <1>1, <1>2

-----------------------------------------------------------------------------
(* Operations on registers and memory.                                     *)

LEMMA OperateAtType ==
    ASSUME MachineType, NEW op \in Operation, NEW a \in Word, NEW r \in Reg,
           Operate(op, a, r), pc' \in Word
    PROVE  MachineType'
<1> DEFINE out == ExecuteOperation(op, reg[r], Read(a), status)
<1>1. IsOutcome(out)
  BY ReadType, OperationType DEF MachineType
<1>2. out.reg \in Byte /\ out.status \in Status
  BY <1>1 DEF IsOutcome
<1>3. reg' = [reg EXCEPT ![r] = out.reg] /\ status' = out.status
  BY DEF Operate
<1> HIDE DEF out
<1> QED
  BY <1>2, <1>3, ReadType DEF MachineType, Operate

LEMMA OperateAtPCType ==
    ASSUME MachineType, NEW op \in Operation, NEW a \in Word, NEW r \in Reg,
           OperateAt(op, a, r)
    PROVE  MachineType'
<1>1. pc' \in Word
  BY DEF MachineType, OperateAt
<1> QED
  BY <1>1, OperateAtType DEF OperateAt

LEMMA ModifyType ==
    ASSUME MachineType, NEW op \in Operation, NEW a \in Word, Modify(op, a)
    PROVE  MachineType'
<1> DEFINE out == ExecuteOperation(op, Pointer, Pointer, status)
<1>1. IsOutcome(out)
  BY AddressTypes, OperationType DEF MachineType
<1>2. out.reg \in Byte /\ out.status \in Status
  BY <1>1 DEF IsOutcome
<1>3. latch' = [latch EXCEPT !["op_latch"] = out.reg] /\ status' = out.status
  BY DEF Modify
<1> HIDE DEF out
<1> QED
  BY <1>2, <1>3, AddressTypes, WrittenType DEF MachineType, Modify

LEMMA WriteBackType ==
    ASSUME MachineType, NEW a \in Word, WriteBack(a) PROVE MachineType'
BY AddressTypes, WrittenType DEF MachineType, WriteBack

LEMMA ReadModifyWriteType ==
    ASSUME MachineType, CounterType, NEW n \in 0 .. 4, NEW op \in Operation,
           NEW a \in Word, ReadModifyWrite(n, op, a)
    PROVE  MachineType' /\ CounterType'
BY ReadToType, ModifyType, WriteBackType, ContinueType, FinishType,
   InvalidCycleType
DEF ReadModifyWrite, Latch

LEMMA OperationImmediateType ==
    ASSUME MachineType, CounterType, NEW op \in Operation, NEW r \in Reg,
           OperationImmediate(op, r)
    PROVE  MachineType' /\ CounterType'
<1>1. pc \in Word /\ Inc16(pc) \in Word
  BY Inc16Type DEF MachineType
<1> QED
  BY <1>1, OperateAtType, FinishType, InvalidCycleType DEF OperationImmediate

LEMMA OperationZeroPageType ==
    ASSUME MachineType, CounterType, NEW op \in Operation, NEW r \in Reg,
           OperationZeroPage(op, r)
    PROVE  MachineType' /\ CounterType'
BY ZeroPageType, AddressTypes, OperateAtPCType, FinishType, InvalidCycleType
DEF OperationZeroPage

LEMMA OperationZeroPageRMWType ==
    ASSUME MachineType, CounterType, NEW op \in Operation,
           OperationZeroPage_ReadModifyWrite(op)
    PROVE  MachineType' /\ CounterType'
BY ZeroPageType, AddressTypes, ReadModifyWriteType
DEF OperationZeroPage_ReadModifyWrite

LEMMA OperationZeroPageIndexedType ==
    ASSUME MachineType, CounterType, NEW op \in Operation, NEW r \in Reg,
           NEW index \in Byte, OperationZeroPageIndexed(op, r, index)
    PROVE  MachineType' /\ CounterType'
BY ZeroPageIndexedType, AddressTypes, OperateAtPCType, FinishType, InvalidCycleType
DEF OperationZeroPageIndexed

LEMMA OperationZeroPageIndexedRMWType ==
    ASSUME MachineType, CounterType, NEW op \in Operation, NEW index \in Byte,
           OperationZeroPageIndexed_ReadModifyWrite(op, index)
    PROVE  MachineType' /\ CounterType'
BY ZeroPageIndexedType, AddressTypes, ReadModifyWriteType
DEF OperationZeroPageIndexed_ReadModifyWrite

LEMMA OperationAbsoluteType ==
    ASSUME MachineType, CounterType, NEW op \in Operation, NEW r \in Reg,
           OperationAbsolute(op, r)
    PROVE  MachineType' /\ CounterType'
BY AbsoluteType, AddressTypes, OperateAtPCType, FinishType, InvalidCycleType
DEF OperationAbsolute

LEMMA OperationAbsoluteRMWType ==
    ASSUME MachineType, CounterType, NEW op \in Operation,
           OperationAbsolute_ReadModifyWrite(op)
    PROVE  MachineType' /\ CounterType'
BY AbsoluteType, AddressTypes, ReadModifyWriteType
DEF OperationAbsolute_ReadModifyWrite

LEMMA OperateIndexedType ==
    ASSUME MachineType, CounterType, NEW n \in 0 .. 5, NEW op \in Operation,
           NEW r \in Reg, OperateIndexed(n, op, r)
    PROVE  MachineType' /\ CounterType'
<1>1. CASE At(n) /\ page_crossed /\ addr' = EA
           /\ latch' = [WithCarry EXCEPT !["op_latch"] = 0]
           /\ Continue /\ UNCHANGED <<pc, sp, reg, status, memory>>
  <2>1. 0 \in Byte
    BY DEF Byte
  <2>2. latch' \in [Latch -> Byte]
    BY <1>1, <2>1, WithCarryType
  <2>3. MachineType'
    BY <1>1, <2>2, AddressTypes DEF MachineType
  <2> QED
    BY <1>1, <2>3, ContinueType
<1>2. CASE OperateAt(op, EA, r) /\ Finish
  BY <1>2, AddressTypes, OperateAtPCType, FinishType
<1>3. CASE OperateAt(op, EA, r) /\ FinishCrossed
  BY <1>3, AddressTypes, OperateAtPCType, FinishCrossedType
<1>4. CASE InvalidCycle(n + 1)
  BY <1>4, InvalidCycleType
<1> QED
  BY <1>1, <1>2, <1>3, <1>4 DEF OperateIndexed

LEMMA OperationAbsoluteIndexedType ==
    ASSUME MachineType, CounterType, NEW op \in Operation, NEW r \in Reg,
           NEW index \in Byte, OperationAbsoluteIndexed(op, r, index)
    PROVE  MachineType' /\ CounterType'
BY AbsoluteIndexedType, OperateIndexedType DEF OperationAbsoluteIndexed

LEMMA OperationAbsoluteIndexedRMWType ==
    ASSUME MachineType, CounterType, NEW op \in Operation, NEW index \in Byte,
           OperationAbsoluteIndexed_ReadModifyWrite(op, index)
    PROVE  MachineType' /\ CounterType'
<1>1. CASE AbsoluteIndexed(index)
  BY <1>1, AbsoluteIndexedType
<1>2. CASE /\ At(3)
           /\ addr' = EA
           /\ latch' = [IF page_crossed THEN WithCarry ELSE latch
                            EXCEPT !["op_latch"] = Read(EA)]
           /\ ContinueWith(FALSE)
           /\ UNCHANGED <<pc, sp, reg, status, memory>>
  <2>1. (IF page_crossed THEN WithCarry ELSE latch) \in [Latch -> Byte]
    BY WithCarryType DEF MachineType
  <2>2. latch' \in [Latch -> Byte]
    BY <1>2, <2>1, ReadType
  <2>3. MachineType'
    BY <1>2, <2>2, AddressTypes DEF MachineType
  <2> QED
    BY <1>2, <2>3, ContinueFalseType
<1>3. CASE ReadModifyWrite(4, op, EA)
  BY <1>3, AddressTypes, ReadModifyWriteType
<1> QED
  BY <1>1, <1>2, <1>3 DEF OperationAbsoluteIndexed_ReadModifyWrite

LEMMA OperationIndirectYType ==
    ASSUME MachineType, CounterType, NEW op \in Operation, NEW r \in Reg,
           OperationIndirectY(op, r)
    PROVE  MachineType' /\ CounterType'
BY IndirectYType, OperateIndexedType DEF OperationIndirectY

LEMMA OperationXIndirectType ==
    ASSUME MachineType, CounterType, NEW op \in Operation, NEW r \in Reg,
           OperationXIndirect(op, r)
    PROVE  MachineType' /\ CounterType'
<1>1. reg["x"] \in Byte
  BY DEF MachineType, Reg
<1> QED
  BY <1>1, XIndirectType, AddressTypes, OperateAtPCType, FinishType, InvalidCycleType
  DEF OperationXIndirect

LEMMA OperationImpliedType ==
    ASSUME MachineType, CounterType, NEW op \in Operation, NEW r \in Reg,
           OperationImplied(op, r)
    PROVE  MachineType' /\ CounterType'
<1> DEFINE out == ExecuteOperation(op, reg[r], 0, status)
<1>1. 0 \in Byte
  BY DEF Byte
<1>2. IsOutcome(out)
  BY <1>1, OperationType DEF MachineType
<1>3. out.reg \in Byte /\ out.status \in Status
  BY <1>2 DEF IsOutcome
<1>4. CASE InvalidCycle(1)
  BY <1>4, InvalidCycleType
<1>5. CASE /\ reg' = [reg EXCEPT ![r] = out.reg] /\ status' = out.status
           /\ Finish /\ UNCHANGED <<pc, sp, latch, addr, memory>>
  <2> HIDE DEF out
  <2>1. MachineType'
    BY <1>3, <1>5 DEF MachineType
  <2> QED
    BY <1>5, <2>1, FinishType
<1> QED
  BY <1>4, <1>5 DEF OperationImplied

-----------------------------------------------------------------------------
(* Branches, the stack, jumps and flags.                                   *)

LEMMA Mod16Type == ASSUME NEW n \in Nat PROVE n % 65536 \in Word
BY DEF Word

LEMMA BranchTargetType == ASSUME MachineType PROVE BranchTarget \in Word
<1> DEFINE extension == IF Negative(Pointer) THEN 65280 ELSE 0
           total == pc + Pointer + extension
<1>1. pc \in Nat /\ Pointer \in Nat
  BY AddressTypes, WordIsNat DEF MachineType
<1>2. extension \in Nat
  BY DEF Negative
<1>3. total \in Nat
  <2> HIDE DEF extension
  <2> QED
    BY <1>1, <1>2
<1>4. BranchTarget = total % 65536
  BY DEF BranchTarget
<1> HIDE DEF total
<1> QED
  BY <1>3, <1>4, Mod16Type

LEMMA PCBytes ==
    ASSUME MachineType
    PROVE  U16Low(pc) \in Byte /\ U16High(pc) \in Byte
<1>1. pc \in Word /\ pc \in Nat
  BY WordIsNat DEF MachineType
<1> QED
  BY <1>1, U16LowType, U16HighType

LEMMA RelativeBranchType ==
    ASSUME MachineType, CounterType, NEW condition, RelativeBranch(condition)
    PROVE  MachineType' /\ CounterType'
<1> DEFINE crossed == U16High(BranchTarget) # U16High(pc)
<1>1. /\ U16High(BranchTarget) \in Byte
      /\ U16Low(BranchTarget) \in Byte
  <2>1. BranchTarget \in Word /\ BranchTarget \in Nat
    BY BranchTargetType, WordIsNat
  <2> QED
    BY <2>1, U16LowType, U16HighType
<1>2. CASE /\ Fetch("op_latch")
           /\ instruction_cycle' = IF ExecuteCondition(condition, status) THEN 2 ELSE 0
           /\ UNCHANGED <<page_crossed, fault>>
  <2>1. MachineType'
    BY <1>2, FetchType DEF Latch
  <2>2. instruction_cycle' \in 0 .. 6
    BY <1>2
  <2> QED
    BY <1>2, <2>1, <2>2 DEF CounterType
<1>3. CASE /\ addr' = U16Low(pc)
           /\ page_crossed' = crossed
           /\ pc' = CombineToU16(U16High(pc), U16Low(BranchTarget))
           /\ latch' = IF page_crossed'
                       THEN [latch EXCEPT !["op_latch"] = U16High(BranchTarget)]
                       ELSE latch
           /\ instruction_cycle' = IF page_crossed' THEN 3 ELSE 0
           /\ UNCHANGED <<sp, reg, status, memory, fault>>
  <2>1. latch' \in [Latch -> Byte]
    BY <1>1, <1>3 DEF MachineType
  <2>2. addr' \in Word /\ pc' \in Word
    BY <1>1, <1>3, PCBytes, CombineType, ByteIsWord
  <2>3. MachineType'
    BY <1>3, <2>1, <2>2 DEF MachineType
  <2>4. page_crossed' \in BOOLEAN
    <3>1. crossed \in BOOLEAN
      BY Zenon
    <3> QED
      BY <1>3, <3>1, Zenon
  <2>5. instruction_cycle' \in 0 .. 6
    BY <1>3
  <2> QED
    BY <1>3, <2>3, <2>4, <2>5 DEF CounterType
<1>4. CASE /\ addr' = U16Low(pc)
           /\ pc' = CombineToU16(Pointer, U16Low(pc))
           /\ FinishCrossed
           /\ UNCHANGED <<sp, reg, status, latch, memory>>
  <2>1. addr' \in Word /\ pc' \in Word
    BY <1>4, AddressTypes, PCBytes, CombineType, ByteIsWord
  <2>2. MachineType'
    BY <1>4, <2>1 DEF MachineType
  <2> QED
    BY <1>4, <2>2, FinishCrossedType
<1>5. CASE InvalidCycle(3)
  BY <1>5, InvalidCycleType
<1> QED
  BY <1>2, <1>3, <1>4, <1>5 DEF RelativeBranch

LEMMA PushByteType ==
    ASSUME MachineType, NEW v \in Byte, Push(v), UNCHANGED <<pc, status>>
    PROVE  MachineType'
<1>1. pc' \in Word /\ status' \in Status
  BY DEF MachineType
<1> QED
  BY <1>1, PushType

LEMMA DummyFetchType == ASSUME MachineType, DummyRead(pc) PROVE MachineType'
<1>1. pc \in Word
  BY DEF MachineType
<1> QED
  BY <1>1, DummyReadType

LEMMA IncrementSPType == ASSUME MachineType, IncrementSP PROVE MachineType'
BY Inc8Type DEF MachineType, IncrementSP

LEMMA PHAType ==
    ASSUME MachineType, CounterType, PHA PROVE MachineType' /\ CounterType'
<1>1. reg["a"] \in Byte
  BY DEF MachineType, Reg
<1> QED
  BY <1>1, DummyFetchType, PushByteType, ContinueType, FinishType, InvalidCycleType
  DEF PHA

LEMMA PLAType ==
    ASSUME MachineType, CounterType, PLA PROVE MachineType' /\ CounterType'
<1>1. 256 + sp \in Word /\ "a" \in Reg
  BY StackType DEF MachineType, Reg
<1> QED
  BY <1>1, DummyFetchType, IncrementSPType, LoadFromType, ContinueType, FinishType,
     InvalidCycleType
  DEF PLA

LEMMA PHPType ==
    ASSUME MachineType, CounterType, PHP PROVE MachineType' /\ CounterType'
BY FromBitsType, DummyFetchType, PushByteType, ContinueType, FinishType, InvalidCycleType
DEF PHP

LEMMA TopTypes ==
    ASSUME MachineType
    PROVE  Top \in Byte /\ Bits(Top) \in Status /\ 256 + sp \in Word /\ Inc8(sp) \in Byte
BY ReadType, BitsType, StackType, Inc8Type DEF Top, MachineType

LEMMA PLPType ==
    ASSUME MachineType, CounterType, PLP PROVE MachineType' /\ CounterType'
<1>1. CASE DummyRead(pc) /\ At(1) /\ Continue
  BY <1>1, DummyFetchType, ContinueType
<1>2. CASE IncrementSP /\ At(2) /\ Continue
  BY <1>2, IncrementSPType, ContinueType
<1>3. CASE /\ status' = Bits(Top) \ {break_command}
           /\ addr' = 256 + sp
           /\ Finish
           /\ UNCHANGED <<pc, sp, reg, latch, memory>>
  <2>1. status' \in Status /\ addr' \in Word
    BY <1>3, TopTypes DEF Status
  <2>2. MachineType'
    BY <1>3, <2>1 DEF MachineType
  <2> QED
    BY <1>3, <2>2, FinishType
<1>4. CASE InvalidCycle(3)
  BY <1>4, InvalidCycleType
<1> QED
  BY <1>1, <1>2, <1>3, <1>4 DEF PLP

LEMMA TXSType ==
    ASSUME MachineType, CounterType, TXS PROVE MachineType' /\ CounterType'
<1>1. CASE InvalidCycle(1)
  BY <1>1, InvalidCycleType
<1>2. CASE ~InvalidCycle(1)
  BY <1>2, FinishType DEF TXS, MachineType, Reg
<1> QED
  BY <1>1, <1>2

\* A cycle that loads pc, by reading at a.
LEMMA JumpType ==
    ASSUME MachineType, NEW l \in Latch, NEW a \in Word, NEW w \in Word,
           latch' = [latch EXCEPT ![l] = Read(a)], addr' = a, pc' = w,
           UNCHANGED <<sp, reg, status, memory>>
    PROVE  MachineType'
BY ReadType DEF MachineType

LEMMA JMPAbsoluteType ==
    ASSUME MachineType, CounterType, JMPAbsolute PROVE MachineType' /\ CounterType'
<1>1. pc \in Word /\ CombineToU16(Read(pc), Pointer) \in Word
  BY ReadType, AddressTypes, CombineType DEF MachineType
<1> QED
  BY <1>1, FetchType, JumpType, ContinueType, FinishType, InvalidCycleType
  DEF JMPAbsolute, Latch

LEMMA JMPIndirectType ==
    ASSUME MachineType, CounterType, JMPIndirect PROVE MachineType' /\ CounterType'
<1> DEFINE a == CombineToU16(latch["adh"], Inc8(latch["adl"]))
<1>1. a \in Word
  BY Inc8Type, CombineType DEF MachineType, Latch
<1>2. CombineToU16(Read(a), Pointer) \in Word
  BY ReadType, AddressTypes, CombineType
<1>3. CASE Absolute
  BY <1>3, AbsoluteType
<1>4. CASE At(3) /\ ReadTo("op_latch", EA) /\ Continue
  BY <1>4, AddressTypes, ReadToType, ContinueType DEF Latch
<1>5. CASE /\ latch' = [latch EXCEPT !["op_latch"] = Read(a)]
           /\ addr' = a
           /\ pc' = CombineToU16(Read(a), Pointer)
           /\ Finish
           /\ UNCHANGED <<sp, reg, status, memory>>
  <2> HIDE DEF a
  <2> QED
    BY <1>1, <1>2, <1>5, JumpType, FinishType DEF Latch
<1>6. CASE InvalidCycle(4)
  BY <1>6, InvalidCycleType
<1> QED
  BY <1>3, <1>4, <1>5, <1>6 DEF JMPIndirect

LEMMA JSRType ==
    ASSUME MachineType, CounterType, JSR PROVE MachineType' /\ CounterType'
<1>1. pc \in Word /\ CombineToU16(Read(pc), latch["adl"]) \in Word
  BY ReadType, CombineType DEF MachineType, Latch
<1>2. CASE At(2) /\ Continue /\ UNCHANGED <<pc, sp, reg, status, latch, addr, memory>>
  BY <1>2, ContinueType DEF MachineType
<1> QED
  BY <1>1, <1>2, PCBytes, FetchType, PushByteType, JumpType, ContinueType, FinishType,
     InvalidCycleType
  DEF JSR, Latch

LEMMA PullPCType ==
    ASSUME MachineType, NEW w \in Word, NEW s \in Byte, PullPC(w, s)
    PROVE  MachineType'
BY TopTypes DEF MachineType, PullPC

LEMMA RTSType ==
    ASSUME MachineType, CounterType, RTS PROVE MachineType' /\ CounterType'
<1>1. /\ Top \in Word /\ CombineToU16(Top, U16Low(pc)) \in Word
      /\ sp \in Byte /\ Inc8(sp) \in Byte
  BY TopTypes, PCBytes, CombineType, ByteIsWord DEF MachineType
<1>2. CASE pc' = Inc16(pc) /\ Finish /\ UNCHANGED <<sp, reg, status, latch, addr, memory>>
  <2>1. MachineType'
    BY <1>2, Inc16Type DEF MachineType
  <2> QED
    BY <1>2, <2>1, FinishType
<1> QED
  BY <1>1, <1>2, DummyFetchType, IncrementSPType, PullPCType, ContinueType,
     InvalidCycleType
  DEF RTS

LEMMA SkipByteType == ASSUME MachineType, SkipByte PROVE MachineType'
BY Inc16Type DEF MachineType, SkipByte

LEMMA RTIType ==
    ASSUME MachineType, CounterType, RTI PROVE MachineType' /\ CounterType'
<1>1. /\ CombineToU16(U16Low(pc), Top) \in Word
      /\ CombineToU16(Top, U16Low(pc)) \in Word
      /\ sp \in Byte /\ Inc8(sp) \in Byte
  BY TopTypes, PCBytes, CombineType DEF MachineType
<1>2. CASE /\ At(3)
           /\ status' = Bits(Top)
           /\ addr' = 256 + sp
           /\ sp' = Inc8(sp)
           /\ Continue
           /\ UNCHANGED <<pc, reg, latch, memory>>
  <2>1. MachineType'
    BY <1>2, TopTypes DEF MachineType
  <2> QED
    BY <1>2, <2>1, ContinueType
<1> QED
  BY <1>1, <1>2, SkipByteType, IncrementSPType, PullPCType, ContinueType, FinishType,
     InvalidCycleType
  DEF RTI

LEMMA VectorByteType ==
    ASSUME MachineType, NEW a \in Word, NEW w \in Word, VectorByte(a, w)
    PROVE  MachineType'
BY DEF MachineType, VectorByte

LEMMA VectorTypes ==
    ASSUME MachineType, NEW a
    PROVE  /\ CombineToU16(U16High(pc), Read(a)) \in Word
           /\ CombineToU16(Read(a), U16Low(pc)) \in Word
BY PCBytes, ReadType, CombineType

LEMMA BRKType ==
    ASSUME MachineType, CounterType, BRK PROVE MachineType' /\ CounterType'
<1> DEFINE pushed == status \cup {break_command, unused}
<1>1. 65534 \in Word /\ 65535 \in Word
  BY DEF Word
<1>2. CASE /\ At(4)
           /\ Push(FromBits(pushed))
           /\ status' = pushed \cup {interrupt_disable}
           /\ Continue
           /\ UNCHANGED pc
  <2>1. status' \in Status /\ pc' \in Word
    BY <1>2 DEF MachineType, Status, break_command, unused, interrupt_disable, BitIndex
  <2> QED
    BY <1>2, <2>1, FromBitsType, PushType, ContinueType
<1> QED
  BY <1>1, <1>2, SkipByteType, PCBytes, PushByteType, VectorTypes, VectorByteType,
     ContinueType, FinishType, InvalidCycleType
  DEF BRK

LEMMA FlagInstructionType ==
    ASSUME MachineType, CounterType, NEW s \in Status, FlagInstruction(s)
    PROVE  MachineType' /\ CounterType'
<1>1. fault' \in Fault
  BY DEF FlagInstruction, CounterType, Fault
<1> QED
  BY <1>1 DEF FlagInstruction, MachineType, CounterType

-----------------------------------------------------------------------------
(* The dispatch.                                                           *)

LEMMA RegisterOfType == ASSUME NEW name PROVE RegisterOf(name) \in Reg
BY DEF RegisterOf, Reg

LEMMA IndexOfType == ASSUME MachineType, NEW mode PROVE IndexOf(mode) \in Byte
BY DEF MachineType, IndexOf, Reg

LEMMA OperationOfType ==
    ASSUME NEW name \in OperationNames \cup ImpliedNames
    PROVE  OperationOf(name) \in Operation
BY DEF OperationOf, OperationNames, ImpliedNames, ModifyNames, Operation

LEMMA ExecuteLoadType ==
    ASSUME MachineType, CounterType, NEW i, ExecuteLoad(i)
    PROVE  MachineType' /\ CounterType'
BY RegisterOfType, IndexOfType, LoadAbsoluteType, LoadImmediateType, LoadZeroPageType,
   LoadZeroPageIndexedType, LoadAbsoluteIndexedType, LoadXIndirectType,
   LoadIndirectYType
DEF ExecuteLoad

LEMMA ExecuteStoreType ==
    ASSUME MachineType, CounterType, NEW i, ExecuteStore(i)
    PROVE  MachineType' /\ CounterType'
BY RegisterOfType, IndexOfType, StoreAbsoluteType, StoreZeroPageType,
   StoreZeroPageIndexedType, StoreAbsoluteIndexedType, StoreXIndirectType,
   StoreIndirectYType
DEF ExecuteStore

LEMMA ExecuteTransferType ==
    ASSUME MachineType, CounterType, NEW i, ExecuteTransfer(i)
    PROVE  MachineType' /\ CounterType'
<1>1. \A r \in Reg : reg[r] \in Byte
  BY DEF MachineType
<1>2. "a" \in Reg /\ "x" \in Reg /\ "y" \in Reg
  BY DEF Reg
<1> QED
  BY <1>1, <1>2, RegisterOfType, TransferRegisterType DEF ExecuteTransfer

LEMMA ExecuteRegisterOperationType ==
    ASSUME MachineType, CounterType, NEW i, ExecuteRegisterOperation(i)
    PROVE  MachineType' /\ CounterType'
<1>1. OperationOf(i.name) \in Operation
  BY OperationOfType DEF ExecuteRegisterOperation
<1> QED
  BY <1>1, RegisterOfType, IndexOfType, OperationImmediateType, OperationZeroPageType,
     OperationZeroPageIndexedType, OperationAbsoluteType,
     OperationAbsoluteIndexedType, OperationXIndirectType, OperationIndirectYType
  DEF ExecuteRegisterOperation

LEMMA ExecuteModifyType ==
    ASSUME MachineType, CounterType, NEW i, ExecuteModify(i)
    PROVE  MachineType' /\ CounterType'
<1>1. i.name \in ImpliedNames
  BY DEF ExecuteModify, ImpliedNames
<1>2. OperationOf(i.name) \in Operation
  BY <1>1, OperationOfType
<1> QED
  BY <1>2, RegisterOfType, IndexOfType, OperationImpliedType, OperationZeroPageRMWType,
     OperationZeroPageIndexedRMWType, OperationAbsoluteRMWType,
     OperationAbsoluteIndexedRMWType
  DEF ExecuteModify

LEMMA ExecuteStackType ==
    ASSUME MachineType, CounterType, NEW i, ExecuteStack(i)
    PROVE  MachineType' /\ CounterType'
<1>1. "x" \in Reg /\ sp \in Byte
  BY DEF MachineType, Reg
<1> QED
  BY <1>1, PHAType, PLAType, PHPType, PLPType, TransferRegisterType, TXSType
  DEF ExecuteStack, TSX

LEMMA ExecuteJumpType ==
    ASSUME MachineType, CounterType, NEW i, ExecuteJump(i)
    PROVE  MachineType' /\ CounterType'
BY JMPAbsoluteType, JMPIndirectType, JSRType, RTSType, RTIType, BRKType
DEF ExecuteJump

LEMMA ExecuteFlagType ==
    ASSUME MachineType, CounterType, NEW i, ExecuteFlag(i)
    PROVE  MachineType' /\ CounterType'
<1>1. PICK s \in Status : FlagInstruction(s)
  <2>1. \A f \in BitIndex : status \cup {f} \in Status /\ status \ {f} \in Status
    BY DEF MachineType, Status
  <2>2. carry \in BitIndex /\ decimal_mode \in BitIndex
          /\ interrupt_disable \in BitIndex /\ overflow \in BitIndex
    BY DEF carry, decimal_mode, interrupt_disable, overflow, BitIndex
  <2>3. status \in Status
    BY DEF MachineType
  <2> QED
    BY <2>1, <2>2, <2>3 DEF ExecuteFlag
<1> QED
  BY <1>1, FlagInstructionType

LEMMA ExecuteUndefinedType ==
    ASSUME MachineType, CounterType, ExecuteUndefined
    PROVE  MachineType' /\ CounterType'
BY DEF MachineType, CounterType, ExecuteUndefined, Fault

LEMMA ExecuteType ==
    ASSUME MachineType, CounterType, ControlType, Execute
    PROVE  MachineType' /\ CounterType' /\ ControlType'
<1>1. ControlType'
  BY DEF ControlType, Execute
<1>2. MachineType' /\ CounterType'
  BY ExecuteLoadType, ExecuteStoreType, ExecuteTransferType,
     ExecuteRegisterOperationType, ExecuteModifyType, ExecuteStackType,
     ExecuteJumpType, RelativeBranchType, ExecuteFlagType, ExecuteUndefinedType
  DEF Execute, ExecuteBranch
<1> QED
  BY <1>1, <1>2

-----------------------------------------------------------------------------
(* Reset and interrupts.                                                   *)

LEMMA VectorInMemory ==
    /\ ResetVector \in Word /\ ResetVector + 1 \in Word
    /\ NMIVector \in Word /\ NMIVector + 1 \in Word
    /\ IRQVector \in Word /\ IRQVector + 1 \in Word
BY DEF ResetVector, NMIVector, IRQVector, Word

LEMMA HandleResetType ==
    ASSUME MachineType, CounterType, ControlType, HandleReset
    PROVE  MachineType' /\ CounterType' /\ ControlType'
<1>1. CASE ResetCycle0
  <2>1. 0 \in Word /\ 0 \in Byte /\ {} \in Status
    BY DEF Word, Byte, Status
  <2>2. MachineType'
    BY <1>1, <2>1 DEF MachineType, ResetCycle0
  <2>3. /\ page_crossed' \in BOOLEAN
        /\ nmi_pending' \in BOOLEAN /\ irq_pending' \in BOOLEAN
    BY <1>1, Zenon DEF ResetCycle0
  <2>4. /\ instruction_cycle' = 0 /\ interrupt_cycle' = 1 /\ ir' = 0
        /\ UNCHANGED <<glabal_mode, pc_adl, pc_adh, fault>>
    BY <1>1 DEF ResetCycle0
  <2>5. CounterType' /\ ControlType'
    BY <2>1, <2>3, <2>4 DEF CounterType, ControlType
  <2> QED
    BY <2>2, <2>5
<1>2. CASE /\ interrupt_cycle = 1
           /\ sp' = 253
           /\ status' = status \cup {interrupt_disable, unused}
           /\ NextCycle
           /\ UNCHANGED <<pc, reg, latch, addr, memory, pc_adl, pc_adh>>
           /\ UNCHANGED <<ir, page_crossed, instruction_cycle, nmi_pending, irq_pending>>
  <2>1. sp' \in Byte /\ status' \in Status
    BY <1>2 DEF MachineType, Byte, Status, interrupt_disable, unused, BitIndex
  <2>2. MachineType'
    BY <1>2, <2>1 DEF MachineType
  <2> QED
    BY <1>2, <2>2 DEF CounterType, ControlType, NextCycle
<1>3. CASE /\ interrupt_cycle = 2
           /\ DummyRead(ResetVector) /\ pc_adl' = Read(ResetVector)
           /\ NextCycle /\ UNCHANGED pc_adh
           /\ UNCHANGED <<ir, page_crossed, instruction_cycle, nmi_pending, irq_pending>>
  <2>1. MachineType'
    BY <1>3, VectorInMemory, DummyReadType
  <2> QED
    BY <1>3, <2>1, ReadType DEF CounterType, ControlType, NextCycle
<1>4. CASE /\ interrupt_cycle = 3
           /\ DummyRead(ResetVector + 1) /\ pc_adh' = Read(ResetVector + 1)
           /\ NextCycle /\ UNCHANGED pc_adl
           /\ UNCHANGED <<ir, page_crossed, instruction_cycle, nmi_pending, irq_pending>>
  <2>1. MachineType'
    BY <1>4, VectorInMemory, DummyReadType
  <2> QED
    BY <1>4, <2>1, ReadType DEF CounterType, ControlType, NextCycle
<1>5. CASE /\ pc' = CombineToU16(pc_adh, pc_adl)
           /\ ToRun
           /\ UNCHANGED <<sp, reg, status, latch, addr, memory, pc_adl, pc_adh>>
           /\ UNCHANGED <<ir, page_crossed, instruction_cycle, nmi_pending, irq_pending>>
  <2>1. pc' \in Word
    BY <1>5, CombineType DEF ControlType
  <2>2. MachineType'
    BY <1>5, <2>1 DEF MachineType
  <2> QED
    BY <1>5, <2>2 DEF CounterType, ControlType, ToRun, GlobalMode
<1>6. CASE /\ InvalidInterruptCycle(4) /\ UNCHANGED <<pc_adl, pc_adh>>
           /\ UNCHANGED <<ir, page_crossed, instruction_cycle, nmi_pending, irq_pending>>
  BY <1>6 DEF MachineType, CounterType, ControlType, InvalidInterruptCycle, Fault
<1> QED
  BY <1>1, <1>2, <1>3, <1>4, <1>5, <1>6 DEF HandleReset

LEMMA NextCycleType ==
    ASSUME CounterType, ControlType, NEW n \in 0 .. 5, interrupt_cycle = n, NextCycle,
           UNCHANGED <<pc_adl, pc_adh, ir, page_crossed, instruction_cycle,
                       nmi_pending, irq_pending>>
    PROVE  CounterType' /\ ControlType'
BY DEF CounterType, ControlType, NextCycle

LEMMA HandleInterruptType ==
    ASSUME MachineType, CounterType, ControlType,
           NEW vector \in {NMIVector, IRQVector}, HandleInterrupt(vector)
    PROVE  MachineType' /\ CounterType' /\ ControlType'
<1> DEFINE pushed == (status \ {break_command}) \cup {unused}
           rest == UNCHANGED <<pc_adl, pc_adh, ir, page_crossed, instruction_cycle,
                               nmi_pending, irq_pending>>
<1>1. rest
  BY DEF HandleInterrupt
<1>2. vector \in Word /\ vector + 1 \in Word
  BY VectorInMemory
<1>3. CASE /\ interrupt_cycle = 3 /\ Push(FromBits(pushed)) /\ status' = pushed
           /\ NextCycle /\ UNCHANGED pc
  <2>1. status \in Status /\ pc' \in Word
    BY <1>3 DEF MachineType
  <2>2. pushed \in Status
    <3>1. status \ {break_command} \in Status
      BY <2>1, FlagClearType
    <3>2. unused \in BitIndex
      BY DEF unused, BitIndex
    <3> QED
      BY <3>1, <3>2, FlagSetType
  <2> HIDE DEF pushed
  <2> QED
    BY <1>1, <1>3, <2>1, <2>2, FromBitsType, PushType, NextCycleType
<1>4. CASE /\ interrupt_cycle = 4
           /\ status' = status \cup {interrupt_disable}
           /\ NextCycle /\ UNCHANGED <<pc, sp, reg, latch, addr, memory>>
  <2>1. status' \in Status
    BY <1>4 DEF MachineType, Status, interrupt_disable, BitIndex
  <2>2. MachineType'
    BY <1>4, <2>1 DEF MachineType
  <2> QED
    BY <1>1, <1>4, <2>2, NextCycleType
<1>5. CASE /\ VectorByte(vector + 1, CombineToU16(Read(vector + 1), U16Low(pc)))
           /\ ToRun
  <2>1. MachineType'
    BY <1>2, <1>5, VectorTypes, VectorByteType
  <2> QED
    BY <1>1, <1>5, <2>1 DEF CounterType, ControlType, ToRun, GlobalMode
<1>6. CASE InvalidInterruptCycle(6)
  BY <1>1, <1>6 DEF MachineType, CounterType, ControlType, InvalidInterruptCycle, Fault
<1>7. CASE interrupt_cycle = 0 /\ DummyRead(pc) /\ NextCycle
  BY <1>1, <1>7, DummyFetchType, NextCycleType
<1>8. CASE /\ interrupt_cycle = 1 /\ Push(U16High(pc))
           /\ NextCycle /\ UNCHANGED <<pc, status>>
  BY <1>1, <1>8, PCBytes, PushByteType, NextCycleType
<1>9. CASE /\ interrupt_cycle = 2 /\ Push(U16Low(pc))
           /\ NextCycle /\ UNCHANGED <<pc, status>>
  BY <1>1, <1>9, PCBytes, PushByteType, NextCycleType
<1>10. CASE /\ interrupt_cycle = 5
            /\ VectorByte(vector, CombineToU16(U16High(pc), Read(vector)))
            /\ NextCycle
  BY <1>1, <1>2, <1>10, VectorTypes, VectorByteType, NextCycleType
<1> QED
  BY <1>3, <1>4, <1>5, <1>6, <1>7, <1>8, <1>9, <1>10 DEF HandleInterrupt

LEMMA EnterInterruptType ==
    ASSUME MachineType, CounterType, ControlType, NEW mode \in GlobalMode,
           EnterInterrupt(mode), nmi_pending' \in BOOLEAN, irq_pending' \in BOOLEAN
    PROVE  MachineType' /\ CounterType' /\ ControlType'
<1>1. MachineType'
  BY DummyFetchType DEF EnterInterrupt
<1>2. CounterType'
  BY DEF CounterType, EnterInterrupt
<1>3. ControlType'
  BY DEF ControlType, EnterInterrupt
<1> QED
  BY <1>1, <1>2, <1>3

LEMMA StepType == ASSUME TypeOK, Step PROVE TypeOK'
<1> USE TypeParts, TypePartsNext
<1>1. MachineType /\ CounterType /\ ControlType
  OBVIOUS
<1>2. CASE HandleReset
  BY <1>1, <1>2, HandleResetType
<1>3. CASE HandleInterrupt(NMIVector) \/ HandleInterrupt(IRQVector)
  BY <1>1, <1>3, HandleInterruptType
<1>4. CASE EnterNMI
  <2>1. nmi_pending' \in BOOLEAN /\ irq_pending' \in BOOLEAN
    BY <1>1, <1>4 DEF EnterNMI, ControlType
  <2> QED
    BY <1>1, <1>4, <2>1, EnterInterruptType DEF EnterNMI, GlobalMode
<1>5. CASE EnterIRQ
  <2>1. nmi_pending' \in BOOLEAN /\ irq_pending' \in BOOLEAN
    BY <1>1, <1>5 DEF EnterIRQ, ControlType
  <2> QED
    BY <1>1, <1>5, <2>1, EnterInterruptType DEF EnterIRQ, GlobalMode
<1>6. CASE FetchOpcode
  <2>1. MachineType'
    BY <1>1, <1>6, Inc16Type DEF FetchOpcode, MachineType
  <2>2. CounterType'
    BY <1>1, <1>6 DEF FetchOpcode, CounterType
  <2>3. ControlType'
    BY <1>1, <1>6, ReadType DEF FetchOpcode, ControlType
  <2> QED
    BY <2>1, <2>2, <2>3
<1>7. CASE Execute
  BY <1>1, <1>7, ExecuteType
<1> QED
  BY <1>2, <1>3, <1>4, <1>5, <1>6, <1>7 DEF Step

LEMMA InitType == ASSUME Init PROVE TypeOK
<1>1. memory \in Images /\ IsMemory(memory)
  BY ConstantsAssumption DEF Init, ConstantsAssumption
<1>2. 0 \in Byte /\ 0 \in Word /\ {} \in Status
  BY DEF Byte, Word, Status
<1>3. MachineType
  BY <1>1, <1>2 DEF Init, MachineType
<1>4. /\ page_crossed \in BOOLEAN
      /\ nmi_pending \in BOOLEAN /\ irq_pending \in BOOLEAN
  BY Zenon DEF Init
<1>5. /\ instruction_cycle = 0 /\ interrupt_cycle = 0 /\ fault = "none"
      /\ glabal_mode = "RESET" /\ pc_adl = 0 /\ pc_adh = 0 /\ ir = 0
  BY DEF Init
<1>6. CounterType /\ ControlType
  BY <1>2, <1>4, <1>5 DEF CounterType, ControlType, Fault, GlobalMode
<1> QED
  BY <1>3, <1>6, TypeParts

LEMMA NextType == ASSUME TypeOK, [Next]_vars PROVE TypeOK'
<1>1. CASE Step
  BY <1>1, StepType
<1>2. CASE Reset
  BY <1>2 DEF Reset, TypeOK, GlobalMode
<1>3. CASE SignalNMI
  <2>1. nmi_pending' \in BOOLEAN
    BY <1>3, Zenon DEF SignalNMI
  <2> QED
    BY <1>3, <2>1 DEF SignalNMI, TypeOK
<1>4. CASE SignalIRQ
  <2>1. irq_pending' \in BOOLEAN
    BY <1>4, Zenon DEF SignalIRQ
  <2> QED
    BY <1>4, <2>1 DEF SignalIRQ, TypeOK
<1>5. CASE UNCHANGED vars
  BY <1>5 DEF vars, TypeOK
<1> QED
  BY <1>1, <1>2, <1>3, <1>4, <1>5 DEF Next

\* Every register, latch, flag and cell keeps its width, and both micro-cycle
\* counters stay below seven, for every program and whenever the owner resets
\* or interrupts the CPU (all of qnes_cpu.cpp and cpu_isa.cpp).
THEOREM TypeCorrect == Spec => []TypeOK
<1>1. Init => TypeOK
  BY InitType
<1>2. TypeOK /\ [Next]_vars => TypeOK'
  BY NextType
<1> QED
  BY <1>1, <1>2, PTL DEF Spec

-----------------------------------------------------------------------------
(* The micro-cycle counter and page_crossed, for every program: no routine *)
(* meets a cycle it does not handle, and none takes more cycles than its   *)
(* instruction declares.                                                   *)
(*                                                                         *)
(* First each routine is shown to keep its counters in order, whatever its *)
(* operands; then the instruction table is shown to give every instruction *)
(* the CYCLES its routine takes; the invariant follows.                    *)

\* What a routine may do to the counters: end its instruction with
\* page_crossed clear, or stay within it, and fail no assertion.
Orderly(last, may, must) ==
    /\ fault' = fault
    /\ \/ instruction_cycle' = 0 /\ ~page_crossed'
       \/ InProgress(last, may, must)'

\* The ways in which routines use page_crossed: not at all; an indexed read
\* whose first access is at cycle n; a store or a read-modify-write that
\* settles the carry at cycle n.
Plain(last)          == InProgress(last, {}, {})
PlainStep(last)      == Orderly(last, {}, {})
ReadAt(n)            == InProgress(n + 1, {n, n + 1}, {n + 1})
ReadStep(n)          == Orderly(n + 1, {n, n + 1}, {n + 1})
SettledAt(n, last)   == InProgress(last, {n}, {})
SettledStep(n, last) == Orderly(last, {n}, {})

LEMMA ContinuePlain ==
    ASSUME NEW last \in Nat, Plain(last), NEW n \in Nat, At(n), n < last, Continue
    PROVE  PlainStep(last)
BY DEF Plain, PlainStep, Orderly, InProgress, At, Continue, ContinueWith

LEMMA FinishPlain ==
    ASSUME NEW last \in Nat, Plain(last), Finish PROVE PlainStep(last)
BY DEF Plain, PlainStep, Orderly, InProgress, Finish

LEMMA NoInvalid ==
    ASSUME NEW last \in Nat, NEW may, NEW must, InProgress(last, may, must),
           InvalidCycle(last)
    PROVE  FALSE
BY DEF InProgress, InvalidCycle

\* The address cycles of an indexed mode: n is the cycle of the first access.
IndexedAddress(n) ==
    \/ \E k \in 1 .. n - 2 : At(k) /\ Continue
    \/ /\ At(n - 1)
       /\ \E b \in BOOLEAN : ContinueWith(b)

LEMMA CarryIsBoolean ==
    ASSUME NEW b \in Byte, NEW c \in Byte PROVE (b + c > 255) \in BOOLEAN
BY DEF Byte

LEMMA AbsoluteIndexedAddress ==
    ASSUME NEW index \in Byte, MachineType, AbsoluteIndexed(index)
    PROVE  IndexedAddress(3)
<1>1. CASE At(1) /\ Continue
  BY <1>1 DEF IndexedAddress
<1>2. CASE At(2) /\ HighIndexed(pc, index)
  <2>1. latch["adl"] \in Byte
    BY DEF MachineType, Latch
  <2>2. (latch["adl"] + index > 255) \in BOOLEAN
    BY <2>1, CarryIsBoolean
  <2>3. ContinueWith(latch["adl"] + index > 255)
    BY <1>2 DEF HighIndexed
  <2>4. \E b \in BOOLEAN : ContinueWith(b)
    BY <2>2, <2>3, Zenon
  <2>5. At(3 - 1)
    BY <1>2
  <2> QED
    BY <2>4, <2>5 DEF IndexedAddress
<1> QED
  BY <1>1, <1>2 DEF AbsoluteIndexed

LEMMA IndirectYAddress ==
    ASSUME MachineType, IndirectY PROVE IndexedAddress(4)
<1>1. CASE \/ At(1) /\ Continue
           \/ At(2) /\ Continue
  BY <1>1 DEF IndexedAddress
<1>2. CASE At(3) /\ HighIndexed(Inc8(Pointer), reg["y"])
  <2>1. latch["adl"] \in Byte /\ reg["y"] \in Byte
    BY DEF MachineType, Latch, Reg
  <2>2. (latch["adl"] + reg["y"] > 255) \in BOOLEAN
    BY <2>1, CarryIsBoolean
  <2>3. ContinueWith(latch["adl"] + reg["y"] > 255)
    BY <1>2 DEF HighIndexed
  <2>4. \E b \in BOOLEAN : ContinueWith(b)
    BY <2>2, <2>3, Zenon
  <2>5. At(4 - 1)
    BY <1>2
  <2> QED
    BY <2>4, <2>5 DEF IndexedAddress
<1> QED
  BY <1>1, <1>2 DEF IndirectY

LEMMA AddressRead ==
    ASSUME NEW n \in 3 .. 4, ReadAt(n), IndexedAddress(n) PROVE ReadStep(n)
<1>1. CASE \E k \in 1 .. n - 2 : At(k) /\ Continue
  BY <1>1 DEF ReadAt, ReadStep, Orderly, InProgress, At, Continue, ContinueWith
<1>2. ASSUME At(n - 1), NEW b \in BOOLEAN, ContinueWith(b) PROVE ReadStep(n)
  <2>1. /\ instruction_cycle = n - 1 /\ instruction_cycle' = n
        /\ fault' = fault
    BY <1>2 DEF At, ContinueWith
  <2> QED
    BY <2>1 DEF ReadStep, Orderly, InProgress
<1> QED
  BY <1>1, <1>2 DEF IndexedAddress

LEMMA AddressSettled ==
    ASSUME NEW n \in 3 .. 4, NEW last \in Nat, n < last, SettledAt(n, last),
           IndexedAddress(n)
    PROVE  SettledStep(n, last)
<1>1. CASE \E k \in 1 .. n - 2 : At(k) /\ Continue
  BY <1>1 DEF SettledAt, SettledStep, Orderly, InProgress, At, Continue, ContinueWith
<1>2. ASSUME At(n - 1), NEW b \in BOOLEAN, ContinueWith(b) PROVE SettledStep(n, last)
  <2>1. /\ instruction_cycle = n - 1 /\ instruction_cycle' = n
        /\ fault' = fault
    BY <1>2 DEF At, ContinueWith
  <2> QED
    BY <2>1 DEF SettledStep, Orderly, InProgress
<1> QED
  BY <1>1, <1>2 DEF IndexedAddress

\* The accesses of an indexed read: one, or two when the page is crossed.
IndexedAccess(n) ==
    \/ At(n) /\ page_crossed /\ Continue
    \/ At(n) /\ ~page_crossed /\ Finish
    \/ At(n + 1) /\ FinishCrossed
    \/ InvalidCycle(n + 1)

LEMMA AccessRead ==
    ASSUME NEW n \in 3 .. 4, ReadAt(n), IndexedAccess(n) PROVE ReadStep(n)
<1>1. CASE At(n) /\ page_crossed /\ Continue
  BY <1>1 DEF At, Continue, ContinueWith, ReadAt, ReadStep, Orderly, InProgress
<1>2. CASE At(n) /\ ~page_crossed /\ Finish
  BY <1>2 DEF At, Finish, ReadAt, ReadStep, Orderly, InProgress
<1>3. CASE At(n + 1) /\ FinishCrossed
  BY <1>3 DEF At, FinishCrossed, ReadAt, ReadStep, Orderly, InProgress
<1> QED
  BY <1>1, <1>2, <1>3, NoInvalid DEF IndexedAccess, ReadAt

-----------------------------------------------------------------------------
(* The routines.                                                           *)

LEMMA ZeroPageCycles ==
    ASSUME NEW last \in Nat, 1 < last, Plain(last), ZeroPage PROVE PlainStep(last)
BY ContinuePlain DEF ZeroPage

LEMMA ZeroPageIndexedCycles ==
    ASSUME NEW last \in Nat, 2 < last, Plain(last), NEW index, ZeroPageIndexed(index)
    PROVE  PlainStep(last)
BY ContinuePlain DEF ZeroPageIndexed, ZeroPage

LEMMA AbsoluteCycles ==
    ASSUME NEW last \in Nat, 2 < last, Plain(last), Absolute PROVE PlainStep(last)
BY ContinuePlain DEF Absolute

LEMMA XIndirectCycles ==
    ASSUME Plain(5), NEW index, XIndirect(index) PROVE PlainStep(5)
BY ContinuePlain DEF XIndirect

LEMMA ReadModifyWriteCycles ==
    ASSUME NEW n \in 2 .. 3, NEW op, NEW a, Plain(n + 2), ReadModifyWrite(n, op, a)
    PROVE  PlainStep(n + 2)
BY ContinuePlain, FinishPlain, NoInvalid DEF ReadModifyWrite, Plain

LEMMA LoadCycles ==
    ASSUME NEW r, NEW index
    PROVE  /\ Plain(3) /\ LoadMemoryToRegisterAbsolute(r) => PlainStep(3)
           /\ Plain(1) /\ LoadMemoryToRegisterImmediate(r) => PlainStep(1)
           /\ Plain(2) /\ LoadMemoryToRegisterZeroPage(r) => PlainStep(2)
           /\ Plain(3) /\ LoadMemoryToRegisterZeroPageIndexed(r, index) => PlainStep(3)
           /\ Plain(5) /\ LoadMemoryToRegisterXIndirect(r, index) => PlainStep(5)
<1>1. ASSUME Plain(3), LoadMemoryToRegisterAbsolute(r) PROVE PlainStep(3)
  BY <1>1, AbsoluteCycles, FinishPlain, NoInvalid DEF LoadMemoryToRegisterAbsolute, Plain
<1>2. ASSUME Plain(1), LoadMemoryToRegisterImmediate(r) PROVE PlainStep(1)
  BY <1>2, FinishPlain, NoInvalid DEF LoadMemoryToRegisterImmediate, Plain
<1>3. ASSUME Plain(2), LoadMemoryToRegisterZeroPage(r) PROVE PlainStep(2)
  BY <1>3, ZeroPageCycles, FinishPlain, NoInvalid DEF LoadMemoryToRegisterZeroPage, Plain
<1>4. ASSUME Plain(3), LoadMemoryToRegisterZeroPageIndexed(r, index) PROVE PlainStep(3)
  BY <1>4, ZeroPageIndexedCycles, FinishPlain, NoInvalid
  DEF LoadMemoryToRegisterZeroPageIndexed, Plain
<1>5. ASSUME Plain(5), LoadMemoryToRegisterXIndirect(r, index) PROVE PlainStep(5)
  BY <1>5, XIndirectCycles, FinishPlain, NoInvalid DEF LoadMemoryToRegisterXIndirect, Plain
<1> QED
  BY <1>1, <1>2, <1>3, <1>4, <1>5

LEMMA LoadIndexedAccess ==
    ASSUME NEW n, NEW r, LoadIndexed(n, r) PROVE IndexedAccess(n)
BY DEF LoadIndexed, IndexedAccess

LEMMA LoadIndexedCycles ==
    ASSUME MachineType, NEW r, NEW index \in Byte
    PROVE  /\ ReadAt(3) /\ LoadMemoryToRegisterAbsoluteIndexed(r, index) => ReadStep(3)
           /\ ReadAt(4) /\ LoadMemoryToRegisterIndirectY(r) => ReadStep(4)
<1>1. ASSUME ReadAt(3), LoadMemoryToRegisterAbsoluteIndexed(r, index) PROVE ReadStep(3)
  <2>1. IndexedAddress(3) \/ IndexedAccess(3)
    BY <1>1, AbsoluteIndexedAddress, LoadIndexedAccess
    DEF LoadMemoryToRegisterAbsoluteIndexed
  <2> QED
    BY <1>1, <2>1, AddressRead, AccessRead
<1>2. ASSUME ReadAt(4), LoadMemoryToRegisterIndirectY(r) PROVE ReadStep(4)
  <2>1. IndexedAddress(4) \/ IndexedAccess(4)
    BY <1>2, IndirectYAddress, LoadIndexedAccess DEF LoadMemoryToRegisterIndirectY
  <2> QED
    BY <1>2, <2>1, AddressRead, AccessRead
<1> QED
  BY <1>1, <1>2

LEMMA StoreCycles ==
    ASSUME NEW r, NEW index
    PROVE  /\ Plain(3) /\ StoreRegisterAbsolute(r) => PlainStep(3)
           /\ Plain(2) /\ StoreRegisterZeroPage(r) => PlainStep(2)
           /\ Plain(3) /\ StoreRegisterZeroPageIndexed(r, index) => PlainStep(3)
           /\ Plain(5) /\ StoreRegisterXIndirect(r, index) => PlainStep(5)
<1>1. ASSUME Plain(3), StoreRegisterAbsolute(r) PROVE PlainStep(3)
  BY <1>1, AbsoluteCycles, FinishPlain, NoInvalid DEF StoreRegisterAbsolute, Plain
<1>2. ASSUME Plain(2), StoreRegisterZeroPage(r) PROVE PlainStep(2)
  BY <1>2, ZeroPageCycles, FinishPlain, NoInvalid DEF StoreRegisterZeroPage, Plain
<1>3. ASSUME Plain(3), StoreRegisterZeroPageIndexed(r, index) PROVE PlainStep(3)
  BY <1>3, ZeroPageIndexedCycles, FinishPlain, NoInvalid
  DEF StoreRegisterZeroPageIndexed, Plain
<1>4. ASSUME Plain(5), StoreRegisterXIndirect(r, index) PROVE PlainStep(5)
  BY <1>4, XIndirectCycles, FinishPlain, NoInvalid DEF StoreRegisterXIndirect, Plain
<1> QED
  BY <1>1, <1>2, <1>3, <1>4

LEMMA StoreIndexedSettled ==
    ASSUME NEW n \in 3 .. 4, NEW r, SettledAt(n, n + 1), StoreIndexed(n, r)
    PROVE  SettledStep(n, n + 1)
<1>1. CASE At(n) /\ ContinueWith(FALSE)
  BY <1>1 DEF At, ContinueWith, SettledAt, SettledStep, Orderly, InProgress
<1>2. CASE At(n + 1) /\ Finish
  BY <1>2 DEF At, Finish, SettledAt, SettledStep, Orderly, InProgress
<1>3. CASE InvalidCycle(n + 1)
  BY <1>3, NoInvalid DEF SettledAt
<1> QED
  BY <1>1, <1>2, <1>3, Zenon DEF StoreIndexed

LEMMA StoreIndexedCycles ==
    ASSUME MachineType, NEW r, NEW index \in Byte
    PROVE  /\ SettledAt(3, 4) /\ StoreRegisterAbsoluteIndexed(r, index) => SettledStep(3, 4)
           /\ SettledAt(4, 5) /\ StoreRegisterIndirectY(r) => SettledStep(4, 5)
<1>1. ASSUME SettledAt(3, 4), StoreRegisterAbsoluteIndexed(r, index)
      PROVE  SettledStep(3, 4)
  <2>1. IndexedAddress(3) \/ StoreIndexed(3, r)
    BY <1>1, AbsoluteIndexedAddress DEF StoreRegisterAbsoluteIndexed
  <2>2. SettledAt(3, 3 + 1) /\ (StoreIndexed(3, r) => SettledStep(3, 3 + 1))
    BY <1>1, StoreIndexedSettled
  <2> QED
    BY <1>1, <2>1, <2>2, AddressSettled
<1>2. ASSUME SettledAt(4, 5), StoreRegisterIndirectY(r) PROVE SettledStep(4, 5)
  <2>1. IndexedAddress(4) \/ StoreIndexed(4, r)
    BY <1>2, IndirectYAddress DEF StoreRegisterIndirectY
  <2>2. SettledAt(4, 4 + 1) /\ (StoreIndexed(4, r) => SettledStep(4, 4 + 1))
    BY <1>2, StoreIndexedSettled
  <2> QED
    BY <1>2, <2>1, <2>2, AddressSettled
<1> QED
  BY <1>1, <1>2

LEMMA TransferCycles ==
    ASSUME NEW r, NEW v, Plain(1), TransferRegister(r, v) PROVE PlainStep(1)
BY FinishPlain, NoInvalid DEF TransferRegister, Plain

LEMMA OperationCycles ==
    ASSUME NEW op, NEW r, NEW index
    PROVE  /\ Plain(1) /\ OperationImmediate(op, r) => PlainStep(1)
           /\ Plain(2) /\ OperationZeroPage(op, r) => PlainStep(2)
           /\ Plain(3) /\ OperationZeroPageIndexed(op, r, index) => PlainStep(3)
           /\ Plain(3) /\ OperationAbsolute(op, r) => PlainStep(3)
           /\ Plain(5) /\ OperationXIndirect(op, r) => PlainStep(5)
           /\ Plain(1) /\ OperationImplied(op, r) => PlainStep(1)
<1>1. ASSUME Plain(1), OperationImmediate(op, r) PROVE PlainStep(1)
  BY <1>1, FinishPlain, NoInvalid DEF OperationImmediate, Plain
<1>2. ASSUME Plain(2), OperationZeroPage(op, r) PROVE PlainStep(2)
  BY <1>2, ZeroPageCycles, FinishPlain, NoInvalid DEF OperationZeroPage, Plain
<1>3. ASSUME Plain(3), OperationZeroPageIndexed(op, r, index) PROVE PlainStep(3)
  BY <1>3, ZeroPageIndexedCycles, FinishPlain, NoInvalid DEF OperationZeroPageIndexed, Plain
<1>4. ASSUME Plain(3), OperationAbsolute(op, r) PROVE PlainStep(3)
  BY <1>4, AbsoluteCycles, FinishPlain, NoInvalid DEF OperationAbsolute, Plain
<1>5. ASSUME Plain(5), OperationXIndirect(op, r) PROVE PlainStep(5)
  BY <1>5, XIndirectCycles, FinishPlain, NoInvalid DEF OperationXIndirect, Plain
<1>6. ASSUME Plain(1), OperationImplied(op, r) PROVE PlainStep(1)
  BY <1>6, FinishPlain, NoInvalid DEF OperationImplied, Plain
<1> QED
  BY <1>1, <1>2, <1>3, <1>4, <1>5, <1>6

LEMMA OperateIndexedAccess ==
    ASSUME NEW n, NEW op, NEW r, OperateIndexed(n, op, r) PROVE IndexedAccess(n)
BY DEF OperateIndexed, IndexedAccess

LEMMA OperationIndexedCycles ==
    ASSUME MachineType, NEW op, NEW r, NEW index \in Byte
    PROVE  /\ ReadAt(3) /\ OperationAbsoluteIndexed(op, r, index) => ReadStep(3)
           /\ ReadAt(4) /\ OperationIndirectY(op, r) => ReadStep(4)
<1>1. ASSUME ReadAt(3), OperationAbsoluteIndexed(op, r, index) PROVE ReadStep(3)
  <2>1. IndexedAddress(3) \/ IndexedAccess(3)
    BY <1>1, AbsoluteIndexedAddress, OperateIndexedAccess DEF OperationAbsoluteIndexed
  <2> QED
    BY <1>1, <2>1, AddressRead, AccessRead
<1>2. ASSUME ReadAt(4), OperationIndirectY(op, r) PROVE ReadStep(4)
  <2>1. IndexedAddress(4) \/ IndexedAccess(4)
    BY <1>2, IndirectYAddress, OperateIndexedAccess DEF OperationIndirectY
  <2> QED
    BY <1>2, <2>1, AddressRead, AccessRead
<1> QED
  BY <1>1, <1>2

LEMMA ModifyCycles ==
    ASSUME NEW op, NEW index
    PROVE  /\ Plain(4) /\ OperationZeroPage_ReadModifyWrite(op) => PlainStep(4)
           /\ Plain(5) /\ OperationZeroPageIndexed_ReadModifyWrite(op, index) => PlainStep(5)
           /\ Plain(5) /\ OperationAbsolute_ReadModifyWrite(op) => PlainStep(5)
<1>0. \A a : /\ Plain(4) /\ ReadModifyWrite(2, op, a) => PlainStep(4)
             /\ Plain(5) /\ ReadModifyWrite(3, op, a) => PlainStep(5)
  <2> TAKE a
  <2>1. 2 + 2 = 4 /\ 3 + 2 = 5 /\ 2 \in 2 .. 3 /\ 3 \in 2 .. 3
    OBVIOUS
  <2>2. /\ Plain(2 + 2) /\ ReadModifyWrite(2, op, a) => PlainStep(2 + 2)
        /\ Plain(3 + 2) /\ ReadModifyWrite(3, op, a) => PlainStep(3 + 2)
    BY <2>1, ReadModifyWriteCycles
  <2> QED
    BY <2>1, <2>2
<1>1. ASSUME Plain(4), OperationZeroPage_ReadModifyWrite(op) PROVE PlainStep(4)
  BY <1>0, <1>1, ZeroPageCycles DEF OperationZeroPage_ReadModifyWrite
<1>2. ASSUME Plain(5), OperationZeroPageIndexed_ReadModifyWrite(op, index)
      PROVE  PlainStep(5)
  BY <1>0, <1>2, ZeroPageIndexedCycles DEF OperationZeroPageIndexed_ReadModifyWrite
<1>3. ASSUME Plain(5), OperationAbsolute_ReadModifyWrite(op) PROVE PlainStep(5)
  BY <1>0, <1>3, AbsoluteCycles DEF OperationAbsolute_ReadModifyWrite
<1> QED
  BY <1>1, <1>2, <1>3

LEMMA ModifyIndexedCycles ==
    ASSUME MachineType, NEW op, NEW index \in Byte, SettledAt(3, 6),
           OperationAbsoluteIndexed_ReadModifyWrite(op, index)
    PROVE  SettledStep(3, 6)
<1>1. CASE AbsoluteIndexed(index)
  BY <1>1, AbsoluteIndexedAddress, AddressSettled
<1>2. CASE At(3) /\ ContinueWith(FALSE)
  BY <1>2 DEF At, ContinueWith, SettledAt, SettledStep, Orderly, InProgress
<1>3. CASE ReadModifyWrite(4, op, EA)
  <2>1. CASE (At(4) \/ At(5)) /\ Continue
    BY <2>1 DEF At, Continue, ContinueWith, SettledAt, SettledStep, Orderly, InProgress
  <2>2. CASE At(6) /\ Finish
    BY <2>2 DEF At, Finish, SettledAt, SettledStep, Orderly, InProgress
  <2>3. ~InvalidCycle(6)
    BY NoInvalid DEF SettledAt
  <2>4. 4 + 1 = 5 /\ 4 + 2 = 6
    OBVIOUS
  <2> QED
    BY <1>3, <2>1, <2>2, <2>3, <2>4 DEF ReadModifyWrite
<1> QED
  BY <1>1, <1>2, <1>3, Zenon DEF OperationAbsoluteIndexed_ReadModifyWrite

\* A taken branch: page_crossed is set exactly when cycle 3 follows.
BranchAt   == InProgress(3, {3}, {3})
BranchStep == Orderly(3, {3}, {3})

LEMMA BranchCycles ==
    ASSUME NEW condition, BranchAt, RelativeBranch(condition) PROVE BranchStep
<1> DEFINE crossed == U16High(BranchTarget) # U16High(pc)
<1>1. CASE /\ At(1)
           /\ instruction_cycle' = IF ExecuteCondition(condition, status) THEN 2 ELSE 0
           /\ UNCHANGED <<page_crossed, fault>>
  <2>1. ~page_crossed' /\ fault' = fault
    BY <1>1 DEF At, BranchAt, InProgress
  <2>2. instruction_cycle' = 2 \/ instruction_cycle' = 0
    BY <1>1
  <2> QED
    BY <2>1, <2>2 DEF BranchStep, Orderly, InProgress
<1>2. CASE /\ page_crossed' = crossed
           /\ instruction_cycle' = IF page_crossed' THEN 3 ELSE 0
           /\ UNCHANGED fault
  <2>1. CASE page_crossed'
    BY <1>2, <2>1 DEF BranchStep, Orderly, InProgress
  <2>2. CASE ~page_crossed'
    BY <1>2, <2>2 DEF BranchStep, Orderly, InProgress
  <2> QED
    BY <2>1, <2>2
<1>3. CASE At(3) /\ FinishCrossed
  BY <1>3 DEF At, FinishCrossed, BranchAt, BranchStep, Orderly, InProgress
<1>4. CASE InvalidCycle(3)
  BY <1>4, NoInvalid DEF BranchAt
<1> QED
  BY <1>1, <1>2, <1>3, <1>4, Zenon DEF RelativeBranch

LEMMA StackCycles ==
    /\ Plain(2) /\ PHA => PlainStep(2)
    /\ Plain(3) /\ PLA => PlainStep(3)
    /\ Plain(2) /\ PHP => PlainStep(2)
    /\ Plain(3) /\ PLP => PlainStep(3)
    /\ Plain(1) /\ TSX => PlainStep(1)
    /\ Plain(1) /\ TXS => PlainStep(1)
<1>1. ASSUME Plain(2), PHA PROVE PlainStep(2)
  BY <1>1, ContinuePlain, FinishPlain, NoInvalid DEF PHA, Plain
<1>2. ASSUME Plain(3), PLA PROVE PlainStep(3)
  BY <1>2, ContinuePlain, FinishPlain, NoInvalid DEF PLA, Plain
<1>3. ASSUME Plain(2), PHP PROVE PlainStep(2)
  BY <1>3, ContinuePlain, FinishPlain, NoInvalid DEF PHP, Plain
<1>4. ASSUME Plain(3), PLP PROVE PlainStep(3)
  BY <1>4, ContinuePlain, FinishPlain, NoInvalid DEF PLP, Plain
<1>5. ASSUME Plain(1), TSX PROVE PlainStep(1)
  BY <1>5, TransferCycles DEF TSX
<1>6. ASSUME Plain(1), TXS PROVE PlainStep(1)
  BY <1>6, FinishPlain, NoInvalid DEF TXS, Plain
<1> QED
  BY <1>1, <1>2, <1>3, <1>4, <1>5, <1>6

LEMMA JumpCycles ==
    /\ Plain(2) /\ JMPAbsolute => PlainStep(2)
    /\ Plain(4) /\ JMPIndirect => PlainStep(4)
    /\ Plain(5) /\ JSR => PlainStep(5)
    /\ Plain(5) /\ RTS => PlainStep(5)
    /\ Plain(5) /\ RTI => PlainStep(5)
    /\ Plain(6) /\ BRK => PlainStep(6)
<1>1. ASSUME Plain(2), JMPAbsolute PROVE PlainStep(2)
  BY <1>1, ContinuePlain, FinishPlain, NoInvalid DEF JMPAbsolute, Plain
<1>2. ASSUME Plain(4), JMPIndirect PROVE PlainStep(4)
  BY <1>2, AbsoluteCycles, ContinuePlain, FinishPlain, NoInvalid DEF JMPIndirect, Plain
<1>3. ASSUME Plain(5), JSR PROVE PlainStep(5)
  BY <1>3, ContinuePlain, FinishPlain, NoInvalid DEF JSR, Plain
<1>4. ASSUME Plain(5), RTS PROVE PlainStep(5)
  BY <1>4, ContinuePlain, FinishPlain, NoInvalid DEF RTS, Plain
<1>5. ASSUME Plain(5), RTI PROVE PlainStep(5)
  BY <1>5, ContinuePlain, FinishPlain, NoInvalid DEF RTI, Plain
<1>6. ASSUME Plain(6), BRK PROVE PlainStep(6)
  BY <1>6, ContinuePlain, FinishPlain, NoInvalid DEF BRK, Plain
<1> QED
  BY <1>1, <1>2, <1>3, <1>4, <1>5, <1>6

LEMMA FlagCycles ==
    ASSUME NEW s, Plain(1), FlagInstruction(s) PROVE PlainStep(1)
BY DEF Plain, PlainStep, Orderly, InProgress, FlagInstruction, At

-----------------------------------------------------------------------------
(* The instruction table: CYCLES by mnemonic and addressing mode.          *)

ReadRow(i) ==
    i.name \in LoadNames \cup OperationNames =>
      /\ i.mode = "Immediate" => i.cycles = 2
      /\ i.mode = "ZeroPage" => i.cycles = 3
      /\ i.mode \in {"ZeroPageX", "ZeroPageY", "Absolute", "AbsoluteX", "AbsoluteY"} =>
             i.cycles = 4
      /\ i.mode = "XIndirect" => i.cycles = 6
      /\ i.mode = "IndirectY" => i.cycles = 5

StoreRow(i) ==
    i.name \in StoreNames =>
      /\ i.mode = "ZeroPage" => i.cycles = 3
      /\ i.mode \in {"ZeroPageX", "ZeroPageY", "Absolute"} => i.cycles = 4
      /\ i.mode \in {"AbsoluteX", "AbsoluteY"} => i.cycles = 5
      /\ i.mode \in {"XIndirect", "IndirectY"} => i.cycles = 6

ModifyRow(i) ==
    i.name \in ImpliedNames =>
      /\ i.mode = "Implied" => i.cycles = 2
      /\ i.mode = "ZeroPage" => i.cycles = 5
      /\ i.mode \in {"ZeroPageX", "Absolute"} => i.cycles = 6
      /\ i.mode = "AbsoluteX" => i.cycles = 7

TransferNames == {"TAX", "TAY", "TXA", "TYA", "TSX", "TXS"}
FlagNames == {"CLC", "CLD", "CLI", "CLV", "SEC", "SED", "SEI", "NOP"}

ImpliedRow(i) ==
    /\ i.name \in TransferNames \cup FlagNames => i.mode = "Implied" /\ i.cycles = 2
    /\ i.name \in {"PHA", "PHP"} => i.mode = "Implied" /\ i.cycles = 3
    /\ i.name \in {"PLA", "PLP"} => i.mode = "Implied" /\ i.cycles = 4
    /\ i.name \in {"RTS", "RTI"} => i.mode = "Implied" /\ i.cycles = 6
    /\ i.name = "BRK" => i.mode = "Implied" /\ i.cycles = 7

JumpRow(i) ==
    /\ i.name = "JMP" /\ i.mode = "Absolute" => i.cycles = 3
    /\ i.name = "JMP" /\ i.mode = "Indirect" => i.cycles = 5
    /\ i.name = "JSR" => i.mode = "Absolute" /\ i.cycles = 6

Row(i) ==
    /\ ReadRow(i) /\ StoreRow(i) /\ ModifyRow(i) /\ ImpliedRow(i) /\ JumpRow(i)
    /\ i.opcode # 255 /\ i.cycles \in 2 .. 7

LEMMA TableRows == \A i \in Implemented : Row(i)
<1> USE DEF E, Row, ReadRow, StoreRow, ModifyRow, ImpliedRow, JumpRow, LoadNames,
            OperationNames, StoreNames, ImpliedNames, ModifyNames, TransferNames,
            FlagNames
<1>1. \A i \in StackInstructions : Row(i)
  BY DEF StackInstructions
<1>2. \A i \in LoadInstructions : Row(i)
  BY DEF LoadInstructions
<1>3. \A i \in StoreInstructions : Row(i)
  BY DEF StoreInstructions
<1>4. \A i \in TransferInstructions : Row(i)
  BY DEF TransferInstructions
<1>5. \A i \in LogicalInstructions : Row(i)
  BY DEF LogicalInstructions
<1>6. \A i \in ArithmeticInstructions : Row(i)
  BY DEF ArithmeticInstructions
<1>7. \A i \in CompareInstructions : Row(i)
  BY DEF CompareInstructions
<1>8. \A i \in CountInstructions : Row(i)
  BY DEF CountInstructions
<1>9. \A i \in ShiftInstructions : Row(i)
  BY DEF ShiftInstructions
<1>10. \A i \in JumpInstructions : Row(i)
  BY DEF JumpInstructions
<1>11. \A i \in BranchInstructions : Row(i)
  BY DEF BranchInstructions
<1>12. \A i \in FlagInstructions : Row(i)
  BY DEF FlagInstructions
<1>13. \A i \in SystemInstructions : Row(i)
  BY DEF SystemInstructions
<1> HIDE DEF Row
<1> QED
  BY <1>1, <1>2, <1>3, <1>4, <1>5, <1>6, <1>7, <1>8, <1>9, <1>10, <1>11, <1>12, <1>13
  DEF Implemented

LEMMA InstructionRow ==
    ASSUME NEW opcode \in Opcodes
    PROVE  /\ Row(Instructions[opcode])
           /\ opcode # 255
           /\ opcode \in DOMAIN Instructions
<1>1. PICK i \in Implemented : i.opcode = opcode
  BY DEF Opcodes
<1>2. opcode # 255
  BY <1>1, TableRows DEF Row
<1> DEFINE entry == CHOOSE j \in Implemented \cup {InvalidInstruction} : j.opcode = opcode
<1>3. entry \in Implemented \cup {InvalidInstruction} /\ entry.opcode = opcode
  BY <1>1
<1>4. Instructions[opcode] = entry /\ opcode \in DOMAIN Instructions
  BY DEF Instructions
<1>5. InvalidInstruction.opcode = 255
  BY DEF InvalidInstruction, E
<1> HIDE DEF entry
<1>6. entry \in Implemented
  BY <1>2, <1>3, <1>5
<1> QED
  BY <1>2, <1>4, <1>6, TableRows

-----------------------------------------------------------------------------
(* The dispatch: an instruction in progress stays in order.                *)

InstructionStep(i) == Orderly(LastCycle(i), MayCross(i), MustCross(i))

LEMMA PlainInstruction ==
    ASSUME NEW i, NEW last, i.cycles - 1 = last, i.mode # "Relative",
           i.mode \notin IndexedModes
    PROVE  /\ InstructionInProgress(i) <=> Plain(last)
           /\ InstructionStep(i) <=> PlainStep(last)
<1>1. LastCycle(i) = last /\ MayCross(i) = {} /\ MustCross(i) = {}
  BY DEF LastCycle, MayCross, MustCross, IndexedRead
<1> QED
  BY <1>1 DEF InstructionInProgress, InstructionStep, Plain, PlainStep

LEMMA ReadInstruction ==
    ASSUME NEW i, NEW n \in 3 .. 4, i.cycles = n + 1, i.mode \in IndexedModes,
           i.name \in LoadNames \cup OperationNames
    PROVE  /\ InstructionInProgress(i) <=> ReadAt(n)
           /\ InstructionStep(i) <=> ReadStep(n)
<1>1. LastCycle(i) = n + 1 /\ MayCross(i) = {n, n + 1} /\ MustCross(i) = {n + 1}
  BY DEF LastCycle, MayCross, MustCross, IndexedRead, IndexedModes
<1> QED
  BY <1>1 DEF InstructionInProgress, InstructionStep, ReadAt, ReadStep

LEMMA StoreInstruction ==
    ASSUME NEW i, NEW n \in 3 .. 4, i.cycles = n + 2, i.mode \in IndexedModes,
           i.name \in StoreNames
    PROVE  /\ InstructionInProgress(i) <=> SettledAt(n, n + 1)
           /\ InstructionStep(i) <=> SettledStep(n, n + 1)
<1>1. LastCycle(i) = n + 1 /\ MayCross(i) = {n} /\ MustCross(i) = {}
  BY DEF LastCycle, MayCross, MustCross, IndexedRead, IndexedModes, StoreNames,
         LoadNames, OperationNames
<1> QED
  BY <1>1 DEF InstructionInProgress, InstructionStep, SettledAt, SettledStep

LEMMA ModifyInstruction ==
    ASSUME NEW i, i.cycles = 7, i.mode \in IndexedModes, i.name \in ModifyNames
    PROVE  /\ InstructionInProgress(i) <=> SettledAt(3, 6)
           /\ InstructionStep(i) <=> SettledStep(3, 6)
<1>1. LastCycle(i) = 6 /\ MayCross(i) = {3} /\ MustCross(i) = {}
  BY DEF LastCycle, MayCross, MustCross, IndexedRead, IndexedModes, ModifyNames,
         StoreNames, LoadNames, OperationNames
<1> QED
  BY <1>1 DEF InstructionInProgress, InstructionStep, SettledAt, SettledStep

LEMMA ExecuteLoadCycles ==
    ASSUME MachineType, NEW i, Row(i), InstructionInProgress(i), ExecuteLoad(i)
    PROVE  InstructionStep(i)
<1> DEFINE r == RegisterOf(i.name)
           x == IndexOf(i.mode)
<1>1. i.name \in LoadNames /\ x \in Byte
  BY IndexOfType DEF ExecuteLoad
<1>2. CASE i.mode = "Absolute" /\ LoadMemoryToRegisterAbsolute(r)
  <2>1. i.cycles - 1 = 3
    BY <1>1, <1>2 DEF Row, ReadRow
  <2> QED
    BY <1>2, <2>1, PlainInstruction, LoadCycles DEF IndexedModes
<1>3. CASE i.mode = "Immediate" /\ LoadMemoryToRegisterImmediate(r)
  <2>1. i.cycles - 1 = 1
    BY <1>1, <1>3 DEF Row, ReadRow
  <2> QED
    BY <1>3, <2>1, PlainInstruction, LoadCycles DEF IndexedModes
<1>4. CASE i.mode = "ZeroPage" /\ LoadMemoryToRegisterZeroPage(r)
  <2>1. i.cycles - 1 = 2
    BY <1>1, <1>4 DEF Row, ReadRow
  <2> QED
    BY <1>4, <2>1, PlainInstruction, LoadCycles DEF IndexedModes
<1>5. CASE i.mode \in {"ZeroPageX", "ZeroPageY"} /\ LoadMemoryToRegisterZeroPageIndexed(r, x)
  <2>1. i.cycles - 1 = 3
    BY <1>1, <1>5 DEF Row, ReadRow
  <2> QED
    BY <1>5, <2>1, PlainInstruction, LoadCycles DEF IndexedModes
<1>6. CASE i.mode = "XIndirect" /\ LoadMemoryToRegisterXIndirect(r, x)
  <2>1. i.cycles - 1 = 5
    BY <1>1, <1>6 DEF Row, ReadRow
  <2> QED
    BY <1>6, <2>1, PlainInstruction, LoadCycles DEF IndexedModes
<1>7. CASE i.mode \in {"AbsoluteX", "AbsoluteY"} /\ LoadMemoryToRegisterAbsoluteIndexed(r, x)
  <2>1. i.cycles = 3 + 1
    BY <1>1, <1>7 DEF Row, ReadRow
  <2> QED
    BY <1>1, <1>7, <2>1, ReadInstruction, LoadIndexedCycles DEF IndexedModes
<1>8. CASE i.mode = "IndirectY" /\ LoadMemoryToRegisterIndirectY(r)
  <2>1. i.cycles = 4 + 1
    BY <1>1, <1>8 DEF Row, ReadRow
  <2> QED
    BY <1>1, <1>8, <2>1, ReadInstruction, LoadIndexedCycles DEF IndexedModes
<1> QED
  BY <1>2, <1>3, <1>4, <1>5, <1>6, <1>7, <1>8 DEF ExecuteLoad

LEMMA ExecuteStoreCycles ==
    ASSUME MachineType, NEW i, Row(i), InstructionInProgress(i), ExecuteStore(i)
    PROVE  InstructionStep(i)
<1> DEFINE r == RegisterOf(i.name)
           x == IndexOf(i.mode)
<1>1. i.name \in StoreNames /\ x \in Byte
  BY IndexOfType DEF ExecuteStore
<1>2. CASE i.mode = "Absolute" /\ StoreRegisterAbsolute(r)
  <2>1. i.cycles - 1 = 3
    BY <1>1, <1>2 DEF Row, StoreRow
  <2> QED
    BY <1>1, <1>2, <2>1, PlainInstruction, StoreCycles DEF IndexedModes
<1>3. CASE i.mode = "ZeroPage" /\ StoreRegisterZeroPage(r)
  <2>1. i.cycles - 1 = 2
    BY <1>1, <1>3 DEF Row, StoreRow
  <2> QED
    BY <1>1, <1>3, <2>1, PlainInstruction, StoreCycles DEF IndexedModes
<1>4. CASE i.mode \in {"ZeroPageX", "ZeroPageY"} /\ StoreRegisterZeroPageIndexed(r, x)
  <2>1. i.cycles - 1 = 3
    BY <1>1, <1>4 DEF Row, StoreRow
  <2> QED
    BY <1>1, <1>4, <2>1, PlainInstruction, StoreCycles DEF IndexedModes
<1>5. CASE i.mode = "XIndirect" /\ StoreRegisterXIndirect(r, x)
  <2>1. i.cycles - 1 = 5
    BY <1>1, <1>5 DEF Row, StoreRow
  <2> QED
    BY <1>1, <1>5, <2>1, PlainInstruction, StoreCycles DEF IndexedModes
<1>6. CASE i.mode \in {"AbsoluteX", "AbsoluteY"} /\ StoreRegisterAbsoluteIndexed(r, x)
  <2>1. i.cycles = 3 + 2 /\ 3 + 1 = 4 /\ i.mode \in IndexedModes
    BY <1>1, <1>6 DEF Row, StoreRow, IndexedModes
  <2>2. /\ InstructionInProgress(i) <=> SettledAt(3, 4)
        /\ InstructionStep(i) <=> SettledStep(3, 4)
    BY <1>1, <2>1, StoreInstruction
  <2> QED
    BY <1>1, <1>6, <2>2, StoreIndexedCycles
<1>7. CASE i.mode = "IndirectY" /\ StoreRegisterIndirectY(r)
  <2>1. i.cycles = 4 + 2 /\ 4 + 1 = 5 /\ i.mode \in IndexedModes
    BY <1>1, <1>7 DEF Row, StoreRow, IndexedModes
  <2>2. /\ InstructionInProgress(i) <=> SettledAt(4, 5)
        /\ InstructionStep(i) <=> SettledStep(4, 5)
    BY <1>1, <2>1, StoreInstruction
  <2> QED
    BY <1>1, <1>7, <2>2, StoreIndexedCycles
<1> QED
  BY <1>2, <1>3, <1>4, <1>5, <1>6, <1>7 DEF ExecuteStore

LEMMA ExecuteRegisterOperationCycles ==
    ASSUME MachineType, NEW i, Row(i), InstructionInProgress(i), ExecuteRegisterOperation(i)
    PROVE  InstructionStep(i)
<1> DEFINE op == OperationOf(i.name)
           r  == RegisterOf(i.name)
           x  == IndexOf(i.mode)
<1>1. i.name \in OperationNames /\ x \in Byte
  BY IndexOfType DEF ExecuteRegisterOperation
<1>2. CASE i.mode = "Immediate" /\ OperationImmediate(op, r)
  <2>1. i.cycles - 1 = 1
    BY <1>1, <1>2 DEF Row, ReadRow
  <2> QED
    BY <1>1, <1>2, <2>1, PlainInstruction, OperationCycles DEF IndexedModes
<1>3. CASE i.mode = "ZeroPage" /\ OperationZeroPage(op, r)
  <2>1. i.cycles - 1 = 2
    BY <1>1, <1>3 DEF Row, ReadRow
  <2> QED
    BY <1>1, <1>3, <2>1, PlainInstruction, OperationCycles DEF IndexedModes
<1>4. CASE i.mode = "ZeroPageX" /\ OperationZeroPageIndexed(op, r, x)
  <2>1. i.cycles - 1 = 3
    BY <1>1, <1>4 DEF Row, ReadRow
  <2> QED
    BY <1>1, <1>4, <2>1, PlainInstruction, OperationCycles DEF IndexedModes
<1>5. CASE i.mode = "Absolute" /\ OperationAbsolute(op, r)
  <2>1. i.cycles - 1 = 3
    BY <1>1, <1>5 DEF Row, ReadRow
  <2> QED
    BY <1>1, <1>5, <2>1, PlainInstruction, OperationCycles DEF IndexedModes
<1>6. CASE i.mode = "XIndirect" /\ OperationXIndirect(op, r)
  <2>1. i.cycles - 1 = 5
    BY <1>1, <1>6 DEF Row, ReadRow
  <2> QED
    BY <1>1, <1>6, <2>1, PlainInstruction, OperationCycles DEF IndexedModes
<1>7. CASE i.mode \in {"AbsoluteX", "AbsoluteY"} /\ OperationAbsoluteIndexed(op, r, x)
  <2>1. i.cycles = 3 + 1
    BY <1>1, <1>7 DEF Row, ReadRow
  <2> QED
    BY <1>1, <1>7, <2>1, ReadInstruction, OperationIndexedCycles DEF IndexedModes
<1>8. CASE i.mode = "IndirectY" /\ OperationIndirectY(op, r)
  <2>1. i.cycles = 4 + 1
    BY <1>1, <1>8 DEF Row, ReadRow
  <2> QED
    BY <1>1, <1>8, <2>1, ReadInstruction, OperationIndexedCycles DEF IndexedModes
<1> QED
  BY <1>2, <1>3, <1>4, <1>5, <1>6, <1>7, <1>8 DEF ExecuteRegisterOperation

LEMMA ExecuteModifyCycles ==
    ASSUME MachineType, NEW i, Row(i), InstructionInProgress(i), ExecuteModify(i)
    PROVE  InstructionStep(i)
<1> DEFINE op == OperationOf(i.name)
           x  == IndexOf(i.mode)
<1>1. i.name \in ImpliedNames /\ x \in Byte
  BY IndexOfType DEF ExecuteModify, ImpliedNames
<1>2. CASE i.mode = "Implied" /\ OperationImplied(op, RegisterOf(i.name))
  <2>1. i.cycles - 1 = 1
    BY <1>1, <1>2 DEF Row, ModifyRow
  <2> QED
    BY <1>1, <1>2, <2>1, PlainInstruction, OperationCycles DEF IndexedModes
<1>3. CASE i.mode = "ZeroPage" /\ OperationZeroPage_ReadModifyWrite(op)
  <2>1. i.cycles - 1 = 4
    BY <1>1, <1>3 DEF Row, ModifyRow
  <2> QED
    BY <1>1, <1>3, <2>1, PlainInstruction, ModifyCycles DEF IndexedModes
<1>4. CASE i.mode = "ZeroPageX" /\ OperationZeroPageIndexed_ReadModifyWrite(op, x)
  <2>1. i.cycles - 1 = 5
    BY <1>1, <1>4 DEF Row, ModifyRow
  <2> QED
    BY <1>1, <1>4, <2>1, PlainInstruction, ModifyCycles DEF IndexedModes
<1>5. CASE i.mode = "Absolute" /\ OperationAbsolute_ReadModifyWrite(op)
  <2>1. i.cycles - 1 = 5
    BY <1>1, <1>5 DEF Row, ModifyRow
  <2> QED
    BY <1>1, <1>5, <2>1, PlainInstruction, ModifyCycles DEF IndexedModes
<1>6. CASE i.mode = "AbsoluteX" /\ i.name \in ModifyNames
           /\ OperationAbsoluteIndexed_ReadModifyWrite(op, x)
  <2>1. i.cycles = 7
    BY <1>1, <1>6 DEF Row, ModifyRow
  <2> QED
    BY <1>1, <1>6, <2>1, ModifyInstruction, ModifyIndexedCycles DEF IndexedModes
<1> QED
  BY <1>2, <1>3, <1>4, <1>5, <1>6 DEF ExecuteModify

LEMMA ImpliedInstruction ==
    ASSUME NEW i, i.mode = "Implied"
    PROVE  /\ InstructionInProgress(i) <=> Plain(i.cycles - 1)
           /\ InstructionStep(i) <=> PlainStep(i.cycles - 1)
BY PlainInstruction DEF IndexedModes

LEMMA ExecuteTransferCycles ==
    ASSUME NEW i, Row(i), InstructionInProgress(i), ExecuteTransfer(i)
    PROVE  InstructionStep(i)
<1>1. i.mode = "Implied" /\ i.cycles - 1 = 1
  BY DEF ExecuteTransfer, Row, ImpliedRow, TransferNames
<1>2. PlainStep(1)
  BY <1>1, ImpliedInstruction, TransferCycles DEF ExecuteTransfer
<1> QED
  BY <1>1, <1>2, ImpliedInstruction

LEMMA ExecuteStackCycles ==
    ASSUME NEW i, Row(i), InstructionInProgress(i), ExecuteStack(i)
    PROVE  InstructionStep(i)
<1>1. CASE i.name \in {"PHA", "PHP"} /\ (PHA \/ PHP)
  <2>1. i.mode = "Implied" /\ i.cycles - 1 = 2
    BY <1>1 DEF Row, ImpliedRow
  <2> QED
    BY <1>1, <2>1, ImpliedInstruction, StackCycles
<1>2. CASE i.name \in {"PLA", "PLP"} /\ (PLA \/ PLP)
  <2>1. i.mode = "Implied" /\ i.cycles - 1 = 3
    BY <1>2 DEF Row, ImpliedRow
  <2> QED
    BY <1>2, <2>1, ImpliedInstruction, StackCycles
<1>3. CASE i.name \in {"TSX", "TXS"} /\ (TSX \/ TXS)
  <2>1. i.mode = "Implied" /\ i.cycles - 1 = 1
    BY <1>3 DEF Row, ImpliedRow, TransferNames
  <2> QED
    BY <1>3, <2>1, ImpliedInstruction, StackCycles
<1> QED
  BY <1>1, <1>2, <1>3 DEF ExecuteStack

LEMMA ExecuteJumpCycles ==
    ASSUME NEW i, Row(i), InstructionInProgress(i), ExecuteJump(i)
    PROVE  InstructionStep(i)
<1>1. CASE i.name = "JMP" /\ i.mode = "Absolute" /\ JMPAbsolute
  <2>1. i.cycles - 1 = 2
    BY <1>1 DEF Row, JumpRow
  <2> QED
    BY <1>1, <2>1, PlainInstruction, JumpCycles DEF IndexedModes
<1>2. CASE i.name = "JMP" /\ i.mode = "Indirect" /\ JMPIndirect
  <2>1. i.cycles - 1 = 4
    BY <1>2 DEF Row, JumpRow
  <2> QED
    BY <1>2, <2>1, PlainInstruction, JumpCycles DEF IndexedModes
<1>3. CASE i.name = "JSR" /\ JSR
  <2>1. i.mode = "Absolute" /\ i.cycles - 1 = 5
    BY <1>3 DEF Row, JumpRow
  <2> QED
    BY <1>3, <2>1, PlainInstruction, JumpCycles DEF IndexedModes
<1>4. CASE i.name \in {"RTS", "RTI"} /\ (RTS \/ RTI)
  <2>1. i.mode = "Implied" /\ i.cycles - 1 = 5
    BY <1>4 DEF Row, ImpliedRow
  <2> QED
    BY <1>4, <2>1, ImpliedInstruction, JumpCycles
<1>5. CASE i.name = "BRK" /\ BRK
  <2>1. i.mode = "Implied" /\ i.cycles - 1 = 6
    BY <1>5 DEF Row, ImpliedRow
  <2> QED
    BY <1>5, <2>1, ImpliedInstruction, JumpCycles
<1> QED
  BY <1>1, <1>2, <1>3, <1>4, <1>5 DEF ExecuteJump

LEMMA ExecuteBranchCycles ==
    ASSUME NEW i, InstructionInProgress(i), ExecuteBranch(i)
    PROVE  InstructionStep(i)
<1>1. i.mode = "Relative" /\ RelativeBranch(i.name)
  BY DEF ExecuteBranch
<1>2. LastCycle(i) = 3 /\ MayCross(i) = {3} /\ MustCross(i) = {3}
  BY <1>1 DEF LastCycle, MayCross, MustCross
<1>3. BranchStep
  BY <1>1, <1>2, BranchCycles DEF InstructionInProgress, BranchAt
<1> QED
  BY <1>2, <1>3 DEF InstructionStep, BranchStep

LEMMA ExecuteFlagCycles ==
    ASSUME NEW i, Row(i), InstructionInProgress(i), ExecuteFlag(i)
    PROVE  InstructionStep(i)
<1>1. i.mode = "Implied" /\ i.cycles - 1 = 1
  BY DEF ExecuteFlag, Row, ImpliedRow, FlagNames
<1>2. PlainStep(1)
  BY <1>1, ImpliedInstruction, FlagCycles DEF ExecuteFlag
<1> QED
  BY <1>1, <1>2, ImpliedInstruction

LEMMA ExecuteCycles ==
    ASSUME MachineType, ir \in Opcodes, NEW i, i = Instructions[ir],
           InstructionInProgress(i), Execute
    PROVE  InstructionStep(i)
<1>1. Row(i) /\ ~ExecuteUndefined
  BY InstructionRow DEF ExecuteUndefined, InvalidInstruction, E
<1>2. \/ ExecuteLoad(i)
      \/ ExecuteStore(i)
      \/ ExecuteTransfer(i)
      \/ ExecuteRegisterOperation(i)
      \/ ExecuteModify(i)
      \/ ExecuteStack(i)
      \/ ExecuteJump(i)
      \/ ExecuteBranch(i)
      \/ ExecuteFlag(i)
  BY <1>1 DEF Execute
<1> QED
  BY <1>1, <1>2, ExecuteLoadCycles, ExecuteStoreCycles, ExecuteTransferCycles,
     ExecuteRegisterOperationCycles, ExecuteModifyCycles, ExecuteStackCycles,
     ExecuteJumpCycles, ExecuteBranchCycles, ExecuteFlagCycles

-----------------------------------------------------------------------------
(* The invariant.                                                          *)

\* reset.cpp resets a running CPU; ResetDuringInterrupt.cfg shows what happens
\* otherwise.
ResetsAreClean == ResetModes \subseteq {"RESET", "RUN"}

CycleInvariant == NoInvalidCycle /\ CycleDiscipline

LEMMA FirstCycle ==
    ASSUME NEW i, Row(i), instruction_cycle' = 1, ~page_crossed'
    PROVE  InstructionInProgress(i)'
<1>1. 1 <= LastCycle(i) /\ LastCycle(i) \in Nat
  BY DEF Row, LastCycle
<1>2. 1 \notin MustCross(i)
  BY DEF Row, ReadRow, MustCross, IndexedRead, IndexedModes
<1> QED
  BY <1>1, <1>2 DEF InstructionInProgress, InProgress

LEMMA ExecuteInvariant ==
    ASSUME MachineType, CycleInvariant, glabal_mode = "RUN", ~At(0), Execute
    PROVE  CycleInvariant'
<1>1. glabal_mode' = "RUN" /\ interrupt_cycle' = 0 /\ ir' = ir
  BY DEF Execute, CycleInvariant, CycleDiscipline
<1>2. CASE ir \in Opcodes
  <2>0. PICK i : i = Instructions[ir]
    OBVIOUS
  <2>1. InstructionStep(i) /\ Row(i)
    <3>1. InstructionInProgress(i)
      BY <1>2, <2>0 DEF CycleInvariant, CycleDiscipline, At
    <3> QED
      BY <1>2, <2>0, <3>1, ExecuteCycles, InstructionRow
  <2>2. NoInvalidCycle'
    BY <2>1 DEF InstructionStep, Orderly, CycleInvariant, NoInvalidCycle
  <2>3. CASE instruction_cycle' = 0 /\ ~page_crossed'
    BY <1>1, <2>2, <2>3 DEF CycleInvariant, CycleDiscipline
  <2>4. CASE InProgress(LastCycle(i), MayCross(i), MustCross(i))'
    <3>1. instruction_cycle' # 0
      BY <2>4 DEF InProgress
    <3>2. InstructionInProgress(Instructions[ir])'
      BY <1>1, <2>0, <2>4 DEF InstructionInProgress, InProgress
    <3> QED
      BY <1>1, <1>2, <2>2, <3>1, <3>2 DEF CycleInvariant, CycleDiscipline
  <2> QED
    BY <2>1, <2>3, <2>4 DEF InstructionStep, Orderly
<1>3. CASE ir \notin Opcodes
  <2>1. ExecuteUndefined
    BY <1>3 DEF Execute
  <2>2. NoInvalidCycle'
    BY <2>1 DEF ExecuteUndefined, NoInvalidCycle
  <2>3. ~page_crossed'
    BY <1>3, <2>1 DEF ExecuteUndefined, CycleInvariant, CycleDiscipline
  <2> QED
    BY <1>1, <1>3, <2>2, <2>3 DEF CycleInvariant, CycleDiscipline
<1> QED
  BY <1>2, <1>3

LEMMA HandleResetInvariant ==
    ASSUME CycleInvariant, interrupt_cycle \in 0 .. 6, glabal_mode = "RESET", HandleReset
    PROVE  CycleInvariant'
<1>1. CASE interrupt_cycle = 0 /\ ResetCycle0
  BY <1>1 DEF ResetCycle0, CycleInvariant, NoInvalidCycle,
              CycleDiscipline
<1>2. CASE /\ interrupt_cycle \in 1 .. 3 /\ NextCycle
           /\ UNCHANGED <<page_crossed, instruction_cycle>>
  BY <1>2 DEF NextCycle, CycleInvariant, NoInvalidCycle,
              CycleDiscipline
<1>3. CASE interrupt_cycle = 4 /\ ToRun /\ UNCHANGED <<page_crossed, instruction_cycle>>
  BY <1>3 DEF ToRun, CycleInvariant, NoInvalidCycle, CycleDiscipline
<1>4. ~InvalidInterruptCycle(4)
  BY DEF InvalidInterruptCycle, CycleInvariant, CycleDiscipline
<1> QED
  BY <1>1, <1>2, <1>3, <1>4 DEF HandleReset

LEMMA HandleInterruptInvariant ==
    ASSUME CycleInvariant, interrupt_cycle \in 0 .. 6, glabal_mode \in {"NMI", "IRQ"},
           NEW vector, HandleInterrupt(vector)
    PROVE  CycleInvariant'
<1>1. UNCHANGED <<page_crossed, instruction_cycle>>
  BY DEF HandleInterrupt
<1>2. NextCycle \/ ToRun
  BY DEF HandleInterrupt, InvalidInterruptCycle
<1> QED
  BY <1>1, <1>2 DEF NextCycle, ToRun, CycleInvariant, NoInvalidCycle,
                    CycleDiscipline

LEMMA StepInvariant ==
    ASSUME TypeOK, CycleInvariant, Step PROVE CycleInvariant'
<1>1. interrupt_cycle \in 0 .. 6 /\ MachineType
  BY TypeParts DEF TypeOK
<1>2. CASE glabal_mode = "RESET" /\ HandleReset
  BY <1>1, <1>2, HandleResetInvariant
<1>3. CASE \/ glabal_mode = "NMI" /\ HandleInterrupt(NMIVector)
           \/ glabal_mode = "IRQ" /\ HandleInterrupt(IRQVector)
  BY <1>1, <1>3, HandleInterruptInvariant
<1>4. CASE glabal_mode = "RUN" /\ (EnterNMI \/ EnterIRQ)
  BY <1>4 DEF EnterNMI, EnterIRQ, EnterInterrupt, At, CycleInvariant, NoInvalidCycle,
              CycleDiscipline
<1>5. CASE glabal_mode = "RUN" /\ FetchOpcode
  <2>1. /\ glabal_mode' = "RUN" /\ interrupt_cycle' = 0 /\ fault' = fault
        /\ instruction_cycle' = 1 /\ ~page_crossed'
    BY <1>5 DEF FetchOpcode, At, CycleInvariant, CycleDiscipline
  <2>2. ir' \in Opcodes => InstructionInProgress(Instructions[ir])'
    <3> SUFFICES ASSUME ir' \in Opcodes PROVE InstructionInProgress(Instructions[ir])'
      OBVIOUS
    <3>1. PICK i : i = Instructions[ir']
      OBVIOUS
    <3>2. Row(i)
      BY <3>1, InstructionRow
    <3>3. InstructionInProgress(i)'
      BY <2>1, <3>2, FirstCycle
    <3> QED
      BY <3>1, <3>3 DEF InstructionInProgress, InProgress
  <2> QED
    BY <2>1, <2>2 DEF CycleInvariant, NoInvalidCycle, CycleDiscipline
<1>6. CASE glabal_mode = "RUN" /\ ~At(0) /\ Execute
  BY <1>1, <1>6, ExecuteInvariant
<1> QED
  BY <1>2, <1>3, <1>4, <1>5, <1>6 DEF Step

LEMMA NextInvariant ==
    ASSUME ResetsAreClean, TypeOK, CycleInvariant, [Next]_vars PROVE CycleInvariant'
<1>1. CASE Step
  BY <1>1, StepInvariant
<1>2. CASE Reset
  <2>1. glabal_mode \in {"RESET", "RUN"} /\ glabal_mode' = "RESET"
    BY <1>2 DEF Reset, ResetsAreClean
  <2>2. UNCHANGED <<interrupt_cycle, page_crossed, instruction_cycle, fault>>
    BY <1>2 DEF Reset
  <2> QED
    BY <2>1, <2>2 DEF CycleInvariant, NoInvalidCycle, CycleDiscipline
<1>3. CASE SignalNMI \/ SignalIRQ \/ UNCHANGED vars
  <2>1. UNCHANGED <<glabal_mode, interrupt_cycle, page_crossed, instruction_cycle,
                    ir, fault>>
    BY <1>3 DEF SignalNMI, SignalIRQ, vars
  <2> QED
    BY <2>1 DEF CycleInvariant, NoInvalidCycle, CycleDiscipline,
                InstructionInProgress, InProgress
<1> QED
  BY <1>1, <1>2, <1>3 DEF Next

LEMMA InitInvariant == ASSUME Init PROVE CycleInvariant
BY DEF Init, CycleInvariant, NoInvalidCycle, CycleDiscipline

\* With every reset requested outside the interrupt sequences, and whatever
\* the program, its data and the interrupts signalled to it: no cycle
\* assertion of cpu_isa.cpp or qnes_cpu.cpp fails, no carry of an indexed
\* address leaks out of its instruction, and no instruction takes more cycles
\* than cpu_isa.hpp declares for it.
THEOREM CyclesCorrect ==
    ASSUME ResetsAreClean
    PROVE  Spec => [](NoInvalidCycle /\ CycleDiscipline)
<1>1. Init => TypeOK /\ CycleInvariant
  BY InitType, InitInvariant
<1>2. TypeOK /\ CycleInvariant /\ [Next]_vars => (TypeOK /\ CycleInvariant)'
  BY NextType, NextInvariant
<1>3. CycleInvariant => NoInvalidCycle /\ CycleDiscipline
  BY DEF CycleInvariant
<1> QED
  BY <1>1, <1>2, <1>3, PTL DEF Spec

\* The assertions alone: with clean resets no routine is entered at a cycle its
\* switch does not handle, so no cycle assertion of the build fails (NoInvalidCycle).
THEOREM NoInvalidCycleHolds ==
    ASSUME ResetsAreClean
    PROVE  Spec => []NoInvalidCycle
BY CyclesCorrect, PTL
=============================================================================
