-------------------------------- MODULE CPU --------------------------------
(***************************************************************************)
(* The 6502 core of QNes: qnes_cpu.cpp and cpu_isa.cpp, cycle by cycle, on *)
(* the flat 64 KB RAMBus.  One call of CPU::Step is one action Step, and   *)
(* every case of a `switch (instruction_cycle)` or of a                    *)
(* `switch (interrupt_cycle)` is a disjunct of it.  Between two Steps the  *)
(* owner of the CPU may signal an interrupt or call Reset.                 *)
(*                                                                         *)
(* CPU::State is split in pc, sp, reg (a, x and y, which the routines take *)
(* by reference) and status; the Bus keeps the latches adl, adh, op_latch  *)
(* and the address addr.  pc_adl and pc_adh are the thread_local bytes of  *)
(* HandleReset.                                                            *)
(***************************************************************************)
EXTENDS Alu, Isa

CONSTANTS
    NDEBUG,       \* TRUE in a release build, where ASSERT expands to nothing
    ResetModes,   \* the modes in which the owner calls Reset
    Images        \* the initial contents of memory

VARIABLES
    pc, sp, reg, status,                   \* CPU::State
    latch, addr,                           \* Bus
    memory,                                \* Memory: cells outside DOMAIN are 0
    glabal_mode, interrupt_cycle,
    pc_adl, pc_adh,
    ir, page_crossed, instruction_cycle,
    nmi_pending, irq_pending,
    fault                                  \* the last failed ASSERT or null call

vars == <<pc, sp, reg, status, latch, addr, memory, glabal_mode,
          interrupt_cycle, pc_adl, pc_adh, ir, page_crossed,
          instruction_cycle, nmi_pending, irq_pending, fault>>

Reg   == {"a", "x", "y"}
Latch == {"adl", "adh", "op_latch"}
GlobalMode == {"RESET", "RUN", "NMI", "IRQ"}
Fault == {"none", "invalid_cycle", "invalid_opcode", "null_call"}

\* Memory is zero-initialised, so only the cells written so far are kept.
IsMemory(m) == DOMAIN m \subseteq Word /\ m \in [DOMAIN m -> Byte]

ASSUME ConstantsAssumption ==
    /\ NDEBUG \in BOOLEAN
    /\ ResetModes \subseteq GlobalMode
    /\ \A m \in Images : IsMemory(m)

Init ==
    /\ pc = 0 /\ sp = 0 /\ reg = [r \in Reg |-> 0] /\ status = {}
    /\ latch = [l \in Latch |-> 0] /\ addr = 0
    /\ memory \in Images
    /\ glabal_mode = "RESET" /\ interrupt_cycle = 0
    /\ pc_adl = 0 /\ pc_adh = 0
    /\ ir = 0 /\ page_crossed = FALSE /\ instruction_cycle = 0
    /\ nmi_pending = FALSE /\ irq_pending = FALSE
    /\ fault = "none"

\* A failed ASSERT ends a debug build only; a null call ends both.
Alive == fault = "none" \/ (NDEBUG /\ fault # "null_call")

-----------------------------------------------------------------------------
(* Memory accesses.  Each states what it does to pc, sp, reg, status,      *)
(* latch, addr and memory; Load and Push leave the rest to their user.     *)

Read(a) == IF a \in DOMAIN memory THEN memory[a] ELSE 0

Written(a, v) ==
    [b \in DOMAIN memory \cup {a} |-> IF b = a THEN v ELSE memory[b]]

ReadTo(l, a) ==
    /\ latch' = [latch EXCEPT ![l] = Read(a)]
    /\ addr' = a
    /\ UNCHANGED <<pc, sp, reg, status, memory>>

DummyRead(a) == addr' = a /\ UNCHANGED <<pc, sp, reg, status, latch, memory>>

\* The operand byte at pc goes to a latch, and pc advances.
Fetch(l) ==
    /\ latch' = [latch EXCEPT ![l] = Read(pc)]
    /\ addr' = pc
    /\ pc' = Inc16(pc)
    /\ UNCHANGED <<sp, reg, status, memory>>

Load(a, r) ==
    /\ reg' = [reg EXCEPT ![r] = Read(a)]
    /\ status' = SetZNFlags(status, Read(a))
    /\ addr' = a
    /\ UNCHANGED <<pc, sp, memory>>

LoadFrom(a, r) == Load(a, r) /\ UNCHANGED latch

Store(a, r) ==
    /\ memory' = Written(a, reg[r])
    /\ addr' = a
    /\ UNCHANGED <<pc, sp, reg, status, latch>>

\* Mutant: the stack pointer does not wrap below 0x0100.
PushSaturates(v) ==
    /\ memory' = Written(256 + sp, v)
    /\ addr' = 256 + sp
    /\ sp' = IF sp = 0 THEN 0 ELSE sp - 1
    /\ UNCHANGED <<reg, latch>>

Push(v) ==
    /\ memory' = Written(256 + sp, v)
    /\ addr' = 256 + sp
    /\ sp' = Dec8(sp)
    /\ UNCHANGED <<reg, latch>>

\* ReadStackValue
Top == Read(256 + sp)

-----------------------------------------------------------------------------
(* The micro-cycle counter.                                                *)

At(n) == instruction_cycle = n

ContinueWith(crossed) ==
    /\ instruction_cycle' = instruction_cycle + 1
    /\ page_crossed' = crossed
    /\ UNCHANGED fault

Continue == ContinueWith(page_crossed)

Finish == instruction_cycle' = 0 /\ UNCHANGED <<page_crossed, fault>>

\* Mutants: the extra cycle leaves page_crossed set, or does not end.
FinishCrossedKeepsCarry ==
    /\ instruction_cycle' = 0
    /\ fault' = IF page_crossed THEN fault ELSE "invalid_cycle"
    /\ UNCHANGED page_crossed

FinishCrossedNeverEnds ==
    /\ page_crossed' = FALSE
    /\ fault' = IF page_crossed THEN fault ELSE "invalid_cycle"
    /\ UNCHANGED instruction_cycle

\* The extra cycle of a page crossing: ASSERT(page_crossed), then clear it.
FinishCrossed ==
    /\ instruction_cycle' = 0
    /\ page_crossed' = FALSE
    /\ fault' = IF page_crossed THEN fault ELSE "invalid_cycle"

\* default: ASSERT(false, "Invalid cycle")
InvalidCycle(last) ==
    /\ instruction_cycle > last
    /\ fault' = "invalid_cycle"
    /\ UNCHANGED <<pc, sp, reg, status, latch, addr, memory,
                   page_crossed, instruction_cycle>>

-----------------------------------------------------------------------------
(* The address cycles that the routines of one addressing mode share.      *)

ZP == latch["adl"]
EA == CombineToU16(latch["adh"], latch["adl"])
Pointer == latch["op_latch"]

\* A dummy read in page zero, then the index is added without a carry.
IndexZeroPage(l, index) ==
    /\ addr' = latch[l]
    /\ latch' = [latch EXCEPT ![l] = U16Low(@ + index)]
    /\ UNCHANGED <<pc, sp, reg, status, memory>>

\* Mutant: the sum of adl and the index is kept in more than eight bits.
HighIndexedUntruncated(a, index) ==
    /\ latch' = [latch EXCEPT !["adh"] = Read(a), !["adl"] = @ + index]
    /\ addr' = a
    /\ ContinueWith(latch["adl"] + index > 255)
    /\ UNCHANGED <<sp, reg, status, memory>>

\* adh is read and the index added to adl; the carry is left in page_crossed.
HighIndexed(a, index) ==
    /\ latch' = [latch EXCEPT !["adh"] = Read(a), !["adl"] = U16Low(@ + index)]
    /\ addr' = a
    /\ ContinueWith(latch["adl"] + index > 255)
    /\ UNCHANGED <<sp, reg, status, memory>>

WithCarry == [latch EXCEPT !["adh"] = Inc8(@)]

ZeroPage == At(1) /\ Fetch("adl") /\ Continue

ZeroPageIndexed(index) ==
    \/ ZeroPage
    \/ At(2) /\ IndexZeroPage("adl", index) /\ Continue

Absolute ==
    \/ At(1) /\ Fetch("adl") /\ Continue
    \/ At(2) /\ Fetch("adh") /\ Continue

AbsoluteIndexed(index) ==
    \/ At(1) /\ Fetch("adl") /\ Continue
    \/ At(2) /\ HighIndexed(pc, index) /\ pc' = Inc16(pc)

XIndirect(index) ==
    \/ At(1) /\ Fetch("op_latch") /\ Continue
    \/ At(2) /\ IndexZeroPage("op_latch", index) /\ Continue
    \/ At(3) /\ ReadTo("adl", Pointer) /\ Continue
    \/ At(4) /\ ReadTo("adh", Inc8(Pointer)) /\ Continue

IndirectY ==
    \/ At(1) /\ Fetch("op_latch") /\ Continue
    \/ At(2) /\ ReadTo("adl", Pointer) /\ Continue
    \/ At(3) /\ HighIndexed(Inc8(Pointer), reg["y"]) /\ UNCHANGED pc

-----------------------------------------------------------------------------
(* LDA, LDX, LDY.                                                          *)

LoadMemoryToRegisterAbsolute(r) ==
    \/ Absolute
    \/ At(3) /\ LoadFrom(EA, r) /\ Finish
    \/ InvalidCycle(3)

LoadMemoryToRegisterImmediate(r) ==
    \/ /\ At(1)
       /\ reg' = [reg EXCEPT ![r] = Read(pc)]
       /\ status' = SetZNFlags(status, Read(pc))
       /\ addr' = pc
       /\ pc' = Inc16(pc)
       /\ Finish
       /\ UNCHANGED <<sp, latch, memory>>
    \/ InvalidCycle(1)

LoadMemoryToRegisterZeroPage(r) ==
    \/ ZeroPage
    \/ At(2) /\ LoadFrom(ZP, r) /\ Finish
    \/ InvalidCycle(2)

LoadMemoryToRegisterZeroPageIndexed(r, index) ==
    \/ ZeroPageIndexed(index)
    \/ At(3) /\ LoadFrom(ZP, r) /\ Finish
    \/ InvalidCycle(3)

\* Mutant: the carry is forgotten as soon as adh is corrected.
LoadIndexedForgetsCarry(n, r) ==
    \/ At(n) /\ page_crossed /\ Load(EA, r) /\ latch' = WithCarry /\ ContinueWith(FALSE)
    \/ At(n) /\ ~page_crossed /\ LoadFrom(EA, r) /\ Finish
    \/ At(n + 1) /\ LoadFrom(EA, r) /\ FinishCrossed
    \/ InvalidCycle(n + 1)

\* The register is written from the address without carry as well.
LoadIndexed(n, r) ==
    \/ At(n) /\ page_crossed /\ Load(EA, r) /\ latch' = WithCarry /\ Continue
    \/ At(n) /\ ~page_crossed /\ LoadFrom(EA, r) /\ Finish
    \/ At(n + 1) /\ LoadFrom(EA, r) /\ FinishCrossed
    \/ InvalidCycle(n + 1)

LoadMemoryToRegisterAbsoluteIndexed(r, index) ==
    AbsoluteIndexed(index) \/ LoadIndexed(3, r)

LoadMemoryToRegisterXIndirect(r, index) ==
    \/ XIndirect(index)
    \/ At(5) /\ LoadFrom(EA, r) /\ Finish
    \/ InvalidCycle(5)

LoadMemoryToRegisterIndirectY(r) == IndirectY \/ LoadIndexed(4, r)

-----------------------------------------------------------------------------
(* STA, STX, STY.                                                          *)

StoreRegisterAbsolute(r) ==
    \/ Absolute
    \/ At(3) /\ Store(EA, r) /\ Finish
    \/ InvalidCycle(3)

StoreRegisterZeroPage(r) ==
    \/ ZeroPage
    \/ At(2) /\ Store(ZP, r) /\ Finish
    \/ InvalidCycle(2)

StoreRegisterZeroPageIndexed(r, index) ==
    \/ ZeroPageIndexed(index)
    \/ At(3) /\ Store(ZP, r) /\ Finish
    \/ InvalidCycle(3)

\* Mutant: the dummy read already has the carry; only the bus can tell.
StoreIndexedReadsTarget(n, r) ==
    \/ /\ At(n)
       /\ latch' = IF page_crossed THEN WithCarry ELSE latch
       /\ addr' = CombineToU16(latch'["adh"], latch'["adl"])
       /\ ContinueWith(FALSE)
       /\ UNCHANGED <<pc, sp, reg, status, memory>>
    \/ At(n + 1) /\ Store(EA, r) /\ Finish
    \/ InvalidCycle(n + 1)

\* A write cannot be undone: the carry is settled by a dummy read first.
StoreIndexed(n, r) ==
    \/ /\ At(n)
       /\ addr' = EA
       /\ latch' = IF page_crossed THEN WithCarry ELSE latch
       /\ ContinueWith(FALSE)
       /\ UNCHANGED <<pc, sp, reg, status, memory>>
    \/ At(n + 1) /\ Store(EA, r) /\ Finish
    \/ InvalidCycle(n + 1)

StoreRegisterAbsoluteIndexed(r, index) ==
    AbsoluteIndexed(index) \/ StoreIndexed(3, r)

StoreRegisterXIndirect(r, index) ==
    \/ XIndirect(index)
    \/ At(5) /\ Store(EA, r) /\ Finish
    \/ InvalidCycle(5)

StoreRegisterIndirectY(r) == IndirectY \/ StoreIndexed(4, r)

TransferRegister(r, v) ==
    \/ /\ At(1)
       /\ reg' = [reg EXCEPT ![r] = v]
       /\ status' = SetZNFlags(status, v)
       /\ Finish
       /\ UNCHANGED <<pc, sp, latch, addr, memory>>
    \/ InvalidCycle(1)

-----------------------------------------------------------------------------
(* The operations on a register (read instructions) and on memory          *)
(* (read-modify-write instructions).                                       *)

\* The operand at a goes to op_latch and through the ALU to the register.
Operate(op, a, r) ==
    LET out == ExecuteOperation(op, reg[r], Read(a), status)
    IN  /\ latch' = [latch EXCEPT !["op_latch"] = Read(a)]
        /\ addr' = a
        /\ reg' = [reg EXCEPT ![r] = out.reg]
        /\ status' = out.status
        /\ UNCHANGED <<sp, memory>>

OperateAt(op, a, r) == Operate(op, a, r) /\ UNCHANGED pc

\* The dummy write of the old value; op_latch then holds the new one.
Modify(op, a) ==
    LET out == ExecuteOperation(op, Pointer, Pointer, status)
    IN  /\ memory' = Written(a, Pointer)
        /\ addr' = a
        /\ latch' = [latch EXCEPT !["op_latch"] = out.reg]
        /\ status' = out.status
        /\ UNCHANGED <<pc, sp, reg>>

WriteBack(a) ==
    /\ memory' = Written(a, Pointer)
    /\ addr' = a
    /\ UNCHANGED <<pc, sp, reg, status, latch>>

\* The last three cycles, the first of them n, of a read-modify-write.
ReadModifyWrite(n, op, a) ==
    \/ At(n) /\ ReadTo("op_latch", a) /\ Continue
    \/ At(n + 1) /\ Modify(op, a) /\ Continue
    \/ At(n + 2) /\ WriteBack(a) /\ Finish
    \/ InvalidCycle(n + 2)

OperationImmediate(op, r) ==
    \/ At(1) /\ Operate(op, pc, r) /\ pc' = Inc16(pc) /\ Finish
    \/ InvalidCycle(1)

OperationZeroPage(op, r) ==
    \/ ZeroPage
    \/ At(2) /\ OperateAt(op, ZP, r) /\ Finish
    \/ InvalidCycle(2)

OperationZeroPage_ReadModifyWrite(op) == ZeroPage \/ ReadModifyWrite(2, op, ZP)

OperationZeroPageIndexed(op, r, index) ==
    \/ ZeroPageIndexed(index)
    \/ At(3) /\ OperateAt(op, ZP, r) /\ Finish
    \/ InvalidCycle(3)

OperationZeroPageIndexed_ReadModifyWrite(op, index) ==
    ZeroPageIndexed(index) \/ ReadModifyWrite(3, op, ZP)

OperationAbsolute(op, r) ==
    \/ Absolute
    \/ At(3) /\ OperateAt(op, EA, r) /\ Finish
    \/ InvalidCycle(3)

OperationAbsolute_ReadModifyWrite(op) == Absolute \/ ReadModifyWrite(3, op, EA)

\* When the page is crossed the first read is discarded and op_latch cleared.
OperateIndexed(n, op, r) ==
    \/ /\ At(n) /\ page_crossed
       /\ addr' = EA
       /\ latch' = [WithCarry EXCEPT !["op_latch"] = 0]
       /\ Continue
       /\ UNCHANGED <<pc, sp, reg, status, memory>>
    \/ At(n) /\ ~page_crossed /\ OperateAt(op, EA, r) /\ Finish
    \/ At(n + 1) /\ OperateAt(op, EA, r) /\ FinishCrossed
    \/ InvalidCycle(n + 1)

OperationAbsoluteIndexed(op, r, index) ==
    AbsoluteIndexed(index) \/ OperateIndexed(3, op, r)

OperationAbsoluteIndexed_ReadModifyWrite(op, index) ==
    \/ AbsoluteIndexed(index)
    \/ /\ At(3)
       /\ addr' = EA
       /\ latch' = [IF page_crossed THEN WithCarry ELSE latch
                        EXCEPT !["op_latch"] = Read(EA)]
       /\ ContinueWith(FALSE)
       /\ UNCHANGED <<pc, sp, reg, status, memory>>
    \/ ReadModifyWrite(4, op, EA)

OperationIndirectY(op, r) == IndirectY \/ OperateIndexed(4, op, r)

OperationXIndirect(op, r) ==
    \/ XIndirect(reg["x"])
    \/ At(5) /\ OperateAt(op, EA, r) /\ Finish
    \/ InvalidCycle(5)

OperationImplied(op, r) ==
    \/ LET out == ExecuteOperation(op, reg[r], 0, status)
       IN  /\ At(1)
           /\ reg' = [reg EXCEPT ![r] = out.reg]
           /\ status' = out.status
           /\ Finish
           /\ UNCHANGED <<pc, sp, latch, addr, memory>>
    \/ InvalidCycle(1)

-----------------------------------------------------------------------------
(* Branches.                                                               *)

\* pc plus the operand as an i8, on 16 bits.
BranchTarget == (pc + Pointer + (IF Negative(Pointer) THEN 65280 ELSE 0)) % 65536

RelativeBranch(condition) ==
    \/ /\ At(1)
       /\ Fetch("op_latch")
       /\ instruction_cycle' = IF ExecuteCondition(condition, status) THEN 2 ELSE 0
       /\ UNCHANGED <<page_crossed, fault>>
    \/ /\ At(2)
       /\ addr' = U16Low(pc)                  \* the dummy read is in page zero
       /\ page_crossed' = (U16High(BranchTarget) # U16High(pc))
       /\ pc' = CombineToU16(U16High(pc), U16Low(BranchTarget))
       /\ latch' = IF page_crossed'
                   THEN [latch EXCEPT !["op_latch"] = U16High(BranchTarget)]
                   ELSE latch
       /\ instruction_cycle' = IF page_crossed' THEN 3 ELSE 0
       /\ UNCHANGED <<sp, reg, status, memory, fault>>
    \/ /\ At(3)
       /\ addr' = U16Low(pc)
       /\ pc' = CombineToU16(Pointer, U16Low(pc))
       /\ FinishCrossed
       /\ UNCHANGED <<sp, reg, status, latch, memory>>
    \/ InvalidCycle(3)

-----------------------------------------------------------------------------
(* The stack instructions.                                                 *)

IncrementSP ==
    sp' = Inc8(sp) /\ UNCHANGED <<pc, reg, status, latch, addr, memory>>

PHA ==
    \/ At(1) /\ DummyRead(pc) /\ Continue
    \/ At(2) /\ Push(reg["a"]) /\ Finish /\ UNCHANGED <<pc, status>>
    \/ InvalidCycle(2)

\* Mutant: the stack pointer is not incremented before the pull.
PLAKeepsSP ==
    \/ At(1) /\ DummyRead(pc) /\ Continue
    \/ At(2) /\ DummyRead(256 + sp) /\ Continue
    \/ At(3) /\ LoadFrom(256 + sp, "a") /\ Finish
    \/ InvalidCycle(3)

PLA ==
    \/ At(1) /\ DummyRead(pc) /\ Continue
    \/ At(2) /\ IncrementSP /\ Continue
    \/ At(3) /\ LoadFrom(256 + sp, "a") /\ Finish
    \/ InvalidCycle(3)

PHP ==
    \/ At(1) /\ DummyRead(pc) /\ Continue
    \/ /\ At(2)
       /\ Push(FromBits(status \cup {break_command, unused}))
       /\ Finish
       /\ UNCHANGED <<pc, status>>
    \/ InvalidCycle(2)

PLP ==
    \/ At(1) /\ DummyRead(pc) /\ Continue
    \/ At(2) /\ IncrementSP /\ Continue
    \/ /\ At(3)
       /\ status' = Bits(Top) \ {break_command}
       /\ addr' = 256 + sp
       /\ Finish
       /\ UNCHANGED <<pc, sp, reg, latch, memory>>
    \/ InvalidCycle(3)

TSX == TransferRegister("x", sp)

TXS ==
    \/ /\ At(1)
       /\ sp' = reg["x"]
       /\ Finish
       /\ UNCHANGED <<pc, reg, status, latch, addr, memory>>
    \/ InvalidCycle(1)

-----------------------------------------------------------------------------
(* Jumps and subroutines.                                                  *)

JMPAbsolute ==
    \/ At(1) /\ Fetch("op_latch") /\ Continue
    \/ /\ At(2)
       /\ latch' = [latch EXCEPT !["op_latch"] = Read(pc)]
       /\ addr' = pc
       /\ pc' = CombineToU16(Read(pc), Pointer)
       /\ Finish
       /\ UNCHANGED <<sp, reg, status, memory>>
    \/ InvalidCycle(2)

\* Mutant: the second byte of the pointer is read from beyond the page.
JMPIndirectCarrying ==
    \/ Absolute
    \/ At(3) /\ ReadTo("op_latch", EA) /\ Continue
    \/ LET a == Inc16(EA)
       IN  /\ At(4)
           /\ latch' = [latch EXCEPT !["op_latch"] = Read(a)]
           /\ addr' = a
           /\ pc' = CombineToU16(Read(a), Pointer)
           /\ Finish
           /\ UNCHANGED <<sp, reg, status, memory>>
    \/ InvalidCycle(4)

\* adl + 1 does not carry into adh.
JMPIndirect ==
    \/ Absolute
    \/ At(3) /\ ReadTo("op_latch", EA) /\ Continue
    \/ LET a == CombineToU16(latch["adh"], Inc8(latch["adl"]))
       IN  /\ At(4)
           /\ latch' = [latch EXCEPT !["op_latch"] = Read(a)]
           /\ addr' = a
           /\ pc' = CombineToU16(Read(a), Pointer)
           /\ Finish
           /\ UNCHANGED <<sp, reg, status, memory>>
    \/ InvalidCycle(4)

\* Mutant: the bytes of the return address are pushed in the order they are read.
JSRLowByteFirst ==
    \/ At(1) /\ Fetch("adl") /\ Continue
    \/ At(2) /\ Continue /\ UNCHANGED <<pc, sp, reg, status, latch, addr, memory>>
    \/ At(3) /\ Push(U16Low(pc)) /\ Continue /\ UNCHANGED <<pc, status>>
    \/ At(4) /\ Push(U16High(pc)) /\ Continue /\ UNCHANGED <<pc, status>>
    \/ /\ At(5)
       /\ latch' = [latch EXCEPT !["adh"] = Read(pc)]
       /\ addr' = pc
       /\ pc' = CombineToU16(Read(pc), latch["adl"])
       /\ Finish
       /\ UNCHANGED <<sp, reg, status, memory>>
    \/ InvalidCycle(5)

\* The high byte of the target is read after the return address is pushed.
JSR ==
    \/ At(1) /\ Fetch("adl") /\ Continue
    \/ At(2) /\ Continue /\ UNCHANGED <<pc, sp, reg, status, latch, addr, memory>>
    \/ At(3) /\ Push(U16High(pc)) /\ Continue /\ UNCHANGED <<pc, status>>
    \/ At(4) /\ Push(U16Low(pc)) /\ Continue /\ UNCHANGED <<pc, status>>
    \/ /\ At(5)
       /\ latch' = [latch EXCEPT !["adh"] = Read(pc)]
       /\ addr' = pc
       /\ pc' = CombineToU16(Read(pc), latch["adl"])
       /\ Finish
       /\ UNCHANGED <<sp, reg, status, memory>>
    \/ InvalidCycle(5)

\* A byte of pc is pulled; sp advances when there is another byte to pull.
PullPC(w, s) ==
    /\ pc' = w
    /\ addr' = 256 + sp
    /\ sp' = s
    /\ UNCHANGED <<reg, status, latch, memory>>

RTS ==
    \/ At(1) /\ DummyRead(pc) /\ Continue
    \/ At(2) /\ IncrementSP /\ Continue
    \/ At(3) /\ PullPC(Top, Inc8(sp)) /\ Continue
    \/ At(4) /\ PullPC(CombineToU16(Top, U16Low(pc)), sp) /\ Continue
    \/ /\ At(5)
       /\ pc' = Inc16(pc)
       /\ Finish
       /\ UNCHANGED <<sp, reg, status, latch, addr, memory>>
    \/ InvalidCycle(5)

-----------------------------------------------------------------------------
(* RTI and BRK.                                                            *)

\* The skipped byte: a dummy read that advances pc.
SkipByte ==
    addr' = pc /\ pc' = Inc16(pc) /\ UNCHANGED <<sp, reg, status, latch, memory>>

\* Mutant: the status register is skipped instead of pulled.
RTIKeepsStatus ==
    \/ At(1) /\ SkipByte /\ Continue
    \/ At(2) /\ IncrementSP /\ Continue
    \/ At(3) /\ IncrementSP /\ Continue
    \/ At(4) /\ PullPC(CombineToU16(U16Low(pc), Top), Inc8(sp)) /\ Continue
    \/ At(5) /\ PullPC(CombineToU16(Top, U16Low(pc)), sp) /\ Finish
    \/ InvalidCycle(5)

RTI ==
    \/ At(1) /\ SkipByte /\ Continue
    \/ At(2) /\ IncrementSP /\ Continue
    \/ /\ At(3)
       /\ status' = Bits(Top)
       /\ addr' = 256 + sp
       /\ sp' = Inc8(sp)
       /\ Continue
       /\ UNCHANGED <<pc, reg, latch, memory>>
    \/ At(4) /\ PullPC(CombineToU16(U16Low(pc), Top), Inc8(sp)) /\ Continue
    \/ At(5) /\ PullPC(CombineToU16(Top, U16Low(pc)), sp) /\ Finish
    \/ InvalidCycle(5)

\* One byte of pc is loaded from a vector.
VectorByte(a, w) ==
    addr' = a /\ pc' = w /\ UNCHANGED <<sp, reg, status, latch, memory>>

BRK ==
    LET pushed == status \cup {break_command, unused}
    IN  \/ At(1) /\ SkipByte /\ Continue
        \/ At(2) /\ Push(U16High(pc)) /\ Continue /\ UNCHANGED <<pc, status>>
        \/ At(3) /\ Push(U16Low(pc)) /\ Continue /\ UNCHANGED <<pc, status>>
        \/ /\ At(4)
           /\ Push(FromBits(pushed))
           /\ status' = pushed \cup {interrupt_disable}
           /\ Continue
           /\ UNCHANGED pc
        \/ /\ At(5)
           /\ VectorByte(65534, CombineToU16(U16High(pc), Read(65534)))
           /\ Continue
        \/ /\ At(6)
           /\ VectorByte(65535, CombineToU16(Read(65535), U16Low(pc)))
           /\ Finish
        \/ InvalidCycle(6)

\* CLC ... SEI and NOP assert that this is cycle 1 and carry on.
FlagInstruction(s) ==
    /\ status' = s
    /\ instruction_cycle' = 0
    /\ fault' = IF At(1) THEN fault ELSE "invalid_cycle"
    /\ UNCHANGED <<pc, sp, reg, latch, addr, memory, page_crossed>>

-----------------------------------------------------------------------------
(* The Execute functions: which routine, register, index and operation an  *)
(* instruction uses.                                                       *)

LoadNames      == {"LDA", "LDX", "LDY"}
StoreNames     == {"STA", "STX", "STY"}
OperationNames == {"AND", "EOR", "ORA", "BIT", "ADC", "SBC", "CMP", "CPX", "CPY"}
ModifyNames    == {"INC", "DEC", "ASL", "LSR", "ROL", "ROR"}
ImpliedNames   == ModifyNames \cup {"INX", "INY", "DEX", "DEY"}

RegisterOf(name) ==
    IF name \in {"LDX", "STX", "CPX", "INX", "DEX", "TAX"} THEN "x"
    ELSE IF name \in {"LDY", "STY", "CPY", "INY", "DEY", "TAY"} THEN "y"
    ELSE "a"

OperationOf(name) ==
    CASE name \in {"CMP", "CPX", "CPY"} -> "CMP"
      [] name \in {"INC", "INX", "INY"} -> "INC"
      [] name \in {"DEC", "DEX", "DEY"} -> "DEC"
      [] name = "ASL" -> "SHIFT_LEFT"
      [] name = "LSR" -> "SHIFT_RIGHT"
      [] name = "ROL" -> "ROTATE_LEFT"
      [] name = "ROR" -> "ROTATE_RIGHT"
      [] OTHER -> name

IndexOf(mode) ==
    IF mode \in {"ZeroPageX", "AbsoluteX", "XIndirect"} THEN reg["x"] ELSE reg["y"]

ExecuteLoad(i) ==
    LET r == RegisterOf(i.name)
        x == IndexOf(i.mode)
    IN  /\ i.name \in LoadNames
        /\ \/ i.mode = "Absolute"  /\ LoadMemoryToRegisterAbsolute(r)
           \/ i.mode = "Immediate" /\ LoadMemoryToRegisterImmediate(r)
           \/ i.mode = "ZeroPage"  /\ LoadMemoryToRegisterZeroPage(r)
           \/ i.mode \in {"ZeroPageX", "ZeroPageY"}
                /\ LoadMemoryToRegisterZeroPageIndexed(r, x)
           \/ i.mode \in {"AbsoluteX", "AbsoluteY"}
                /\ LoadMemoryToRegisterAbsoluteIndexed(r, x)
           \/ i.mode = "XIndirect" /\ LoadMemoryToRegisterXIndirect(r, x)
           \/ i.mode = "IndirectY" /\ LoadMemoryToRegisterIndirectY(r)

ExecuteStore(i) ==
    LET r == RegisterOf(i.name)
        x == IndexOf(i.mode)
    IN  /\ i.name \in StoreNames
        /\ \/ i.mode = "Absolute"  /\ StoreRegisterAbsolute(r)
           \/ i.mode = "ZeroPage"  /\ StoreRegisterZeroPage(r)
           \/ i.mode \in {"ZeroPageX", "ZeroPageY"}
                /\ StoreRegisterZeroPageIndexed(r, x)
           \/ i.mode \in {"AbsoluteX", "AbsoluteY"}
                /\ StoreRegisterAbsoluteIndexed(r, x)
           \/ i.mode = "XIndirect" /\ StoreRegisterXIndirect(r, x)
           \/ i.mode = "IndirectY" /\ StoreRegisterIndirectY(r)

ExecuteTransfer(i) ==
    \/ i.name \in {"TAX", "TAY"} /\ TransferRegister(RegisterOf(i.name), reg["a"])
    \/ i.name = "TXA" /\ TransferRegister("a", reg["x"])
    \/ i.name = "TYA" /\ TransferRegister("a", reg["y"])

ExecuteRegisterOperation(i) ==
    LET op == OperationOf(i.name)
        r  == RegisterOf(i.name)
        x  == IndexOf(i.mode)
    IN  /\ i.name \in OperationNames
        /\ \/ i.mode = "Immediate" /\ OperationImmediate(op, r)
           \/ i.mode = "ZeroPage"  /\ OperationZeroPage(op, r)
           \/ i.mode = "ZeroPageX" /\ OperationZeroPageIndexed(op, r, x)
           \/ i.mode = "Absolute"  /\ OperationAbsolute(op, r)
           \/ i.mode \in {"AbsoluteX", "AbsoluteY"}
                /\ OperationAbsoluteIndexed(op, r, x)
           \/ i.mode = "XIndirect" /\ OperationXIndirect(op, r)
           \/ i.mode = "IndirectY" /\ OperationIndirectY(op, r)

ExecuteModify(i) ==
    LET op == OperationOf(i.name)
        x  == IndexOf(i.mode)
    IN  \/ /\ i.name \in ImpliedNames /\ i.mode = "Implied"
           /\ OperationImplied(op, RegisterOf(i.name))
        \/ /\ i.name \in ModifyNames
           /\ \/ i.mode = "ZeroPage"  /\ OperationZeroPage_ReadModifyWrite(op)
              \/ i.mode = "ZeroPageX" /\ OperationZeroPageIndexed_ReadModifyWrite(op, x)
              \/ i.mode = "Absolute"  /\ OperationAbsolute_ReadModifyWrite(op)
              \/ i.mode = "AbsoluteX" /\ OperationAbsoluteIndexed_ReadModifyWrite(op, x)

ExecuteStack(i) ==
    \/ i.name = "PHA" /\ PHA
    \/ i.name = "PLA" /\ PLA
    \/ i.name = "PHP" /\ PHP
    \/ i.name = "PLP" /\ PLP
    \/ i.name = "TSX" /\ TSX
    \/ i.name = "TXS" /\ TXS

ExecuteJump(i) ==
    \/ i.name = "JMP" /\ i.mode = "Absolute" /\ JMPAbsolute
    \/ i.name = "JMP" /\ i.mode = "Indirect" /\ JMPIndirect
    \/ i.name = "JSR" /\ JSR
    \/ i.name = "RTS" /\ RTS
    \/ i.name = "RTI" /\ RTI
    \/ i.name = "BRK" /\ BRK

ExecuteBranch(i) == i.mode = "Relative" /\ RelativeBranch(i.name)

ExecuteFlag(i) ==
    \/ i.name = "CLC" /\ FlagInstruction(status \ {carry})
    \/ i.name = "CLD" /\ FlagInstruction(status \ {decimal_mode})
    \/ i.name = "CLI" /\ FlagInstruction(status \ {interrupt_disable})
    \/ i.name = "CLV" /\ FlagInstruction(status \ {overflow})
    \/ i.name = "SEC" /\ FlagInstruction(status \cup {carry})
    \/ i.name = "SED" /\ FlagInstruction(status \cup {decimal_mode})
    \/ i.name = "SEI" /\ FlagInstruction(status \cup {interrupt_disable})
    \/ i.name = "NOP" /\ FlagInstruction(status)

\* The generic Execute only asserts; a null entry is called all the same.
ExecuteUndefined ==
    /\ \/ ir = InvalidInstruction.opcode /\ fault' = "invalid_opcode"
       \/ ir \notin DOMAIN Instructions /\ fault' = "null_call"
    /\ UNCHANGED <<pc, sp, reg, status, latch, addr, memory,
                   page_crossed, instruction_cycle>>

Execute ==
    /\ \/ /\ ir \in Opcodes
          /\ LET i == Instructions[ir]
             IN  \/ ExecuteLoad(i)
                 \/ ExecuteStore(i)
                 \/ ExecuteTransfer(i)
                 \/ ExecuteRegisterOperation(i)
                 \/ ExecuteModify(i)
                 \/ ExecuteStack(i)
                 \/ ExecuteJump(i)
                 \/ ExecuteBranch(i)
                 \/ ExecuteFlag(i)
       \/ ExecuteUndefined
    /\ UNCHANGED <<glabal_mode, interrupt_cycle, pc_adl, pc_adh, ir,
                   nmi_pending, irq_pending>>

-----------------------------------------------------------------------------
(* qnes_cpu.cpp: reset, interrupts and Step.                               *)

NextCycle == interrupt_cycle' = interrupt_cycle + 1 /\ UNCHANGED <<glabal_mode, fault>>

\* Mutant: the last cycle of a handler does not leave its mode.
ToRunStays == interrupt_cycle' = 0 /\ UNCHANGED <<glabal_mode, fault>>

ToRun == interrupt_cycle' = 0 /\ glabal_mode' = "RUN" /\ UNCHANGED fault

ResetVector == 65532
NMIVector   == 65530
IRQVector   == 65534

InvalidInterruptCycle(last) ==
    /\ interrupt_cycle > last
    /\ fault' = "invalid_cycle"
    /\ UNCHANGED <<pc, sp, reg, status, latch, addr, memory,
                   glabal_mode, interrupt_cycle>>

\* Mutant: the instruction in progress is left as it is.
ResetCycle0KeepsInstruction ==
    /\ status' = {} /\ pc' = 0
    /\ nmi_pending' = FALSE /\ irq_pending' = FALSE
    /\ interrupt_cycle' = 1
    /\ UNCHANGED <<sp, reg, latch, addr, memory, glabal_mode, pc_adl, pc_adh,
                   instruction_cycle, ir, page_crossed, fault>>

\* Cycle 0 forgets the instruction in progress and the pending interrupts.
ResetCycle0 ==
    /\ status' = {} /\ pc' = 0
    /\ instruction_cycle' = 0 /\ ir' = 0 /\ page_crossed' = FALSE
    /\ nmi_pending' = FALSE /\ irq_pending' = FALSE
    /\ interrupt_cycle' = 1
    /\ UNCHANGED <<sp, reg, latch, addr, memory, glabal_mode, pc_adl, pc_adh, fault>>

HandleReset ==
    \/ interrupt_cycle = 0 /\ ResetCycle0
    \/ /\ \/ /\ interrupt_cycle = 1
             /\ sp' = 253
             /\ status' = status \cup {interrupt_disable, unused}
             /\ NextCycle
             /\ UNCHANGED <<pc, reg, latch, addr, memory, pc_adl, pc_adh>>
          \/ /\ interrupt_cycle = 2
             /\ DummyRead(ResetVector) /\ pc_adl' = Read(ResetVector)
             /\ NextCycle
             /\ UNCHANGED pc_adh
          \/ /\ interrupt_cycle = 3
             /\ DummyRead(ResetVector + 1) /\ pc_adh' = Read(ResetVector + 1)
             /\ NextCycle
             /\ UNCHANGED pc_adl
          \/ /\ interrupt_cycle = 4
             /\ pc' = CombineToU16(pc_adh, pc_adl)
             /\ ToRun
             /\ UNCHANGED <<sp, reg, status, latch, addr, memory, pc_adl, pc_adh>>
          \/ InvalidInterruptCycle(4) /\ UNCHANGED <<pc_adl, pc_adh>>
       /\ UNCHANGED <<ir, page_crossed, instruction_cycle, nmi_pending, irq_pending>>

\* HandleNMI and HandleIRQ: the same seven cycles with another vector.
HandleInterrupt(vector) ==
    LET pushed == (status \ {break_command}) \cup {unused}
    IN  /\ \/ interrupt_cycle = 0 /\ DummyRead(pc) /\ NextCycle
           \/ /\ interrupt_cycle = 1 /\ Push(U16High(pc))
              /\ NextCycle /\ UNCHANGED <<pc, status>>
           \/ /\ interrupt_cycle = 2 /\ Push(U16Low(pc))
              /\ NextCycle /\ UNCHANGED <<pc, status>>
           \/ /\ interrupt_cycle = 3 /\ Push(FromBits(pushed)) /\ status' = pushed
              /\ NextCycle /\ UNCHANGED pc
           \/ /\ interrupt_cycle = 4
              /\ status' = status \cup {interrupt_disable}
              /\ NextCycle /\ UNCHANGED <<pc, sp, reg, latch, addr, memory>>
           \/ /\ interrupt_cycle = 5
              /\ VectorByte(vector, CombineToU16(U16High(pc), Read(vector)))
              /\ NextCycle
           \/ /\ interrupt_cycle = 6
              /\ VectorByte(vector + 1, CombineToU16(Read(vector + 1), U16Low(pc)))
              /\ ToRun
           \/ InvalidInterruptCycle(6)
        /\ UNCHANGED <<pc_adl, pc_adh, ir, page_crossed, instruction_cycle,
                       nmi_pending, irq_pending>>

\* Step enters a handler and runs its cycle 0, a dummy read, at once.
EnterInterrupt(mode) ==
    /\ glabal_mode' = mode
    /\ interrupt_cycle' = 1
    /\ DummyRead(pc)
    /\ UNCHANGED <<pc_adl, pc_adh, ir, page_crossed, instruction_cycle, fault>>

\* Mutants: an NMI is entered within an instruction, or stays pending; an IRQ is
\* entered with I set, or ahead of an NMI.
EnterNMIAnywhere ==
    /\ nmi_pending
    /\ nmi_pending' = FALSE
    /\ EnterInterrupt("NMI")
    /\ UNCHANGED irq_pending

EnterIRQUnmasked ==
    /\ At(0) /\ ~nmi_pending /\ irq_pending
    /\ irq_pending' = FALSE
    /\ EnterInterrupt("IRQ")
    /\ UNCHANGED nmi_pending

EnterNMIStaysPending == At(0) /\ nmi_pending /\ EnterInterrupt("NMI")
                        /\ UNCHANGED <<nmi_pending, irq_pending>>

EnterIRQFirst ==
    /\ At(0) /\ irq_pending /\ interrupt_disable \notin status
    /\ irq_pending' = FALSE
    /\ EnterInterrupt("IRQ")
    /\ UNCHANGED nmi_pending

EnterNMI ==
    /\ At(0) /\ nmi_pending
    /\ nmi_pending' = FALSE
    /\ EnterInterrupt("NMI")
    /\ UNCHANGED irq_pending

EnterIRQ ==
    /\ At(0) /\ ~nmi_pending /\ irq_pending /\ interrupt_disable \notin status
    /\ irq_pending' = FALSE
    /\ EnterInterrupt("IRQ")
    /\ UNCHANGED nmi_pending

FetchOpcode ==
    /\ At(0) /\ ~nmi_pending
    /\ ~(irq_pending /\ interrupt_disable \notin status)
    /\ ir' = Read(pc)
    /\ addr' = pc
    /\ pc' = Inc16(pc)
    /\ instruction_cycle' = 1
    /\ UNCHANGED <<sp, reg, status, latch, memory, glabal_mode, interrupt_cycle,
                   pc_adl, pc_adh, page_crossed, nmi_pending, irq_pending, fault>>

Step ==
    /\ Alive
    /\ \/ glabal_mode = "RESET" /\ HandleReset
       \/ glabal_mode = "NMI" /\ HandleInterrupt(NMIVector)
       \/ glabal_mode = "IRQ" /\ HandleInterrupt(IRQVector)
       \/ /\ glabal_mode = "RUN"
          /\ \/ EnterNMI
             \/ EnterIRQ
             \/ FetchOpcode
             \/ ~At(0) /\ Execute

Reset ==
    /\ Alive /\ glabal_mode \in ResetModes
    /\ glabal_mode' = "RESET"
    /\ UNCHANGED <<pc, sp, reg, status, latch, addr, memory, interrupt_cycle,
                   pc_adl, pc_adh, ir, page_crossed, instruction_cycle,
                   nmi_pending, irq_pending, fault>>

SignalNMI ==
    /\ Alive
    /\ nmi_pending' = TRUE
    /\ UNCHANGED <<pc, sp, reg, status, latch, addr, memory, glabal_mode,
                   interrupt_cycle, pc_adl, pc_adh, ir, page_crossed,
                   instruction_cycle, irq_pending, fault>>

SignalIRQ ==
    /\ Alive
    /\ irq_pending' = TRUE
    /\ UNCHANGED <<pc, sp, reg, status, latch, addr, memory, glabal_mode,
                   interrupt_cycle, pc_adl, pc_adh, ir, page_crossed,
                   instruction_cycle, nmi_pending, fault>>

Next == Step \/ Reset \/ SignalNMI \/ SignalIRQ

Spec == Init /\ [][Next]_vars

\* The owner keeps clocking the CPU.
FairSpec == Spec /\ WF_vars(Step)

-----------------------------------------------------------------------------
(* Properties.                                                             *)

\* Every register, latch and counter keeps the width the program gives it
\* (u8, u16, bool), and a micro-cycle counter never exceeds six.
TypeOK ==
    /\ pc \in Word /\ sp \in Byte /\ reg \in [Reg -> Byte] /\ status \in Status
    /\ latch \in [Latch -> Byte] /\ addr \in Word
    /\ IsMemory(memory)
    /\ glabal_mode \in GlobalMode /\ interrupt_cycle \in 0 .. 6
    /\ pc_adl \in Byte /\ pc_adh \in Byte
    /\ ir \in Byte /\ page_crossed \in BOOLEAN /\ instruction_cycle \in 0 .. 6
    /\ nmi_pending \in BOOLEAN /\ irq_pending \in BOOLEAN
    /\ fault \in Fault

\* No "Invalid cycle" and no "page was not crossed" assertion of cpu_isa.cpp
\* and no "Invalid reset/NMI/IRQ cycle" assertion of qnes_cpu.cpp ever fails:
\* every routine leaves its counter at a value the next call handles, and an
\* extra cycle is only entered with page_crossed set.
NoInvalidCycle == fault # "invalid_cycle"

IndexedModes == {"AbsoluteX", "AbsoluteY", "IndirectY"}
IndexedRead(i) == i.mode \in IndexedModes /\ i.name \in LoadNames \cup OperationNames

\* The largest instruction_cycle of i: CYCLES counts from the fetch, which is
\* cycle 0, and does not count the extra cycles of cpu_isa.hpp's comments.
LastCycle(i) ==
    IF i.mode = "Relative" THEN 3
    ELSE IF IndexedRead(i) THEN i.cycles
    ELSE i.cycles - 1

\* The cycles at which page_crossed may be set, and those at which it must be.
MayCross(i) ==
    IF i.mode = "Relative" THEN {3}
    ELSE IF IndexedRead(i) THEN {i.cycles - 1, i.cycles}
    ELSE IF i.mode \in IndexedModes /\ i.name \in StoreNames THEN {i.cycles - 2}
    ELSE IF i.mode \in IndexedModes /\ i.name \in ModifyNames THEN {3}
    ELSE {}

MustCross(i) ==
    IF i.mode = "Relative" THEN {3} ELSE IF IndexedRead(i) THEN {i.cycles} ELSE {}

InProgress(last, may, must) ==
    /\ instruction_cycle \in 1 .. last
    /\ page_crossed => instruction_cycle \in may
    /\ instruction_cycle \in must => page_crossed

InstructionInProgress(i) == InProgress(LastCycle(i), MayCross(i), MustCross(i))

\* No instruction overruns the CYCLES of its template but for the extra cycle
\* of a crossed page and those of a taken branch, which it enters only with
\* page_crossed set; an interrupt or the rest of a reset never finds an
\* instruction half done.
CycleDiscipline ==
    /\ glabal_mode = "RUN" =>
         /\ interrupt_cycle = 0
         /\ instruction_cycle = 0 \/ ir \notin Opcodes => ~page_crossed
         /\ instruction_cycle # 0 /\ ir \in Opcodes =>
                InstructionInProgress(Instructions[ir])
    /\ glabal_mode = "RESET" =>
         /\ interrupt_cycle <= 4
         /\ interrupt_cycle # 0 => instruction_cycle = 0 /\ ~page_crossed
    /\ glabal_mode \in {"NMI", "IRQ"} => instruction_cycle = 0 /\ ~page_crossed
=============================================================================
