------------------------------- MODULE System -------------------------------
(***************************************************************************)
(* The parts as Emulator wires them: the CPU on the NESBus, with the PPU   *)
(* behind it, clocked by Steps of its own between any two CPU cycles.      *)
(*                                                                         *)
(* Of the CPU only its bus accesses matter here.  An instruction with an   *)
(* operand in memory is the sequence Addressing!Accesses, one access per   *)
(* cycle, which CPU is proved to make (CPUHistory!BusProtocol); a reset    *)
(* reads its vector.  Programs run in RAM: nothing else can be read.       *)
(***************************************************************************)
EXTENDS NESBus, Addressing

CONSTANTS
    Program,          \* the RAM that holds the program and its pointers
    Entries,          \* where the program may go next
    Registers6502,    \* a, x and y when it gets there
    MaxInstructions   \* bound on the instructions executed

VARIABLES
    job,       \* the accesses of the instruction in progress, and what it is
    before,    \* history: the write toggle when it started
    executed

systemVars == <<busVars, job, before, executed>>

\* An instruction lies in RAM with its operand bytes.
ASSUME SystemAssumption ==
    /\ \A pc \in Entries : pc \in Nat /\ pc + 2 < 8192
    /\ \A a \in DOMAIN Program : a \in Nat /\ a < 2048 /\ Program[a] \in Byte
    /\ Registers6502 \subseteq [{"a", "x", "y"} -> Byte]
    /\ MaxInstructions \in Nat

Idle == [kind |-> "idle", accesses |-> <<>>]

\* CPU is constructed in RESET mode; its cycles 2 and 3 read the vector.
ResetJob == [kind |-> "reset", accesses |-> <<R(65532), R(65533)>>]

InstructionJob(i, s) ==
    [kind |-> "instruction", accesses |-> Accesses(i, s), instruction |-> i,
     target |-> Effective(i.mode, s), reg |-> s.reg]

SystemInit ==
    /\ BusInit
    /\ ram = Program
    /\ job = Idle
    /\ before = internal_registers.write_toggle
    /\ executed = 0

BeginReset ==
    /\ job = Idle
    /\ job' = ResetJob
    /\ UNCHANGED <<busVars, before, executed>>

\* The RAM as the CPU sees it.
MirroredRAM ==
    [a \in {b + 2048 * k : b \in DOMAIN ram, k \in 0 .. 3} |-> ram[a % 2048]]

\* The opcode fetch is a read like any other.
BeginInstruction ==
    \E pc \in Entries, r \in Registers6502 :
        LET i == Instructions[Cell(MirroredRAM, pc)]
            s == [pc |-> pc, sp |-> 0, reg |-> r, status |-> {}, memory |-> MirroredRAM]
        IN  /\ job = Idle /\ executed < MaxInstructions
            /\ HasOperand(i)
            /\ BusRead(pc)
            /\ job' = InstructionJob(i, s)
            /\ before' = internal_registers.write_toggle
            /\ executed' = executed + 1

\* What is written: a register, or the operand, dummy first, then modified.
Output ==
    IF job.instruction.name \in Stores THEN job.reg[Subject(job.instruction.name)]
    ELSE IF Len(job.accesses) = 2 THEN data
    ELSE ExecuteOperation(Function(job.instruction.name), data, 0, {}).reg

Perform(access) ==
    \/ access.kind = "read" /\ BusRead(access.address)
    \/ access.kind = "write" /\ BusWrite(access.address, Output)

Access ==
    /\ job.accesses # <<>>
    /\ Perform(Head(job.accesses))
    /\ job' = IF Tail(job.accesses) = <<>> THEN Idle
              ELSE [job EXCEPT !.accesses = Tail(@)]
    /\ UNCHANGED <<before, executed>>

Dot == BusAlive /\ PPUStep /\ UNCHANGED <<ram, bus_fault, job, before, executed>>

SystemNext == BeginReset \/ BeginInstruction \/ Access \/ Dot

SystemSpec == SystemInit /\ [][SystemNext]_systemVars

-----------------------------------------------------------------------------
(* Properties.                                                             *)

\* A store to PPUSCROLL or PPUADDR is one half of a pair, a read-modify-write,
\* which writes twice, is both, and no instruction
\* whose operand is another register or RAM, PPUSTATUS apart, disturbs the
\* write toggle: whatever its addressing mode, its dummy reads, the mirror
\* it uses, and the pages it crosses (NESBus, the routines of cpu_isa.cpp).
StoreIsOneHalf ==
    [][job.kind = "instruction" /\ job' = Idle /\ ~Unmapped(job.target) =>
         LET port  == job.target % 8
             name  == job.instruction.name
             after == internal_registers'.write_toggle
         IN  /\ InPPU(job.target) /\ port \in {5, 6} /\ name \in Stores
                  => after = 1 - before
             /\ ~(InPPU(job.target) /\ (port = 2 \/ (port \in {5, 6} /\ name \in Stores)))
                  => after = before]_systemVars
=============================================================================
