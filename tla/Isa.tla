-------------------------------- MODULE Isa --------------------------------
(***************************************************************************)
(* The instruction table of cpu_isa.hpp: every specialisation of an        *)
(* instruction template with its addressing mode, its OPCODE and its       *)
(* CYCLES, and the array Instructions that Step indexes with the opcode.   *)
(***************************************************************************)
EXTENDS Naturals

\* An instruction: mnemonic, addressing mode, OPCODE and CYCLES.
E(name, mode, opcode, cycles) ==
    [name |-> name, mode |-> mode, opcode |-> opcode, cycles |-> cycles]

StackInstructions == {
    E("PHA", "Implied", \h48, 3), E("PLA", "Implied", \h68, 4),
    E("PHP", "Implied", \h08, 3), E("PLP", "Implied", \h28, 4),
    E("TSX", "Implied", \hBA, 2), E("TXS", "Implied", \h9A, 2)}

LoadInstructions == {
    E("LDA", "Absolute", \hAD, 4), E("LDA", "Immediate", \hA9, 2),
    E("LDA", "ZeroPage", \hA5, 3), E("LDA", "ZeroPageX", \hB5, 4),
    E("LDA", "AbsoluteX", \hBD, 4), E("LDA", "AbsoluteY", \hB9, 4),
    E("LDA", "XIndirect", \hA1, 6), E("LDA", "IndirectY", \hB1, 5),
    E("LDX", "Absolute", \hAE, 4), E("LDX", "Immediate", \hA2, 2),
    E("LDX", "ZeroPage", \hA6, 3), E("LDX", "ZeroPageY", \hB6, 4),
    E("LDX", "AbsoluteY", \hBE, 4), E("LDY", "Absolute", \hAC, 4),
    E("LDY", "Immediate", \hA0, 2), E("LDY", "ZeroPage", \hA4, 3),
    E("LDY", "ZeroPageX", \hB4, 4), E("LDY", "AbsoluteX", \hBC, 4)}

StoreInstructions == {
    E("STA", "Absolute", \h8D, 4), E("STA", "ZeroPage", \h85, 3),
    E("STA", "ZeroPageX", \h95, 4), E("STA", "AbsoluteX", \h9D, 5),
    E("STA", "AbsoluteY", \h99, 5), E("STA", "XIndirect", \h81, 6),
    E("STA", "IndirectY", \h91, 6), E("STX", "Absolute", \h8E, 4),
    E("STX", "ZeroPage", \h86, 3), E("STX", "ZeroPageY", \h96, 4),
    E("STY", "Absolute", \h8C, 4), E("STY", "ZeroPage", \h84, 3),
    E("STY", "ZeroPageX", \h94, 4)}

TransferInstructions == {
    E("TAX", "Implied", \hAA, 2), E("TAY", "Implied", \hA8, 2),
    E("TXA", "Implied", \h8A, 2), E("TYA", "Implied", \h98, 2)}

LogicalInstructions == {
    E("AND", "Immediate", \h29, 2), E("AND", "ZeroPage", \h25, 3),
    E("AND", "ZeroPageX", \h35, 4), E("AND", "Absolute", \h2D, 4),
    E("AND", "AbsoluteX", \h3D, 4), E("AND", "AbsoluteY", \h39, 4),
    E("AND", "XIndirect", \h21, 6), E("AND", "IndirectY", \h31, 5),
    E("EOR", "Immediate", \h49, 2), E("EOR", "ZeroPage", \h45, 3),
    E("EOR", "ZeroPageX", \h55, 4), E("EOR", "Absolute", \h4D, 4),
    E("EOR", "AbsoluteX", \h5D, 4), E("EOR", "AbsoluteY", \h59, 4),
    E("EOR", "XIndirect", \h41, 6), E("EOR", "IndirectY", \h51, 5),
    E("ORA", "Immediate", \h09, 2), E("ORA", "ZeroPage", \h05, 3),
    E("ORA", "ZeroPageX", \h15, 4), E("ORA", "Absolute", \h0D, 4),
    E("ORA", "AbsoluteX", \h1D, 4), E("ORA", "AbsoluteY", \h19, 4),
    E("ORA", "XIndirect", \h01, 6), E("ORA", "IndirectY", \h11, 5),
    E("BIT", "ZeroPage", \h24, 3), E("BIT", "Absolute", \h2C, 4)}

ArithmeticInstructions == {
    E("ADC", "Immediate", \h69, 2), E("ADC", "ZeroPage", \h65, 3),
    E("ADC", "ZeroPageX", \h75, 4), E("ADC", "Absolute", \h6D, 4),
    E("ADC", "AbsoluteX", \h7D, 4), E("ADC", "AbsoluteY", \h79, 4),
    E("ADC", "XIndirect", \h61, 6), E("ADC", "IndirectY", \h71, 5),
    E("SBC", "Immediate", \hE9, 2), E("SBC", "ZeroPage", \hE5, 3),
    E("SBC", "ZeroPageX", \hF5, 4), E("SBC", "Absolute", \hED, 4),
    E("SBC", "AbsoluteX", \hFD, 4), E("SBC", "AbsoluteY", \hF9, 4),
    E("SBC", "XIndirect", \hE1, 6), E("SBC", "IndirectY", \hF1, 5)}

CompareInstructions == {
    E("CMP", "Immediate", \hC9, 2), E("CMP", "ZeroPage", \hC5, 3),
    E("CMP", "ZeroPageX", \hD5, 4), E("CMP", "Absolute", \hCD, 4),
    E("CMP", "AbsoluteX", \hDD, 4), E("CMP", "AbsoluteY", \hD9, 4),
    E("CMP", "XIndirect", \hC1, 6), E("CMP", "IndirectY", \hD1, 5),
    E("CPX", "Immediate", \hE0, 2), E("CPX", "ZeroPage", \hE4, 3),
    E("CPX", "Absolute", \hEC, 4), E("CPY", "Immediate", \hC0, 2),
    E("CPY", "ZeroPage", \hC4, 3), E("CPY", "Absolute", \hCC, 4)}

CountInstructions == {
    E("INC", "ZeroPage", \hE6, 5), E("INC", "ZeroPageX", \hF6, 6),
    E("INC", "Absolute", \hEE, 6), E("INC", "AbsoluteX", \hFE, 7),
    E("INX", "Implied", \hE8, 2), E("INY", "Implied", \hC8, 2),
    E("DEC", "ZeroPage", \hC6, 5), E("DEC", "ZeroPageX", \hD6, 6),
    E("DEC", "Absolute", \hCE, 6), E("DEC", "AbsoluteX", \hDE, 7),
    E("DEX", "Implied", \hCA, 2), E("DEY", "Implied", \h88, 2)}

ShiftInstructions == {
    E("ASL", "Implied", \h0A, 2), E("ASL", "ZeroPage", \h06, 5),
    E("ASL", "ZeroPageX", \h16, 6), E("ASL", "Absolute", \h0E, 6),
    E("ASL", "AbsoluteX", \h1E, 7), E("LSR", "Implied", \h4A, 2),
    E("LSR", "ZeroPage", \h46, 5), E("LSR", "ZeroPageX", \h56, 6),
    E("LSR", "Absolute", \h4E, 6), E("LSR", "AbsoluteX", \h5E, 7),
    E("ROL", "Implied", \h2A, 2), E("ROL", "ZeroPage", \h26, 5),
    E("ROL", "ZeroPageX", \h36, 6), E("ROL", "Absolute", \h2E, 6),
    E("ROL", "AbsoluteX", \h3E, 7), E("ROR", "Implied", \h6A, 2),
    E("ROR", "ZeroPage", \h66, 5), E("ROR", "ZeroPageX", \h76, 6),
    E("ROR", "Absolute", \h6E, 6), E("ROR", "AbsoluteX", \h7E, 7)}

JumpInstructions == {
    E("JMP", "Absolute", \h4C, 3), E("JMP", "Indirect", \h6C, 5),
    E("JSR", "Absolute", \h20, 6), E("RTS", "Implied", \h60, 6)}

BranchInstructions == {
    E("BCC", "Relative", \h90, 2), E("BCS", "Relative", \hB0, 2),
    E("BEQ", "Relative", \hF0, 2), E("BMI", "Relative", \h30, 2),
    E("BNE", "Relative", \hD0, 2), E("BPL", "Relative", \h10, 2),
    E("BVC", "Relative", \h50, 2), E("BVS", "Relative", \h70, 2)}

FlagInstructions == {
    E("CLC", "Implied", \h18, 2), E("CLD", "Implied", \hD8, 2),
    E("CLI", "Implied", \h58, 2), E("CLV", "Implied", \hB8, 2),
    E("SEC", "Implied", \h38, 2), E("SED", "Implied", \hF8, 2),
    E("SEI", "Implied", \h78, 2), E("NOP", "Implied", \hEA, 2)}

SystemInstructions == {
    E("RTI", "Implied", \h40, 6), E("BRK", "Implied", \h00, 7)}

Implemented ==
    UNION {StackInstructions, LoadInstructions, StoreInstructions,
           TransferInstructions, LogicalInstructions, ArithmeticInstructions,
           CompareInstructions, CountInstructions, ShiftInstructions,
           JumpInstructions, BranchInstructions, FlagInstructions,
           SystemInstructions}

\* The table also registers BIT AbsoluteX, which has no specialisation: the
\* generic template's OPCODE and CYCLES, and an Execute that only asserts.
InvalidInstruction == E("invalid", "AbsoluteX", \hFF, 0)

Opcodes == {i.opcode : i \in Implemented}

\* Instructions[opcode] of the source; the null entries are outside DOMAIN.
Instructions ==
    [opcode \in Opcodes \cup {\hFF} |->
        CHOOSE i \in Implemented \cup {InvalidInstruction} : i.opcode = opcode]
=============================================================================
