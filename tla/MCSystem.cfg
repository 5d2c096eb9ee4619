SPECIFICATION SystemSpec
CONSTANTS
    NDEBUG = TRUE
    VRAMSize = 2048
    PowerOn <- MCPowerOn
    Garbage = {0}
    Program <- MCProgram
    Entries <- MCEntries
    Registers6502 <- MCRegisters
    MaxInstructions = 3
PROPERTIES
    StoreIsOneHalf
\* The model stops at a write beyond the VRAM.
CHECK_DEADLOCK FALSE
