SPECIFICATION PPUHSpec
CONSTANTS
    NDEBUG = FALSE
    VRAMSize = 2048
    PowerOn <- EdgesAtPowerOn
    Garbage = {0}
    Ports = {0, 1, 2, 5, 6, 7}
    Values = {2, 253}
    MaxAccesses = 4
INVARIANTS
    PPUTypeOK
    HalvesAlternate
PROPERTIES
    ImplementsScroll
\* A failed ASSERT ends a debug build; the model stops at a write beyond the VRAM.
CHECK_DEADLOCK FALSE
