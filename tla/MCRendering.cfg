SPECIFICATION FairPPUHSpec
CONSTANTS
    NDEBUG = FALSE
    VRAMSize = 2048
    PowerOn <- MasksAtPowerOn
    Garbage <- SomeGarbage
    Ports = {1, 3, 4}
    Values = {0, 6, 8, 16, 31}
    MaxAccesses = 4
INVARIANTS
    SettledMask
    MaskInForce
PROPERTIES
    MaskTakesEffect
\* Reading PPUMASK trips an ASSERT, which ends a debug build.
CHECK_DEADLOCK FALSE
