SPECIFICATION PPUHSpec
CONSTANTS
    NDEBUG = TRUE
    VRAMSize = 2048
    PowerOn <- QuietAtPowerOn
    Garbage <- SomeGarbage
    Ports = {1}
    Values = {0, 8}
    MaxAccesses = 3
INVARIANT
    RenderingFollowsLastWrite
CHECK_DEADLOCK FALSE
