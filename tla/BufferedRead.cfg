SPECIFICATION PPUHSpec
CONSTANTS
    NDEBUG = TRUE
    VRAMSize = 2048
    PowerOn <- QuietAtPowerOn
    Garbage <- SomeGarbage
    Ports = {2, 6, 7}
    Values = {0, 32}
    MaxAccesses = 3
PROPERTY
    BufferedRead
CHECK_DEADLOCK FALSE
