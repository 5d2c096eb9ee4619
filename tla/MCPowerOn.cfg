SPECIFICATION Spec
CONSTANTS
    NDEBUG = FALSE
    VRAMSize = 2048
    PowerOnA <- Zeros
    PowerOnB <- Others
    Garbage = {0}
    Values = {37}
    Masks = {6, 30}
    MaxData = 1
INVARIANTS
    PowerOnForgotten
\* a PPU whose assertion fails, or that writes beyond its VRAM, stops the pair
CHECK_DEADLOCK FALSE
