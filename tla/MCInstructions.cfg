SPECIFICATION TestSpec
CONSTANTS
    NDEBUG = FALSE
    ResetModes = {}
    Images <- MCImages
    MaxEvents = 0
    MaxExecuted = 8
INVARIANTS
    TypeOK
    NoInvalidCycle
    StepInProgress
PROPERTIES
    ImplementsIsa
    BusProtocol
