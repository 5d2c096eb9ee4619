SPECIFICATION FairHSpec
CONSTANTS
    NDEBUG = TRUE
    ResetModes <- RunAndReset
    Images <- MCImages
    MaxEvents = 3
    MaxExecuted = 0
INVARIANTS
    CycleDiscipline
    IRQNeverNests
    StepInProgress
    FramesIntact
    BoundaryWithinSeven
PROPERTIES
    ImplementsIsa
    InterruptsAreTransparent
    ResetOutcome
    HandlersBehave
    ResetCompletes
    NMIIsServed
    IRQIsServed
    BoundaryRecurs
