SPECIFICATION RSpec
CONSTANTS
    NDEBUG = TRUE
    ResetModes <- RunAndReset
    Images <- MCImages
    MaxEvents = 3
    MaxExecuted = 0
INVARIANTS
    NMIWithinSeven
PROPERTIES
    RequestsAnswered
