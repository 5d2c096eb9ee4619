SPECIFICATION HSpec
CONSTANTS
    NDEBUG = FALSE
    ResetModes <- GlobalMode
    Images <- MCImages
    MaxEvents = 2
    MaxExecuted = 0
PROPERTIES
    ResetOutcome
