SPECIFICATION FairHSpec
CONSTANTS
    NDEBUG = TRUE
    ResetModes <- GlobalMode
    Images <- MCImages
    MaxEvents = 2
    MaxExecuted = 0
PROPERTIES
    ResetCompletes
