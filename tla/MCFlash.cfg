SPECIFICATION FairSpec
CONSTANTS
    U32 = 16
    BlockSize = 2
    Defaults <- MCDefaults
    Args <- MCArgs
    SizeChoices <- MCMisfits
    DeviceBlocks = 8
    EotRetryLimit = 2
    Pending <- MCPending
    MaxChatter = 1
    Endless = {"reset"}
    Faulty = TRUE
    OutputLimit = 8
    SameSize = FALSE
INVARIANTS
    TypeOK
    SuccessMeansFlashed
    MisfitTouchesNothing
    ConfirmedMeansDone
    QuietStartJudgesRight
    StalePromptIsSkipped
    DoneIsNotDenied
PROPERTIES
    OnlyVerifiedIsWritten
    BarTellsTheChange
    ImplementsFlashUpdate
    Termination
CHECK_DEADLOCK FALSE
