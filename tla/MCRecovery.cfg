SPECIFICATION FairSpec
CONSTANTS
    Blocks = 2
    PromptTimeout = 3
    EotRetryLimit = 2
    MaxExtraC = 1
    InitialBoards <- MCInitialBoards
    AnswersEot = FALSE
    Chatters = TRUE
INVARIANTS
    TypeOK
    ImagesReachTheirStage
    TransferFollowsReadiness
    SuccessMeansUBoot
    EventsFollowFlow
    NoPromptMissed
    BarTellsTheWait
    TransferErrorIsKept
PROPERTY Termination
CHECK_DEADLOCK FALSE
