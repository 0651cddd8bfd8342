SPECIFICATION Spec
CONSTANTS
    Blocks = 1
    PromptTimeout = 2
    EotRetryLimit = 2
    MaxExtraC = 1
    InitialBoards <- MCInitialBoardsStage2
    AnswersEot = FALSE
    Chatters = FALSE
INVARIANT ShortPromptStandsAlone
CHECK_DEADLOCK FALSE
