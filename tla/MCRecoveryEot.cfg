SPECIFICATION Spec
CONSTANTS
    Blocks = 1
    PromptTimeout = 2
    EotRetryLimit = 2
    MaxExtraC = 1
    InitialBoards <- MCInitialBoards
    AnswersEot = FALSE
    Chatters = FALSE
INVARIANT ForwardProgressExcusesEot
CHECK_DEADLOCK FALSE
