SPECIFICATION Spec
CONSTANTS
    Blocks = 1
    PromptTimeout = 2
    EotRetryLimit = 2
    MaxExtraC = 1
    InitialBoards <- MCInitialBoards
    AnswersEot = TRUE
    Chatters = FALSE
INVARIANT PowerCycleIsAskedFirst
CHECK_DEADLOCK FALSE
