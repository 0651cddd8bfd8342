SPECIFICATION Spec
CONSTANTS
    U32 = 16
    BlockSize = 2
    Defaults <- MCDefaults
    Args <- MCArgs
    SizeChoices <- MCSizeChoices
    DeviceBlocks = 8
    EotRetryLimit = 2
    Pending <- MCPrinting
    MaxChatter = 0
    Endless = {}
    Faulty = FALSE
    OutputLimit = 20
    SameSize = FALSE
INVARIANT JudgedByOwnOutput
CHECK_DEADLOCK FALSE
