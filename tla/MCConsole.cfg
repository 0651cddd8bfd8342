SPECIFICATION FairSpec
CONSTANTS
    TerminalEvents <- MCTerminalEvents
    MaxTyped = 2
    MaxTracked = 2
    PortLimit = 2
INVARIANTS
    KeysReachTheBoard
    ScreenShowsThePort
    TranscriptIsHonest
PROPERTY ExitIsHeeded
CHECK_DEADLOCK FALSE
