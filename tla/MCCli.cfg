SPECIFICATION Spec
CONSTANTS
    Invocations <- MCInvocations
    MaxFlags = 3
INVARIANTS
    SuccessIsComplete
    FailureIsTold
    StreamIsPure
    EventsAreOrdered
    ConsoleAsAnnounced
    HintIsNotStale
CHECK_DEADLOCK FALSE
