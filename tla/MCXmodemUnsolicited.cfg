SPECIFICATION Spec
CONSTANTS
    MaxBlocks = 4
    SeqSpace = 4
    BlockRetryLimit <- MCBlockRetryLimit
    EotRetryLimit <- MCEotRetryLimit
    MaxUnsolicited = 2
INVARIANTS
    StoredInOrder
    LeadIsBounded
CHECK_DEADLOCK FALSE
