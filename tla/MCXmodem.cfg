SPECIFICATION FairSpec
CONSTANTS
    MaxBlocks <- MCMaxBlocks
    SeqSpace <- MCSeqSpace
    BlockRetryLimit <- MCBlockRetryLimit
    EotRetryLimit <- MCEotRetryLimit
    MaxUnsolicited = 0
INVARIANTS
    TypeOK
    SuccessMeansDelivered
    RecoverableMeansDelivered
    StopAndWait
PROPERTIES
    Termination
    ImplementsBlockTransfer
CHECK_DEADLOCK FALSE
