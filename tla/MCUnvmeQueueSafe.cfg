CONSTANTS
    Size = 4
    Stats <- StatsFail
    InitDescs = 2
    MaxDesc = 3
    MaxChunks = 2
    CanTimeout = TRUE
SPECIFICATION USpec
VIEW LiveView
CHECK_DEADLOCK FALSE
INVARIANTS
    UTypeOK
    CidAccounting
    DescLists
    PendingHead
    EveryCompletionOwned
PROPERTIES
    KeepsQueueContract
