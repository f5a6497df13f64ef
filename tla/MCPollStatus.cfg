CONSTANTS
    Size = 3
    Stats <- StatsFail
    InitDescs = 2
    MaxDesc = 3
    MaxChunks = 2
    CanTimeout = TRUE
SPECIFICATION USpec
CHECK_DEADLOCK FALSE
INVARIANT PollStatus
