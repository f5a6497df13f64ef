CONSTANTS
    Size = 3
    Stats <- StatsOk
    InitDescs = 1
    MaxDesc = 2
    MaxChunks = 2
    CanTimeout = FALSE
SPECIFICATION UFairSpec
INVARIANTS
    NoDescriptorLost
PROPERTIES
    CallReturns
