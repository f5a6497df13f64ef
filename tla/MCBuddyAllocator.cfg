CONSTANTS
    t1 = t1
    t2 = t2
    Threads <- TwoThreads
    MaxLists = 2
    MaxLevel = 2
    Blocks = 3
    Batch = 0
    MaxUsed = 2
SPECIFICATION BFairSpec
CHECK_DEADLOCK FALSE
INVARIANTS
    BTypeOK
    Partitioned
    BuddySystem
PROPERTIES
    AllocReturns
