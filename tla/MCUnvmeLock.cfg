CONSTANTS
    t1 = t1
    t2 = t2
    t3 = t3
    t4 = t4
    Threads <- MCThreads
    Readers <- MCThreads
    WBit = 8
SPECIFICATION LSpec
INVARIANTS
    LTypeOK
    LockWord
    MutualExclusion
PROPERTIES
    NoNewReaders
