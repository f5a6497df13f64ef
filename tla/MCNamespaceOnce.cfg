CONSTANTS
    t1 = t1
    t2 = t2
    t3 = t3
    Threads <- ThreeThreads
    Readers <- NoReaders
    WBit = 8
    Pcis <- TwoPcis
    NsCount = 2
    MaxNsid = 3
    MaxSes = 3
    Misuse <- BadCallers
SPECIFICATION SFairSpec
CHECK_DEADLOCK FALSE
INVARIANT NamespaceOnce
