CONSTANTS
    Procs <- MCProcs
    Addrs <- MCAddrs
SPECIFICATION DSpec
INVARIANTS
    DTypeOK
    PoolRegistered
    NothingElseLost
