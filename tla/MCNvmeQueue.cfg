CONSTANTS
    Size <- MCSize
    Stats <- MCStats
SPECIFICATION QFairSpec
INVARIANTS
    QTypeOK
    PhaseAgrees
    Counted
    InFlightOnce
    ReapedEntryIntact
PROPERTIES
    CommandReturns
    ImplementsCommands
