CONSTANTS
    Size = 3
    Stats <- MCStats
    QCount = 3
    MaxOut = 1
    Overlap = TRUE
SPECIFICATION AFairSpec
VIEW AdminView
INVARIANTS
    ATypeOK
    AdminRingInStep
    AnswerIsOwn
    FeatureIsOwn
    QueueMemoryOwned
PROPERTIES
    OpenCloseEnds
