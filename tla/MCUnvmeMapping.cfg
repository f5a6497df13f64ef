CONSTANTS
    Geometries <- MCGeometries
    Width = 5
    PrpBytes = 2
    QSize = 3
    MaxSize = 512
    Bufs <- MCBufs
    MaxNlb = 20
    MaxMoved = 96
SPECIFICATION MFairSpec
CHECK_DEADLOCK FALSE
INVARIANTS
    MTypeOK
    TransferExact
    WithinMdts
PROPERTIES
    RwEnds
