SPECIFICATION Spec
CONSTANTS
    N = 6
    FinalAcks = 1
    InitWindow = 2
    InitThresh = 3
    DupThresh = 2
    SeqSpace = 8
    MaxWindow = 3
    MayBlock = TRUE
    Window = 3
    Lead = 3
    Duplicating = TRUE
    MaxLoss = 0
INVARIANTS
    TypeOK
    BaseBehindReceiver
    DoneMeansReceived
    InFlightBounded
    RingHolds
    NoSpin
PROPERTIES
    ImplementsReliableFile
