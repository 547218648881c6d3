SPECIFICATION SenderSpec
CONSTANTS
    InitWindow = 2
    InitThresh = 4
    DupThresh = 3
    SeqSpace = 8
    N = 5
    FinalAcks = 1
    MaxWindow = 6
    MayBlock = TRUE
INVARIANTS
    UnackedTimed
