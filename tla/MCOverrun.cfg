SPECIFICATION Spec
CONSTANTS
    N = 7
    FinalAcks = 1
    InitWindow = 2
    InitThresh = 3
    DupThresh = 2
    SeqSpace = 16
    MaxWindow = 6
    MayBlock = FALSE
    Window = 3
    Lead = 3
    Duplicating = TRUE
    MaxLoss = 0
INVARIANTS
    WritesThatPacket
