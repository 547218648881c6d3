SPECIFICATION FairSpec
CONSTANTS
    N = 2
    FinalAcks = 3
    InitWindow = 2
    InitThresh = 3
    DupThresh = 1
    SeqSpace = 8
    MaxWindow = 8
    MayBlock = FALSE
    Window = 8
    Lead = 8
    Duplicating = FALSE
    MaxLoss = 2
INVARIANTS
    Guarded
PROPERTIES
    Completes
