SPECIFICATION ReceiverSpec
CONSTANTS
    N = 8
    Window = 4
    FinalAcks = 2
    Lead = 5
INVARIANTS
    FilePrefix
    AcksHeld
