SPECIFICATION FairSpec
CONSTANTS
    MaxSize = 3
    BufLen = 4
    MaxFaults = 3
INVARIANTS
    OutputIsFile
    ServedInFull
PROPERTIES
    Answered
