SPECIFICATION FairSpec
CONSTANTS
    Ids = {1, 2, 3, 4}
    Costs = {1, 2}
    IntMax = 7
    MaxLines = 4
    MinGraph = 3
INVARIANTS
    LoopFree
    NothingForgotten
    SmallestHop
PROPERTIES
    ImplementsRouting
    Progress
    Converges
