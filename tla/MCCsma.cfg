SPECIFICATION FairSpec
CONSTANTS
    Ids <- MCIds
    Sizes = {3, 4}
    PacketLens = {2}
    RLists <- MCRLists
    CollCeil = 1
    TolTime = 4
    MaxRuns = 2
INVARIANTS
    TimeAccounted
    OneSender
    CollisionsCounted
    PacketsCounted
PROPERTIES
    Ends
    Progress
