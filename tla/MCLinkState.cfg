SPECIFICATION Spec
CONSTANTS
    Ids = {1, 2, 3, 4}
    Costs = {1, 2}
    IntMax = 99
    MaxLines = 5
INVARIANTS
    VisitedSettled
    SmallestPred
PROPERTIES
    ImplementsRouting
