SPECIFICATION ServiceSpec
CONSTANTS
    Clients = {c1, c2}
    Parent = parent
    None = none
    Backlog = 2
    FileSizes = {6}
    LaterSizes = {0, 6}
    SizeSpace = 4
    MaxData = 3
    MaxFaults = 1
INVARIANTS
    SizeErrorFatal
