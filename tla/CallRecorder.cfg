SPECIFICATION RecorderSpec
CONSTANTS
    MaxQueued = 2
    MaxBlocks = 4
    MaxCopies = 3
    DiskFails = TRUE
INVARIANTS
    RecorderInv
PROPERTIES
    StopAnswered
    ImplementsContract
