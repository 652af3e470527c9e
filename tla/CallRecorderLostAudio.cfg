SPECIFICATION RecorderSpec
CONSTANTS
    MaxQueued = 2
    MaxBlocks = 4
    MaxCopies = 2
    DiskFails = FALSE
INVARIANT NothingLeftBehind
