SPECIFICATION Spec
CONSTANTS
    m1 = m1
    m2 = m2
    d1 = d1
    d2 = d2
    c1 = c1
    c2 = c2
    Models = {m1, m2}
    Versions = {1, 2}
    Paths = {m1, m2, 1, 2}
    MaxInstalls = 2
    UpdateCalls = {d1, d2}
    Transfers = {1, 2, d1, d2}
    MaxGenerations = 2
    Contexts = {c1, c2}
    Scenarios <- DownloadsScenarios
INVARIANTS
    DownloadsInv
    LaunchedIsComplete
PROPERTIES
    DownloadsEnd
CHECK_DEADLOCK FALSE
