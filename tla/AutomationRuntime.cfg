SPECIFICATION RuntimeSpec
CONSTANTS
    p1 = p1
    p2 = p2
    r1 = r1
    r2 = r2
    w1 = w1
    MaxCalls = 3
    Requests = {r1, r2}
    Writers = {w1}
    Ports = {p1, p2}
    Jobs = {1, 2, 3, 4}
    MaxConcurrent = 2
    MaxRetainedJobs = 2
    Scenarios <- RuntimeScenarios
INVARIANTS
    ServerInv
    SettledServerFits
    RevokedTokenIsDead
    RegistryInv
    RegistryKeepsOrder
PROPERTIES
    ImplementsExecutor
    WorkEnds
CHECK_DEADLOCK FALSE
