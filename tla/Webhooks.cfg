SPECIFICATION Spec
CONSTANTS
    Events = {e1, e2}
    Endpoints = {p1}
    Flushes = {f1, f2}
    MaxChanges = 1
    MaxCrashes = 1
    Scenarios <- MCScenarios
INVARIANTS
    OutboxInv
    SettledIsDurable
PROPERTIES
    QueuedIsDelivered
