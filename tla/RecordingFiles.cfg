SPECIFICATION Spec
CONSTANTS
    r1 = r1
    r2 = r2
    v1 = v1
    Recordings = {r1, r2}
    Videos = {v1}
    Passes = {p1, p2}
    MaxPending = 2
    MaxCrashes = 1
    Scenarios <- MCScenarios
INVARIANTS
    WriterInv
    PublishedIsComplete
    RecordedIsKept
    FinalizeIsAtomic
    InterruptedIsRecovered
