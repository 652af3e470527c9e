SPECIFICATION Spec
CONSTANTS
    f1 = f1
    f2 = f2
    j1 = j1
    j2 = j2
    j3 = j3
    NoJob = NoJob
    Jobs = {j1, j2, j3}
    Tasks = {t1, t2}
    Recordings = {f1, f2}
    MaxMessages = 2
    MaxConcurrent = 1
    MaxRetainedJobs = 2
    Scenarios <- QueueScenarios
SYMMETRY JobSymmetry
INVARIANTS
    QueueInv
    CancelsTheRightRun
    OneWriterPerRecording
    CompletedIsSaved
PROPERTIES
    DeletedStaysDeleted
