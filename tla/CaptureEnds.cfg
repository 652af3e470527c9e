SPECIFICATION Spec
CONSTANTS
    Leases = {l1, l2}
    NoLease = NoLease
    Conversations = {c1, c2}
    NoConversation = NoConversation
    MaxQueued = 1
    FaultSets <- AnyOrUndone
INVARIANTS
    NoSessionLeft
    FinishedVideoIsTranscribed
PROPERTIES
    RecordingsEnd
