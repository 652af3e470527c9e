SPECIFICATION Spec
CONSTANTS
    Leases = {l1, l2, l3}
    NoLease = NoLease
    Conversations = {c1}
    NoConversation = NoConversation
    MaxQueued = 1
    FaultSets <- AnyFault
INVARIANTS
    CaptureInv
    CoordinatorInv
    LockIsKept
    FinalizedAfterLastWrite
PROPERTIES
    PublishesOpenSession
    ImplementsLock
