SPECIFICATION Spec
CONSTANTS
    NumEvents = 3
    MaxEvents = 2
    Batch = 2
    OutCap = 1
    CmdCap = 1
    InCap = 1
    MaxDisconnects = 2
    MaxCrashes = 1
    MaxIngestErrors = 1
    MaxUnanswered = 1
    MaxStoreErrors = 1
    MaxExpiries = 1
INVARIANTS
    CopiesHaveCause
    LossBudget
    AckedIsPublished
    PublishedInOrder
