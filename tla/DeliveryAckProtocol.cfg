SPECIFICATION Spec
CONSTANTS
    NumEvents = 2
    MaxEvents = 2
    Batch = 2
    OutCap = 1
    CmdCap = 1
    InCap = 1
    MaxDisconnects = 1
    MaxCrashes = 0
    MaxIngestErrors = 0
    MaxUnanswered = 0
    MaxStoreErrors = 0
    MaxExpiries = 0
INVARIANT DocumentedNoLoss
