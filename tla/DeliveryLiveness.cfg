SPECIFICATION FairSpec
CONSTANTS
    NumEvents = 5
    MaxEvents = 2
    Batch = 2
    OutCap = 1
    CmdCap = 1
    InCap = 1
    MaxDisconnects = 1
    MaxCrashes = 0
    MaxIngestErrors = 0
    MaxUnanswered = 0
    MaxStoreErrors = 0
    MaxExpiries = 0
PROPERTIES
    EventuallySettles
    HandledUnlessStuck
\* The circular wait is a state in which nothing is left to do.
CHECK_DEADLOCK FALSE
