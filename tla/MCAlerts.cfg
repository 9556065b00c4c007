SPECIFICATION MCSpec
CONSTANTS
    Signature = {"s1", "s2", "s3", "s4"}
    Shard = {1, 2}
    ShardOf <- Crowded
    Capacity = 2
    Window = 2
    MaxTime = 3
    MaxChecks = 5
    MaxRuns = 1
    Alert = {"old", "new"}
    CreatedAt <- MCCreatedAt
    SeverityOf <- MCSeverity
    Status = {"open", "dismissed"}
    Operator = {ann, bob}
    Filters <- MCFilters
    Asked = 2
    MaxPage = 1
    MaxFetches = 2
    MaxPatches = 2
    MaxFailures = 1
SYMMETRY MCSymmetry
INVARIANTS
    SuppressedHasReason
    PassesAgainOnlyCrowdedOut
    PageAnswersFilter
    OwnWordStays
CHECK_DEADLOCK FALSE
