SPECIFICATION FairSpec
CONSTANTS
    Signature = {"a"}
    Shard = {1}
    ShardOf <- OneShard
    Capacity = 1
    Window = 1
    MaxTime = 1
    MaxChecks = 4
    MaxRuns = 1
    Payload = {"empty", "poison", "event"}
    Empty = "empty"
    Poison = "poison"
    CategoryOf <- Processes
    Rule = {"r1", "r2"}
    Directory <- MCDirectory
    Matches <- Finds
    ChannelCap = 1
    BatchMax = 2
    MaxRecords = 2
    MaxFailures = 1
    MaxKills = 1
INVARIANTS
    TypeOK
    SkippedOnlyByStop
    RunningKeepsAlerts
PROPERTIES
    ShutdownCompletes
    DetectionReported
