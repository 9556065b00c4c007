SPECIFICATION FairSpec
CONSTANTS
    Topic <- MCTopic
    Feeds <- MCFeeds
    Str <- MCStr
    Uuid = {"u1", "n1", "n2"}
    Client = {c1}
    Query <- MCQuery
    Command <- MCCommand
    LowerCase <- MCLower
    PersistCap = 1
    BatchMax = 2
    RingCap = 2
    MaxFailures = 1
    MaxStops = 1
    MaxCommands = 1
INVARIANTS
    StoredOnce
    LossHasCause
    StoredWasShown
    StreamKeepsPromise
PROPERTIES
    EntriesSettle
CHECK_DEADLOCK FALSE
