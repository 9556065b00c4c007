SPECIFICATION FairSpec
CONSTANTS
    Query = {"processes", "users", "disks"}
    SnapshotMode = {"disks"}
    Defaults <- MCDefaults
    Tables <- MCTables
    Row = {1, 2}
    Hosts <- MCHosts
    ChanCap = 1
    MaxChanges = 1
    MaxErrors = 1
    MaxDrops = 1
    MaxHangs = 1
    MaxCrashes = 1
INVARIANTS
    SeedComplete
    DiffsAddUp
PROPERTIES
    Converges
CHECK_DEADLOCK FALSE
