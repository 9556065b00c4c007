SPECIFICATION FairSpec
CONSTANTS
    w1 = w1
    w2 = w2
    Worker = {w1, w2}
    NoWorker = NoWorker
    Name <- Names
    Message <- FewMessages
    MaxRecords = 2
    MaxAssigns = 3
    MaxFaults = 1
INVARIANTS
    CommittedIsSettled
    NoOvertaking
    DuplicatesBounded
    ScannedByItsCategory
PROPERTIES
    EveryRecordSettles
