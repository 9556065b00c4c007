SPECIFICATION Spec
CONSTANTS
    Payload = {p, q}
    Limits <- MCLimits
    BatchSizes <- MCBatchSizes
    MaxId = 5
    MaxFailures = 2
INVARIANTS
    OldestFirst
    WithinLimit
PROPERTIES
    ImplementsFifo
