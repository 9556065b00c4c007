SPECIFICATION Spec
CONSTANTS
    Call = {c1, c2, c3}
    Machine = {m1, m2}
    Version = {v1, v2}
    NodeId = {n1, n2, n3}
    NoNode = NoNode
    MaxHeartbeats = 2
    MaxStoreErrors = 1
SYMMETRY Symmetry
INVARIANTS
    OneNodePerMachine
    AuditStartsWithNew
    QuarantinePreserved
    AgentStatusIsLastReport
