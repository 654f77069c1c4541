\* Every kind of fault, two of them in one behaviour; the replica's store survives.
SPECIFICATION RSpec
CONSTANTS
    Markets = {m1, m2}
    DefaultMarket = m1
    States = {s0, s1}
    OpenState = s0
    Absent = Absent
    Replicas = {r1}
    Buffer = 1
    WireCap = 2
    MaxSeq = 3
    FromSeqs = {}
    FaultKinds = {"insertFails", "insertUncertain", "readFails", "coreRestart", "snapshotFails", "checkpointFails", "connectionLost", "commitUncertain", "replicaRestart"}
    MaxFaults = 2
    StoreDurable = TRUE
INVARIANTS
    HistoryContiguous
PROPERTIES
    AppliedNeverBack
