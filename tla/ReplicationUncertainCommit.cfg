\* Commits of the replica's store that report an error after they took effect.
SPECIFICATION FairSpec
CONSTANTS
    Markets = {m1, m2}
    DefaultMarket = m1
    States = {s0, s1}
    OpenState = s0
    Absent = Absent
    Replicas = {r1}
    Buffer = 1
    WireCap = 1
    MaxSeq = 3
    FromSeqs = {}
    FaultKinds = {"connectionLost", "commitUncertain", "replicaRestart"}
    MaxFaults = 2
    StoreDurable = TRUE
INVARIANTS
    ReplicaConsistent
    LagIsReported
PROPERTIES
    ConvergesOrReportsLag
