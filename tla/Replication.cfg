\* One replica whose memory and store die with its process, one life of core;
\* the fairness of goroutines and of the read lock.
SPECIFICATION FairSpec
CONSTANTS
    Markets = {m1, m2}
    DefaultMarket = m1
    States = {s0, s1}
    OpenState = s0
    Absent = Absent
    Replicas = {r1}
    Buffer = 1
    WireCap = 1
    MaxSeq = 3
    FromSeqs = {}
    FaultKinds = {"insertFails", "readFails", "snapshotFails", "checkpointFails", "connectionLost", "replicaRestart"}
    MaxFaults = 2
    StoreDurable = FALSE
INVARIANTS
    RTypeOK
    ReplicaConsistent
    SynchronizedWhenQuiet
PROPERTIES
    ImplementsReplicatedMarkets
    Converges
