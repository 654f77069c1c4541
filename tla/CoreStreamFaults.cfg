\* One client; any two faults of core, inserts that report an error after
\* they stored the row included.
SPECIFICATION Spec
CONSTANTS
    Markets = {m1, m2}
    DefaultMarket = m1
    States = {s0, s1}
    OpenState = s0
    Absent = Absent
    Replicas = {r1}
    Buffer = 2
    WireCap = 2
    MaxSeq = 3
    FromSeqs = {1, 2, 5}
    FaultKinds = {"insertFails", "insertUncertain", "readFails", "coreRestart"}
    MaxFaults = 2
INVARIANTS
    LogGapFree
    FramesGapFree
