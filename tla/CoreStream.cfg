\* Two clients of one hub; the faults of the write and read paths.
SPECIFICATION Spec
CONSTANTS
    Markets = {m1, m2}
    DefaultMarket = m1
    States = {s0, s1}
    OpenState = s0
    Absent = Absent
    Replicas = {r1, r2}
    Buffer = 1
    WireCap = 2
    MaxSeq = 3
    FromSeqs = {1, 2, 5}
    FaultKinds = {"insertFails", "readFails", "coreRestart"}
    MaxFaults = 1
SYMMETRY Symmetry
INVARIANTS
    TypeOK
    StateMatchesLog
    FramesGapFree
    ShownIsDurable
    NoEventMissed
