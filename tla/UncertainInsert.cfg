\* One insert that stores its row and reports an error; no client is needed.
SPECIFICATION Spec
CONSTANTS
    Markets = {m1, m2}
    DefaultMarket = m1
    States = {s0, s1}
    OpenState = s0
    Absent = Absent
    Replicas = {r1}
    Buffer = 2
    WireCap = 2
    MaxSeq = 3
    FromSeqs = {1, 2, 5}
    FaultKinds = {"insertUncertain"}
    MaxFaults = 1
PROPERTIES
    AdvancesWithEvent
