\* One commit of the replica's store that reports an error after it took effect.
SPECIFICATION RSpec
CONSTANTS
    Markets = {m1, m2}
    DefaultMarket = m1
    States = {s0, s1}
    OpenState = s0
    Absent = Absent
    Replicas = {r1}
    Buffer = 1
    WireCap = 1
    MaxSeq = 3
    FromSeqs = {}
    FaultKinds = {"commitUncertain"}
    MaxFaults = 1
    StoreDurable = TRUE
PROPERTIES
    ObservedIsCounted
