\* One restart of core, whose log is in memory, under a replica that lives on.
SPECIFICATION RSpec
CONSTANTS
    Markets = {m1}
    DefaultMarket = m1
    States = {s0, s1}
    OpenState = s0
    Absent = Absent
    Replicas = {r1}
    Buffer = 1
    WireCap = 1
    MaxSeq = 3
    FromSeqs = {}
    FaultKinds = {"coreRestart"}
    MaxFaults = 1
    StoreDurable = FALSE
INVARIANTS
    SynchronizedWhenQuiet
