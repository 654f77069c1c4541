\* The end of every suspension; every kind of fault of the write path.
SPECIFICATION SFairSpec
CONSTANTS
    Markets = {m1}
    DefaultMarket = m1
    Absent = Absent
    BetLimit = 2
    LiabilityLimit = 2
    Cooldown = 2
    MaxSeq = 20
    FaultKinds = {"insertFails", "insertUncertain", "readFails", "coreRestart"}
    MaxFaults = 2
    Window = 1
    Signals <- SomeSignals
    Offsets <- PresentFuture
    Skew = 0
    SpikeSignal <- OneBet
    SpikeSize = 2
    MaxSignals = 1
    MaxSpikes = 0
    LastCall = 1
    MaxTime = 6
PROPERTIES
    Recovers
