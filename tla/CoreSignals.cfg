\* Calls and ticks whose times overtake one another, and a second suspension.
SPECIFICATION SSpec
CONSTANTS
    Markets = {m1}
    DefaultMarket = m1
    Absent = Absent
    BetLimit = 2
    LiabilityLimit = 2
    Cooldown = 2
    MaxSeq = 20
    FaultKinds = {"insertFails", "coreRestart"}
    MaxFaults = 1
    Window = 1
    Signals <- LiabilitySignals
    Offsets <- PresentFuture
    Skew = 1
    SpikeSignal <- OneBet
    SpikeSize = 2
    MaxSignals = 1
    MaxSpikes = 1
    LastCall = 3
    MaxTime = 4
INVARIANTS
    STypeOK
    NoSignalLost
    StatesCoherent
    TransitionsAlternate
PROPERTIES
    SpikeSuspends
