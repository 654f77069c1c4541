\* One replica; posts that are given up arrive after their successors.
SPECIFICATION HSpec
CONSTANTS
    Replicas = {r1}
    StaleAfter = 6
    OfflineAfter = 7
    TickEvery = 2
    Interval = 2
    PostTimeout = 1
    MaxDelay = 1
    MaxWait = 1
    MaxSeq = 1
    MaxTime = 12
    MaxDisturbances = 2
INVARIANTS
    HTypeOK
    HealthyMeansRecent
    UndisturbedIsJudgedRight
    SilentGoesOffline
    LagNotUnderstated
