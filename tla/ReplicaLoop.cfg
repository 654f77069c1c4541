\* Keepalives of one tick, an idle timeout of four, three doublings to the cap.
SPECIFICATION LFairSpec
CONSTANTS
    Initial = 16
    Cap = 80
    Millisecond = 2
    Jitters = {50, 100, 149}
    HalfRange = 128
    IdleTimeout = 4
    KeepAlive = 1
    Latency = 1
    LineCap = 3
    MaxAttempts = 5
INVARIANTS
    LTypeOK
    StopsOnlyOnShutdown
    ConnectedOnlyOnStream
    ErrorIsLastFailure
    PacedByFailures
    NoHammering
    KeptAliveNeverIdle
PROPERTIES
    SilentStreamLeft
    ShutdownStops
