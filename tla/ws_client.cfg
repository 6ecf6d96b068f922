SPECIFICATION FairSpec
CONSTANTS
    PingInterval = 4
    PongTimeout = 1
    DisconnectTimeoutCount = 2
    ReconnectInterval = 2
    TcpTimeout = 2
    Slots = 1
    MaxFaults = 2
INVARIANTS
    TypeOK
    StatusIsReported
    DropsAtMostOnce
PROPERTIES
    DoesNotFlood
    DeadEndsAreLeft
    StaysConnected
