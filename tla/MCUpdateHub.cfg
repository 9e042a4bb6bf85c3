CONSTANTS
    Tabs = {t1}
    Conns = {k1, k2, k3}
    NoConn = NoConn
    QueueMax = 2
    WireMax = 1
    MaxAttempts = 2
    MaxEvents = 3
    MaxFaults = 2
SPECIFICATION FairSpec
CHECK_DEADLOCK FALSE
INVARIANTS
    TypeOK
    StreamHasNoGap
    BannerIsCurrent
    RegisteredHandlersRun
    NoEarlyGivingUp
PROPERTIES
    QueuedUpdatesArrive
    TabsReconnectOrGiveUp
