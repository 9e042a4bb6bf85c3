CONSTANTS
    Tabs = {t1}
    Conns = {k1, k2, k3}
    NoConn = NoConn
    QueueMax = 1
    WireMax = 1
    MaxAttempts = 2
    MaxEvents = 3
    MaxFaults = 0
SPECIFICATION FairSpec
CHECK_DEADLOCK FALSE
PROPERTIES
    DroppedClientIsDisconnected
