CONSTANTS
    Ips = {i1, i2}
    Tokens = {t1}
    Requests = {r1, r2}
    LoginMax = 1
    Window = 3
    LoginMaxAll = 4
    Hour = 3
    Base = 1
    MaxShift = 2
    Rate = 1
    LoginBurst = 1
    CallBurst = 1
    Ttl = 1
SPECIFICATION FairSpec
INVARIANTS
    BackoffHolds
    HourIsBounded
    LogoutIsFinal
PROPERTIES
    LockoutEnds
