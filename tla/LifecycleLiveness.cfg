\* Every thread scheduled fairly: two request threads that compete for one
\* subscriber, and a stop() that may come in the middle of a drain.
SPECIFICATION FairSpec
CONSTANTS
    a = a
    b = b
    x = x
    Imsi <- MCTwoImsi
    Blacklisted <- MCBlacklisted
    SessionTimeout = 1
    TicksPerSecond = 1
    MaxTime = 2
    Absent = Absent
    Worker = {w1, w2}
    Cleaner = cleaner
    Drainer = drainer
    MaxRequests = 2
    StopMayInterrupt = TRUE
    NoImsi = NoImsi
PROPERTIES
    LedgerRefined
    ServiceRefined
    ExpiredSessionsGo
    RequestsAnswered
    ShutdownCompletes
    ServicesStop
