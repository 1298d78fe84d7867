\* Requests served while the shutdown drains.
SPECIFICATION Spec
CONSTANTS
    a = a
    b = b
    x = x
    Imsi <- MCTwoImsi
    Blacklisted <- MCBlacklisted
    SessionTimeout = 1
    TicksPerSecond = 1
    MaxTime = 2
    Absent = Absent
    Worker = {w1}
    Cleaner = cleaner
    Drainer = drainer
    MaxRequests = 2
    StopMayInterrupt = FALSE
    NoImsi = NoImsi
INVARIANTS
    CompleteMeansEmpty
