\* The deployed server: one request thread, two subscribers and a blacklisted one.
\* Half-second clock, for ages are truncated to seconds.
SPECIFICATION Spec
CONSTANTS
    a = a
    b = b
    x = x
    Imsi <- MCImsi
    Blacklisted <- MCBlacklisted
    SessionTimeout = 1
    TicksPerSecond = 2
    MaxTime = 4
    Absent = Absent
    Worker = {w1}
    Cleaner = cleaner
    Drainer = drainer
    MaxRequests = 3
    StopMayInterrupt = FALSE
    NoImsi = NoImsi
SYMMETRY MCSymmetry
INVARIANTS
    TypeOK
    CdrBalanced
    SoleWorkerNeverFails
    DrainCoversSnapshot
    VictimsExpiredOrTouched
PROPERTIES
    DrainRunsOut
    SweepRunsOut
