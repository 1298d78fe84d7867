\* Two buckets of two tokens, one token every other tick.
SPECIFICATION Spec
CONSTANTS
    a = a
    b = b
    Imsi <- MCImsi
    Blacklisted <- MCNobody
    MaxRequestsPerMinute = 20
    TicksPerMinute = 40
    MaxTime = 8
    Never = Never
INVARIANTS
    TypeOK
    AdmissionBound
PROPERTIES
    PoliteClientAdmitted
