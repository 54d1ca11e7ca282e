SPECIFICATION Spec

CONSTANTS
    s1 = s1
    s2 = s2
    s3 = s3
    address = address
    q1 = q1
    q2 = q2
    Ids = {s1, s2, s3}
    Callers = {address}
    Requests = {q1, q2}
    Nobody = Nobody
    Keys <- MCKeys
    LimitOf <- MCLimitOf
    Window = 2
    SweepInterval = 1
    MaxSessions = 3
    TTL = 2
    MaxLag = 1
    MaxTime = 4
    MaxRequests = 5

SYMMETRY Symmetry

CHECK_DEADLOCK FALSE

INVARIANTS
    AdmissionTypeOK
    WindowLimit
    RecentSessionsSurvive

PROPERTY
    StaleKeysGo
