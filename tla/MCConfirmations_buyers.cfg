SPECIFICATION Spec
CONSTANTS
    ana = ana
    ben = ben
    w1 = w1
    s1 = s1
    rice = rice
    salt = salt
    c1 = c1
    c2 = c2
    r1 = r1
    r2 = r2
    r3 = r3
    Nothing = Nothing
    Users = {ana, ben}
    Workspaces = {w1}
    WorkspaceOf <- TwoWorkspaceOf
    Sessions = {s1}
    Payloads = {rice, salt}
    UnknownDistributor = {salt}
    ConfirmationIds = {c1, c2}
    Requests = {r1, r2}
    TTL = 1
    MaxTime = 2
    FirstNumber = 1001
    PostgreSQL = TRUE
SYMMETRY Symmetry
INVARIANTS
    TypeOK
    NumberedOnceWithoutGaps
    AuditTrailMatches
    OnlyUnknownDistributorRaises
    AnswerNamesOwnEnquiry
    NoCircularWait
