SPECIFICATION FairSpec
CONSTANTS
    ana = ana
    ben = ben
    w1 = w1
    s1 = s1
    rice = rice
    salt = salt
    c1 = c1
    c2 = c2
    r1 = r1
    r2 = r2
    r3 = r3
    Nothing = Nothing
    Users = {ana}
    Workspaces = {w1}
    WorkspaceOf <- OneWorkspaceOf
    Sessions = {s1}
    Payloads = {rice}
    UnknownDistributor = {}
    ConfirmationIds = {c1}
    Requests = {r1, r2, r3}
    TTL = 1
    MaxTime = 3
    FirstNumber = 1001
    PostgreSQL = TRUE
INVARIANTS
    EnquiryWasConfirmed
    LocksOK
PROPERTY
    CreationConsumesConfirmed
    RequestsFinish
