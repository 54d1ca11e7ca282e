SPECIFICATION ReadBackSpec
CONSTANTS
    ana = ana
    w1 = w1
    s1 = s1
    s2 = s2
    rice = rice
    salt = salt
    c1 = c1
    c2 = c2
    c3 = c3
    r1 = r1
    r2 = r2
    k1 = k1
    k2 = k2
    k3 = k3
    k4 = k4
    Nothing = Nothing
    Users = {ana}
    Workspaces = {w1}
    WorkspaceOf <- OneWorkspaceOf
    Sessions = {s1}
    Payloads = {rice}
    UnknownDistributor = {}
    ConfirmationIds = {c1, c2}
    Requests = {r1, r2}
    TTL = 1
    MaxTime = 2
    FirstNumber = 1001
    PostgreSQL = TRUE
    CallIds = {k1, k2}
    EnquiryCalls = {k1, k2}
    UnknownCalls = {}
    CallPayload <- TwoCalls
    MaxCompleted = 2
CHECK_DEADLOCK FALSE
SYMMETRY Symmetry
INVARIANTS
    CreatedWasReadBack
