SPECIFICATION ConversationSpec
CONSTANTS
    ana = ana
    w1 = w1
    s1 = s1
    s2 = s2
    c1 = c1
    c2 = c2
    c3 = c3
    r1 = r1
    r2 = r2
    Nothing = Nothing
    Users = {ana}
    Workspaces = {w1}
    WorkspaceOf <- OneWorkspaceOf
    Sessions = {s1, s2}
    Payloads <- Proposals
    UnknownDistributor = {}
    ConfirmationIds = {c1, c2}
    Requests = {r1, r2}
    TTL = 1
    MaxTime = 2
    FirstNumber = 1001
    PostgreSQL = TRUE
    Utterances <- Talk
    Products <- SpokenProducts
    Places <- SpokenPlaces
    FirstSupport = 501
    MaxMessages = 4
CHECK_DEADLOCK FALSE
SYMMETRY Symmetry
INVARIANTS
    TellsTheTruth
    ListenersHoldNoLocks
    LoopNeverBlocksItself
    NumbersAreRead
    OrdersAreUnderstood
    SearchesAreUnderstood
PROPERTIES
    OnlyLastReadBackIsCreated
    UsesTheService
