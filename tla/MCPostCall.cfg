SPECIFICATION FairCallSpec
CONSTANTS
    carried = carried
    simulated = simulated
    r1 = r1
    r2 = r2
    v1 = v1
    NoJob = NoJob
    NoCall = NoCall
    Calls = {carried, simulated}
    CarrierCalls = {carried}
    Requests = {r1, r2}
    Workers = {v1}
    MaxAttempts = 2
    MaxRequests = 2
    MaxCrashes = 2
CHECK_DEADLOCK FALSE
INVARIANTS
    CallTypeOK
    TrailIsTheStory
    AnswersAreTrue
    OnlyEndedAreSummarised
    NoCallForgotten
PROPERTIES
    ImplementsRecord
    EndedIsSettled
