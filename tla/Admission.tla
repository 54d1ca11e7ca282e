------------------------------ MODULE Admission ------------------------------
(***************************************************************************)
(* What stands before every handler of backend/app/main.py: the session     *)
(* store decides whether a voice session still exists, the rate limiter     *)
(* whether one more request is served.  Both read the clock before they     *)
(* take their lock, so requests reach them with instants out of order.      *)
(***************************************************************************)
EXTENDS RateLimiter, SessionStore

CONSTANTS
    Requests,    \* the requests that can be in progress at once
    Callers,     \* the addresses that log in, the workspaces that simulate calls
    Nobody,      \* the key of no request
    MaxLag,      \* bound: ticks between reading the clock and taking the lock
    MaxTime,     \* bound: the clock
    MaxRequests  \* bound: the requests that arrive

ASSUME AdmissionAssumption ==
    /\ Keys = Ids \cup Callers
    /\ Nobody \notin Keys
    /\ MaxLag \in Nat
    /\ MaxTime \in Nat
    /\ MaxRequests \in Nat
    /\ MaxLag < Window
    /\ MaxLag <= TTL

VARIABLES
    time,      \* time.monotonic()
    issued,    \* the session identifiers given out
    arrived,   \* how many requests have arrived
    request,   \* what each request has left to do
    admitted,  \* history: when the limiter admitted each key, lately
    used       \* history: the sessions used last, and when

history == <<admitted, used>>
admissionVars == <<limiterVars, store, time, issued, arrived, request, history>>

-----------------------------------------------------------------------------

\* The steps of each route.  All but "upstream" and "delete" read the clock, then
\* take a lock.
Opening == <<"create", "upstream">>  \* POST call
Tool == <<"get", "check", "get">>    \* POST tools
Listening == <<"get", "get">>        \* POST events, PATCH context
Ending == <<"get", "delete">>        \* DELETE the session
Limited == <<"check">>               \* a login, a simulated call

Plans == {Opening, Tool, Listening, Ending, Limited}

Rests(plan) == {SubSeq(plan, i, Len(plan)) : i \in 1 .. Len(plan)}

Request ==
    [todo : {<<>>} \cup UNION {Rests(p) : p \in Plans}, key : Keys \cup {Nobody},
     since : 0 .. MaxTime]

Idle == [todo |-> <<>>, key |-> Nobody, since |-> 0]

\* A session is opened under a fresh identifier, which no request names before it
\* is given out.
Fresh == Ids \ (issued \cup {request[r].key : r \in Requests} \cup Stored)

\* A request that arrives: for a session that was given out, which the store may
\* have lost, for a session to be opened, or for none.
Arriving ==
    {[todo |-> p, key |-> id, since |-> 0] : p \in {Tool, Listening, Ending}, id \in issued}
    \cup {[todo |-> Opening, key |-> id, since |-> 0] : id \in Fresh}
    \cup {[todo |-> Limited, key |-> key, since |-> 0] : key \in Callers}

\* The requests r can be when it takes this step: one that arrived just before it,
\* or the one in progress.
Taking(r, step) ==
    {q \in IF request[r] = Idle THEN Arriving ELSE {request[r]} : Head(q.todo) = step}

\* What is left of request q after this step: nothing after an early return.
Continue(r, q, ok) ==
    /\ arrived' = arrived + (IF request[r] = Idle THEN 1 ELSE 0)
    /\ arrived' <= MaxRequests
    /\ request' = [request EXCEPT ![r] =
        IF ok /\ Len(q.todo) > 1
        THEN [q EXCEPT !.todo = Tail(@),
                       !.since = IF q.todo[2] \in {"get", "check"} THEN time ELSE 0]
        ELSE Idle]

\* What a request can have read from the clock: after its last step, and at most
\* MaxLag before it takes its lock now.
Instants(q) == Max({q.since, time - MaxLag}) .. time

\* The sessions used after it push a session out of the MaxSessions - 1 last.
Use(id) ==
    LET all == Append(Without(used, id), [id |-> id, at |-> time])
    IN  used' = SubSeq(all, Max({1, Len(all) - MaxSessions + 2}), Len(all))

Forget(id) == used' = Without(used, id)

-----------------------------------------------------------------------------

Init ==
    /\ LimiterInit
    /\ StoreInit
    /\ time = 0
    /\ issued = {}
    /\ arrived = 0
    /\ request = [r \in Requests |-> Idle]
    /\ admitted = [k \in Keys |-> <<>>]
    /\ used = <<>>

CreateSession(r) ==
    \E q \in Taking(r, "create") :
        /\ \E now \in Instants(q) : Create(q.key, now)
        /\ Use(q.key)
        /\ Continue(r, q, TRUE)
        /\ UNCHANGED <<limiterVars, time, issued, admitted>>

\* An error or a refusal upstream takes the session back.  An answer gives it to
\* the buyer; an attempt that is cancelled meanwhile leaves it in the store too.
Upstream(r) ==
    \E q \in Taking(r, "upstream") :
        /\ \/ /\ Delete(q.key)
              /\ Forget(q.key)
              /\ UNCHANGED issued
           \/ /\ issued' = issued \cup {q.key}
              /\ UNCHANGED <<store, used>>
        /\ Continue(r, q, TRUE)
        /\ UNCHANGED <<limiterVars, time, admitted>>

\* The first look-up of a request also asks whether the session is the caller's:
\* the session of another buyer has been touched by then.
GetSession(r) ==
    \E q \in Taking(r, "get") : \E now \in Instants(q) :
        LET found == Finds(q.key, now)
        IN  /\ Get(q.key, now)
            /\ IF found THEN Use(q.key) ELSE UNCHANGED used
            /\ \E owned \in BOOLEAN : Continue(r, q, found /\ owned)
            /\ UNCHANGED <<limiterVars, time, issued, admitted>>

EndSession(r) ==
    \E q \in Taking(r, "delete") :
        /\ Delete(q.key)
        /\ Forget(q.key)
        /\ Continue(r, q, TRUE)
        /\ UNCHANGED <<limiterVars, time, issued, admitted>>

CheckLimit(r) ==
    \E q \in Taking(r, "check") : \E now \in Instants(q) :
        LET admits == Admits(q.key, now)
        IN  /\ Check(q.key, now)
            /\ Continue(r, q, admits)
            /\ admitted' = IF admits
                           THEN [admitted EXCEPT ![q.key] = Append(@, time)]
                           ELSE admitted
            /\ UNCHANGED <<store, time, issued, used>>

Tick ==
    /\ time < MaxTime
    /\ time' = time + 1
    /\ admitted' = [k \in Keys |->
           FromFirst(admitted[k],
                     {i \in DOMAIN admitted[k] : time' - admitted[k][i] < Window - MaxLag})]
    /\ used' = FromFirst(used, {i \in DOMAIN used : time' - used[i].at <= TTL - MaxLag})
    /\ request' = [r \in Requests |->
           [request[r] EXCEPT !.since = IF @ <= time' - MaxLag THEN 0 ELSE @]]
    /\ UNCHANGED <<limiterVars, store, issued, arrived>>

Next ==
    \/ \E r \in Requests :
          CreateSession(r) \/ Upstream(r) \/ GetSession(r) \/ EndSession(r)
          \/ CheckLimit(r)
    \/ Tick

Spec == Init /\ [][Next]_admissionVars

-----------------------------------------------------------------------------

\* The variables keep their types, and both tables stay within their bounds: the
\* store within MaxSessions, the events of a key within its limit.
AdmissionTypeOK ==
    /\ events \in [DOMAIN events -> Seq(0 .. MaxTime)]
    /\ \A k \in DOMAIN events :
          k \in Keys /\ Len(events[k]) \in 1 .. LimitOf[k]
    /\ lastSweep \in 0 .. MaxTime
    /\ store \in Seq([id : Ids, seen : 0 .. MaxTime])
    /\ Len(store) <= MaxSessions
    /\ Cardinality(Stored) = Len(store)
    /\ time \in 0 .. MaxTime
    /\ issued \subseteq Ids
    /\ arrived \in 0 .. MaxRequests
    /\ request \in [Requests -> Request]

\* No key is admitted more often than its limit within a window, less the delay
\* between reading the clock and taking the lock: that long a request can have
\* been admitted after the instant it is remembered by, and the sweep looks only
\* at the instant that was appended last.
WindowLimit == \A k \in Keys : Len(admitted[k]) <= LimitOf[k]

\* The limiter does not remember a key for ever, although it sweeps only inside a
\* request: after a request that changes what it remembers the last sweep is at
\* most its interval (and the delay of the lock) old, and the newest event of
\* every key less than a window older than that sweep.
StaleKeysGo ==
    [][events' # events =>
          /\ time - lastSweep' < SweepInterval + MaxLag
          /\ \A k \in DOMAIN events' : lastSweep' - Last(events'[k]) < Window]_admissionVars

\* A session in use stays: until it is deleted, or not used for its time to live
\* (less the delay of the lock), or MaxSessions - 1 other sessions were used
\* after it.  (Not MaxSessions: a look-up makes room for a session as a creation
\* does, so that a full store loses one for any request.)
RecentSessionsSurvive == {used[i].id : i \in DOMAIN used} \subseteq Stored
=============================================================================
