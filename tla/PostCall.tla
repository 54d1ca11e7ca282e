------------------------------- MODULE PostCall -------------------------------
(***************************************************************************)
(* The life of a call (backend/app/services/calls.py) from its first event  *)
(* to its summary.  A carrier reports the states of a call in events that   *)
(* may be repeated, reordered or left out (twilio_event in                  *)
(* backend/app/main.py); a user simulates a call in one request             *)
(* (simulate_call).  When the call has ended its summary is enqueued, or    *)
(* written at once if Redis does not answer.  The steps of a handler are    *)
(* its transactions, and the process may die between any two.              *)
(***************************************************************************)
EXTENDS SummaryQueue, FiniteSets

CONSTANTS
    CarrierCalls,  \* the calls a carrier reports on; the others are simulated
    Requests,      \* requests in the API process
    MaxRequests,   \* bound: requests in a behaviour
    NoCall         \* a call that has no row

VARIABLES
    call,     \* the row of each call
    trail,    \* its call.* audit events, oldest first
    handler,  \* what each request is doing
    arrived   \* bound: the requests so far

callVars == <<call, trail, handler, arrived>>
allVars == <<queueVars, callVars>>

-----------------------------------------------------------------------------
(* The states of a call.                                                    *)

StatusOrder ==
    <<"queued", "ringing", "active", "transferred", "completed", "failed">>

States == Range(StatusOrder)

Terminal == {"completed", "failed"}

AllowedTransitions ==
    [queued      |-> {"ringing", "failed"},
     ringing     |-> {"active", "failed"},
     active      |-> {"transferred", "completed", "failed"},
     transferred |-> {"completed", "failed"},
     completed   |-> {},
     failed      |-> {}]

\* What an event of the carrier may report; a transfer is not among them.
Reported == States \ {"transferred"}

\* The routes found in n rounds of the breadth-first search from a state, in
\* the order in which they are found, and the queue after these rounds.
Search(a) ==
    LET round[n \in 0 .. Cardinality(States)] ==
            IF n = 0 THEN [queue |-> << <<a>> >>, found |-> << <<a>> >>]
            ELSE LET before == round[n - 1]
                     seen == {Last(before.found[i]) : i \in DOMAIN before.found}
                     route == Head(before.queue)
                     next == SelectSeq(StatusOrder, LAMBDA s :
                                s \in AllowedTransitions[Last(route)] \ seen)
                     routes == [i \in DOMAIN next |-> Append(route, next[i])]
                 IN IF before.queue = <<>> THEN before
                    ELSE [queue |-> Tail(before.queue) \o routes,
                          found |-> before.found \o routes]
    IN  Range(round[Cardinality(States)].found)

NoRoute == <<>>

\* transition_path, with the state it starts from: never empty if there is one.
Routes ==
    [a \in States |-> [b \in States |->
        IF \E r \in Search(a) : Last(r) = b
        THEN CHOOSE r \in Search(a) : Last(r) = b
        ELSE NoRoute]]

-----------------------------------------------------------------------------

ASSUME CallAssumption ==
    /\ CarrierCalls \subseteq Calls
    /\ MaxRequests \in Nat

Row == [status : States, started : BOOLEAN, ended : BOOLEAN]

ASSUME NoCallAssumption == NoCall \notin Row \cup States

\* An audit event: from_status, inferred_states, and the state in its type.
Event == [from : States, inferred : Seq(States), to : States]

Answers == {"accepted", "ignored", "created", "replayed", "raised"}

HandlerSteps == {"idle", "find", "insert", "advance", "enqueue", "done"}

Handler ==
    [step : HandlerSteps, call : Calls, target : States, seen : States,
     answer : Answers \cup {"none"}]

Idle == [step |-> "idle"]

CallTypeOK ==
    /\ QueueTypeOK
    /\ call \in [Calls -> Row \cup {NoCall}]
    /\ trail \in [Calls -> Seq(Event)]
    /\ handler \in [Requests -> Handler \cup {Idle}]
    /\ arrived \in 0 .. MaxRequests

CallInit ==
    /\ QueueInit
    /\ call = [c \in Calls |-> NoCall]
    /\ trail = [c \in Calls |-> <<>>]
    /\ handler = [r \in Requests |-> Idle]
    /\ arrived = 0

HandlerAt(r, step) == handler[r].step = step

CallOf(r) == handler[r].call

OfCarrier(r) == CallOf(r) \in CarrierCalls

Handle(r, fields) == handler' = [handler EXCEPT ![r] = fields]

Await(r, step, seen) ==
    Handle(r, [handler[r] EXCEPT !.step = step, !.seen = seen])

Respond(r, answer) ==
    Handle(r, [handler[r] EXCEPT !.step = "done", !.answer = answer])

\* Mutant: the handler is not a coroutine; requests run in threads.
NoEventLoop(r) == TRUE

\* twilio_event awaits the form of its request and nothing after that: no two
\* of its calls are past that point at once.
HasEventLoop(r) ==
    \A q \in Requests \ {r} :
        handler[q].step \in {"insert", "advance", "enqueue"} => ~OfCarrier(q)

-----------------------------------------------------------------------------
(* The requests.                                                            *)

Arrive(r, c, s) ==
    /\ HandlerAt(r, "idle") /\ arrived < MaxRequests
    /\ arrived' = arrived + 1
    /\ Handle(r, [step |-> "find", call |-> c, target |-> s, seen |-> "queued",
                  answer |-> "none"])
    /\ UNCHANGED <<queueVars, call, trail>>

CarrierEvent(r) == \E c \in CarrierCalls, s \in Reported : Arrive(r, c, s)

Simulate(r) == \E c \in Calls \ CarrierCalls : Arrive(r, c, "active")

\* The row of the call is looked up; a simulated call that has one is a replay.
Find(r) ==
    LET row == call[CallOf(r)] IN
    /\ HandlerAt(r, "find")
    /\ OfCarrier(r) => HasEventLoop(r)
    /\ \/ row = NoCall /\ Await(r, "insert", "queued")
       \/ row # NoCall /\ OfCarrier(r) /\ Await(r, "advance", row.status)
       \/ row # NoCall /\ ~OfCarrier(r) /\ Respond(r, "replayed")
    /\ UNCHANGED <<queueVars, call, trail, arrived>>

NewCall == [status |-> "queued", started |-> FALSE, ended |-> FALSE]

\* Two simulations of a call may come here; the constraint on the key makes
\* the second one a replay.
Insert(r) ==
    /\ HandlerAt(r, "insert")
    /\ \/ /\ call[CallOf(r)] = NoCall
          /\ call' = [call EXCEPT ![CallOf(r)] = NewCall]
          /\ Await(r, "advance", "queued")
       \/ /\ call[CallOf(r)] # NoCall
          /\ IF OfCarrier(r) THEN Await(r, "advance", call[CallOf(r)].status)
                             ELSE Respond(r, "replayed")
          /\ UNCHANGED call
    /\ UNCHANGED <<queueVars, trail, arrived>>

\* The row after the states of a route, its first one left out.
Advanced(row, route) ==
    LET steps == Range(Tail(route)) IN
    [status  |-> Last(route),
     started |-> row.started \/ "active" \in steps,
     ended   |-> row.ended \/ steps \cap Terminal # {}]

\* Mutant: the summary is asked for whatever the state.
ContinueAlways(r) ==
    Await(r, "enqueue", handler[r].target)

\* After an advance: a simulation goes on, an ended call is summarised.
Continue(r) ==
    LET target == handler[r].target IN
    IF target \in Terminal THEN Await(r, "enqueue", target)
    ELSE IF OfCarrier(r) THEN Respond(r, "accepted")
    ELSE Handle(r, [handler[r] EXCEPT !.target = "completed", !.seen = target])

\* Mutant: the reported state is written without looking for a route.
AdvanceUnchecked(r) ==
    LET c == CallOf(r) target == handler[r].target IN
    /\ HandlerAt(r, "advance")
    /\ call' = [call EXCEPT ![c] = Advanced(@, <<handler[r].seen, target>>)]
    /\ trail' = [trail EXCEPT ![c] = Append(@,
          [from |-> handler[r].seen, inferred |-> <<>>, to |-> target])]
    /\ Continue(r)
    /\ UNCHANGED <<queueVars, arrived>>

\* advance_call: the status it starts from is the one the handler has read.
Advance(r) ==
    LET c == CallOf(r)
        seen == handler[r].seen
        target == handler[r].target
        route == Routes[seen][target] IN
    /\ HandlerAt(r, "advance")
    /\ \/ /\ seen = target
          /\ Continue(r)
          /\ UNCHANGED <<call, trail>>
       \/ /\ route = NoRoute
          /\ Respond(r, "ignored")
          /\ UNCHANGED <<call, trail>>
       \/ /\ route # NoRoute /\ seen # target
          /\ call' = [call EXCEPT ![c] = Advanced(@, route)]
          /\ trail' = [trail EXCEPT ![c] = Append(@,
                [from |-> seen, inferred |-> Front(Tail(route)), to |-> target])]
          /\ Continue(r)
    /\ UNCHANGED <<queueVars, arrived>>

Final(r) == IF OfCarrier(r) THEN "accepted" ELSE "created"

\* enqueue_summary: the job is pushed, or Redis fails and the summary is
\* written here.  A push that times out may have been done all the same.
Enqueue(r) ==
    LET c == CallOf(r) IN
    /\ HandlerAt(r, "enqueue")
    /\ \/ Push(c) /\ UNCHANGED <<processing, dead, summary>>
       \/ summary' = summary \cup {c} /\ UNCHANGED lists
       \/ Push(c) /\ summary' = summary \cup {c} /\ UNCHANGED <<processing, dead>>
    /\ Respond(r, Final(r))
    /\ UNCHANGED <<worker, forgotten, crashes, call, trail, arrived>>

Answer(r) ==
    /\ HandlerAt(r, "done")
    /\ Handle(r, Idle)
    /\ UNCHANGED <<queueVars, call, trail, arrived>>

\* The calls a handler has still to bring to their end, or to enqueue.
Owed(r) ==
    IF \/ HandlerAt(r, "enqueue")
       \/ HandlerAt(r, "advance") /\ ~OfCarrier(r)
    THEN {CallOf(r)} ELSE {}

\* The database cannot be reached; for a summary, neither can Redis, or it
\* does not say that it has pushed the job.  A job that was pushed is not lost.
Fault(r) ==
    /\ \E step \in {"find", "insert", "advance", "enqueue"} : HandlerAt(r, step)
    /\ OfCarrier(r) => HasEventLoop(r)
    /\ \/ forgotten' = forgotten \cup Owed(r) /\ UNCHANGED waiting
       \/ HandlerAt(r, "enqueue") /\ Push(CallOf(r)) /\ UNCHANGED forgotten
    /\ Respond(r, "raised")
    /\ UNCHANGED <<processing, dead, worker, summary, crashes, call, trail, arrived>>

\* The API process dies with its requests.
CrashApi ==
    /\ crashes < MaxCrashes
    /\ \E r \in Requests : ~HandlerAt(r, "idle")
    /\ crashes' = crashes + 1
    /\ forgotten' = forgotten \cup UNION {Owed(r) : r \in Requests}
    /\ handler' = [r \in Requests |-> Idle]
    /\ UNCHANGED <<lists, worker, summary, call, trail, arrived>>

HandlerStep(r) ==
    \/ Find(r) \/ Insert(r) \/ Advance(r)
    \/ Enqueue(r) \/ Fault(r) \/ Answer(r)

CallNext ==
    \/ \E r \in Requests : CarrierEvent(r) \/ Simulate(r) \/ HandlerStep(r)
    \/ CrashApi
    \/ \E w \in Workers :
          (WorkerStep(w) \/ CrashWorker(w)) /\ UNCHANGED callVars

CallSpec == CallInit /\ [][CallNext]_allVars

\* The API and the workers run, and are started again when they have died.
FairCallSpec ==
    /\ CallSpec
    /\ \A r \in Requests : SF_allVars(HandlerStep(r))
    /\ \A w \in Workers : WF_allVars(WorkerStep(w) /\ UNCHANGED callVars)

-----------------------------------------------------------------------------
(* Properties.                                                              *)

\* Sequences of states each of which the code allows after the one before.
Walks ==
    UNION {{s \in [1 .. n -> States] :
               \A i \in 1 .. n - 1 : s[i + 1] \in AllowedTransitions[s[i]]} :
           n \in 1 .. Cardinality(States)}

\* An audit event tells a shortest way from the state before to the reported one.
TellsShortest(e) ==
    LET told == <<e.from>> \o e.inferred \o <<e.to>> IN
    /\ told \in Walks
    /\ \A walk \in Walks :
          Head(walk) = e.from /\ Last(walk) = e.to => Len(told) <= Len(walk)

\* The audit events of a call, in order, are the whole story of its row: they
\* lead from "queued" to its status with none missing and none out of order,
\* whatever events arrived; it has started iff it was active, and ended iff the
\* last state is terminal.
TrailIsTheStory ==
    \A c \in Calls :
        /\ \A i \in DOMAIN trail[c] :
              /\ TellsShortest(trail[c][i])
              /\ trail[c][i].from =
                    IF i = 1 THEN "queued" ELSE trail[c][i - 1].to
        /\ call[c] = NoCall => trail[c] = <<>>
        /\ call[c] # NoCall =>
              /\ call[c].status =
                    IF trail[c] = <<>> THEN "queued" ELSE Last(trail[c]).to
              /\ call[c].ended = (call[c].status \in Terminal)
              /\ call[c].started =
                    \E i \in DOMAIN trail[c] :
                        "active" \in Range(trail[c][i].inferred) \cup {trail[c][i].to}

\* The states in which a call may be found after each state.
Later ==
    [a \in States |->
        {Last(walk) : walk \in {w \in Walks : Head(w) = a /\ Len(w) > 1}}]

\* The calls as records: the status of the row, NoCall as long as there is none.
Record == INSTANCE CallRecord WITH
    First      <- "queued",
    NoState    <- NoCall,
    state      <- [c \in Calls |->
                      IF call[c] = NoCall THEN NoCall ELSE call[c].status],
    summarised <- summary

\* The handlers of repeated, reordered and concurrent events, the simulations and
\* the workers, whichever of them die, move a call along its life cycle only,
\* never back and never out of its end, and summarise it only there.
ImplementsRecord == Record!Spec

\* "Report that nothing was applied rather than echoing a status change that
\* did not happen": an accepted event is in the past of its call, an ignored one
\* can never be in its future.
AnswersAreTrue ==
    \A r \in Requests :
        HandlerAt(r, "done") =>
            LET c == CallOf(r) target == handler[r].target IN
            /\ handler[r].answer = "accepted" =>
                  Routes[target][call[c].status] # NoRoute
            /\ handler[r].answer = "ignored" =>
                  Routes[call[c].status][target] = NoRoute
            /\ handler[r].answer = "created" =>
                  call[c].status = "completed" /\ call[c].ended

\* A call is summarised, or its summary asked for, only when it has ended.
OnlyEndedAreSummarised ==
    \A c \in Calls :
        c \in summary \/ HasJob(c) => call[c] # NoCall /\ call[c].ended

Running(c) == \E r \in Requests : Owed(r) = {c}

\* A call that has ended, or is simulated, is summarised, has a job or a dead
\* letter, or a handler that sees to it; otherwise a process died, or lost both
\* stores, in one of the two windows the code leaves open.
NoCallForgotten ==
    \A c \in Calls :
        call[c] # NoCall /\ (call[c].ended \/ c \notin CarrierCalls)
            => c \in summary \/ HasJob(c) \/ Running(c) \/ c \in forgotten

DeadLetter(c) == \E i \in DOMAIN dead : dead[i].call = c

\* A call that has ended is summarised in the end or lies with the dead letters,
\* whichever workers die on the way and whatever they were doing, unless it was
\* forgotten.
EndedIsSettled ==
    \A c \in Calls :
        (call[c] # NoCall /\ call[c].ended)
            ~> (c \in summary \/ DeadLetter(c) \/ c \in forgotten)

-----------------------------------------------------------------------------
(* What the proofs take from TLC about the search: Routes depends on no      *)
(* constant, and TLC evaluates it, and these three facts about it.           *)

\* transition_path returns a shortest walk from one state to another, if there
\* is one.
ASSUME RoutesAreShortest ==
    \A a, b \in States :
        /\ Routes[a][b] # NoRoute =>
              /\ Routes[a][b] \in Walks
              /\ Head(Routes[a][b]) = a /\ Last(Routes[a][b]) = b
        /\ \A walk \in Walks :
              Head(walk) = a /\ Last(walk) = b =>
                  Routes[a][b] # NoRoute /\ Len(Routes[a][b]) <= Len(walk)

\* A state that can be reached from one that can be reached can be reached, and
\* every state from itself.
ASSUME RoutesCompose ==
    \A a, b, c \in States :
        /\ Routes[a][a] # NoRoute
        /\ Routes[a][b] # NoRoute /\ Routes[b][c] # NoRoute
              => Routes[a][c] # NoRoute

\* A simulated call can become active, and then be completed.
ASSUME SimulationHasRoutes ==
    /\ Routes["queued"]["active"] # NoRoute
    /\ Routes["active"]["completed"] # NoRoute
=============================================================================
