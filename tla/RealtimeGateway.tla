--------------------------- MODULE RealtimeGateway ---------------------------
(***************************************************************************)
(* The server side of an OpenAI Realtime voice session                      *)
(* (backend/app/voice/openai_realtime.py).  The model's tool calls and the  *)
(* buyer's transcribed words reach the server as separate HTTP requests,    *)
(* each handled by a thread of its own.  A tool call runs under the lock of *)
(* its session; an observed transcript does not, though both read and write *)
(* the session's pending enquiry.  Both call the confirmation service, so   *)
(* every handler r drives the database request r of Confirmations.          *)
(***************************************************************************)
EXTENDS Confirmations, Sequences

CONSTANTS
    CallIds,       \* identifiers the model gives its tool calls
    EnquiryCalls,  \* the calls of create_enquiry with valid arguments
    UnknownCalls,  \* the calls of a tool that is not registered
    CallPayload,   \* the normalised arguments of each, if it is an enquiry call
    MaxCompleted   \* MAX_COMPLETED_CALLS

ASSUME GatewayAssumption ==
    /\ EnquiryCalls \subseteq CallIds
    /\ UnknownCalls \subseteq CallIds \ EnquiryCalls
    /\ CallPayload \in [CallIds -> Payloads]
    /\ Nothing \notin CallIds
    /\ MaxCompleted \in Nat \ {0}

VARIABLES
    life,         \* whether the store holds the session
    owner,        \* context["user_id"] of the session
    pending,      \* pending_enquiry of the session
    completed,    \* completed_calls of the session, oldest first
    sessionLock,  \* the handler in "with session.lock"
    handler       \* what the handler of each request is doing

memory == <<life, owner, pending, completed, sessionLock>>
gatewayVars == <<memory, handler>>
allVars == <<vars, gatewayVars>>

-----------------------------------------------------------------------------

PendingEnquiry ==
    [payload : Payloads, id : ConfirmationIds, confirmed : BOOLEAN]

NoPending == [id |-> Nothing]

Answers ==
    {"answered", "not_registered", "success", "confirmation_required",
     "confirmation_not_found", "confirmation_payload_mismatch",
     "confirmation_expired", "confirmation_recorded", "cancelled", "observed",
     "raised"}

Entry == [call : CallIds, answer : Answers, number : Nat]

HandlerSteps ==
    {"idle", "lock", "compare", "decide", "prepare", "proposing", "consume",
     "consuming", "hear_confirm", "hear_cancel", "confirm", "cancel",
     "confirming", "cancelling", "done", "dead"}

Handler ==
    [step : HandlerSteps, session : Sessions \cup {Nothing},
     call : CallIds \cup {Nothing}, id : ConfirmationIds \cup {Nothing},
     answer : Answers \cup {"none"}, number : Nat]

NoHandler ==
    [step |-> "idle", session |-> Nothing, call |-> Nothing, id |-> Nothing,
     answer |-> "none", number |-> 0]

GatewayTypeOK ==
    /\ TypeOK
    /\ life \in [Sessions -> {"new", "open", "ended"}]
    /\ owner \in [Sessions -> Users \cup {Nothing}]
    /\ pending \in [Sessions -> PendingEnquiry \cup {NoPending}]
    /\ completed \in [Sessions -> Seq(Entry)]
    /\ sessionLock \in [Sessions -> Requests \cup {Nothing}]
    /\ handler \in [Requests -> Handler]

GatewayInit ==
    /\ Init
    /\ life = [s \in Sessions |-> "new"]
    /\ owner = [s \in Sessions |-> Nothing]
    /\ pending = [s \in Sessions |-> NoPending]
    /\ completed = [s \in Sessions |-> <<>>]
    /\ sessionLock = [s \in Sessions |-> Nothing]
    /\ handler = [r \in Requests |-> NoHandler]

-----------------------------------------------------------------------------
(* Helpers.                                                                 *)

SessionOf(r) == handler[r].session

PayloadOf(r) == CallPayload[handler[r].call]

HandlerAt(r, step) == handler[r].step = step

Handle(r, fields) == handler' = [handler EXCEPT ![r] = fields]

Await(r, step) == Handle(r, [handler[r] EXCEPT !.step = step])

\* The answer is ready; the response and the closing of the database session
\* are still to come.
Respond(r, answer, n) ==
    Handle(r, [handler[r] EXCEPT !.step = "done", !.answer = answer,
                                 !.number = n])

SetPending(s, p) == pending' = [pending EXCEPT ![s] = p]

Cached(s, k) == {i \in 1 .. Len(completed[s]) : completed[s][i].call = k}

Evicted(s) ==
    IF Len(completed[s]) >= MaxCompleted THEN Tail(completed[s])
                                         ELSE completed[s]

Remember(s, entries, k, answer, n) ==
    completed' = [completed EXCEPT
        ![s] = Append(entries, [call |-> k, answer |-> answer, number |-> n])]

Free(s) == sessionLock[s] = Nothing

\* Mutant: the tool call does not enter the session's lock.
AcquireNothing(s, r) == UNCHANGED sessionLock

Acquire(s, r) == sessionLock' = [sessionLock EXCEPT ![s] = r]

Release(s, r) ==
    sessionLock' = [sessionLock EXCEPT
                       ![s] = IF sessionLock[s] = r THEN Nothing ELSE @]

\* The end of an enquiry call: its answer is remembered, the lock given up.
Settle(r, answer, n) ==
    /\ Remember(SessionOf(r), Evicted(SessionOf(r)), handler[r].call, answer, n)
    /\ Release(SessionOf(r), r)
    /\ Respond(r, answer, n)

\* Mutant: an exception leaves the lock held.
RaiseKeepsLock(r) ==
    /\ Respond(r, "raised", 0)
    /\ UNCHANGED <<pending, completed, sessionLock>>

\* An exception leaves the lock and is answered with status 500.
Raise(r) ==
    /\ Release(SessionOf(r), r)
    /\ Respond(r, "raised", 0)
    /\ UNCHANGED <<pending, completed>>

-----------------------------------------------------------------------------
(* The session store: a session is created, and leaves the store when it is *)
(* deleted, evicted or too old.  Handlers that hold it go on.               *)

\* Mutant: the session's context does not name the user.
OpenAnonymous(s, u) ==
    /\ life[s] = "new"
    /\ life' = [life EXCEPT ![s] = "open"]
    /\ UNCHANGED <<vars, owner, pending, completed, sessionLock, handler>>

OpenSession(s, u) ==
    /\ life[s] = "new"
    /\ life' = [life EXCEPT ![s] = "open"]
    /\ owner' = [owner EXCEPT ![s] = u]
    /\ UNCHANGED <<vars, pending, completed, sessionLock, handler>>

CloseSession(s) ==
    /\ life[s] = "open"
    /\ life' = [life EXCEPT ![s] = "ended"]
    /\ UNCHANGED <<vars, owner, pending, completed, sessionLock, handler>>

-----------------------------------------------------------------------------
(* execute_realtime_tool.                                                   *)

ToolArrive(r, s, k) ==
    /\ life[s] = "open"
    /\ handler[r] = NoHandler /\ request[r] = NoRequest
    /\ Handle(r, [NoHandler EXCEPT !.step = "lock", !.session = s, !.call = k])
    /\ UNCHANGED <<vars, memory>>

ToolCached(r) ==
    LET s == SessionOf(r) IN
    /\ HandlerAt(r, "lock") /\ Free(s)
    /\ \E i \in Cached(s, handler[r].call) :
          Respond(r, completed[s][i].answer, completed[s][i].number)
    /\ UNCHANGED <<vars, memory>>

\* The answer is remembered without the eviction.
ToolUnknown(r) ==
    LET s == SessionOf(r) IN
    /\ HandlerAt(r, "lock") /\ Free(s)
    /\ handler[r].call \in UnknownCalls
    /\ Cached(s, handler[r].call) = {}
    /\ Remember(s, completed[s], handler[r].call, "not_registered", 0)
    /\ Respond(r, "not_registered", 0)
    /\ UNCHANGED <<vars, life, owner, pending, sessionLock>>

\* The other tools, and create_enquiry with invalid arguments.
ToolOther(r) ==
    LET s == SessionOf(r) IN
    /\ HandlerAt(r, "lock") /\ Free(s)
    /\ handler[r].call \notin UnknownCalls \cup EnquiryCalls
    /\ Cached(s, handler[r].call) = {}
    /\ Remember(s, Evicted(s), handler[r].call, "answered", 0)
    /\ Respond(r, "answered", 0)
    /\ UNCHANGED <<vars, life, owner, pending, sessionLock>>

ToolEnquiry(r) ==
    LET s == SessionOf(r) IN
    /\ HandlerAt(r, "lock") /\ Free(s)
    /\ handler[r].call \in EnquiryCalls
    /\ Cached(s, handler[r].call) = {}
    /\ Acquire(s, r)
    /\ Await(r, "compare")
    /\ UNCHANGED <<vars, life, owner, pending, completed>>

\* Is the pending enquiry the one of this call?
PendingSame(r) ==
    /\ pending[SessionOf(r)] # NoPending
    /\ pending[SessionOf(r)].payload = PayloadOf(r)

ToolCompare(r) ==
    /\ HandlerAt(r, "compare")
    /\ Await(r, IF PendingSame(r) THEN "decide" ELSE "prepare")
    /\ UNCHANGED <<vars, memory>>

\* The pending enquiry is read again: a transcript may have cleared it.
ToolDecide(r) ==
    LET s == SessionOf(r) IN
    /\ HandlerAt(r, "decide")
    /\ \/ pending[s] = NoPending /\ Raise(r)
       \/ /\ pending[s] # NoPending /\ ~pending[s].confirmed
          /\ Settle(r, "confirmation_required", 0)
          /\ UNCHANGED pending
       \/ /\ pending[s] # NoPending /\ pending[s].confirmed
          /\ Handle(r, [handler[r] EXCEPT !.step = "consume",
                                          !.id = pending[s].id])
          /\ UNCHANGED <<pending, completed, sessionLock>>
    /\ UNCHANGED <<vars, life, owner>>

ToolPrepare(r) ==
    LET s == SessionOf(r) IN
    /\ HandlerAt(r, "prepare")
    /\ \/ PrepareReuse(r, owner[s], s, PayloadOf(r))
       \/ PrepareMiss(r, owner[s], s, PayloadOf(r))
    /\ Await(r, "proposing")
    /\ UNCHANGED memory

\* Bound: once the identifiers are used up, the insert fails.
ToolNotPrepared(r) ==
    /\ HandlerAt(r, "prepare")
    /\ \A c \in ConfirmationIds : ~Unissued(c)
    /\ Raise(r)
    /\ UNCHANGED <<vars, life, owner>>

ToolProposed(r) ==
    /\ HandlerAt(r, "proposing") /\ request[r].step = "done"
    /\ SetPending(SessionOf(r), [payload |-> PayloadOf(r), id |-> request[r].id,
                                 confirmed |-> FALSE])
    /\ Settle(r, "confirmation_required", 0)
    /\ UNCHANGED <<vars, life, owner>>

ToolConsume(r) ==
    /\ HandlerAt(r, "consume")
    /\ ConsumeBegin(r, owner[SessionOf(r)], handler[r].id, PayloadOf(r))
    /\ Await(r, "consuming")
    /\ UNCHANGED memory

\* create_enquiry maps both outcomes that name an enquiry to "success".
ToolConsumed(r) ==
    /\ HandlerAt(r, "consuming") /\ request[r].step = "done"
    /\ \/ /\ request[r].result \in {"created", "idempotent_replay"}
          /\ SetPending(SessionOf(r), NoPending)
          /\ Settle(r, "success", request[r].number)
       \/ /\ request[r].result \in
                {"confirmation_not_found", "confirmation_payload_mismatch",
                 "confirmation_required", "confirmation_expired"}
          /\ Settle(r, request[r].result, 0)
          /\ UNCHANGED pending
       \/ request[r].result = "raised" /\ Raise(r)
    /\ UNCHANGED <<vars, life, owner>>

-----------------------------------------------------------------------------
(* observe_user_transcript, for words that match one of its two patterns.   *)

ObserveArrive(r, s, heard) ==
    /\ life[s] = "open"
    /\ handler[r] = NoHandler /\ request[r] = NoRequest
    /\ IF pending[s] = NoPending
       THEN Handle(r, [NoHandler EXCEPT !.step = "done", !.session = s,
                         !.answer = "observed"])
       ELSE Handle(r, [NoHandler EXCEPT !.step = heard, !.session = s])
    /\ UNCHANGED <<vars, memory>>

ObserveRead(r) ==
    LET s == SessionOf(r) IN
    /\ HandlerAt(r, "hear_confirm") \/ HandlerAt(r, "hear_cancel")
    /\ IF pending[s] = NoPending
       THEN Respond(r, "raised", 0)
       ELSE Handle(r, [handler[r] EXCEPT
                         !.step = IF @ = "hear_confirm" THEN "confirm"
                                                        ELSE "cancel",
                         !.id = pending[s].id])
    /\ UNCHANGED <<vars, memory>>

ObserveConfirm(r) ==
    /\ HandlerAt(r, "confirm")
    /\ ConfirmRead(r, owner[SessionOf(r)], handler[r].id)
    /\ Await(r, "confirming")
    /\ UNCHANGED memory

ObserveConfirmed(r) ==
    LET s == SessionOf(r) IN
    /\ HandlerAt(r, "confirming") /\ request[r].step = "done"
    /\ \/ /\ request[r].result = "not_confirmed"
          /\ SetPending(s, NoPending)
          /\ Respond(r, "confirmation_expired", 0)
       \/ /\ request[r].result = "confirmed" /\ pending[s] = NoPending
          /\ Respond(r, "raised", 0)
          /\ UNCHANGED pending
       \/ /\ request[r].result = "confirmed" /\ pending[s] # NoPending
          /\ SetPending(s, [pending[s] EXCEPT !.confirmed = TRUE])
          /\ Respond(r, "confirmation_recorded", 0)
    /\ UNCHANGED <<vars, life, owner, completed, sessionLock>>

ObserveCancel(r) ==
    /\ HandlerAt(r, "cancel")
    /\ CancelRead(r, owner[SessionOf(r)], handler[r].id)
    /\ Await(r, "cancelling")
    /\ UNCHANGED memory

\* Whatever cancel_confirmation returned.
ObserveCancelled(r) ==
    /\ HandlerAt(r, "cancelling") /\ request[r].step = "done"
    /\ SetPending(SessionOf(r), NoPending)
    /\ Respond(r, "cancelled", 0)
    /\ UNCHANGED <<vars, life, owner, completed, sessionLock>>

-----------------------------------------------------------------------------

\* The next statement of the service function the handler has called.
Service(r) ==
    /\ ~HandlerAt(r, "dead")
    /\ \/ PrepareInsert(r)
       \/ ConfirmCheck(r) \/ ConfirmExpire(r) \/ ConfirmWrite(r)
       \/ CancelWrite(r)
       \/ ConsumeLock(r) \/ ConsumeExamine(r) \/ ConsumeExpire(r)
       \/ ConsumeNumber(r) \/ ConsumeCommit(r) \/ ConsumeRollback(r)
       \/ ConsumeLookup(r)
    /\ UNCHANGED gatewayVars

\* Outcomes of the service that were committed: the answer to the commit, or the
\* refresh after it, may still be lost.
Committed ==
    {"prepared", "confirmed", "not_confirmed", "cancelled", "created",
     "confirmation_expired"}

\* The connection to the database is lost in the middle of a service function,
\* before its commit or after it.
Fault(r) ==
    /\ ~HandlerAt(r, "dead")
    /\ \/ Abort(r)
       \/ ~HandlerAt(r, "done") /\ request[r].result \in Committed /\ Return(r)
    /\ Raise(r)
    /\ UNCHANGED <<life, owner>>

\* The response is sent and the database session closed.
Answer(r) ==
    /\ HandlerAt(r, "done")
    /\ Handle(r, NoHandler)
    /\ \/ Return(r)
       \/ request[r] = NoRequest /\ UNCHANGED vars
    /\ UNCHANGED memory

\* The process dies with every session and handler; the database notices the
\* connections it has lost one by one.
Crash ==
    /\ \E s \in Sessions : life[s] = "open"
    /\ life' = [s \in Sessions |-> IF life[s] = "open" THEN "ended" ELSE life[s]]
    /\ sessionLock' = [s \in Sessions |-> Nothing]
    /\ pending' = [s \in Sessions |-> NoPending]
    /\ completed' = [s \in Sessions |-> <<>>]
    /\ handler' = [r \in Requests |->
                      IF handler[r] = NoHandler
                      THEN NoHandler ELSE [NoHandler EXCEPT !.step = "dead"]]
    /\ UNCHANGED <<vars, owner>>

\* Mutant: the database keeps the locks of a connection that is gone.
DisconnectKeepsLocks(r) ==
    /\ HandlerAt(r, "dead")
    /\ Handle(r, NoHandler)
    /\ Become(r, NoRequest)
    /\ UNCHANGED <<tables, locks, now, memory>>

Disconnect(r) ==
    /\ HandlerAt(r, "dead")
    /\ Handle(r, NoHandler)
    /\ \/ Abort(r) \/ Return(r)
       \/ request[r] = NoRequest /\ UNCHANGED vars
    /\ UNCHANGED memory

GatewayArrive(r) ==
    \E s \in Sessions :
        \/ \E k \in CallIds : ToolArrive(r, s, k)
        \/ \E heard \in {"hear_confirm", "hear_cancel"} :
              ObserveArrive(r, s, heard)

GatewayAdvance(r) ==
    \/ ToolCached(r) \/ ToolUnknown(r) \/ ToolOther(r) \/ ToolEnquiry(r)
    \/ ToolCompare(r) \/ ToolDecide(r)
    \/ ToolPrepare(r) \/ ToolNotPrepared(r) \/ ToolProposed(r)
    \/ ToolConsume(r) \/ ToolConsumed(r)
    \/ ObserveRead(r)
    \/ ObserveConfirm(r) \/ ObserveConfirmed(r)
    \/ ObserveCancel(r) \/ ObserveCancelled(r)
    \/ Service(r) \/ Answer(r) \/ Disconnect(r)

GatewayNext ==
    \/ \E s \in Sessions : CloseSession(s) \/ \E u \in Users : OpenSession(s, u)
    \/ \E r \in Requests : GatewayArrive(r) \/ GatewayAdvance(r) \/ Fault(r)
    \/ Crash
    \/ Tick /\ UNCHANGED gatewayVars

GatewaySpec == GatewayInit /\ [][GatewayNext]_allVars

\* Handlers keep running, and whoever waits for a lock gets it in the end.
FairGatewaySpec ==
    GatewaySpec /\ \A r \in Requests : SF_allVars(GatewayAdvance(r))

-----------------------------------------------------------------------------
(* Properties.                                                              *)

\* The gateway uses the confirmation service as its functions are meant to be
\* used: every step of a handler is a step of the service or leaves it alone.
\* (The same as Spec, in the order that is the cheaper one to evaluate.)
UsesTheService == Init /\ [][UNCHANGED vars \/ Next]_vars

\* The row of confirmation c is one of session s and its owner, for payload p.
Fits(c, s, p) ==
    LET row == confirmations[c] IN
    /\ c \in ConfirmationIds /\ row # NoRow
    /\ row.session = s /\ row.user = owner[s] /\ row.payload = p

\* Enquiry n of the owner of s is for the details of call k, and was confirmed
\* in s.
Names(s, k, n) ==
    \E e \in enquiries :
        /\ e.number = n /\ e.buyer = owner[s]
        /\ e.payload = CallPayload[k]
        /\ confirmations[e.confirmation].session = s

\* Success, fresh or out of the cache, is an enquiry of the session's owner for
\* exactly the details of the call, confirmed in this very session.
SuccessIsTheEnquiry ==
    /\ \A r \in Requests :
          handler[r].answer = "success"
              => Names(SessionOf(r), handler[r].call, handler[r].number)
    /\ \A s \in Sessions : \A i \in 1 .. Len(completed[s]) :
          completed[s][i].answer = "success"
              => Names(s, completed[s][i].call, completed[s][i].number)

\* No more calls than are remembered.
NothingIsEvicted ==
    IsFiniteSet(CallIds) /\ Cardinality(CallIds) <= MaxCompleted

\* A call that is sent again, even while the first is still running, gets the
\* first one's answer as long as nothing is evicted.
RetriesAgree ==
    NothingIsEvicted =>
        \A q, r \in Requests :
            /\ handler[q].call = handler[r].call /\ handler[r].call # Nothing
            /\ handler[q].session = handler[r].session
            /\ handler[q].answer \notin {"none", "raised"}
            /\ handler[r].answer \notin {"none", "raised"}
            => /\ handler[q].answer = handler[r].answer
               /\ handler[q].number = handler[r].number

\* What the session holds in memory is what the database holds: the pending
\* enquiry is a row of this session and its owner, with these details.
PendingIsPrepared ==
    \A s \in Sessions :
        pending[s] # NoPending => Fits(pending[s].id, s, pending[s].payload)

\* Every handler answers: the session lock, held over calls of the service, and
\* the row locks, held until the response, never wait for one another.
HandlersAnswer ==
    \A r \in Requests : ~HandlerAt(r, "idle") ~> HandlerAt(r, "idle")

\* Handler r waits for the lock of its session, which q has.
WaitsForSession(r, q) == HandlerAt(r, "lock") /\ sessionLock[SessionOf(r)] = q

\* The three kinds of locks are taken in one order, session, row, counter: who
\* waits for a session has no lock that anybody waits for, and who has a session
\* is in the middle of its tool call and waits for rows and counters only.
NoHandlerDeadlock ==
    /\ NoCircularWait
    /\ \A r, q \in Requests :
          WaitsForSession(r, q) =>
              /\ handler[q].step \notin {"idle", "lock", "done", "dead"}
              /\ \A p \in Requests : ~WaitsForSession(p, r) /\ ~WaitsFor(p, r)

\* "The enquiry was cancelled and nothing was created": while a transcript is
\* being answered with "cancelled", its confirmation has yielded no enquiry.
CancelledMeansNotCreated ==
    \A r \in Requests :
        handler[r].answer = "cancelled" => EnquiriesOf(handler[r].id) = {}
=============================================================================
