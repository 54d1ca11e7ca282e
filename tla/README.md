# TradeVoice: a formal model

TLA+ modules, TLC configurations and TLAPS proofs kept beside the TradeVoice
code (`src/`). They state what the control plane of the voice agent promises
(nothing is written to the business tables that the buyer did not confirm,
everything is written once and numbered in sequence) and check it against the
code's own steps: the statements it sends to the database, what it reads and
writes in the memory of its process, and the locks it takes.

## 1. The system

A browser talks to one FastAPI process. Synchronous routes run in threads, each
request with a database session of its own; asynchronous routes run on the event
loop. PostgreSQL holds the business tables (SQLite in development), Redis the
queue of call summaries, which a separate worker process serves.

| Component | Code (under `src/backend/app` unless a path says otherwise) | State | Operations | Hard behaviour |
|---|---|---|---|---|
| Confirmations and enquiries | `services/enquiries.py`, `models.py`, `database.py` | tables `confirmations`, `enquiries`, `workspace_counters`, `audit_events`; row locks of open transactions | prepare, confirm, cancel, consume | reads without a lock written back later, row locks, constraints, rollback, expiry, requests that die |
| Realtime gateway | `voice/openai_realtime.py`, `tools/enquiries.py`, routes in `main.py` | per session: pending enquiry, remembered answers, a lock | tool call, observed transcript, start and end of a session | transcripts run without the lock, repeated calls, cache eviction, process restart |
| Session store | `voice/openai_realtime.py:68-112` | ordered map of sessions, last use | create, get, delete, prune | bound, least recently used order, age |
| Mock conversation engine | `voice/mock.py`, `main.py:405-436` | per socket: pending enquiry, pending search, slots, a database session | one step per message | expiry and cancellation in mid-dialogue, one long-lived database session, questions that overtake one another |
| Language understanding | `voice/nlu.py` | none | classify, extract_enquiry, extract_search_slots | numbers in groups, markers inside names, terse answers, order of the rules |
| Calls and carrier webhook | `services/calls.py`, `providers/twilio.py`, `main.py:271-351` | table `calls` and its audit events | create, advance, carrier event | omitted, repeated and reordered events, crash between commits |
| Summaries | `services/summaries.py`, `worker.py` | three Redis lists, `calls.summary` | enqueue, process, retry, restore | crash between two commands, Redis unavailable |
| Rate limiter | `rate_limit.py` | timestamps by key | check, sweep | clock read before the lock, keys that are never asked for again |
| Support requests | `tools/support.py` | table `support_requests`, counter | request | shares the counter's row lock |
| Authentication, HTTP, tools, observability, configuration, seed | `auth.py`, `main.py`, `tools/`, ... | none of their own | | |
| Frontend voice client | `src/frontend/src/voice/openaiRealtime.ts`, `components/VoicePanel.tsx` | per client: microphone, connection, session identifier, calls processed; per panel: its client, what it shows | start, end, close, transcript, tool call | closed during any await of `connect`, late answers, order of posted transcripts and calls |
| Frontend pages | `src/frontend/src` | what is shown | | |

They interact as follows. A tool call or a transcript of the realtime session,
and a message of the mock conversation, call the confirmation service in their
own database session. Tool calls and transcripts of one session share its
in-memory state. Every request of a voice session first looks it up in the
session store, and the limited routes ask the rate limiter. Requests of all buyers of a workspace share the workspace's
counter row, for enquiries and for support requests. The browser's client posts
the transcripts and tool calls that the provider sends it. A call that has ended is put on the summary queue by the request
that ended it; the worker writes the summary into the same `calls` row.

What makes each correct is listed as hazards in `PROJECT.json`, each at the line
where it bites, with the properties that would notice.

## 2. Modules

| Module | What it is |
|---|---|
| `Confirmations` | the four service functions, one action per database statement, and their properties |
| `ApprovedWrites` | what the confirmation service promises, as a ledger: propose, approve, write |
| `ConfirmationsProofs` | the inductive invariant, type correctness, safety, what a client may rely on, freedom from deadlock |
| `ConfirmationsLedgerProofs` | refinement of `ApprovedWrites`, the audit trail |
| `ConfirmationsLockProofs` | what the row locks guarantee |
| `RealtimeGateway` | tool calls and transcripts over `Confirmations` |
| `ReadBack` | `RealtimeGateway` with what the buyer can have heard |
| `CallRecord` | what the calls promise their readers: a state that moves along the life cycle only, a summary at its end |
| `SummaryQueue` | the Redis lists of summary jobs and the worker |
| `PostCall` | carrier events and simulated calls over `SummaryQueue` |
| `NLU` | language understanding, as functions of a sequence of words |
| `Phrases` | phrases generated together with their meaning, as the reference for `NLU` |
| `Dialogue` | the mock conversation over `Confirmations` and `NLU`, and support requests |
| `SessionStore` | the bounded map of voice sessions |
| `RateLimiter` | the sliding windows |
| `Admission` | the routes' requests over `SessionStore` and `RateLimiter` |
| `VoiceClient` | the browser's realtime client and its panel |
| `RealtimeGatewayProofs`, `DialogueProofs`, `PostCallProofs`, `VoiceClientProofs`, `AdmissionProofs` | the inductive invariant of each of these, its safety properties, and for the first two that they are clients of `Confirmations` |
| `MCConfirmations`, `MCRealtimeGateway`, `MCReadBack`, `MCPostCall`, `MCDialogue`, `MCConversation`, `MCAdmission`, `MCVoiceClient` | instances for TLC |

`RealtimeGateway` and `Dialogue` are two clients of one service: both EXTEND
`Confirmations`, drive its actions, and are checked and proved to be behaviours
of it (`UsesTheService`), so that what is proved of the service holds of both.
The invariant from which a module's properties follow stands at the head of its
proof module, under "The inductive invariant".

### Confirmations

A *request* is a call of one service function in a database session of its own.
`request[r]` holds the step it is at and what it remembers of its reads:
`seen` (the status it read), `stamp` (the clock it read), `number` (the counter
it read). A step is one statement or one reading of the clock:

* `prepare_confirmation`: `PrepareReuse`, or `PrepareMiss` then `PrepareInsert`;
* `confirm_confirmation`: `ConfirmRead`, `ConfirmCheck`, then `ConfirmWrite` or
  `ConfirmExpire`;
* `cancel_confirmation`: `CancelRead`, `CancelWrite`;
* `consume_confirmation`: `ConsumeBegin`, `ConsumeLock` (`SELECT ... FOR
  UPDATE`), `ConsumeExamine` (replay, payload, status, expiry), `ConsumeExpire`,
  `ConsumeNumber` (the counter `FOR UPDATE`), `ConsumeCommit` or, on an
  `IntegrityError`, `ConsumeRollback` and `ConsumeLookup`;
* `Return` closes the session (and so releases the locks of a function that
  answered in the middle of its transaction), `Abort` is a request whose process
  or connection died.

An update writes the columns the code changes and leaves the others as they are
at that moment, so the lost updates of the unlocked functions are in the model.
Data that no property tells apart is abstracted: a payload is one value, which
stands for its canonical JSON and its hash (equal together); timestamps are
ticks; `idempotency_key` of a confirmation is unique through its timestamp and
follows the confirmation into the enquiry, so that the constraint on it is the
one on `confirmation_id`; the workspace of a row is the workspace of its user.
`PostgreSQL = FALSE` is SQLite, which ignores `FOR UPDATE` and, as configured,
foreign keys. A workspace whose counter row is missing is not modelled: the
migration creates it.

### RealtimeGateway

Handler `r` of an HTTP request drives request `r` of `Confirmations`: when it
calls a service function the two step together, in between only the request
steps (`Service`). The session's `pending`, `completed` and `sessionLock` are
what `RealtimeSession` holds. Each read of `pending_enquiry` that another thread
can come before is a step of its own (`ToolCompare`, `ToolDecide`,
`ObserveArrive`, `ObserveRead`), since `observe_user_transcript` does not take
the lock; a read that finds `None` where the code dereferences it raises.
`ToolConsumed` includes what `create_enquiry` makes of the service's answer, and
`Settle` the eviction and the remembering of the answer. `CloseSession` is every
way for a session to leave the store; handlers that hold it go on. `Crash` takes
all sessions and handlers at once; the database notices lost connections one by
one (`Disconnect`). A commit in flight when the process dies is a crash after
the commit. `Fault` is a connection lost in a service function, before its commit or after it
(the answer to the commit, or the refresh that follows, is lost).
Calls of other tools, and calls with invalid arguments, only add an answer.

### SummaryQueue and PostCall

A worker's step is one Redis command or one database transaction; `lists` are
the three Redis lists, left end first. `Restore` is one `RPOPLPUSH` of
`_restore_interrupted_jobs`, `Take` the `BRPOPLPUSH`, `Summarize` the
transaction of `summarize_call`, `Ack`, `Drop` and `Requeue` the commands of
`_process_item`. `AckFails` (the job may have been removed, and
only the reply lost) and `SummarizeFails` lead into its handler of exceptions; an exception there, or in `run`, ends the process (`CrashWorker`).
A summary is a function of columns that no longer change once the call has
ended, so `summary` is the set of the calls that have one.

In `PostCall` a request is a carrier event (`target` is the state it reports) or
a simulation (`target` is `active`, then `completed`). Its steps are the
transactions: `Find`, `Insert`, `Advance`, `Enqueue`. `Advance` writes over the
status that `Find` has *seen*. `twilio_event` is a coroutine that awaits nothing
after its form, and there is one API process, so `HasEventLoop` lets no two of
its bodies interleave; simulations run in threads. `Routes` is `transition_path`,
found by the same breadth-first search. A timeout of Redis may hide a push that
was done, so `Enqueue` may push, write the summary, or both. `forgotten` is a
history variable: the calls for which a process died (or both stores failed)
while it owed them a step, the push of a job that was not done included.

### NLU and Phrases

An utterance is a sequence of words in lower case, as `tokenise` sees them;
contractions and decimal fractions are the written words that are not one token.
`ExtractEnquiry` is `extract_enquiry`: the first number before a unit (`Count`
and `NumberValue` are `_parse_number`'s running total and group, folded over the
words), the product behind it, the last marker and the destination behind that.
`Classify` is `classify`: terse decisions first, then the intent with the highest
`Score`, in tenths, ties going to the earlier one. `ExtractSearchSlots` tries the
workspace's vocabulary, longest entry first, then markers and nouns. Classes of
words that the code treats alike (greetings, units, most verbs) are represented
by a few; phrases are matched at the boundaries of words, where the code looks
for their letters (section 6).

`Phrases` puts numbers, requests and searches into words, each next to what it
means: a reference definition in the other direction, from meaning to words.

### Dialogue

Socket `r` drives request `r` of `Confirmations`. `Hear` is one message, from
`receive_text` to the next await: it classifies the utterance and takes one
branch of `run_mock_session`, in the order of the code (`HearConfirm`,
`HearCancel`, `HearAboutSearch`, `HearNothingPending`, `HearDrop`, then
`HearSlots`, then the intents). A branch that calls a service function goes on
in its steps (`ServiceStep`) and in `ProposalReady`, `ConfirmAnswered`,
`CreateEnquiry`, `EnquiryAnswered` or `CancelAnswered`. Sockets are coroutines of
one event loop and the service functions do not await: `LoopFree` lets nobody
else in until the function has returned. `CreateEnquiry` is a step of its own,
since `execute_tool` sends a message before it calls the tool. `HearHuman` is
`request_human_support`, in one step for the same reason: it needs the lock of
the counter's row, numbers the support request and commits.
The database session lives as long as the socket. `Fault` loses its connection
in a service function, `HearInVain` in a tool that only reads: `execute_tool`
catches the exception and answers, and the session is `poisoned` from then on,
so that the next statement outside a tool ends the conversation. `Disconnect` is
noticed at an await; `Crash` takes all sockets, and `Reap` is the database
noticing one of the lost connections.
Histories: `readBack` is the draft last read back in each session, `told` what
callers were told of their enquiries.

### SessionStore, RateLimiter and Admission

The operators of the first two modules are critical sections: `Create`, `Get` and
`Delete` under the store's lock, `Check` under the limiter's. They take the
instant `now` as a parameter, because the code reads the clock before it takes
the lock. `Admission` supplies it: a request is the list of steps that its route
takes (`Opening`, `Tool`, `Listening`, `Ending`, `Limited`), each step is one
critical section, and its instant may be up to `MaxLag` ticks old, so requests
reach the tables out of order (`Instants`). The first look-up of a request asks
whether the session is the caller's, after it was touched: `owned` may be FALSE
for any session. `Upstream` is the answer of the provider, which gives the session
identifier out or takes the session back. A fresh identifier is drawn from those
never given out, which stands for `uuid4`. Every route gives the same
`window_seconds`, so the widest window is that one. A restart of the process,
which empties both tables, is `Init`.
Histories: `admitted` are the instants of admission of each key, `used` the
sessions used last. Both are trimmed to what the properties ask of them.
What the code does to a queue in a loop is stated by positions, so that it can be
proved about: `Keep` takes the entries at a set of positions (the sessions that
have not expired), `FromFirst` those from the first of them on (the events of a
key once the expired ones are popped from its front).

### VoiceClient

JavaScript runs to completion, so a step is what happens from one `await` to the
next. `client[c].step` is the await at which `connect` is: the microphone, the
offer, the answer to `POST /api/realtime/call`, the remote description.
`channel` stands for the peer connection with its data channel, and `session` for
`sessionId` not being null. `call[c][k]` is one run of `handleToolCall`. What has
been sent and not answered is in `network`, in any order; `store` is what the
backend has, which it may forget at any time. `panel.clients` are the clients made
by the panel that is mounted now: a status set on a panel that is gone has no
effect. `Close` is the synchronous part of `close`, and `Resume` what its caller does
when the DELETE has been answered or lost.
`words[c][n]` is the request that posts the `n`-th transcript of a client: on its way
(`sent`), with the handler of its session (`observed`), arrived where no such session
is (`unknown`), or without a trace once its connection has broken (`unsure`). It has
`settled` when the client's `fetch` is over, answered with any status or failed:
that, and not the arrival, is what `handleToolCall` awaits.
Histories: `closedAt`, the step at which a client was closed; `lost`, those
that lost a request; `heard` and `posts` of a call; `post` of a transcript.

## 3. Runs

| Run | Question | Instance |
|---|---|---|
| `confirm_races` | Can three requests racing on one confirmation, across its expiry, create something not confirmed in time? Does every request end? | 1 buyer, 1 confirmation, 3 requests, 3 ticks, TTL 1, fair |
| `two_buyers` | Numbers, audit trail, rollback, whose enquiry is answered; do the locks close a cycle? | 2 buyers, 2 confirmations, 2 payloads (one violates the foreign key), 2 requests, 2 ticks |
| `no_row_locks` | The same tables without row locks; do they implement `ApprovedWrites`? | SQLite, 1 buyer, 2 confirmations, 2 requests, 3 ticks |
| `tool_calls` | Does a repeated call get the first answer? Does success name the enquiry of the call's own session, does a session ever use another one's proposal? Can handlers wait for one another? Is every gateway behaviour one of the service? | two sessions of one buyer with 2 calls with the same details, one handler at work in each, until one of them remembers two answers; one session with 2 such calls and 1 that changes the details, and one with 1 call and 1 of an unregistered tool; 2 handlers, faults and crash, no eviction; the clock stands still |
| `handlers_answer` | Does every handler end? | 2 enquiry calls, 1 other, 1 remembered, 1 identifier, 2 ticks, fair |
| `post_call` | Does the audit trail tell the story of a call, are answers true, is no ended call forgotten, and is each summarised or dead-lettered in the end? Is it all a `CallRecord`? | 1 carrier call, 1 simulated, 2 requests, 1 worker, 2 attempts, 2 crashes, fair |
| `dialogue` | Is only what was read back last created, do answers stay true, do listening sockets hold no locks, can the event loop wait for itself, is every conversation one of the service? Are phrases understood as they were meant? | 2 sockets of one buyer, 10 utterances, 4 messages, 2 confirmations, 2 ticks, faults and crash; beside them some 2,000 phrases as initial states |
| `admission` | Does the limit hold, does the limiter forget, does a session in use stay? | 3 sessions, 1 address, 2 requests at once, 5 in all, 4 ticks, limit 2, window 2, store of 3, TTL 2, lag 1, sweep every tick |
| `voice_client` | Does a tool call overtake the last words heard before it? Is everything released? Does the panel show what there is? | 2 clients, 1 tool call, 2 transcripts between them |
| `cancel_race`, `read_back`, `wrong_question` | Three disagreements, section 6 | 2 calls with the same details; the conversations of `dialogue` |

Bounds. Two requests are enough for a lost update, a race for a number, a wait
in a cycle and a repeated call; the third in `confirm_races` lets a cancellation
or a second consumer come between a confirmation and a consumption. Two
confirmations are the least for two display numbers; one is the most contended.
`TTL = 1` with `MaxTime` 2 or 3 lets a row be fresh, at its last moment, or
expired at any statement; no time has to pass after that. `MaxTime` stops the
clock, nothing else. `tool_calls`, where expiry is not the question, has a
`MaxTime` of 1: nothing expires in it, in `handlers_answer` it does. Its state
constraint `FewCalls` names the sets of calls that come together: what goes on
beside a third call, one of an unregistered tool, or another handler of the same
session, is in one session; two sessions with a handler each go on until one remembers
its second answer, so their second calls, which create, still meet at the counter.
`ConfirmationIds` bounds the rows ever inserted; when they are used up a gateway call raises, as on a failed insert (`ToolNotPrepared`),
and a service request is not begun. Symmetry is used on requests and
confirmations in the runs without liveness, where all are interchangeable.
Two requests are enough for a call to be reported twice and out of order, or to
be simulated while another call's job is in the lists; two attempts for a
job to be retried once and then dead-lettered; two crashes for one of the API
and one of the worker, or for a worker that dies again after its restart.
`MaxRequests` also bounds the lists: with endless new jobs an old one would
wait for ever, since the newest is taken first. One worker is what the compose
files run. With two, `_restore_interrupted_jobs` puts back what the other one has
in hand, and the copies of a job multiply without end: no run explores that, but
the theorems about `PostCall` hold for every set of workers, so neither
`NoCallForgotten` nor `OnlyEndedAreSummarised` depends on there being one.
In `dialogue` four messages are enough to propose by way of a question, read back
and confirm; to cancel and propose again, which meets the cancelled row; to let
a proposal expire and state it again; and to replace a proposal and confirm.
Two sockets share the counter's row, and wait for each other only there and at
the event loop. The ten utterances reach every branch: a complete request, an
incomplete one, an impossible quantity, a unit that is not supported, a place,
yes, no, a human, a search, a greeting.
In `admission` five requests fill the store of three and look one of them up, or
exceed a limit of two in one window; four ticks are two windows, so a key can go
stale while another one sweeps; a lag of one tick is the least that brings
instants out of order.
In `voice_client` two clients are enough for one to be ended, or abandoned, while
the other starts; two transcripts, of one client or one of each (`MaxHeard`), for a call
between them and for a last one that is not the first; a call identifier that may come any number of times for the event that repeats it.
Deadlock is checked in the `MCConfirmations` and `MCVoiceClient` runs. It is not in the gateway's:
when all sessions of the instance have ended and the clock has stopped, nothing
is left to do; nor in `MCPostCall`'s, `MCConversation`'s and
`MCAdmission`'s, where the requests or messages are used up.

Fairness. `FairSpec` and `FairGatewaySpec` assume strong fairness of each
request's, or handler's, next step: threads run, statements return, and a
transaction or thread that waits for a lock gets it if the lock is free again
and again. PostgreSQL queues the waiters of a row; `threading.RLock` has no
queue but the waiters are the few threads of one session. No arrival, crash,
fault, tick or closing is assumed to happen.
`FairCallSpec` assumes strong fairness of each request's step, which waits for the
event loop, and weak fairness of each worker's, a restart included (`restart:
unless-stopped`); no attempt is assumed to succeed.

## 4. What the properties say

* `EnquiryWasConfirmed`: every enquiry was confirmed by its buyer, for exactly
  its payload, and confirmed and created before the confirmation expired.
* `NumberedOnceWithoutGaps`: one enquiry per confirmation, numbers without gap
  or duplicate.
* `AuditTrailMatches`: an event for every enquiry and none besides.
* `AnswerNamesOwnEnquiry`: an answer never names another buyer's enquiry.
* `OnlyUnknownDistributorRaises`, `LocksOK`, `CreationConsumesConfirmed`: with
  row locks the constraints are never what keeps the tables right; an enquiry
  appears only in a step that takes its confirmation from confirmed to consumed.
* `ImplementsLedger`: refinement of `ApprovedWrites`.
* `NoCircularWait`, `NoHandlerDeadlock`: locks are waited for in one order (session,
  row, counter), and never in vain: who has one that another waits for is at work.
* `RequestsFinish`, `HandlersAnswer`: liveness.
* `SuccessIsTheEnquiry`, `RetriesAgree`, `PendingIsPrepared`: what the model and
  the buyer are told through the gateway is what the tables hold.
* `UsesTheService`: every behaviour of the gateway, like every conversation, is a
  behaviour of `Confirmations`.
* `TrailIsTheStory`: the audit events of a call form one chain of shortest routes
  from `queued` to its status, whatever events arrived in whatever order.
* `AnswersAreTrue`: an accepted event lies in the past of its call, an ignored one
  never in its future.
* `OnlyEndedAreSummarised`, `NoCallForgotten`, `EndedIsSettled`: a summary is asked
  for when the call has ended, and is written or dead-lettered in the end, except
  for a process that dies between the end of the call and the push of its job, in
  the middle of a simulation, or between the removal of a failed job and its
  return to the queue.
* `ImplementsRecord`: refinement of `CallRecord`.
* `OnlyLastReadBackIsCreated`, `TellsTheTruth`: in a conversation the enquiry
  created is the one read back last, and "created", like "cancelled and nothing
  was created", stays true, although a cancelled or expired proposal with the
  same details may be made again.
* `ListenersHoldNoLocks`: a database session that outlives an answer holds no row.
* `LoopNeverBlocksItself`: a coroutine that waits for a lock stops all the others, so
  none of them may have it; only a connection of a dead process can.
* `NumbersAreRead`, `OrdersAreUnderstood`, `SearchesAreUnderstood`: what is read
  out of a phrase is what it was made from, whatever leads in, links or follows.
* `WindowLimit`: no key is admitted more often than its limit within a window
  less the delay of the lock. The delay has to be taken off: with an instant that
  old, the last request of a window can be forgotten that much too early.
* `StaleKeysGo`: the limiter forgets keys that are no longer used.
* `RecentSessionsSurvive`: a session used within its time to live (less the
  delay) is found as long as fewer than `MAX_SESSIONS` - 1 others were used after it:
  one less than the size of the store, since a look-up makes room as a creation does.
* `CallsFollowWords`: a call is posted once, and the last words heard before it are then
  no longer on their way, unless the connection of their request broke; if the session
  answers the call, they did not arrive where there is no session. It is no more than
  that: words before the last, whose observation is overwritten, and words that are
  transcribed after the call was heard may arrive after the call.
* `OnlyInterruptedLeak`: a closed client holds no microphone, connection or
  session, except one that was closed while it waited for the microphone, and
  sessions that it had not been told of or could not delete.
* `ShownIsThere`: the panel shows a connection only while it has a ready one, or
  waits for the deletion of the one it had.

## 5. What is proved

TLAPS proves the following for all values of the constants: all buyers,
workspaces, payloads, requests, sessions, utterances, clients, times and bounds.
The only hypotheses are the named assumptions of the modules (`...Assumption`,
each evaluated by TLC on a run). They say of which kind the constants are, and
that the marks for "nothing" are not values. `PostCall` has three more, below.

| Theorem | Statement |
|---|---|
| `TypeCorrect` | `Spec => []TypeOK` |
| `OnlyConfirmedIsCreated` | `Spec => []EnquiryWasConfirmed` |
| `NumberedInSequence` | `Spec => []NumberedOnceWithoutGaps` |
| `AnswersAreOwn` | `Spec => []AnswerNamesOwnEnquiry` |
| `NeverCircular` | `Spec => []NoCircularWait` |
| `AuditTrailComplete` | `Spec => []AuditTrailMatches` |
| `Implements` | `Spec => ImplementsLedger` |
| `LockInvariance` | `Spec => []LocksOK` |
| `ConstraintsNeverFire` | `PostgreSQL` implies `Spec => []OnlyUnknownDistributorRaises` |
| `CreationIsConsumption` | `PostgreSQL` implies `Spec => CreationConsumesConfirmed` |
| `GatewayTypeCorrect` | `GatewaySpec => []GatewayTypeOK` |
| `PendingAlwaysPrepared` | `GatewaySpec => []PendingIsPrepared` |
| `SuccessAlwaysTheEnquiry` | `GatewaySpec => []SuccessIsTheEnquiry` |
| `RetriesAlwaysAgree` | `GatewaySpec => []RetriesAgree` |
| `GatewayNeverDeadlocks` | `GatewaySpec => []NoHandlerDeadlock` |
| `GatewayUsesTheService` | `GatewaySpec => UsesTheService`, and so `GatewaySpec => Spec` |
| `GatewayWritesAreApproved` | the ledger, the audit trail and timely confirmation hold of `GatewaySpec` |
| `DialogueTypeCorrect` | `DialogueSpec => []DialogueTypeOK` |
| `AlwaysTellsTheTruth` | `DialogueSpec => []TellsTheTruth` |
| `ListenersNeverHoldLocks` | `DialogueSpec => []ListenersHoldNoLocks` |
| `LoopNeverBlocks` | `DialogueSpec => []LoopNeverBlocksItself` |
| `OnlyLastReadBackIsEverCreated` | `DialogueSpec => OnlyLastReadBackIsCreated` |
| `DialogueUsesTheService` | `DialogueSpec => UsesTheService`, and so `DialogueSpec => Spec` |
| `DialogueWritesAreApproved` | the ledger, the audit trail and timely confirmation hold of `DialogueSpec` |
| `CallTypeCorrect` | `CallSpec => []CallTypeOK` |
| `TrailAlwaysTheStory` | `CallSpec => []TrailIsTheStory` |
| `AnswersAlwaysTrue` | `CallSpec => []AnswersAreTrue` |
| `OnlyEndedEverSummarised` | `CallSpec => []OnlyEndedAreSummarised` |
| `NoCallEverForgotten` | `CallSpec => []NoCallForgotten` |
| `CallsAreRecords` | `CallSpec => ImplementsRecord` |
| `ClientTypeCorrect` | `VoiceSpec => []ClientTypeOK` |
| `ShownAlwaysThere` | `VoiceSpec => []ShownIsThere` |
| `CallsAlwaysFollowWords` | `VoiceSpec => []CallsFollowWords` |
| `OnlyInterruptedEverLeak` | `VoiceSpec => []OnlyInterruptedLeak` |
| `AdmissionTypeCorrect` | `Spec` of `Admission` `=> []AdmissionTypeOK`, the bounds of both tables |
| `LimitAlwaysHolds` | `Spec` of `Admission` `=> []WindowLimit` |
| `RecentSessionsAlwaysSurvive` | `Spec` of `Admission` `=> []RecentSessionsSurvive` |
| `StaleKeysAlwaysGo` | `Spec` of `Admission` `=> StaleKeysGo` |

None of the safety properties is inductive: a request that has read something
acts on it several steps later, so what it may still rely on has to be said.
Each module has one invariant that says so, checked by TLC on the module's
instance before it was proved; the deadlock and event-loop theorems add a small
one of their own, which says who can hold a lock at which step. `DialogueTypeOK` and
`ClientTypeOK` are proved only: no run repeats them. The proofs have a lemma per action, and under it
a step per conjunct that the action can disturb.

The service. `Inv` adds `RequestOK` (what holds of the row and the counter that a
request at each step has read, whatever the others did since: the row exists and
is its buyer's, was confirmed in time, has its payload, the number is not above
the counter), `RowsOK` (a confirmed or consumed row was confirmed before it
expired), `ReservationsOK` (two requests never insert the same row) and
`EnquiriesOK`. It needs no lock: it holds on SQLite too, because `confirmed_at`,
once set, is only ever set again to a time before the expiry, and because the
commit re-checks the constraints. The runs check `EnquiryWasConfirmed` and
`NumberedOnceWithoutGaps` with row locks, the theorems cover both databases. `LocksOK` is the second
invariant, on top of `Inv`: with row locks, what was read `FOR UPDATE` is still
so at the commit. `NoCircularWait` needs neither: `LockHoldersOK` ties every lock to
the steps at which a request can have it, and the holder of a counter is at its
commit, which waits for nobody. The refinement proof maps `ConfirmWrite` to `Approve`,
`PrepareInsert` to `Propose`, `ConsumeCommit` to `Write` and everything else to
a stutter.

Its clients. `StepKeepsTables` (in `ConfirmationsProofs`) is what a client may
rely on while others step: a row, once there, keeps its user, session and payload,
and enquiries are never taken back. The proofs of `GatewayInv` and `DialogueInv` use it for every step that
is not the client's own. `GatewaySpec => Spec` and `DialogueSpec => Spec` follow
from `UsesTheService`, since each client step is a step of the service or leaves
its variables alone; with them the theorems about `Spec` are theorems about both.

`GatewayInv` adds `HandlerOK`, which is the interest of it: transcripts run
without the session's lock, so at each step of a tool call it states only what no
transcript and no closing can undo. The handler holds the lock and its call has
no answer yet; the identifier it took along, not the session's `pending`, fits its
session and its details. `SessionOK` has one remembered answer per call, and
`AnswersRemembered` ties answers given to answers remembered, from which
`RetriesAgree` follows. The second, like the property, needs `NothingIsEvicted`:
a call whose answer was evicted can be answered anew. `GatewayNeverDeadlocks` puts the
session's lock in front of the order of `NoCircularWait`: a handler has called no
service function before it has the lock, so it has no row yet when it waits.

`DialogueInv` rests on one observation: the session of a proposal has one socket
(`SocketsApart`), and nobody else touches the row. So the state of the socket says
where the row stands at each step (`Serving`), whatever the other sockets do, and
a row that is consumed, or of which "cancelled" was said, is final (`FinalRows`).
The gateway has no such luck, since its transcripts and calls overlap. `LocksFollow`
says that in a conversation no function answers in the middle of its transaction:
the early answers of `consume_confirmation` need a status other than `confirmed`
or another payload, which `Serving` excludes. `LoopNeverBlocks` adds `OneInService`, that
the running coroutines enter the service functions one at a time (`LoopFree`).

`CallInv`. For the trail, `HandlerOK` says that the row is still in the state the
handler has seen, because handlers of the carrier do not interleave after their
await and a call is simulated once (`HandlersApart`). For `NoCallForgotten`,
`NoneIsLost` is stronger than the property: a job that a worker has in hand does
not count, since its copy must still be in the processing list (`Saved`), except
between the two commands of a retry (`Requeued`). That is why a worker may die
at any other step. What `transition_path` finds is a closed fact: `Routes` depends
on no constant. The search is recursive, so tlapm cannot evaluate it; TLC can, and
does so for the three assumptions `RoutesAreShortest`, `RoutesCompose` and
`SimulationHasRoutes` on every run of `PostCall`. The theorems take the table from
there, and nothing else.
All this holds for any set of workers, those that restore one another's jobs
included. The refinement of `CallRecord` maps `Insert` to `Appear`, `Advance` to `Move`,
the summary that a worker or a handler writes to `Summarise`, and everything else to
a stutter; `HandlerOK` gives that the state written over is the one seen, and the
row of a job that it has ended.

`VoiceInv`. `ClosedOK` states by the await at which a client was closed what the
rest of `connect` can still open, and `ConnectOK` which requests can be on their
way; `WordsOK` that no `fetch` of a transcript is over while its
request is on its way, unless it is `unsure`, and that a session that was missing never
appears; `CallOK` that a call waits for the last transcript before it; `HeldOK` how
the panel and its client belong together.

`AdmissionInv` ties each table to its history by position. The store ends with the
sessions used last, in the order of their use (`EndsWith`), each seen at most
`MaxLag` before it was used: so what has expired by the clock of any request,
however late it takes the lock, is in front of them, and so are the sessions that
are pushed out, of which there are never too few. `move_to_end` is needed for
exactly that. The events of a key end with those of its recent admissions
(`Backs`), so that taking expired events from the front takes none of them, and
they count against the limit. That the events themselves are out of order does not
matter; that the histories are in order does (`Recent`, `Lately`). What the
conditions `MaxLag < Window` and `MaxLag <= TTL` ask of the code is that nobody
waits for the lock as long as a window or a time to live lasts. The lemmas about
`Keep` rest on the rank of a position in a set being a bijection.

Only model-checked: liveness (`RequestsFinish`, `HandlersAnswer`, `EndedIsSettled`),
out of the prover's reach (of the first two, that no wait is circular or in vain is
proved; that who could go on does go on is not); and what `NLU` reads out of the generated phrases, a fold
over words, which would need induction over data. The runs that expect a violation
state what does not hold.

## 6. Where code and words disagree

* `cancel_race`: `observe_user_transcript` answers `cancelled` whatever
  `cancel_confirmation` returned, without the session's lock; a tool call that
  consumes the confirmation meanwhile has created the enquiry.
* `read_back`: a transcript confirms whatever is pending when it arrives, so a
  late transcript, or one observed while the proposing call is being answered,
  confirms details that were never returned for reading back.
* `wrong_question`: an enquiry that was read back stays pending while another
  question is asked ("Did you want me to find distributors for ...?"); the "yes"
  that answers it creates the enquiry.

Smaller ones, seen in the code and not given a run:

* The answer of an unregistered tool is remembered before the eviction, one
  eviction a call never makes up for it, and `completed_calls` can outgrow
  `MAX_COMPLETED_CALLS`.
* "don't do it" and "do not confirm" are affirmations: they are terse, and
  affirmations are tried before refusals (`nlu.py:522-525`).
* Phrases are matched by their letters: "talk tomorrow" contains "talk to".
* Product and destination: "rice please for delivery to Dubai" leaves the courtesy in the
  product, "50 tonnes of rice for export" has a destination "Export", "looking
  for green lentils suppliers" searches for "For Green Lentils".
* Of a decimal fraction "2.5" the tokens are summed, which reads 7.
* The answer to "Where should it be delivered?" is taken for the place, even if
  it restates the request without one.
* The panel may be closed while the microphone prompt is open. `close` runs then,
  traces `media_resources_released` and finds nothing to release; `connect` goes on
  and opens a stream, a connection and a session that nobody closes, since
  `close` returns at once the second time (`openaiRealtime.ts:90`, `:216`).
  `OnlyInterruptedLeak` makes the exception explicit.
* Only the last transcript is awaited before a call is posted
  (`transcriptObservation` is overwritten); the ones before may still be on their way.
* The session identifier is read after that wait: a call that waits when the client
  is closed is posted to `/sessions/null/tools` (`openaiRealtime.ts:377`).
* After End has been clicked twice the panel offers Start while the first DELETE
  is unanswered; its answer then marks the new client as not connected, and no End is
  offered for it (`VoicePanel.tsx:343-349`).

## 7. Not modelled, and the plan

Tokens and passwords, HTTP status codes, metrics, settings, migrations and
rendering are left out: pure functions, wording or I/O. Of the language
understanding the regular expressions below the level of words and the names of
distributors are left out. The pool of database connections is SQLAlchemy's; a
change of a user's role or account during a conversation is outside the model.

Of the browser, `speech.ts` (recognition and synthesis by the browser itself, in
mock mode), muting, the page context and the pages are left out. `VoiceClient` is not composed with
`RealtimeGateway`: the gateway lets transcripts and tool calls arrive in any order,
which contains every order that the client produces.

Every safety property that a run checks is proved, except those of `Phrases`, for
the reason given in section 5.
