---------------------------- MODULE Confirmations ----------------------------
(***************************************************************************)
(* The confirmation and enquiry tables, and the four service functions that *)
(* read and write them (backend/app/services/enquiries.py).  Each function  *)
(* runs in a request: a thread with a database session of its own.  A       *)
(* request is a sequence of steps, one per statement it sends to the        *)
(* database, and the steps of several requests interleave.                  *)
(*                                                                          *)
(* confirm_confirmation and cancel_confirmation read the row without a lock *)
(* and write it later; consume_confirmation reads it FOR UPDATE.  The clock *)
(* advances, and a process may die, between any two steps.                  *)
(***************************************************************************)
EXTENDS Integers, FiniteSets

CONSTANTS
    Users,               \* authenticated buyers
    Workspaces,
    WorkspaceOf,         \* users.workspace_id
    Sessions,            \* voice session identifiers
    Payloads,            \* canonical enquiry payloads
    UnknownDistributor,  \* payloads whose distributor_id names no distributor
    ConfirmationIds,
    Requests,            \* concurrent requests, each with a database session
    Nothing,             \* None
    TTL,                 \* CONFIRMATION_TTL_SECONDS, in clock ticks
    MaxTime,             \* bound: the clock stops here
    FirstNumber,         \* first display number of a workspace
    PostgreSQL           \* TRUE: row locks and foreign keys; FALSE: SQLite

ASSUME ConfirmationsAssumption ==
    /\ WorkspaceOf \in [Users -> Workspaces]
    /\ UnknownDistributor \subseteq Payloads
    /\ Nothing \notin Users \cup Sessions \cup Payloads
                      \cup ConfirmationIds \cup Requests
    /\ TTL \in Nat \ {0}
    /\ MaxTime \in Nat
    /\ FirstNumber \in Nat
    /\ PostgreSQL \in BOOLEAN

VARIABLES
    confirmations,  \* the confirmations table
    enquiries,      \* the enquiries table
    counter,        \* workspace_counters.enquiry_next
    audits,         \* the enquiry.created rows of audit_events
    rowLock,        \* the transaction that locked a confirmation FOR UPDATE
    counterLock,    \* the transaction that locked a workspace counter
    request,        \* what each request is doing
    now             \* the wall clock

tables == <<confirmations, enquiries, counter, audits>>
locks  == <<rowLock, counterLock>>
vars   == <<tables, locks, request, now>>

-----------------------------------------------------------------------------

Never == 0   \* a NULL timestamp; the clock starts at 1

Status == {"pending", "confirmed", "consumed", "cancelled", "expired"}

Confirmation ==
    [user : Users, session : Sessions, payload : Payloads, status : Status,
     expires : Nat, confirmedAt : Nat, consumedAt : Nat]

NoRow == [status |-> "absent"]

Enquiry ==
    [workspace : Workspaces, buyer : Users, number : Nat, payload : Payloads,
     confirmation : ConfirmationIds]

Audit ==
    [workspace : Workspaces, actor : Users, number : Nat,
     confirmation : ConfirmationIds]

Steps ==
    {"idle", "prepare_insert", "confirm_check", "confirm_write",
     "confirm_expire", "cancel_write", "consume_lock", "consume_examine",
     "consume_expire", "consume_number", "consume_commit", "consume_lookup",
     "done"}

Results ==
    {"prepared", "confirmed", "not_confirmed", "cancelled", "not_cancelled",
     "confirmation_not_found", "confirmation_payload_mismatch",
     "confirmation_required", "confirmation_expired", "created",
     "idempotent_replay", "raised"}

Request ==
    [step : Steps, user : Users \cup {Nothing},
     session : Sessions \cup {Nothing}, id : ConfirmationIds \cup {Nothing},
     payload : Payloads \cup {Nothing}, seen : Status \cup {"none"},
     stamp : Nat, number : Nat, result : Results \cup {"none"}]

NoRequest ==
    [step |-> "idle", user |-> Nothing, session |-> Nothing, id |-> Nothing,
     payload |-> Nothing, seen |-> "none", stamp |-> Never, number |-> 0,
     result |-> "none"]

TypeOK ==
    /\ confirmations \in [ConfirmationIds -> Confirmation \cup {NoRow}]
    /\ enquiries \subseteq Enquiry
    /\ counter \in [Workspaces -> Nat]
    /\ audits \subseteq Audit
    /\ rowLock \in [ConfirmationIds -> Requests \cup {Nothing}]
    /\ counterLock \in [Workspaces -> Requests \cup {Nothing}]
    /\ request \in [Requests -> Request]
    /\ now \in Nat \ {Never}

Init ==
    /\ confirmations = [c \in ConfirmationIds |-> NoRow]
    /\ enquiries = {}
    /\ counter = [w \in Workspaces |-> FirstNumber]
    /\ audits = {}
    /\ rowLock = [c \in ConfirmationIds |-> Nothing]
    /\ counterLock = [w \in Workspaces |-> Nothing]
    /\ request = [r \in Requests |-> NoRequest]
    /\ now = 1

-----------------------------------------------------------------------------
(* Helpers.                                                                 *)

\* Mutant: the WHERE clause without the user.
VisibleInWorkspace(c, u) ==
    /\ confirmations[c] # NoRow
    /\ WorkspaceOf[confirmations[c].user] = WorkspaceOf[u]

\* The WHERE clause every function shares: the row's id, workspace and user.
Visible(c, u) ==
    confirmations[c] # NoRow /\ confirmations[c].user = u

\* A write, or a SELECT ... FOR UPDATE, waits while another transaction
\* holds the row.
Unlocked(c, r) == rowLock[c] \in {Nothing, r}

\* Mutants: the SELECT without FOR UPDATE.
SkipRowLock(c, r) == UNCHANGED rowLock

SkipCounterLock(w, r) == UNCHANGED counterLock

\* FOR UPDATE.  On SQLite the clause is not rendered.
LockRow(c, r) ==
    rowLock' = IF PostgreSQL THEN [rowLock EXCEPT ![c] = r] ELSE rowLock

LockCounter(w, r) ==
    /\ counterLock[w] \in {Nothing, r}
    /\ counterLock' = IF PostgreSQL THEN [counterLock EXCEPT ![w] = r]
                                    ELSE counterLock

EnquiriesOf(c) == {e \in enquiries : e.confirmation = c}

Become(r, fields) == request' = [request EXCEPT ![r] = fields]

Begin(r, fields) == request[r] = NoRequest /\ Become(r, fields)

At(q, step) == [q EXCEPT !.step = step]

Finished(q, result) == [q EXCEPT !.step = "done", !.result = result]

Goto(r, step) == Become(r, At(request[r], step))

Finish(r, result) == Become(r, Finished(request[r], result))

\* An answer that names an enquiry.
FinishWith(r, result, n) ==
    Become(r, [Finished(request[r], result) EXCEPT !.number = n])

\* Commit, rollback and closing the session give up every lock.
ReleaseLocks(r) ==
    /\ rowLock' = [c \in ConfirmationIds |->
                      IF rowLock[c] = r THEN Nothing ELSE rowLock[c]]
    /\ counterLock' = [w \in Workspaces |->
                          IF counterLock[w] = r THEN Nothing ELSE counterLock[w]]

\* Mutant: the row still counts on the tick on which it expires.
ExpiredLate(r) == confirmations[request[r].id].expires < now

Expired(r) == confirmations[request[r].id].expires <= now

SetRow(c, row) == confirmations' = [confirmations EXCEPT ![c] = row]

SetStatus(c, status) == SetRow(c, [confirmations[c] EXCEPT !.status = status])

-----------------------------------------------------------------------------
(* prepare_confirmation.                                                    *)

\* Mutant: the WHERE clause without the session.
PendingInAnySession(u, s, p) ==
    {c \in ConfirmationIds :
        /\ confirmations[c].status = "pending"
        /\ confirmations[c].user = u
        /\ confirmations[c].payload = p}

PendingMatches(u, s, p) ==
    {c \in ConfirmationIds :
        /\ confirmations[c].status = "pending"
        /\ confirmations[c].user = u
        /\ confirmations[c].session = s
        /\ confirmations[c].payload = p}

\* An identifier no row has and no other request is about to insert.
Unissued(c) ==
    /\ confirmations[c] = NoRow
    /\ \A q \in Requests :
          ~(request[q].step = "prepare_insert" /\ request[q].id = c)

\* The query has no ORDER BY: it may return any of the matching rows.
PrepareReuse(r, u, s, p) ==
    /\ \E c \in PendingMatches(u, s, p) :
          /\ confirmations[c].expires > now
          /\ Begin(r, [NoRequest EXCEPT !.step = "done", !.user = u,
                         !.session = s, !.payload = p, !.id = c,
                         !.result = "prepared"])
    /\ UNCHANGED <<tables, locks, now>>

PrepareMiss(r, u, s, p) ==
    /\ \/ PendingMatches(u, s, p) = {}
       \/ \E c \in PendingMatches(u, s, p) : confirmations[c].expires <= now
    /\ \E c \in ConfirmationIds :
          /\ Unissued(c)
          /\ Begin(r, [NoRequest EXCEPT !.step = "prepare_insert", !.user = u,
                         !.session = s, !.payload = p, !.id = c,
                         !.stamp = now])
    /\ UNCHANGED <<tables, locks, now>>

\* Mutant: the row is inserted without its user.
AnonymousRow(q) ==
    [user |-> Nothing, session |-> q.session, payload |-> q.payload,
     status |-> "pending", expires |-> q.stamp + TTL,
     confirmedAt |-> Never, consumedAt |-> Never]

NewRow(q) ==
    [user |-> q.user, session |-> q.session, payload |-> q.payload,
     status |-> "pending", expires |-> q.stamp + TTL,
     confirmedAt |-> Never, consumedAt |-> Never]

PrepareInsert(r) ==
    /\ request[r].step = "prepare_insert"
    /\ SetRow(request[r].id, NewRow(request[r]))
    /\ Finish(r, "prepared")
    /\ UNCHANGED <<enquiries, counter, audits, locks, now>>

-----------------------------------------------------------------------------
(* confirm_confirmation: an unlocked read, the clock, then the write.       *)

ConfirmRead(r, u, c) ==
    /\ IF Visible(c, u) /\ confirmations[c].status = "pending"
       THEN Begin(r, [NoRequest EXCEPT !.step = "confirm_check",
                        !.user = u, !.id = c])
       ELSE Begin(r, [NoRequest EXCEPT !.step = "done", !.user = u, !.id = c,
                        !.result = "not_confirmed"])
    /\ UNCHANGED <<tables, locks, now>>

ConfirmCheck(r) ==
    /\ request[r].step = "confirm_check"
    /\ IF Expired(r)
       THEN Goto(r, "confirm_expire")
       ELSE Become(r, [At(request[r], "confirm_write") EXCEPT !.stamp = now])
    /\ UNCHANGED <<tables, locks, now>>

ConfirmExpire(r) ==
    /\ request[r].step = "confirm_expire"
    /\ Unlocked(request[r].id, r)
    /\ SetStatus(request[r].id, "expired")
    /\ Finish(r, "not_confirmed")
    /\ UNCHANGED <<enquiries, counter, audits, locks, now>>

\* The UPDATE writes the two columns that changed, whatever the row holds now.
ConfirmWrite(r) ==
    /\ request[r].step = "confirm_write"
    /\ Unlocked(request[r].id, r)
    /\ SetRow(request[r].id,
              [confirmations[request[r].id] EXCEPT
                  !.status = "confirmed", !.confirmedAt = request[r].stamp])
    /\ Finish(r, "confirmed")
    /\ UNCHANGED <<enquiries, counter, audits, locks, now>>

-----------------------------------------------------------------------------
(* cancel_confirmation: an unlocked read, then the write.                   *)

CancelRead(r, u, c) ==
    /\ IF Visible(c, u) /\ confirmations[c].status \in {"pending", "confirmed"}
       THEN Begin(r, [NoRequest EXCEPT !.step = "cancel_write",
                        !.user = u, !.id = c])
       ELSE Begin(r, [NoRequest EXCEPT !.step = "done", !.user = u, !.id = c,
                        !.result = "not_cancelled"])
    /\ UNCHANGED <<tables, locks, now>>

CancelWrite(r) ==
    /\ request[r].step = "cancel_write"
    /\ Unlocked(request[r].id, r)
    /\ SetStatus(request[r].id, "cancelled")
    /\ Finish(r, "cancelled")
    /\ UNCHANGED <<enquiries, counter, audits, locks, now>>

-----------------------------------------------------------------------------
(* consume_confirmation.                                                    *)

ConsumeBegin(r, u, c, p) ==
    /\ Begin(r, [NoRequest EXCEPT !.step = "consume_lock", !.user = u,
                   !.id = c, !.payload = p])
    /\ UNCHANGED <<tables, locks, now>>

\* SELECT ... FOR UPDATE of the confirmation.
ConsumeLock(r) ==
    LET c == request[r].id IN
    /\ request[r].step = "consume_lock"
    /\ \/ /\ ~Visible(c, request[r].user)
          /\ Finish(r, "confirmation_not_found")
          /\ UNCHANGED rowLock
       \/ /\ Visible(c, request[r].user)
          /\ Unlocked(c, r)
          /\ Become(r, [At(request[r], "consume_examine")
                           EXCEPT !.seen = confirmations[c].status])
          /\ LockRow(c, r)
    /\ UNCHANGED <<tables, counterLock, now>>

\* Mutant: the enquiry is looked up without its confirmation's identifier.
ReplayOfWorkspace(r) ==
    \E e \in {d \in enquiries : d.workspace = WorkspaceOf[request[r].user]} :
        FinishWith(r, "idempotent_replay", e.number)

\* The answer for an enquiry that exists already, if there is one.
Replay(r) ==
    \E e \in EnquiriesOf(request[r].id) :
        FinishWith(r, "idempotent_replay", e.number)

SamePayload(r) == confirmations[request[r].id].payload = request[r].payload

Confirmed(r) == request[r].seen = "confirmed"

\* An answer given here leaves the transaction open, so the row stays locked
\* until the session is closed.
ConsumeExamine(r) ==
    /\ request[r].step = "consume_examine"
    /\ \/ Replay(r)
       \/ /\ EnquiriesOf(request[r].id) = {}
          /\ \/ /\ ~SamePayload(r)
                /\ Finish(r, "confirmation_payload_mismatch")
             \/ /\ SamePayload(r) /\ ~Confirmed(r)
                /\ Finish(r, "confirmation_required")
             \/ /\ SamePayload(r) /\ Confirmed(r) /\ Expired(r)
                /\ Goto(r, "consume_expire")
             \/ /\ SamePayload(r) /\ Confirmed(r) /\ ~Expired(r)
                /\ Become(r, [At(request[r], "consume_number")
                                 EXCEPT !.stamp = now])
    /\ UNCHANGED <<tables, locks, now>>

ConsumeExpire(r) ==
    /\ request[r].step = "consume_expire"
    /\ SetStatus(request[r].id, "expired")
    /\ Finish(r, "confirmation_expired")
    /\ ReleaseLocks(r)
    /\ UNCHANGED <<enquiries, counter, audits, now>>

\* Mutant: the counter is committed on its own, before the enquiry.
ConsumeNumberCommitted(r) ==
    LET w == WorkspaceOf[request[r].user] IN
    /\ request[r].step = "consume_number"
    /\ LockCounter(w, r)
    /\ counter' = [counter EXCEPT ![w] = counter[w] + 1]
    /\ Become(r, [At(request[r], "consume_commit") EXCEPT !.number = counter[w]])
    /\ UNCHANGED <<confirmations, enquiries, audits, rowLock, now>>

\* SELECT ... FOR UPDATE of the workspace counter.
ConsumeNumber(r) ==
    LET w == WorkspaceOf[request[r].user] IN
    /\ request[r].step = "consume_number"
    /\ LockCounter(w, r)
    /\ Become(r, [At(request[r], "consume_commit") EXCEPT !.number = counter[w]])
    /\ UNCHANGED <<tables, rowLock, now>>

\* Mutant: no uniqueness of the display number in a workspace.
ViolatesConfirmationOnly(r) ==
    \/ \E e \in enquiries : e.confirmation = request[r].id
    \/ PostgreSQL /\ request[r].payload \in UnknownDistributor

\* The unique and foreign key constraints of the enquiries table.
Violates(r) ==
    \/ \E e \in enquiries :
          \/ e.confirmation = request[r].id
          \/ /\ e.workspace = WorkspaceOf[request[r].user]
             /\ e.number = request[r].number
    \/ PostgreSQL /\ request[r].payload \in UnknownDistributor

\* The flush and the commit: the row, the counter, the enquiry and the audit
\* event in one transaction.
ConsumeCommit(r) ==
    LET c == request[r].id
        u == request[r].user
        w == WorkspaceOf[u]
        n == request[r].number IN
    /\ request[r].step = "consume_commit"
    /\ ~Violates(r)
    /\ SetRow(c, [confirmations[c] EXCEPT !.status = "consumed",
                                          !.consumedAt = request[r].stamp])
    /\ enquiries' = enquiries \cup
           {[workspace |-> w, buyer |-> u, number |-> n,
             payload |-> request[r].payload, confirmation |-> c]}
    /\ counter' = [counter EXCEPT ![w] = n + 1]
    /\ audits' = audits \cup
           {[workspace |-> w, actor |-> u, number |-> n, confirmation |-> c]}
    /\ Finish(r, "created")
    /\ ReleaseLocks(r)
    /\ UNCHANGED now

\* Mutant: the audit event survives the rollback.
ConsumeRollbackKeepsAudit(r) ==
    /\ request[r].step = "consume_commit"
    /\ Violates(r)
    /\ Goto(r, "consume_lookup")
    /\ audits' = audits \cup
           {[workspace |-> WorkspaceOf[request[r].user],
             actor |-> request[r].user, number |-> request[r].number,
             confirmation |-> request[r].id]}
    /\ ReleaseLocks(r)
    /\ UNCHANGED <<confirmations, enquiries, counter, now>>

\* IntegrityError: everything is rolled back, then the enquiry is looked up.
ConsumeRollback(r) ==
    /\ request[r].step = "consume_commit"
    /\ Violates(r)
    /\ Goto(r, "consume_lookup")
    /\ ReleaseLocks(r)
    /\ UNCHANGED <<tables, now>>

ConsumeLookup(r) ==
    /\ request[r].step = "consume_lookup"
    /\ \/ Replay(r)
       \/ /\ EnquiriesOf(request[r].id) = {}
          /\ Finish(r, "raised")
    /\ UNCHANGED <<tables, locks, now>>

-----------------------------------------------------------------------------

\* Mutant: the session is not closed, so its transaction stays open.
ReturnKeepsLocks(r) ==
    /\ request[r].step = "done"
    /\ Become(r, NoRequest)
    /\ UNCHANGED <<tables, locks, now>>

\* The request's session is closed; its caller has the answer.
Return(r) ==
    /\ request[r].step = "done"
    /\ Become(r, NoRequest)
    /\ ReleaseLocks(r)
    /\ UNCHANGED <<tables, now>>

\* The process or its connection dies: the server rolls the transaction back.
Abort(r) ==
    /\ request[r].step \notin {"idle", "done"}
    /\ Become(r, NoRequest)
    /\ ReleaseLocks(r)
    /\ UNCHANGED <<tables, now>>

Tick ==
    /\ now < MaxTime
    /\ now' = now + 1
    /\ UNCHANGED <<tables, locks, request>>

Arrive(r) ==
    \E u \in Users :
        \/ \E s \in Sessions, p \in Payloads :
              PrepareReuse(r, u, s, p) \/ PrepareMiss(r, u, s, p)
        \/ \E c \in ConfirmationIds :
              \/ ConfirmRead(r, u, c)
              \/ CancelRead(r, u, c)
              \/ \E p \in Payloads : ConsumeBegin(r, u, c, p)

Advance(r) ==
    \/ PrepareInsert(r)
    \/ ConfirmCheck(r) \/ ConfirmExpire(r) \/ ConfirmWrite(r)
    \/ CancelWrite(r)
    \/ ConsumeLock(r) \/ ConsumeExamine(r) \/ ConsumeExpire(r)
    \/ ConsumeNumber(r) \/ ConsumeCommit(r) \/ ConsumeRollback(r)
    \/ ConsumeLookup(r)
    \/ Return(r)

Next ==
    \/ \E r \in Requests : Arrive(r) \/ Advance(r) \/ Abort(r)
    \/ Tick

Spec == Init /\ [][Next]_vars

\* A running request keeps running, and the database serves the transactions
\* that wait for a row in the order in which they asked for it.
FairSpec == Spec /\ \A r \in Requests : SF_vars(Advance(r))

-----------------------------------------------------------------------------
(* Properties.                                                              *)

\* Every enquiry was confirmed by its buyer, for exactly its payload, and both
\* the confirmation and the creation happened before the confirmation expired.
EnquiryWasConfirmed ==
    \A e \in enquiries :
        LET row == confirmations[e.confirmation] IN
        /\ row # NoRow
        /\ row.user = e.buyer
        /\ row.payload = e.payload
        /\ row.confirmedAt # Never /\ row.confirmedAt < row.expires
        /\ row.consumedAt # Never  /\ row.consumedAt < row.expires

\* A confirmation yields at most one enquiry however often it is consumed, and
\* the numbers of a workspace's enquiries have no gap and no duplicate.
NumberedOnceWithoutGaps ==
    /\ \A d, e \in enquiries :
          \/ d.confirmation = e.confirmation
          \/ d.workspace = e.workspace /\ d.number = e.number
          => d = e
    /\ \A w \in Workspaces :
          {e.number : e \in {d \in enquiries : d.workspace = w}}
              = FirstNumber .. counter[w] - 1

\* The audit trail and the enquiries table never disagree: the event is
\* committed with the enquiry or not at all.
AuditTrailMatches ==
    audits = {[workspace |-> e.workspace, actor |-> e.buyer,
               number |-> e.number, confirmation |-> e.confirmation]
              : e \in enquiries}

\* An answer that names an enquiry (a creation or a replay) names the one
\* enquiry its confirmation yielded, and that enquiry is the caller's own.
AnswerNamesOwnEnquiry ==
    \A r \in Requests :
        request[r].result \in {"created", "idempotent_replay"}
            => \E e \in enquiries :
                  /\ e.confirmation = request[r].id
                  /\ e.number = request[r].number
                  /\ e.buyer = request[r].user

\* With row locks the constraints never fire because of another request: only
\* an unknown distributor makes consume_confirmation raise.
OnlyUnknownDistributorRaises ==
    \A r \in Requests :
        request[r].step = "consume_lookup" \/ request[r].result = "raised"
            => request[r].payload \in UnknownDistributor

\* With row locks an enquiry appears only in a step that finds its confirmation
\* confirmed and leaves it consumed: no cancellation, expiry or second consumer
\* slips between the check of the status and the commit.
CreationConsumesConfirmed ==
    [][\A c \in ConfirmationIds :
          (EnquiriesOf(c) = {} /\ EnquiriesOf(c)' # {})
              => /\ confirmations[c].status = "confirmed"
                 /\ confirmations'[c].status = "consumed"]_vars

\* What the tables mean as a ledger of approved writes: a confirmation row is a
\* proposal, approved once its confirmed_at is set.
Ledger == INSTANCE ApprovedWrites WITH
    Buyers      <- Users,
    Ledgers     <- Workspaces,
    LedgerOf    <- WorkspaceOf,
    Contents    <- Payloads,
    ProposalIds <- ConfirmationIds,
    First       <- FirstNumber,
    proposals   <- {[id |-> c, buyer |-> confirmations[c].user,
                     content |-> confirmations[c].payload]
                    : c \in {d \in ConfirmationIds : confirmations[d] # NoRow}},
    approved    <- {c \in ConfirmationIds :
                       /\ confirmations[c] # NoRow
                       /\ confirmations[c].confirmedAt # Never},
    entries     <- {[id |-> e.confirmation, ledger |-> e.workspace,
                     buyer |-> e.buyer, content |-> e.payload,
                     number |-> e.number] : e \in enquiries},
    next        <- counter

\* The four functions, however their steps interleave and wherever they are cut
\* short, write only what was approved, once, as proposed, numbered in sequence.
ImplementsLedger == Ledger!Spec

\* Every request comes to an end: no cycle of row and counter locks, no lock
\* left behind by a request that answered early, failed or was interrupted.
RequestsFinish ==
    \A r \in Requests : request[r].step # "idle" ~> request[r].step = "idle"

\* The next statement of request r needs a row, or a counter, that q has locked.
WaitsForRow(r, q) ==
    LET t == request[r] IN
    /\ \/ t.step \in {"confirm_expire", "confirm_write", "cancel_write"}
       \/ t.step = "consume_lock" /\ Visible(t.id, t.user)
    /\ rowLock[t.id] = q /\ q # r

WaitsForCounter(r, q) ==
    /\ request[r].step = "consume_number"
    /\ counterLock[WorkspaceOf[request[r].user]] = q /\ q # r

WaitsFor(r, q) == WaitsForRow(r, q) \/ WaitsForCounter(r, q)

\* No cycle of waits and nobody to wait for in vain: who has locked a row that
\* another needs waits for a counter at most, who has locked a counter waits for
\* nobody, and both are requests that are still to commit, fail or return.
NoCircularWait ==
    \A r, q \in Requests :
        /\ WaitsFor(r, q) => request[q].step # "idle"
        /\ WaitsForRow(r, q) => \A p \in Requests : ~WaitsForRow(q, p)
        /\ WaitsForCounter(r, q) => \A p \in Requests : ~WaitsFor(q, p)

\* What the row and counter locks of PostgreSQL protect: what a transaction read
\* FOR UPDATE is still so until it commits, so that its commit can violate no
\* constraint but the foreign key to the distributor.
LocksOK ==
    PostgreSQL =>
        \A r \in Requests :
            LET q == request[r] IN
            /\ q.step \in {"consume_examine", "consume_expire",
                           "consume_number", "consume_commit"} =>
                  rowLock[q.id] = r
            /\ q.step = "consume_examine" => q.seen = confirmations[q.id].status
            /\ q.step \in {"consume_number", "consume_commit"} =>
                  /\ confirmations[q.id].status = "confirmed"
                  /\ EnquiriesOf(q.id) = {}
            /\ q.step = "consume_commit" =>
                  /\ counterLock[WorkspaceOf[q.user]] = r
                  /\ q.number = counter[WorkspaceOf[q.user]]
            /\ q.step = "consume_lookup" \/ q.result = "raised" =>
                  q.payload \in UnknownDistributor
=============================================================================
