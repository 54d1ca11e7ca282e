------------------------- MODULE ConfirmationsProofs --------------------------
(***************************************************************************)
(* Theorems about Confirmations, for every set of users, payloads, requests *)
(* and confirmations, every lifetime of a confirmation and both databases.  *)
(***************************************************************************)
EXTENDS Confirmations, TLAPS

-----------------------------------------------------------------------------
(* The inductive invariant behind the safety properties.                    *)

\* What a request knows of a row or a counter that it read some steps ago, and
\* that no interleaving of the other requests makes false.
RequestOK(r) ==
    LET q   == request[r]
        row == confirmations[q.id] IN
    /\ q.result # "none" => q.step = "done"
    /\ q.step = "prepare_insert" =>
          /\ q.user \in Users /\ q.session \in Sessions
          /\ q.payload \in Payloads
          /\ q.id \in ConfirmationIds /\ row = NoRow
    /\ q.step \in {"confirm_check", "confirm_write", "confirm_expire",
                   "cancel_write"} =>
          q.id \in ConfirmationIds /\ row # NoRow
    /\ q.step = "confirm_write" => q.stamp # Never /\ q.stamp < row.expires
    /\ q.step = "consume_lock" =>
          q.user \in Users /\ q.id \in ConfirmationIds /\ q.payload \in Payloads
    /\ q.step \in {"consume_examine", "consume_expire", "consume_number",
                   "consume_commit", "consume_lookup"} =>
          /\ q.user \in Users /\ q.id \in ConfirmationIds
          /\ q.payload \in Payloads
          /\ row # NoRow /\ row.user = q.user
    /\ q.step = "consume_examine" /\ q.seen = "confirmed" =>
          row.confirmedAt # Never
    /\ q.step \in {"consume_number", "consume_commit"} =>
          /\ row.payload = q.payload
          /\ row.confirmedAt # Never
          /\ q.stamp # Never /\ q.stamp < row.expires
    /\ q.step = "consume_commit" =>
          FirstNumber <= q.number /\ q.number <= counter[WorkspaceOf[q.user]]
    /\ q.result \in {"created", "idempotent_replay"} =>
          \E e \in enquiries :
             e.confirmation = q.id /\ e.number = q.number /\ e.buyer = q.user

\* A row that is or was confirmed was confirmed before it expired.
RowsOK ==
    \A c \in ConfirmationIds :
        confirmations[c] # NoRow =>
            /\ confirmations[c].status \in {"confirmed", "consumed"}
                  => confirmations[c].confirmedAt # Never
            /\ confirmations[c].confirmedAt # Never
                  => confirmations[c].confirmedAt < confirmations[c].expires

\* Two requests never insert the same row.
ReservationsOK ==
    \A q, r \in Requests :
        /\ request[q].step = "prepare_insert"
        /\ request[r].step = "prepare_insert"
        /\ request[q].id = request[r].id
        => q = r

EnquiriesOK ==
    /\ EnquiryWasConfirmed
    /\ \A e \in enquiries : e.workspace = WorkspaceOf[e.buyer]
    /\ NumberedOnceWithoutGaps
    /\ \A w \in Workspaces : FirstNumber <= counter[w]

\* The inductive strengthening of the safety properties: what each request may
\* rely on between its statements, row by row and number by number.
Inv ==
    /\ TypeOK
    /\ RowsOK
    /\ ReservationsOK
    /\ EnquiriesOK
    /\ \A r \in Requests : RequestOK(r)

-----------------------------------------------------------------------------

LocksTyped ==
    /\ rowLock \in [ConfirmationIds -> Requests \cup {Nothing}]
    /\ counterLock \in [Workspaces -> Requests \cup {Nothing}]

\* What one step may do to the rows that exist: the owner, the payload and the
\* expiry of a row never change, and its time stamps are never cleared.
RowsKept ==
    \A c \in ConfirmationIds :
        confirmations[c] # NoRow =>
            /\ confirmations'[c] # NoRow
            /\ confirmations'[c].user = confirmations[c].user
            /\ confirmations'[c].payload = confirmations[c].payload
            /\ confirmations'[c].expires = confirmations[c].expires
            /\ confirmations[c].confirmedAt # Never
                  => confirmations'[c].confirmedAt # Never

-----------------------------------------------------------------------------
(* Lemmas about the helpers.                                                *)

\* Releasing a request's locks leaves the lock tables well typed.
LEMMA ReleaseLocksType ==
    ASSUME TypeOK, NEW r \in Requests, ReleaseLocks(r)
    PROVE  LocksTyped'
  BY DEF TypeOK, ReleaseLocks, LocksTyped

\* The record of an idle request is a well-typed request.
LEMMA NoRequestType == NoRequest \in Request
  BY DEF NoRequest, Request, Steps, Never

\* What a request that did not move knows stays true while rows are kept,
\* enquiries are only added and counters only grow.
LEMMA RequestFrame ==
    ASSUME Inv, NEW q \in Requests, request'[q] = request[q],
           RowsKept, enquiries \subseteq enquiries',
           \A w \in Workspaces : counter[w] <= counter'[w] /\ counter'[w] \in Nat,
           request[q].step = "prepare_insert"
               => confirmations'[request[q].id] = NoRow
    PROVE  RequestOK(q)'
<1> USE ConfirmationsAssumption DEF Inv
<1>1. RequestOK(q) /\ request[q] \in Request
  BY DEF TypeOK
<1>2. request[q].user \in Users => WorkspaceOf[request[q].user] \in Workspaces
  OBVIOUS
<1>3. request[q].number \in Nat
  BY <1>1 DEF Request
<1>4. \A w \in Workspaces : counter[w] \in Nat
  BY DEF TypeOK
<1> QED BY <1>1, <1>2, <1>3, <1>4 DEF RequestOK, RowsKept

\* A step that changes one request and no table keeps the invariant if that
\* request knows what its new step requires.
LEMMA ReadStep ==
    ASSUME Inv, NEW r \in Requests, NEW f \in Request, Become(r, f),
           UNCHANGED <<tables, now>>, LocksTyped', RequestOK(r)',
           f.step = "prepare_insert" => Unissued(f.id)
    PROVE  Inv'
<1> USE DEF Inv, tables, Become
<1>1. TypeOK'
  BY DEF TypeOK, LocksTyped
<1>2. RowsOK' /\ EnquiriesOK'
  BY DEF RowsOK, EnquiriesOK, EnquiryWasConfirmed, NumberedOnceWithoutGaps
<1>3. ReservationsOK'
  BY DEF ReservationsOK, Unissued, TypeOK
<1>4. ASSUME NEW q \in Requests PROVE RequestOK(q)'
  <2>1. CASE q = r
    BY <2>1
  <2>2. CASE q # r
    <3>1. request'[q] = request[q]
      BY <2>2 DEF TypeOK
    <3>2. RowsKept
      BY DEF RowsKept
    <3>3. \A w \in Workspaces : counter[w] <= counter'[w] /\ counter'[w] \in Nat
      BY DEF TypeOK
    <3>4. request[q].step = "prepare_insert"
             => confirmations'[request[q].id] = NoRow
      BY DEF RequestOK
    <3> QED BY <3>1, <3>2, <3>3, <3>4, RequestFrame
  <2> QED BY <2>1, <2>2
<1> QED BY <1>1, <1>2, <1>3, <1>4

\* A step that inserts or updates one confirmation and ends its request keeps
\* the invariant if the new row continues the old one.
LEMMA RowStep ==
    ASSUME Inv, NEW r \in Requests, NEW f \in Request, Become(r, f),
           f.step = "done", RequestOK(r)',
           NEW c \in ConfirmationIds, NEW row \in Confirmation, SetRow(c, row),
           UNCHANGED <<enquiries, counter, audits, now>>, LocksTyped',
           confirmations[c] # NoRow =>
               /\ row.user = confirmations[c].user
               /\ row.payload = confirmations[c].payload
               /\ row.expires = confirmations[c].expires
               /\ row.consumedAt = confirmations[c].consumedAt
               /\ confirmations[c].confirmedAt # Never
                     => row.confirmedAt # Never,
           row.status \in {"confirmed", "consumed"} => row.confirmedAt # Never,
           row.confirmedAt # Never => row.confirmedAt < row.expires,
           \A q \in Requests \ {r} :
               request[q].step = "prepare_insert" => request[q].id # c
    PROVE  Inv'
<1> USE DEF Inv, Become, SetRow
<1>1. TypeOK'
  BY DEF TypeOK, LocksTyped
<1>2. row # NoRow /\ \A d \in ConfirmationIds : d # c => confirmations'[d] = confirmations[d]
  BY DEF TypeOK, Confirmation, Status, NoRow
<1>3. confirmations'[c] = row
  BY DEF TypeOK
<1>4. RowsOK'
  BY <1>2, <1>3 DEF RowsOK
<1>5. EnquiriesOK'
  <2>1. EnquiryWasConfirmed'
    <3> SUFFICES ASSUME NEW e \in enquiries
                 PROVE  LET x == confirmations'[e.confirmation] IN
                        /\ x # NoRow
                        /\ x.user = e.buyer
                        /\ x.payload = e.payload
                        /\ x.confirmedAt # Never /\ x.confirmedAt < x.expires
                        /\ x.consumedAt # Never  /\ x.consumedAt < x.expires
      BY DEF EnquiryWasConfirmed
    <3>1. e.confirmation \in ConfirmationIds
      BY DEF TypeOK, Enquiry
    <3> QED BY <1>2, <1>3, <3>1 DEF EnquiriesOK, EnquiryWasConfirmed
  <2> QED BY <2>1 DEF EnquiriesOK, NumberedOnceWithoutGaps
<1>6. ReservationsOK'
  BY DEF ReservationsOK, TypeOK
<1>7. ASSUME NEW q \in Requests PROVE RequestOK(q)'
  <2>1. CASE q = r
    BY <2>1
  <2>2. CASE q # r
    <3>1. request'[q] = request[q]
      BY <2>2 DEF TypeOK
    <3>2. RowsKept
      BY <1>2, <1>3 DEF RowsKept
    <3>3. \A w \in Workspaces : counter[w] <= counter'[w] /\ counter'[w] \in Nat
      BY DEF TypeOK
    <3>4. request[q].step = "prepare_insert"
             => confirmations'[request[q].id] = NoRow
      BY <2>2, <1>2 DEF RequestOK
    <3> QED BY <3>1, <3>2, <3>3, <3>4, RequestFrame
  <2> QED BY <2>1, <2>2
<1> QED BY <1>1, <1>4, <1>5, <1>6, <1>7

\* The fields of a request that finishes: only the step and the result change.
LEMMA FinishedFields ==
    ASSUME NEW q \in Request, NEW result \in Results
    PROVE  LET f == Finished(q, result) IN
           /\ f \in Request /\ f.step = "done" /\ f.result = result
           /\ f.user = q.user /\ f.id = q.id /\ f.payload = q.payload
           /\ f.number = q.number /\ f.seen = q.seen
  BY DEF Finished, Request, Steps

\* The fields of a request that answers with a number.
LEMMA FinishedWithFields ==
    ASSUME NEW q \in Request, NEW result \in Results, NEW n \in Nat
    PROVE  LET f == [Finished(q, result) EXCEPT !.number = n] IN
           /\ f \in Request /\ f.step = "done" /\ f.result = result
           /\ f.user = q.user /\ f.id = q.id /\ f.payload = q.payload
           /\ f.number = n
  BY FinishedFields DEF Request

\* The fields of a request that goes to its next step.
LEMMA AtFields ==
    ASSUME NEW q \in Request, NEW step \in Steps
    PROVE  LET f == At(q, step) IN
           /\ f \in Request /\ f.step = step /\ f.result = q.result
           /\ f.user = q.user /\ f.id = q.id /\ f.payload = q.payload
           /\ f.stamp = q.stamp /\ f.number = q.number /\ f.seen = q.seen
  BY DEF At, Request

\* A request that becomes f is f in the next state.
LEMMA BecomeRecord ==
    ASSUME TypeOK, NEW r \in Requests, NEW f, Become(r, f)
    PROVE  request'[r] = f
  BY DEF TypeOK, Become

-----------------------------------------------------------------------------
(* Every action keeps the invariant.                                        *)

\* The invariant holds of the empty database.
LEMMA InitInv == Init => Inv
<1> SUFFICES ASSUME Init PROVE Inv
  OBVIOUS
<1> USE ConfirmationsAssumption DEF Init
<1>1. TypeOK
  BY NoRequestType DEF TypeOK, Never
<1>2. RowsOK /\ ReservationsOK
  BY DEF RowsOK, ReservationsOK, NoRequest
<1>3. EnquiriesOK
  BY DEF EnquiriesOK, EnquiryWasConfirmed, NumberedOnceWithoutGaps
<1>4. \A r \in Requests : RequestOK(r)
  BY DEF RequestOK, NoRequest
<1> QED BY <1>1, <1>2, <1>3, <1>4 DEF Inv

\* A request that arrives knows nothing yet, or the row it has just read.
LEMMA ArriveInv ==
    ASSUME Inv, NEW r \in Requests, Arrive(r)
    PROVE  Inv'
<1> USE DEF Inv
<1>0. TypeOK /\ LocksTyped
  BY DEF TypeOK, LocksTyped
<1>1. ASSUME NEW u \in Users, NEW s \in Sessions, NEW p \in Payloads,
             PrepareReuse(r, u, s, p)
      PROVE  Inv'
  <2>1. PICK c \in ConfirmationIds :
           Begin(r, [NoRequest EXCEPT !.step = "done", !.user = u,
                       !.session = s, !.payload = p, !.id = c,
                       !.result = "prepared"])
    BY <1>1 DEF PrepareReuse, PendingMatches
  <2> DEFINE f == [NoRequest EXCEPT !.step = "done", !.user = u,
                       !.session = s, !.payload = p, !.id = c,
                       !.result = "prepared"]
  <2>2. f \in Request /\ f.step = "done" /\ f.result = "prepared"
    BY DEF NoRequest, Request, Steps, Results, Never
  <2> HIDE DEF f
  <2>3. request'[r] = f
    BY <1>0, <2>1 DEF f, Begin, Become, TypeOK
  <2>4. RequestOK(r)'
    BY <2>2, <2>3 DEF RequestOK
  <2> QED BY <1>0, <1>1, <2>1, <2>2, <2>4, ReadStep
          DEF f, PrepareReuse, Begin, LocksTyped, locks
<1>2. ASSUME NEW u \in Users, NEW s \in Sessions, NEW p \in Payloads,
             PrepareMiss(r, u, s, p)
      PROVE  Inv'
  <2>1. PICK c \in ConfirmationIds :
           /\ Unissued(c)
           /\ Begin(r, [NoRequest EXCEPT !.step = "prepare_insert", !.user = u,
                          !.session = s, !.payload = p, !.id = c,
                          !.stamp = now])
    BY <1>2 DEF PrepareMiss
  <2> DEFINE f == [NoRequest EXCEPT !.step = "prepare_insert", !.user = u,
                          !.session = s, !.payload = p, !.id = c,
                          !.stamp = now]
  <2>2. /\ f \in Request /\ f.step = "prepare_insert" /\ f.result = "none"
        /\ f.user = u /\ f.session = s /\ f.payload = p /\ f.id = c
    BY <1>0 DEF NoRequest, Request, Steps, Results, Never, TypeOK
  <2> HIDE DEF f
  <2>3. request'[r] = f
    BY <1>0, <2>1 DEF f, Begin, Become, TypeOK
  <2>4. confirmations'[c] = NoRow
    BY <1>2, <2>1 DEF PrepareMiss, Unissued, tables
  <2>5. RequestOK(r)'
    BY <2>2, <2>3, <2>4 DEF RequestOK
  <2> QED BY <1>0, <1>2, <2>1, <2>2, <2>5, ReadStep
          DEF f, PrepareMiss, Begin, LocksTyped, locks
<1>3. ASSUME NEW u \in Users, NEW c \in ConfirmationIds,
             NEW step \in {"confirm_check", "cancel_write"},
             Begin(r, [NoRequest EXCEPT !.step = step, !.user = u, !.id = c]),
             confirmations[c] # NoRow,
             UNCHANGED <<tables, locks, now>>
      PROVE  Inv'
  <2> DEFINE f == [NoRequest EXCEPT !.step = step, !.user = u, !.id = c]
  <2>1. /\ f \in Request /\ f.step = step /\ f.result = "none" /\ f.id = c
    BY DEF NoRequest, Request, Steps, Never
  <2> HIDE DEF f
  <2>2. request'[r] = f
    BY <1>0, <1>3, BecomeRecord DEF f, Begin
  <2>3. RequestOK(r)'
    BY <1>3, <2>1, <2>2 DEF RequestOK, tables
  <2> QED BY <1>0, <1>3, <2>1, <2>3, ReadStep DEF f, Begin, LocksTyped, locks
<1>4. ASSUME NEW u \in Users, NEW c \in ConfirmationIds,
             NEW result \in {"not_confirmed", "not_cancelled"},
             Begin(r, [NoRequest EXCEPT !.step = "done", !.user = u, !.id = c,
                         !.result = result]),
             UNCHANGED <<tables, locks, now>>
      PROVE  Inv'
  <2> DEFINE f == [NoRequest EXCEPT !.step = "done", !.user = u, !.id = c,
                         !.result = result]
  <2>1. f \in Request /\ f.step = "done" /\ f.result = result
    BY DEF NoRequest, Request, Steps, Results, Never
  <2> HIDE DEF f
  <2>2. request'[r] = f
    BY <1>0, <1>4, BecomeRecord DEF f, Begin
  <2>3. RequestOK(r)'
    BY <2>1, <2>2 DEF RequestOK
  <2> QED BY <1>0, <1>4, <2>1, <2>3, ReadStep DEF f, Begin, LocksTyped, locks
<1>5. ASSUME NEW u \in Users, NEW c \in ConfirmationIds, NEW p \in Payloads,
             ConsumeBegin(r, u, c, p)
      PROVE  Inv'
  <2> DEFINE f == [NoRequest EXCEPT !.step = "consume_lock", !.user = u,
                                    !.id = c, !.payload = p]
  <2>1. /\ f \in Request /\ f.step = "consume_lock" /\ f.result = "none"
        /\ f.user = u /\ f.id = c /\ f.payload = p
    BY DEF NoRequest, Request, Steps, Never
  <2> HIDE DEF f
  <2>2. request'[r] = f
    BY <1>0, <1>5, BecomeRecord DEF f, Begin, ConsumeBegin
  <2>3. RequestOK(r)'
    BY <2>1, <2>2 DEF RequestOK
  <2> QED BY <1>0, <1>5, <2>1, <2>3, ReadStep
          DEF f, Begin, ConsumeBegin, LocksTyped, locks
<1>6. ASSUME NEW u \in Users, NEW c \in ConfirmationIds, ConfirmRead(r, u, c)
      PROVE  Inv'
  BY <1>3, <1>4, <1>6 DEF ConfirmRead, Visible
<1>7. ASSUME NEW u \in Users, NEW c \in ConfirmationIds, CancelRead(r, u, c)
      PROVE  Inv'
  BY <1>3, <1>4, <1>7 DEF CancelRead, Visible
<1> QED BY <1>1, <1>2, <1>5, <1>6, <1>7 DEF Arrive

\* prepare_confirmation's insert takes the identifier it reserved.
LEMMA PrepareInsertInv ==
    ASSUME Inv, NEW r \in Requests, PrepareInsert(r)
    PROVE  Inv'
<1> USE DEF Inv
<1> DEFINE q == request[r]
           c == q.id
           f == Finished(q, "prepared")
           row == [user |-> q.user, session |-> q.session,
                   payload |-> q.payload, status |-> "pending",
                   expires |-> q.stamp + TTL,
                   confirmedAt |-> Never, consumedAt |-> Never]
<1>1. q \in Request /\ q.step = "prepare_insert" /\ RequestOK(r)
  BY DEF TypeOK, PrepareInsert
<1>2. c \in ConfirmationIds /\ confirmations[c] = NoRow
  BY <1>1 DEF RequestOK
<1>3. row \in Confirmation
  BY <1>1, ConfirmationsAssumption
     DEF RequestOK, Confirmation, Status, Never, Request
<1>4. f \in Request /\ f.step = "done" /\ f.result = "prepared"
  <2>1. "prepared" \in Results
    BY DEF Results
  <2> QED BY <1>1, <2>1, FinishedFields
<1>5. \A o \in Requests \ {r} : request[o].step = "prepare_insert"
                                  => request[o].id # c
  BY <1>1 DEF ReservationsOK
<1>6. row.confirmedAt = Never /\ row.status = "pending"
  OBVIOUS
<1>7. /\ Become(r, f) /\ SetRow(c, row)
      /\ UNCHANGED <<enquiries, counter, audits, now>>
      /\ LocksTyped'
  BY DEF PrepareInsert, NewRow, Finish, TypeOK, LocksTyped, locks
<1> HIDE DEF f, row
<1>8. RequestOK(r)'
  BY <1>4, <1>7, BecomeRecord DEF RequestOK
<1> QED BY <1>2, <1>3, <1>4, <1>5, <1>6, <1>7, <1>8, RowStep

\* The status of a row that is only given a new status, expired or cancelled,
\* by a request that then finishes.
LEMMA StatusInv ==
    ASSUME Inv, NEW r \in Requests,
           NEW status \in {"expired", "cancelled"},
           NEW result \in {"not_confirmed", "cancelled", "confirmation_expired"},
           request[r].id \in ConfirmationIds,
           confirmations[request[r].id] # NoRow,
           SetStatus(request[r].id, status), Finish(r, result),
           UNCHANGED <<enquiries, counter, audits, now>>, LocksTyped'
    PROVE  Inv'
<1> USE DEF Inv
<1> DEFINE c   == request[r].id
           old == confirmations[c]
           row == [old EXCEPT !.status = status]
           f   == Finished(request[r], result)
<1>1. old \in Confirmation
  BY DEF TypeOK
<1>2. /\ row \in Confirmation /\ row.status = status
      /\ row.user = old.user /\ row.payload = old.payload
      /\ row.expires = old.expires /\ row.consumedAt = old.consumedAt
      /\ row.confirmedAt = old.confirmedAt
  BY <1>1 DEF Confirmation, Status
<1>3. f \in Request /\ f.step = "done" /\ f.result = result
  <2>1. result \in Results /\ request[r] \in Request
    BY DEF Results, TypeOK
  <2> QED BY <2>1, FinishedFields
<1>4. Become(r, f) /\ SetRow(c, row)
  BY DEF Finish, SetStatus
<1>5. RequestOK(r)'
  BY <1>3, <1>4, BecomeRecord DEF RequestOK
<1>6. \A q \in Requests \ {r} : request[q].step = "prepare_insert"
                                  => request[q].id # c
  BY DEF RequestOK
<1>7. row.confirmedAt # Never => row.confirmedAt < row.expires
  BY <1>2 DEF RowsOK
<1> HIDE DEF f, row
<1> QED BY <1>2, <1>3, <1>4, <1>5, <1>6, <1>7, RowStep

\* confirm_confirmation keeps the invariant, also when it writes a row that
\* changed after it was read.
LEMMA ConfirmInv ==
    ASSUME Inv, NEW r \in Requests,
           ConfirmCheck(r) \/ ConfirmExpire(r) \/ ConfirmWrite(r)
    PROVE  Inv'
<1> USE DEF Inv
<1> DEFINE q == request[r]
           c == q.id
<1>0. q \in Request /\ RequestOK(r) /\ LocksTyped /\ now \in Nat \ {Never}
  BY DEF TypeOK, LocksTyped
<1>1. CASE ConfirmCheck(r) /\ confirmations[c].expires <= now
  <2> DEFINE f == At(q, "confirm_expire")
  <2>1. "confirm_expire" \in Steps
    BY DEF Steps
  <2>2. /\ f \in Request /\ f.step = "confirm_expire"
        /\ f.result = q.result /\ f.id = c
    BY <1>0, <2>1, AtFields
  <2>3. Become(r, f) /\ UNCHANGED <<tables, now>> /\ LocksTyped'
    BY <1>0, <1>1 DEF ConfirmCheck, Expired, Goto, LocksTyped, locks
  <2> HIDE DEF f
  <2>4. RequestOK(r)'
    BY <1>0, <1>1, <2>2, <2>3, BecomeRecord DEF RequestOK, ConfirmCheck, tables, Results
  <2> QED BY <2>2, <2>3, <2>4, ReadStep
<1>2. CASE ConfirmCheck(r) /\ ~(confirmations[c].expires <= now)
  <2> DEFINE g == At(q, "confirm_write")
             f == [g EXCEPT !.stamp = now]
  <2>1. "confirm_write" \in Steps
    BY DEF Steps
  <2>2. g \in Request /\ g.step = "confirm_write" /\ g.result = q.result /\ g.id = c
    BY <1>0, <2>1, AtFields
  <2>3. /\ f \in Request /\ f.step = "confirm_write" /\ f.result = q.result
        /\ f.id = c /\ f.stamp = now
    BY <1>0, <2>2 DEF Request
  <2>4. Become(r, f) /\ UNCHANGED <<tables, now>> /\ LocksTyped'
    BY <1>0, <1>2 DEF ConfirmCheck, Expired, LocksTyped, locks
  <2>5. c \in ConfirmationIds /\ confirmations[c] # NoRow /\ q.result = "none"
    BY <1>0, <1>2 DEF ConfirmCheck, RequestOK
  <2>6. now < confirmations[c].expires
    BY <1>0, <1>2, <2>5 DEF TypeOK, Confirmation
  <2> HIDE DEF f, g
  <2>7. RequestOK(r)'
    BY <1>0, <2>3, <2>4, <2>5, <2>6, BecomeRecord DEF RequestOK, tables
  <2> QED BY <2>3, <2>4, <2>7, ReadStep
<1>3. CASE ConfirmExpire(r)
  <2>1. c \in ConfirmationIds /\ confirmations[c] # NoRow /\ LocksTyped'
    BY <1>0, <1>3 DEF ConfirmExpire, RequestOK, LocksTyped, locks
  <2> QED BY <1>3, <2>1, StatusInv DEF ConfirmExpire
<1>4. CASE ConfirmWrite(r)
  <2> DEFINE old == confirmations[c]
             row == [old EXCEPT !.status = "confirmed", !.confirmedAt = q.stamp]
             f   == Finished(q, "confirmed")
  <2>1. /\ c \in ConfirmationIds /\ old # NoRow /\ LocksTyped'
        /\ q.stamp # Never /\ q.stamp < old.expires
    BY <1>0, <1>4 DEF ConfirmWrite, RequestOK, LocksTyped, locks
  <2>2. old \in Confirmation /\ q.stamp \in Nat
    BY <1>0, <2>1 DEF TypeOK, Request
  <2>3. /\ row \in Confirmation /\ row.status = "confirmed"
        /\ row.user = old.user /\ row.payload = old.payload
        /\ row.expires = old.expires /\ row.consumedAt = old.consumedAt
        /\ row.confirmedAt = q.stamp
    BY <2>2 DEF Confirmation, Status
  <2>4. "confirmed" \in Results
    BY DEF Results
  <2>5. f \in Request /\ f.step = "done" /\ f.result = "confirmed"
    BY <1>0, <2>4, FinishedFields
  <2>6. Become(r, f) /\ SetRow(c, row) /\ UNCHANGED <<enquiries, counter, audits, now>>
    BY <1>4 DEF ConfirmWrite, Finish
  <2> HIDE DEF f, row
  <2>7. RequestOK(r)'
    BY <2>5, <2>6, BecomeRecord DEF RequestOK
  <2>8. \A o \in Requests \ {r} : request[o].step = "prepare_insert"
                                    => request[o].id # c
    BY <2>1 DEF RequestOK
  <2> QED BY <2>1, <2>3, <2>5, <2>6, <2>7, <2>8, RowStep
<1> QED BY <1>1, <1>2, <1>3, <1>4

\* cancel_confirmation's write keeps the invariant.
LEMMA CancelInv ==
    ASSUME Inv, NEW r \in Requests, CancelWrite(r)
    PROVE  Inv'
<1>1. /\ request[r].id \in ConfirmationIds
      /\ confirmations[request[r].id] # NoRow /\ LocksTyped'
  BY DEF CancelWrite, Inv, TypeOK, RequestOK, LocksTyped, locks
<1> QED BY <1>1, StatusInv DEF CancelWrite

\* A request that finishes without writing, with an answer that names no
\* enquiry, keeps the invariant.
LEMMA RefuseInv ==
    ASSUME Inv, NEW r \in Requests,
           NEW result \in Results \ {"created", "idempotent_replay"},
           Finish(r, result), UNCHANGED <<tables, now>>, LocksTyped'
    PROVE  Inv'
<1> DEFINE f == Finished(request[r], result)
<1>1. f \in Request /\ f.step = "done" /\ f.result = result
  BY FinishedFields DEF Inv, TypeOK
<1>2. Become(r, f)
  BY DEF Finish
<1> HIDE DEF f
<1>3. RequestOK(r)'
  BY <1>1, <1>2, BecomeRecord DEF RequestOK, Inv
<1> QED BY <1>1, <1>2, <1>3, ReadStep

\* A replay names the enquiry that was found for the request's confirmation.
LEMMA ReplayInv ==
    ASSUME Inv, NEW r \in Requests, Replay(r),
           request[r].step \in {"consume_examine", "consume_lookup"},
           UNCHANGED <<tables, now>>, LocksTyped'
    PROVE  Inv'
<1> USE DEF Inv
<1> DEFINE q == request[r]
<1>1. PICK e \in EnquiriesOf(q.id) : FinishWith(r, "idempotent_replay", e.number)
  BY DEF Replay
<1> DEFINE f == [Finished(q, "idempotent_replay") EXCEPT !.number = e.number]
<1>2. /\ e \in enquiries /\ e.confirmation = q.id /\ e.number \in Nat
      /\ confirmations[e.confirmation].user = e.buyer
  BY <1>1 DEF EnquiriesOf, TypeOK, Enquiry, EnquiriesOK, EnquiryWasConfirmed
<1>3. confirmations[q.id].user = q.user
  BY DEF RequestOK
<1>4. "idempotent_replay" \in Results
  BY DEF Results
<1>5. /\ f \in Request /\ f.step = "done" /\ f.result = "idempotent_replay"
      /\ f.user = q.user /\ f.id = q.id /\ f.number = e.number
  BY <1>2, <1>4, FinishedWithFields DEF TypeOK
<1>6. Become(r, f)
  BY <1>1 DEF FinishWith
<1> HIDE DEF f
<1>7. RequestOK(r)'
  BY <1>2, <1>3, <1>5, <1>6, BecomeRecord DEF RequestOK, tables
<1> QED BY <1>5, <1>6, <1>7, ReadStep

\* Locking, or on SQLite only reading, the confirmation keeps the invariant.
LEMMA ConsumeLockInv ==
    ASSUME Inv, NEW r \in Requests, ConsumeLock(r)
    PROVE  Inv'
<1> USE DEF Inv
<1> DEFINE q == request[r]
           c == q.id
           g == At(q, "consume_examine")
           f == [g EXCEPT !.seen = confirmations[c].status]
<1>1. /\ q \in Request /\ q.step = "consume_lock" /\ RequestOK(r)
      /\ UNCHANGED <<tables, now>> /\ LocksTyped /\ counterLock' = counterLock
  BY DEF TypeOK, ConsumeLock, LocksTyped
<1>2. c \in ConfirmationIds /\ q.user \in Users /\ q.payload \in Payloads
  BY <1>1 DEF RequestOK
<1>3. CASE Finish(r, "confirmation_not_found") /\ UNCHANGED rowLock
  <2>1. "confirmation_not_found" \in Results \ {"created", "idempotent_replay"}
    BY DEF Results
  <2> QED BY <1>1, <1>3, <2>1, RefuseInv DEF LocksTyped
<1>4. CASE /\ Visible(c, q.user)
           /\ Become(r, f)
           /\ rowLock' = IF PostgreSQL THEN [rowLock EXCEPT ![c] = r] ELSE rowLock
  <2>1. "consume_examine" \in Steps
    BY DEF Steps
  <2>2. /\ g \in Request /\ g.step = "consume_examine" /\ g.result = q.result
        /\ g.user = q.user /\ g.id = c /\ g.payload = q.payload
    BY <1>1, <2>1, AtFields
  <2>3. /\ confirmations[c] \in Confirmation /\ confirmations[c] # NoRow
        /\ confirmations[c].user = q.user
    BY <1>2, <1>4 DEF Visible, TypeOK
  <2>4. /\ f \in Request /\ f.step = "consume_examine" /\ f.result = q.result
        /\ f.user = q.user /\ f.id = c /\ f.payload = q.payload
        /\ f.seen = confirmations[c].status
    BY <2>2, <2>3 DEF Request, Confirmation
  <2>5. q.result = "none"
    BY <1>1 DEF RequestOK
  <2>6. LocksTyped'
    BY <1>1, <1>2, <1>4 DEF LocksTyped
  <2>7. Become(r, f)
    BY <1>4
  <2>8. f.seen = "confirmed" => confirmations[c].confirmedAt # Never
    BY <1>2, <2>3, <2>4 DEF RowsOK
  <2> HIDE DEF f, g
  <2>9. RequestOK(r)'
    BY <1>1, <1>2, <2>3, <2>4, <2>5, <2>7, <2>8, BecomeRecord
       DEF RequestOK, tables
  <2> QED BY <1>1, <2>4, <2>6, <2>7, <2>9, ReadStep
<1> QED BY <1>3, <1>4 DEF ConsumeLock, LockRow

\* Examining the row that was read keeps the invariant: what lets the request go
\* on to create the enquiry stays true until it does.
LEMMA ConsumeExamineInv ==
    ASSUME Inv, NEW r \in Requests, ConsumeExamine(r)
    PROVE  Inv'
<1> USE DEF Inv
<1> DEFINE q == request[r]
           c == q.id
           row == confirmations[c]
<1>1. /\ q \in Request /\ q.step = "consume_examine" /\ RequestOK(r)
      /\ UNCHANGED <<tables, now>> /\ LocksTyped' /\ now \in Nat \ {Never}
  BY DEF TypeOK, ConsumeExamine, LocksTyped, locks
<1>2. /\ q.user \in Users /\ c \in ConfirmationIds /\ q.payload \in Payloads
      /\ row # NoRow /\ row.user = q.user /\ q.result = "none"
      /\ q.seen = "confirmed" => row.confirmedAt # Never
      /\ row \in Confirmation
  BY <1>1 DEF RequestOK, TypeOK
<1>3. CASE Replay(r)
  BY <1>1, <1>3, ReplayInv
<1>4. CASE \/ Finish(r, "confirmation_payload_mismatch")
           \/ Finish(r, "confirmation_required")
  <2>1. {"confirmation_payload_mismatch", "confirmation_required"}
            \subseteq Results \ {"created", "idempotent_replay"}
    BY DEF Results
  <2> QED BY <1>1, <1>4, <2>1, RefuseInv
<1>5. CASE Goto(r, "consume_expire")
  <2> DEFINE f == At(q, "consume_expire")
  <2>1. "consume_expire" \in Steps
    BY DEF Steps
  <2>2. /\ f \in Request /\ f.step = "consume_expire" /\ f.result = q.result
        /\ f.user = q.user /\ f.id = c /\ f.payload = q.payload
    BY <1>1, <2>1, AtFields
  <2>3. Become(r, f)
    BY <1>5 DEF Goto
  <2> HIDE DEF f
  <2>4. RequestOK(r)'
    BY <1>1, <1>2, <2>2, <2>3, BecomeRecord DEF RequestOK, tables
  <2> QED BY <1>1, <2>2, <2>3, <2>4, ReadStep
<1>6. CASE /\ row.payload = q.payload /\ q.seen = "confirmed"
           /\ ~(row.expires <= now)
           /\ Become(r, [At(q, "consume_number") EXCEPT !.stamp = now])
  <2> DEFINE g == At(q, "consume_number")
             f == [g EXCEPT !.stamp = now]
  <2>1. "consume_number" \in Steps
    BY DEF Steps
  <2>2. /\ g \in Request /\ g.step = "consume_number" /\ g.result = q.result
        /\ g.user = q.user /\ g.id = c /\ g.payload = q.payload
    BY <1>1, <2>1, AtFields
  <2>3. /\ f \in Request /\ f.step = "consume_number" /\ f.result = q.result
        /\ f.user = q.user /\ f.id = c /\ f.payload = q.payload /\ f.stamp = now
    BY <1>1, <2>2 DEF Request
  <2>4. Become(r, f)
    BY <1>6
  <2>5. now < row.expires
    BY <1>1, <1>2, <1>6 DEF Confirmation
  <2> HIDE DEF f, g
  <2>6. RequestOK(r)'
    BY <1>1, <1>2, <1>6, <2>3, <2>4, <2>5, BecomeRecord DEF RequestOK, tables
  <2> QED BY <1>1, <2>3, <2>4, <2>6, ReadStep
<1> QED BY <1>3, <1>4, <1>5, <1>6
        DEF ConsumeExamine, SamePayload, Confirmed, Expired

\* Writing the expiry that consume_confirmation found keeps the invariant.
LEMMA ConsumeExpireInv ==
    ASSUME Inv, NEW r \in Requests, ConsumeExpire(r)
    PROVE  Inv'
<1>1. /\ request[r].id \in ConfirmationIds
      /\ confirmations[request[r].id] # NoRow
  BY DEF ConsumeExpire, Inv, TypeOK, RequestOK
<1>2. LocksTyped'
  BY ReleaseLocksType DEF ConsumeExpire, Inv
<1> QED BY <1>1, <1>2, StatusInv DEF ConsumeExpire

\* Reading the next number keeps the invariant: a counter never goes back, so
\* the number read is at most the counter for as long as the request holds it.
LEMMA ConsumeNumberInv ==
    ASSUME Inv, NEW r \in Requests, ConsumeNumber(r)
    PROVE  Inv'
<1> USE DEF Inv
<1> DEFINE q == request[r]
           w == WorkspaceOf[q.user]
           g == At(q, "consume_commit")
           f == [g EXCEPT !.number = counter[w]]
<1>1. /\ q \in Request /\ q.step = "consume_number" /\ RequestOK(r)
      /\ UNCHANGED <<tables, now>> /\ LocksTyped /\ rowLock' = rowLock
  BY DEF TypeOK, ConsumeNumber, LocksTyped
<1>2. q.user \in Users /\ w \in Workspaces /\ q.result = "none"
  BY <1>1, ConfirmationsAssumption DEF RequestOK
<1>3. counter[w] \in Nat /\ FirstNumber <= counter[w]
  BY <1>2 DEF TypeOK, EnquiriesOK
<1>4. "consume_commit" \in Steps
  BY DEF Steps
<1>5. /\ g \in Request /\ g.step = "consume_commit" /\ g.result = q.result
      /\ g.user = q.user /\ g.id = q.id /\ g.payload = q.payload /\ g.stamp = q.stamp
  BY <1>1, <1>4, AtFields
<1>6. /\ f \in Request /\ f.step = "consume_commit" /\ f.result = q.result
      /\ f.user = q.user /\ f.id = q.id /\ f.payload = q.payload
      /\ f.stamp = q.stamp /\ f.number = counter[w]
  BY <1>3, <1>5 DEF Request
<1>7. Become(r, f)
  BY DEF ConsumeNumber
<1>8. LocksTyped'
  BY <1>1, <1>2 DEF ConsumeNumber, LockCounter, LocksTyped
<1> HIDE DEF f, g
<1>9. RequestOK(r)'
  BY <1>1, <1>2, <1>3, <1>6, <1>7, BecomeRecord, ConfirmationsAssumption
     DEF RequestOK, tables
<1> QED BY <1>1, <1>6, <1>7, <1>8, <1>9, ReadStep

\* A number that violates no constraint is the next number: a request holds a
\* number between the first and the counter, and those below the counter are all
\* taken.  This is what makes the numbers gapless on SQLite too, where nothing
\* locks the counter.
LEMMA NumberIsNext ==
    ASSUME Inv, ConfirmationsAssumption, NEW r \in Requests,
           request[r].step = "consume_commit", ~Violates(r)
    PROVE  request[r].number = counter[WorkspaceOf[request[r].user]]
<1> USE DEF Inv
<1> DEFINE n == request[r].number
           w == WorkspaceOf[request[r].user]
<1>1. n \in Nat /\ RequestOK(r)
  BY DEF TypeOK, Request
<1>2. FirstNumber <= n /\ n <= counter[w] /\ w \in Workspaces
  BY <1>1 DEF RequestOK
<1>3. counter[w] \in Nat /\ FirstNumber \in Nat
  BY <1>2 DEF TypeOK
<1>4. SUFFICES ASSUME n < counter[w] PROVE FALSE
  BY <1>1, <1>2, <1>3
<1>5. n \in FirstNumber .. counter[w] - 1
  BY <1>1, <1>2, <1>3, <1>4
<1>6. PICK e \in enquiries : e.workspace = w /\ e.number = n
  BY <1>2, <1>5 DEF EnquiriesOK, NumberedOnceWithoutGaps
<1> QED BY <1>6 DEF Violates

\* The facts about the commit that the steps below use.
LEMMA CommitFacts ==
    ASSUME Inv, NEW r \in Requests, ConsumeCommit(r)
    PROVE  LET q   == request[r]
               c   == q.id
               w   == WorkspaceOf[q.user]
               old == confirmations[c]
               e   == [workspace |-> w, buyer |-> q.user, number |-> counter[w],
                       payload |-> q.payload, confirmation |-> c] IN
           /\ q \in Request /\ RequestOK(r)
           /\ c \in ConfirmationIds /\ q.user \in Users /\ w \in Workspaces
           /\ q.payload \in Payloads /\ counter[w] \in Nat
           /\ old \in Confirmation /\ old # NoRow
           /\ old.user = q.user /\ old.payload = q.payload
           /\ old.confirmedAt # Never /\ old.confirmedAt < old.expires
           /\ q.stamp # Never /\ q.stamp < old.expires /\ q.stamp \in Nat
           /\ q.number = counter[w]
           /\ confirmations' = [confirmations EXCEPT ![c] =
                   [old EXCEPT !.status = "consumed", !.consumedAt = q.stamp]]
           /\ e \in Enquiry
           /\ enquiries' = enquiries \cup {e}
           /\ \A d \in enquiries : d.confirmation # c
           /\ counter' = [counter EXCEPT ![w] = counter[w] + 1]
           /\ audits' = audits \cup
                 {[workspace |-> w, actor |-> q.user, number |-> counter[w],
                   confirmation |-> c]}
<1> USE DEF Inv
<1> DEFINE q == request[r]
           c == q.id
           w == WorkspaceOf[q.user]
           old == confirmations[c]
<1>1. q \in Request /\ q.step = "consume_commit" /\ RequestOK(r)
  BY DEF TypeOK, ConsumeCommit
<1>2. /\ c \in ConfirmationIds /\ q.user \in Users /\ w \in Workspaces
      /\ q.payload \in Payloads /\ old # NoRow
      /\ old.user = q.user /\ old.payload = q.payload
      /\ old.confirmedAt # Never /\ q.stamp # Never /\ q.stamp < old.expires
  BY <1>1, ConfirmationsAssumption DEF RequestOK
<1>3. old \in Confirmation /\ counter[w] \in Nat /\ q.stamp \in Nat
  BY <1>1, <1>2 DEF TypeOK, Request
<1>4. old.confirmedAt < old.expires
  BY <1>2 DEF RowsOK
<1>5. q.number = counter[w]
  BY <1>1, NumberIsNext, ConfirmationsAssumption DEF ConsumeCommit
<1>6. \A d \in enquiries : d.confirmation # c
  BY DEF ConsumeCommit, Violates
<1>7. [workspace |-> w, buyer |-> q.user, number |-> counter[w],
       payload |-> q.payload, confirmation |-> c] \in Enquiry
  BY <1>2, <1>3 DEF Enquiry
<1>8. /\ confirmations' = [confirmations EXCEPT ![c] =
             [old EXCEPT !.status = "consumed", !.consumedAt = q.stamp]]
      /\ enquiries' = enquiries \cup
             {[workspace |-> w, buyer |-> q.user, number |-> counter[w],
               payload |-> q.payload, confirmation |-> c]}
      /\ counter' = [counter EXCEPT ![w] = counter[w] + 1]
      /\ audits' = audits \cup
             {[workspace |-> w, actor |-> q.user, number |-> counter[w],
               confirmation |-> c]}
  BY <1>5 DEF ConsumeCommit, SetRow
<1> QED BY <1>1, <1>2, <1>3, <1>4, <1>5, <1>6, <1>7, <1>8

\* The commit keeps the invariant: the enquiry it adds was confirmed, is the
\* only one of its confirmation, and takes the next number.
LEMMA ConsumeCommitInv ==
    ASSUME Inv, NEW r \in Requests, ConsumeCommit(r)
    PROVE  Inv'
<1> USE DEF Inv
<1> DEFINE q   == request[r]
           c   == q.id
           w   == WorkspaceOf[q.user]
           old == confirmations[c]
           row == [old EXCEPT !.status = "consumed", !.consumedAt = q.stamp]
           e   == [workspace |-> w, buyer |-> q.user, number |-> counter[w],
                   payload |-> q.payload, confirmation |-> c]
           f   == Finished(q, "created")
<1>0. /\ q \in Request /\ RequestOK(r)
      /\ c \in ConfirmationIds /\ q.user \in Users /\ w \in Workspaces
      /\ q.payload \in Payloads /\ counter[w] \in Nat
      /\ old \in Confirmation /\ old # NoRow
      /\ old.user = q.user /\ old.payload = q.payload
      /\ old.confirmedAt # Never /\ old.confirmedAt < old.expires
      /\ q.stamp # Never /\ q.stamp < old.expires /\ q.stamp \in Nat
      /\ q.number = counter[w]
      /\ confirmations' = [confirmations EXCEPT ![c] = row]
      /\ e \in Enquiry
      /\ enquiries' = enquiries \cup {e}
      /\ \A d \in enquiries : d.confirmation # c
      /\ counter' = [counter EXCEPT ![w] = counter[w] + 1]
      /\ audits' = audits \cup
            {[workspace |-> w, actor |-> q.user, number |-> counter[w],
              confirmation |-> c]}
  BY CommitFacts
<1>1. /\ row \in Confirmation /\ row.status = "consumed"
      /\ row.user = old.user /\ row.payload = old.payload
      /\ row.expires = old.expires /\ row.consumedAt = q.stamp
      /\ row.confirmedAt = old.confirmedAt
  BY <1>0 DEF Confirmation, Status
<1>2. row # NoRow
  BY <1>1 DEF NoRow, Confirmation
<1>3. /\ e.workspace = w /\ e.buyer = q.user /\ e.number = counter[w]
      /\ e.payload = q.payload /\ e.confirmation = c
  OBVIOUS
<1>4. /\ f \in Request /\ f.step = "done" /\ f.result = "created"
      /\ f.user = q.user /\ f.id = c /\ f.number = q.number
  <2>1. "created" \in Results
    BY DEF Results
  <2> QED BY <1>0, <2>1, FinishedFields
<1>5. Become(r, f) /\ now' = now
  BY DEF ConsumeCommit, Finish
<1>6. request'[r] = f /\ request' \in [Requests -> Request]
  BY <1>4, <1>5, BecomeRecord DEF TypeOK, Become
<1>7. [workspace |-> w, actor |-> q.user, number |-> counter[w],
       confirmation |-> c] \in Audit
  BY <1>0 DEF Audit
<1>8. LocksTyped'
  BY ReleaseLocksType DEF ConsumeCommit
<1> HIDE DEF row, e, f
<1>9. TypeOK'
  <2>1. confirmations' \in [ConfirmationIds -> Confirmation \cup {NoRow}]
    BY <1>0, <1>1 DEF TypeOK
  <2>2. enquiries' \subseteq Enquiry
    BY <1>0 DEF TypeOK
  <2>3. audits' \subseteq Audit
    BY <1>0, <1>7 DEF TypeOK
  <2>4. counter' \in [Workspaces -> Nat]
    BY <1>0 DEF TypeOK
  <2>5. now' \in Nat \ {Never}
    BY <1>5 DEF TypeOK
  <2> QED BY <2>1, <2>2, <2>3, <2>4, <2>5, <1>6, <1>8 DEF TypeOK, LocksTyped
<1>10. \A d \in ConfirmationIds \ {c} : confirmations'[d] = confirmations[d]
  BY <1>0 DEF TypeOK
<1>11. confirmations'[c] = row
  BY <1>0 DEF TypeOK
<1>12. RowsOK'
  BY <1>0, <1>1, <1>10, <1>11 DEF RowsOK
<1>13. ReservationsOK'
  <2>1. \A o \in Requests \ {r} : request'[o] = request[o]
    BY <1>5 DEF TypeOK, Become
  <2>2. request'[r].step # "prepare_insert"
    BY <1>4, <1>6
  <2> QED BY <2>1, <2>2 DEF ReservationsOK
<1>14. EnquiriesOK'
  <2>1. EnquiryWasConfirmed'
    <3> SUFFICES ASSUME NEW d \in enquiries \cup {e}
                 PROVE  LET x == confirmations'[d.confirmation] IN
                        /\ x # NoRow
                        /\ x.user = d.buyer
                        /\ x.payload = d.payload
                        /\ x.confirmedAt # Never /\ x.confirmedAt < x.expires
                        /\ x.consumedAt # Never  /\ x.consumedAt < x.expires
      BY <1>0 DEF EnquiryWasConfirmed
    <3>1. CASE d = e
      BY <3>1, <1>0, <1>1, <1>2, <1>3, <1>11
    <3>2. CASE d \in enquiries
      <4>1. d.confirmation \in ConfirmationIds \ {c}
        BY <3>2, <1>0 DEF TypeOK, Enquiry
      <4> QED BY <3>2, <4>1, <1>10 DEF EnquiriesOK, EnquiryWasConfirmed
    <3> QED BY <3>1, <3>2
  <2>2. \A d \in enquiries' : d.workspace = WorkspaceOf[d.buyer]
    BY <1>0, <1>3 DEF EnquiriesOK
  <2>3. \A d \in enquiries : ~(d.workspace = w /\ d.number = counter[w])
    <3>1. {d.number : d \in {x \in enquiries : x.workspace = w}}
             = FirstNumber .. counter[w] - 1
      BY <1>0 DEF EnquiriesOK, NumberedOnceWithoutGaps
    <3>2. counter[w] \notin FirstNumber .. counter[w] - 1
      BY <1>0, ConfirmationsAssumption
    <3> QED BY <3>1, <3>2
  <2>4. \A d, x \in enquiries' :
           \/ d.confirmation = x.confirmation
           \/ d.workspace = x.workspace /\ d.number = x.number
           => d = x
    BY <2>3, <1>0, <1>3 DEF EnquiriesOK, NumberedOnceWithoutGaps
  <2>5. ASSUME NEW v \in Workspaces
        PROVE  {d.number : d \in {x \in enquiries' : x.workspace = v}}
                   = FirstNumber .. counter'[v] - 1
    <3>1. {d.number : d \in {x \in enquiries : x.workspace = v}}
             = FirstNumber .. counter[v] - 1
      BY DEF EnquiriesOK, NumberedOnceWithoutGaps
    <3>2. CASE v # w
      <4>1. counter'[v] = counter[v]
        BY <3>2, <1>0 DEF TypeOK
      <4>2. {x \in enquiries' : x.workspace = v} = {x \in enquiries : x.workspace = v}
        BY <3>2, <1>0, <1>3
      <4> QED BY <3>1, <4>1, <4>2
    <3>3. CASE v = w
      <4>1. counter'[v] = counter[v] + 1
        BY <3>3, <1>0 DEF TypeOK
      <4>2. {x \in enquiries' : x.workspace = v}
               = {x \in enquiries : x.workspace = v} \cup {e}
        BY <3>3, <1>0, <1>3
      <4>3. {d.number : d \in {x \in enquiries' : x.workspace = v}}
               = (FirstNumber .. counter[v] - 1) \cup {counter[v]}
        BY <3>1, <3>3, <4>2, <1>3
      <4>4. FirstNumber <= counter[v] /\ counter[v] \in Nat /\ FirstNumber \in Nat
        BY <3>3, <1>0, ConfirmationsAssumption DEF EnquiriesOK
      <4>5. (FirstNumber .. counter[v] - 1) \cup {counter[v]}
               = FirstNumber .. (counter[v] + 1) - 1
        BY <4>4
      <4> QED BY <4>1, <4>3, <4>5
    <3> QED BY <3>2, <3>3
  <2>6. \A v \in Workspaces : FirstNumber <= counter'[v]
    BY <1>0, ConfirmationsAssumption DEF EnquiriesOK, TypeOK
  <2>7. NumberedOnceWithoutGaps'
    BY <2>4, <2>5 DEF NumberedOnceWithoutGaps
  <2> QED BY <2>1, <2>2, <2>6, <2>7 DEF EnquiriesOK
<1>15. ASSUME NEW o \in Requests PROVE RequestOK(o)'
  <2>1. CASE o = r
    <3>1. e \in enquiries'
      BY <1>0
    <3> QED BY <2>1, <3>1, <1>0, <1>3, <1>4, <1>6 DEF RequestOK
  <2>2. CASE o # r
    <3>1. request'[o] = request[o]
      BY <2>2, <1>5 DEF TypeOK, Become
    <3>2. RowsKept
      BY <1>0, <1>1, <1>2, <1>10, <1>11 DEF RowsKept
    <3>3. \A v \in Workspaces : counter[v] <= counter'[v] /\ counter'[v] \in Nat
      BY <1>0 DEF TypeOK
    <3>4. request[o].step = "prepare_insert"
             => confirmations'[request[o].id] = NoRow
      BY <1>0, <1>10 DEF RequestOK
    <3> QED BY <3>1, <3>2, <3>3, <3>4, <1>0, RequestFrame
  <2> QED BY <2>1, <2>2
<1> QED BY <1>9, <1>12, <1>13, <1>14, <1>15

\* Rolling back, and looking the enquiry up afterwards, keep the invariant.
LEMMA ConsumeFailureInv ==
    ASSUME Inv, NEW r \in Requests, ConsumeRollback(r) \/ ConsumeLookup(r)
    PROVE  Inv'
<1> USE DEF Inv
<1> DEFINE q == request[r]
<1>1. q \in Request /\ RequestOK(r)
  BY DEF TypeOK
<1>2. CASE ConsumeRollback(r)
  <2> DEFINE f == At(q, "consume_lookup")
  <2>1. "consume_lookup" \in Steps
    BY DEF Steps
  <2>2. /\ f \in Request /\ f.step = "consume_lookup" /\ f.result = q.result
        /\ f.user = q.user /\ f.id = q.id /\ f.payload = q.payload
    BY <1>1, <2>1, AtFields
  <2>3. Become(r, f) /\ UNCHANGED <<tables, now>> /\ q.step = "consume_commit"
    BY <1>2 DEF ConsumeRollback, Goto
  <2>4. LocksTyped'
    BY <1>2, ReleaseLocksType DEF ConsumeRollback
  <2> HIDE DEF f
  <2>5. RequestOK(r)'
    BY <1>1, <2>2, <2>3, BecomeRecord DEF RequestOK, tables
  <2> QED BY <2>2, <2>3, <2>4, <2>5, ReadStep
<1>3. CASE ConsumeLookup(r)
  <2>1. LocksTyped' /\ UNCHANGED <<tables, now>> /\ q.step = "consume_lookup"
    BY <1>3 DEF ConsumeLookup, TypeOK, LocksTyped, locks
  <2>2. CASE Replay(r)
    BY <2>1, <2>2, ReplayInv
  <2>3. CASE Finish(r, "raised")
    <3>1. "raised" \in Results \ {"created", "idempotent_replay"}
      BY DEF Results
    <3> QED BY <2>1, <2>3, <3>1, RefuseInv
  <2> QED BY <1>3, <2>2, <2>3 DEF ConsumeLookup
<1> QED BY <1>2, <1>3

\* A request that returns, or dies at any step, keeps the invariant.
LEMMA EndInv ==
    ASSUME Inv, NEW r \in Requests, Return(r) \/ Abort(r)
    PROVE  Inv'
<1>1. /\ Become(r, NoRequest) /\ ReleaseLocks(r)
      /\ UNCHANGED <<tables, now>>
  BY DEF Return, Abort
<1>2. LocksTyped'
  BY <1>1, ReleaseLocksType DEF Inv
<1>3. request'[r] = NoRequest
  BY <1>1, BecomeRecord DEF Inv
<1>4. RequestOK(r)'
  BY <1>3 DEF RequestOK, NoRequest
<1>5. NoRequest.step # "prepare_insert"
  BY DEF NoRequest
<1> QED BY <1>1, <1>2, <1>4, <1>5, NoRequestType, ReadStep

\* The passing of time, and steps that change nothing, keep the invariant.
LEMMA TimeInv ==
    ASSUME Inv, Tick \/ UNCHANGED vars
    PROVE  Inv'
<1> USE DEF Inv
<1>1. UNCHANGED <<tables, locks, request>> /\ (now' = now + 1 \/ now' = now)
  BY DEF Tick, vars
<1>2. TypeOK'
  BY <1>1 DEF TypeOK, tables, locks, Never
<1>3. RowsOK' /\ ReservationsOK' /\ EnquiriesOK'
  BY <1>1 DEF RowsOK, ReservationsOK, EnquiriesOK, EnquiryWasConfirmed,
              NumberedOnceWithoutGaps, tables
<1>4. \A r \in Requests : RequestOK(r)'
  BY <1>1 DEF RequestOK, tables
<1> QED BY <1>2, <1>3, <1>4

\* The invariant is inductive.
LEMMA NextInv ==
    ASSUME Inv, [Next]_vars
    PROVE  Inv'
<1>1. CASE Tick \/ UNCHANGED vars
  BY <1>1, TimeInv
<1>2. ASSUME NEW r \in Requests, Arrive(r) \/ Advance(r) \/ Abort(r)
      PROVE  Inv'
  <2>1. CASE Arrive(r)
    BY <2>1, ArriveInv
  <2>2. CASE Abort(r)
    BY <2>2, EndInv
  <2>3. CASE Advance(r)
    BY <2>3, PrepareInsertInv, ConfirmInv, CancelInv, ConsumeLockInv,
       ConsumeExamineInv, ConsumeExpireInv, ConsumeNumberInv, ConsumeCommitInv,
       ConsumeFailureInv, EndInv DEF Advance
  <2> QED BY <1>2, <2>1, <2>2, <2>3
<1> QED BY <1>1, <1>2 DEF Next

-----------------------------------------------------------------------------
(* The theorems.                                                            *)

\* The inductive invariant holds in every state of every behaviour, on
\* PostgreSQL and on SQLite.
THEOREM Invariance == Spec => []Inv
<1>1. Init => Inv
  BY InitInv
<1>2. Inv /\ [Next]_vars => Inv'
  BY NextInv
<1> QED BY <1>1, <1>2, PTL DEF Spec

\* The tables, the locks, the requests and the clock stay within their types.
THEOREM TypeCorrect == Spec => []TypeOK
<1>1. Inv => TypeOK
  BY DEF Inv
<1> QED BY <1>1, Invariance, PTL

\* consume_confirmation creates an enquiry only from a confirmation that its
\* buyer gave for exactly its payload, before the confirmation expired.
THEOREM OnlyConfirmedIsCreated == Spec => []EnquiryWasConfirmed
<1>1. Inv => EnquiryWasConfirmed
  BY DEF Inv, EnquiriesOK
<1> QED BY <1>1, Invariance, PTL

\* Each confirmation yields at most one enquiry, and the display numbers of a
\* workspace are allocated without a gap or a duplicate.
THEOREM NumberedInSequence == Spec => []NumberedOnceWithoutGaps
<1>1. Inv => NumberedOnceWithoutGaps
  BY DEF Inv, EnquiriesOK
<1> QED BY <1>1, Invariance, PTL

\* An answer that names an enquiry names the caller's own enquiry, the one that
\* the caller's confirmation yielded.
THEOREM AnswersAreOwn == Spec => []AnswerNamesOwnEnquiry
<1>1. Inv => AnswerNamesOwnEnquiry
  BY DEF Inv, RequestOK, AnswerNamesOwnEnquiry
<1> QED BY <1>1, Invariance, PTL

-----------------------------------------------------------------------------
(* What a client of the service may rely on.                                *)

\* What one step of the service does to the tables: a row keeps its buyer, its
\* session and its payload, and no enquiry goes away.
TablesKept ==
    /\ \A c \in ConfirmationIds :
          confirmations[c] # NoRow =>
              /\ confirmations'[c] # NoRow
              /\ confirmations'[c].user = confirmations[c].user
              /\ confirmations'[c].session = confirmations[c].session
              /\ confirmations'[c].payload = confirmations[c].payload
    /\ enquiries \subseteq enquiries'

\* Every step of the service keeps the rows and the enquiries.
LEMMA StepKeepsTables ==
    ASSUME Inv, [Next]_vars
    PROVE  TablesKept
<1> USE DEF Inv
<1>1. CASE UNCHANGED tables
  BY <1>1 DEF tables, TablesKept
<1>2. ASSUME NEW c \in ConfirmationIds, NEW row, SetRow(c, row),
             row # NoRow, enquiries \subseteq enquiries',
             confirmations[c] # NoRow =>
                 /\ row.user = confirmations[c].user
                 /\ row.session = confirmations[c].session
                 /\ row.payload = confirmations[c].payload
      PROVE  TablesKept
  BY <1>2 DEF TablesKept, SetRow, TypeOK
<1>3. ASSUME NEW r \in Requests, NEW status \in Status \ {"pending"},
             request[r].step \in {"confirm_expire", "cancel_write", "consume_expire"},
             SetStatus(request[r].id, status), UNCHANGED enquiries
      PROVE  TablesKept
  <2> DEFINE c == request[r].id
             row == [confirmations[c] EXCEPT !.status = status]
  <2>1. c \in ConfirmationIds /\ confirmations[c] # NoRow
    BY <1>3 DEF RequestOK
  <2>2. confirmations[c] \in Confirmation
    BY <2>1 DEF TypeOK
  <2>3. /\ row.status = status /\ row.user = confirmations[c].user
        /\ row.session = confirmations[c].session
        /\ row.payload = confirmations[c].payload
    BY <2>2 DEF Confirmation
  <2>4. row # NoRow
    BY <2>3 DEF Status, NoRow
  <2> QED BY <1>2, <1>3, <2>1, <2>3, <2>4 DEF SetStatus
<1>4. ASSUME NEW r \in Requests, PrepareInsert(r)
      PROVE  TablesKept
  <2>1. /\ request[r].id \in ConfirmationIds
        /\ confirmations[request[r].id] = NoRow
    BY <1>4 DEF PrepareInsert, RequestOK
  <2>2. NewRow(request[r]) # NoRow
    BY DEF NewRow, NoRow
  <2> QED BY <1>2, <1>4, <2>1, <2>2 DEF PrepareInsert
<1>5. ASSUME NEW r \in Requests, ConfirmWrite(r)
      PROVE  TablesKept
  <2> DEFINE c == request[r].id
             row == [confirmations[c] EXCEPT !.status = "confirmed",
                                             !.confirmedAt = request[r].stamp]
  <2>1. c \in ConfirmationIds /\ confirmations[c] # NoRow
    BY <1>5 DEF ConfirmWrite, RequestOK
  <2>2. confirmations[c] \in Confirmation
    BY <2>1 DEF TypeOK
  <2>3. /\ row.status = "confirmed" /\ row.user = confirmations[c].user
        /\ row.session = confirmations[c].session
        /\ row.payload = confirmations[c].payload
    BY <2>2 DEF Confirmation
  <2>4. row # NoRow
    BY <2>3 DEF NoRow
  <2> QED BY <1>2, <1>5, <2>1, <2>3, <2>4 DEF ConfirmWrite
<1>6. ASSUME NEW r \in Requests, ConsumeCommit(r)
      PROVE  TablesKept
  <2> DEFINE c == request[r].id
             row == [confirmations[c] EXCEPT !.status = "consumed",
                                             !.consumedAt = request[r].stamp]
  <2>1. c \in ConfirmationIds /\ confirmations[c] # NoRow
    BY <1>6 DEF ConsumeCommit, RequestOK
  <2>2. confirmations[c] \in Confirmation
    BY <2>1 DEF TypeOK
  <2>3. /\ row.status = "consumed" /\ row.user = confirmations[c].user
        /\ row.session = confirmations[c].session
        /\ row.payload = confirmations[c].payload
    BY <2>2 DEF Confirmation
  <2>4. row # NoRow
    BY <2>3 DEF NoRow
  <2> QED BY <1>2, <1>6, <2>1, <2>3, <2>4 DEF ConsumeCommit
<1>7. ASSUME NEW r \in Requests, Advance(r)
      PROVE  TablesKept
  <2>1. CASE ConfirmExpire(r) \/ CancelWrite(r) \/ ConsumeExpire(r)
    BY <1>3, <2>1 DEF ConfirmExpire, CancelWrite, ConsumeExpire, Status
  <2>2. CASE ConfirmCheck(r) \/ ConsumeLock(r) \/ ConsumeExamine(r)
             \/ ConsumeNumber(r) \/ ConsumeRollback(r) \/ ConsumeLookup(r)
             \/ Return(r)
    BY <1>1, <2>2 DEF ConfirmCheck, ConsumeLock, ConsumeExamine, ConsumeNumber,
                      ConsumeRollback, ConsumeLookup, Return
  <2> QED BY <1>4, <1>5, <1>6, <1>7, <2>1, <2>2 DEF Advance
<1>8. ASSUME NEW r \in Requests, Arrive(r)
      PROVE  UNCHANGED tables
  BY <1>8 DEF Arrive, PrepareReuse, PrepareMiss, ConfirmRead, CancelRead,
              ConsumeBegin
<1> QED BY <1>1, <1>7, <1>8 DEF Next, Abort, Tick, vars


-----------------------------------------------------------------------------
(* Who holds the locks, and why nobody waits for them in vain.              *)

RowHolders ==
    {"consume_examine", "consume_expire", "consume_number", "consume_commit",
     "done"}

\* A request holds a counter only just before its commit, and a row only from the
\* statement that locks it to the end of its transaction.
LockHoldersOK ==
    \A r \in Requests :
        /\ \A c \in ConfirmationIds :
              rowLock[c] = r => request[r].step \in RowHolders
        /\ \A w \in Workspaces :
              counterLock[w] = r => request[r].step = "consume_commit"

\* What a step of r may do to the locks: take some, or give some up.
OwnLocksOnly(r) ==
    /\ \A c \in ConfirmationIds : rowLock'[c] \in {rowLock[c], r, Nothing}
    /\ \A w \in Workspaces : counterLock'[w] \in {counterLock[w], r, Nothing}

NoLock(r) ==
    /\ \A c \in ConfirmationIds : rowLock[c] # r
    /\ \A w \in Workspaces : counterLock[w] # r

\* A step of r keeps the locks in the right hands if r has, after the step, only
\* locks that its new step allows.
LEMMA HolderStep ==
    ASSUME TypeOK, LockHoldersOK, NEW r \in Requests, NEW f, Become(r, f),
           OwnLocksOnly(r),
           \/ f.step \in RowHolders
           \/ \A c \in ConfirmationIds : rowLock'[c] # r,
           \/ f.step = "consume_commit"
           \/ \A w \in Workspaces : counterLock'[w] # r
    PROVE  LockHoldersOK'
<1>1. request'[r] = f
  BY BecomeRecord
<1>2. ASSUME NEW o \in Requests, o # r
      PROVE  /\ request'[o] = request[o] /\ o # Nothing
             /\ \A c \in ConfirmationIds : rowLock'[c] = o => rowLock[c] = o
             /\ \A w \in Workspaces : counterLock'[w] = o => counterLock[w] = o
  BY <1>2, ConfirmationsAssumption DEF TypeOK, Become, OwnLocksOnly
<1> QED BY <1>1, <1>2 DEF LockHoldersOK

\* A request that gives up its locks has none, and nobody loses one by it.
LEMMA ReleasedLocks ==
    ASSUME TypeOK, NEW r \in Requests, ReleaseLocks(r)
    PROVE  NoLock(r)' /\ OwnLocksOnly(r)
  BY ConfirmationsAssumption DEF TypeOK, ReleaseLocks, NoLock, OwnLocksOnly

\* A request outside its transaction has no lock.
LEMMA OutsideHasNoLock ==
    ASSUME LockHoldersOK, NEW r \in Requests, request[r].step \notin RowHolders
    PROVE  NoLock(r)
  BY DEF LockHoldersOK, NoLock, RowHolders

\* Every step of a request keeps the locks in the right hands.
LEMMA HoldersNext ==
    ASSUME TypeOK, LockHoldersOK, NEW r \in Requests,
           Arrive(r) \/ Advance(r) \/ Abort(r)
    PROVE  LockHoldersOK'
<1> DEFINE q == request[r]
<1>0. q \in Request
  BY DEF TypeOK
<1>1. CASE \/ Arrive(r) \/ PrepareInsert(r) \/ ConfirmCheck(r) \/ ConfirmExpire(r)
           \/ ConfirmWrite(r) \/ CancelWrite(r) \/ ConsumeLookup(r)
           \/ ConsumeLock(r) /\ UNCHANGED rowLock
  <2>1. UNCHANGED locks /\ q.step \notin RowHolders
    <3>1. CASE Arrive(r)
      <4>1. UNCHANGED locks /\ q = NoRequest
        BY <3>1 DEF Arrive, PrepareReuse, PrepareMiss, ConfirmRead, CancelRead,
                    ConsumeBegin, Begin
      <4> QED BY <4>1 DEF NoRequest, RowHolders
    <3>2. CASE ~Arrive(r)
      BY <1>1, <3>2 DEF PrepareInsert, ConfirmCheck, ConfirmExpire, ConfirmWrite,
                        CancelWrite, ConsumeLookup, ConsumeLock, RowHolders, locks
    <3> QED BY <3>1, <3>2
  <2>2. PICK f : Become(r, f)
    BY <1>1 DEF Arrive, PrepareReuse, PrepareMiss, ConfirmRead, CancelRead, Begin,
                ConsumeBegin, PrepareInsert, ConfirmCheck, ConfirmExpire,
                ConfirmWrite, CancelWrite, ConsumeLookup, ConsumeLock, Replay,
                FinishWith, Finish, Goto
  <2>3. NoLock(r)' /\ OwnLocksOnly(r)
    BY <2>1, OutsideHasNoLock DEF NoLock, OwnLocksOnly, locks
  <2> QED BY <2>2, <2>3, HolderStep DEF NoLock
<1>2. CASE \/ ConsumeExpire(r) \/ ConsumeCommit(r) \/ ConsumeRollback(r)
           \/ Return(r) \/ Abort(r)
  <2>1. ReleaseLocks(r)
    BY <1>2 DEF ConsumeExpire, ConsumeCommit, ConsumeRollback, Return, Abort
  <2>2. PICK f : Become(r, f)
    BY <1>2 DEF ConsumeExpire, ConsumeCommit, ConsumeRollback, Return, Abort,
                Finish, Goto
  <2> QED BY <2>1, <2>2, ReleasedLocks, HolderStep DEF NoLock
<1>3. CASE ConsumeLock(r) /\ rowLock' # rowLock
  <2>1. /\ Become(r, [At(q, "consume_examine")
                        EXCEPT !.seen = confirmations[q.id].status])
        /\ LockRow(q.id, r) /\ q.step = "consume_lock" /\ UNCHANGED counterLock
    BY <1>3 DEF ConsumeLock
  <2>2. [At(q, "consume_examine") EXCEPT !.seen = confirmations[q.id].status].step
           = "consume_examine"
    BY <1>0, AtFields DEF Request, Steps
  <2>3. NoLock(r)
    BY <2>1, OutsideHasNoLock DEF RowHolders
  <2>4. OwnLocksOnly(r)
    BY <2>1 DEF LockRow, OwnLocksOnly, TypeOK
  <2> QED BY <2>1, <2>2, <2>3, <2>4, HolderStep DEF NoLock, RowHolders
<1>4. CASE ConsumeExamine(r)
  <2>1. UNCHANGED locks /\ q.step = "consume_examine"
    BY <1>4 DEF ConsumeExamine
  <2>2. /\ \A w \in Workspaces : counterLock'[w] # r
        /\ OwnLocksOnly(r)
    BY <2>1 DEF LockHoldersOK, OwnLocksOnly, locks
  <2>3. ASSUME NEW f, Become(r, f), f.step \in RowHolders
        PROVE  LockHoldersOK'
    BY <2>2, <2>3, HolderStep
  <2>4. ASSUME NEW result \in Results, Finish(r, result)
        PROVE  LockHoldersOK'
    BY <1>0, <2>3, <2>4, FinishedFields DEF Finish, RowHolders
  <2>5. CASE Replay(r)
    <3>1. PICK e \in enquiries : FinishWith(r, "idempotent_replay", e.number)
      BY <2>5 DEF Replay, EnquiriesOf
    <3>2. e.number \in Nat /\ "idempotent_replay" \in Results
      BY DEF TypeOK, Enquiry, Results
    <3>3. [Finished(q, "idempotent_replay") EXCEPT !.number = e.number].step = "done"
      BY <1>0, <3>2, FinishedWithFields
    <3> QED BY <2>3, <3>1, <3>3 DEF FinishWith, RowHolders
  <2>6. CASE Goto(r, "consume_expire")
    <3>1. At(q, "consume_expire").step = "consume_expire"
      BY <1>0, AtFields DEF Steps
    <3> QED BY <2>3, <2>6, <3>1 DEF Goto, RowHolders
  <2>7. CASE Become(r, [At(q, "consume_number") EXCEPT !.stamp = now])
    <3>1. [At(q, "consume_number") EXCEPT !.stamp = now].step = "consume_number"
      BY <1>0, AtFields DEF Request, Steps
    <3> QED BY <2>3, <2>7, <3>1 DEF RowHolders
  <2> QED BY <1>4, <2>4, <2>5, <2>6, <2>7 DEF ConsumeExamine, Results
<1>5. CASE ConsumeNumber(r)
  <2> DEFINE w == WorkspaceOf[q.user]
             f == [At(q, "consume_commit") EXCEPT !.number = counter[w]]
  <2>1. /\ Become(r, f)
        /\ LockCounter(w, r) /\ UNCHANGED rowLock
    BY <1>5 DEF ConsumeNumber
  <2>2. f.step = "consume_commit"
    BY <1>0, AtFields DEF Request, Steps
  <2>3. OwnLocksOnly(r)
    BY <2>1 DEF LockCounter, OwnLocksOnly, TypeOK
  <2> HIDE DEF f
  <2> QED BY <2>1, <2>2, <2>3, HolderStep DEF RowHolders
<1> QED BY <1>1, <1>2, <1>3, <1>4, <1>5 DEF Advance

\* In every reachable state the locks are in the hands of those that will give
\* them up.
LEMMA LockHolders == Spec => []LockHoldersOK
<1>1. Init => LockHoldersOK
  BY ConfirmationsAssumption DEF Init, LockHoldersOK
<1>2. TypeOK /\ LockHoldersOK /\ [Next]_vars => LockHoldersOK'
  <2>1. ASSUME TypeOK, LockHoldersOK, Tick \/ UNCHANGED vars
        PROVE  LockHoldersOK'
    BY <2>1 DEF Tick, vars, locks, LockHoldersOK
  <2> QED BY <2>1, HoldersNext DEF Next
<1> QED BY <1>1, <1>2, TypeCorrect, PTL DEF Spec

\* Who holds what decides who waits: holders of a row are past all row locks, and
\* the holder of a counter is at its commit.
LEMMA HoldersWaitInOrder ==
    ASSUME Inv, LockHoldersOK
    PROVE  NoCircularWait
<1>1. ASSUME NEW r \in Requests, NEW q \in Requests, WaitsForRow(r, q)
      PROVE  request[q].step \in RowHolders
  <2>1. request[r].id \in ConfirmationIds
    BY <1>1 DEF Inv, RequestOK, WaitsForRow
  <2> QED BY <1>1, <2>1 DEF LockHoldersOK, WaitsForRow
<1>2. ASSUME NEW r \in Requests, NEW q \in Requests, WaitsForCounter(r, q)
      PROVE  request[q].step = "consume_commit"
  <2>1. WorkspaceOf[request[r].user] \in Workspaces
    BY <1>2, ConfirmationsAssumption DEF Inv, RequestOK, WaitsForCounter
  <2> QED BY <1>2, <2>1 DEF LockHoldersOK, WaitsForCounter
<1>3. ASSUME NEW q \in Requests, NEW p \in Requests
      PROVE  /\ WaitsForRow(q, p) => request[q].step \notin RowHolders
             /\ WaitsForCounter(q, p) => request[q].step = "consume_number"
  BY DEF WaitsForRow, WaitsForCounter, RowHolders
<1> QED BY <1>1, <1>2, <1>3 DEF NoCircularWait, WaitsFor, RowHolders

\* Row and counter locks never close a cycle, and never stay behind with a request
\* that has returned: enquiries.py locks the row first and the counter second, and
\* every way out of a transaction gives up both.
THEOREM NeverCircular == Spec => []NoCircularWait
  BY LockHolders, Invariance, HoldersWaitInOrder, PTL
===============================================================================
