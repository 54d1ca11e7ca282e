----------------------- MODULE ConfirmationsLockProofs ------------------------
(***************************************************************************)
(* What PostgreSQL's row locks add to the invariant of ConfirmationsProofs: *)
(* what consume_confirmation read FOR UPDATE stays so until it commits.     *)
(***************************************************************************)
EXTENDS ConfirmationsProofs

Holding ==
    {"consume_examine", "consume_expire", "consume_number", "consume_commit"}

\* LocksOK, for one request.
LockFact(r) ==
    LET q == request[r] IN
    /\ q.step \in Holding => rowLock[q.id] = r
    /\ q.step = "consume_examine" => q.seen = confirmations[q.id].status
    /\ q.step \in {"consume_number", "consume_commit"} =>
          /\ confirmations[q.id].status = "confirmed"
          /\ EnquiriesOf(q.id) = {}
    /\ q.step = "consume_commit" =>
          /\ counterLock[WorkspaceOf[q.user]] = r
          /\ q.number = counter[WorkspaceOf[q.user]]
    /\ q.step = "consume_lookup" \/ q.result = "raised" =>
          q.payload \in UnknownDistributor

\* The row and the counter that a request holds are as they were before the step.
RowUntouched(c) ==
    /\ rowLock'[c] = rowLock[c]
    /\ confirmations'[c] = confirmations[c]
    /\ {e \in enquiries' : e.confirmation = c}
          = {e \in enquiries : e.confirmation = c}

CounterUntouched(w) ==
    counterLock'[w] = counterLock[w] /\ counter'[w] = counter[w]

\* The lock invariant is the conjunction of the facts of the requests.
LEMMA LocksOKFacts ==
    ASSUME PostgreSQL
    PROVE  LocksOK <=> \A r \in Requests : LockFact(r)
  BY DEF LocksOK, LockFact, Holding

\* A request keeps its fact if nobody touched what it holds.
LEMMA LockFrame ==
    ASSUME Inv, NEW o \in Requests, LockFact(o), request'[o] = request[o],
           NEW c, c = request[o].id,
           NEW w, w = WorkspaceOf[request[o].user],
           request[o].step \in Holding => RowUntouched(c),
           request[o].step = "consume_commit" => CounterUntouched(w)
    PROVE  LockFact(o)'
<1>1. request'[o].id = c /\ WorkspaceOf[request'[o].user] = w
  OBVIOUS
<1>2. EnquiriesOf(request[o].id) = {e \in enquiries : e.confirmation = c}
  BY DEF EnquiriesOf
<1>3. EnquiriesOf(request[o].id)' = {e \in enquiries' : e.confirmation = c}
  BY <1>1 DEF EnquiriesOf
<1> QED BY <1>1, <1>2, <1>3 DEF LockFact, RowUntouched, CounterUntouched, Holding

\* Releasing the locks of one request leaves those of the others.
LEMMA OthersKeepLocks ==
    ASSUME TypeOK, NEW r, NEW o, o # r, ReleaseLocks(r)
    PROVE  /\ \A c \in ConfirmationIds : rowLock[c] = o => rowLock'[c] = o
           /\ \A w \in Workspaces : counterLock[w] = o => counterLock'[w] = o
  BY DEF TypeOK, ReleaseLocks

\* A step of one request touches neither the row nor the counter that another
\* request holds: every write waits for the row's lock or owns it.
LEMMA OthersUntouched ==
    ASSUME PostgreSQL, Inv, LocksOK, NEW r \in Requests, NEW o \in Requests,
           o # r, Arrive(r) \/ Advance(r) \/ Abort(r),
           request[o].step \in Holding,
           NEW c \in ConfirmationIds, c = request[o].id,
           NEW w \in Workspaces, w = WorkspaceOf[request[o].user]
    PROVE  /\ RowUntouched(c)
           /\ request[o].step = "consume_commit" => CounterUntouched(w)
<1> USE DEF Inv
<1>0. /\ rowLock[c] = o /\ Nothing # o
      /\ request[o].step = "consume_commit" => counterLock[w] = o
      /\ confirmations[c] # NoRow
  BY LocksOKFacts, ConfirmationsAssumption DEF LockFact, RequestOK, Holding
<1>1. CASE \/ Arrive(r) \/ ConfirmCheck(r) \/ ConsumeExamine(r) \/ ConsumeLookup(r)
  <2>1. UNCHANGED <<tables, locks>>
    BY <1>1 DEF Arrive, PrepareReuse, PrepareMiss, ConfirmRead, CancelRead,
                ConsumeBegin, ConfirmCheck, ConsumeExamine, ConsumeLookup
  <2> QED BY <2>1 DEF RowUntouched, CounterUntouched, tables, locks
<1>2. CASE ConsumeRollback(r) \/ Return(r) \/ Abort(r)
  <2>1. UNCHANGED tables /\ ReleaseLocks(r)
    BY <1>2 DEF ConsumeRollback, Return, Abort
  <2> QED BY <1>0, <2>1, OthersKeepLocks DEF RowUntouched, CounterUntouched, tables
<1>3. CASE ConsumeLock(r)
  <2>1. UNCHANGED <<tables, counterLock>>
        /\ (rowLock' = rowLock \/ (/\ Unlocked(request[r].id, r)
                                  /\ rowLock' = [rowLock EXCEPT ![request[r].id] = r]))
    BY <1>3 DEF ConsumeLock, LockRow
  <2>2. rowLock'[c] = rowLock[c]
    BY <1>0, <2>1 DEF Unlocked, TypeOK
  <2> QED BY <2>1, <2>2 DEF RowUntouched, CounterUntouched, tables
<1>4. CASE ConsumeNumber(r)
  <2>1. UNCHANGED <<tables, rowLock>>
    BY <1>4 DEF ConsumeNumber
  <2>2. request[o].step = "consume_commit" => counterLock'[w] = counterLock[w]
    BY <1>0, <1>4 DEF ConsumeNumber, LockCounter, TypeOK
  <2> QED BY <2>1, <2>2 DEF RowUntouched, CounterUntouched, tables
<1>5. CASE \/ PrepareInsert(r) \/ ConfirmExpire(r) \/ ConfirmWrite(r)
           \/ CancelWrite(r)
  <2>1. UNCHANGED <<enquiries, counter, locks>>
    BY <1>5 DEF PrepareInsert, ConfirmExpire, ConfirmWrite, CancelWrite
  <2>2. PICK row : SetRow(request[r].id, row)
    BY <1>5 DEF PrepareInsert, ConfirmExpire, ConfirmWrite, CancelWrite, SetStatus
  <2>3. request[r].id # c
    <3>1. CASE PrepareInsert(r)
      BY <1>0, <3>1 DEF PrepareInsert, RequestOK
    <3>2. CASE ConfirmExpire(r) \/ ConfirmWrite(r) \/ CancelWrite(r)
      BY <1>0, <3>2 DEF ConfirmExpire, ConfirmWrite, CancelWrite, Unlocked
    <3> QED BY <1>5, <3>1, <3>2
  <2>4. confirmations'[c] = confirmations[c]
    BY <2>2, <2>3 DEF SetRow, TypeOK
  <2> QED BY <2>1, <2>4 DEF RowUntouched, CounterUntouched, locks
<1>6. CASE ConsumeExpire(r)
  <2>1. rowLock[request[r].id] = r
    BY <1>6, LocksOKFacts DEF LockFact, ConsumeExpire, Holding
  <2>2. PICK row : SetRow(request[r].id, row)
    BY <1>6 DEF ConsumeExpire, SetStatus
  <2>3. confirmations'[c] = confirmations[c]
    BY <1>0, <2>1, <2>2 DEF SetRow, TypeOK
  <2>4. UNCHANGED <<enquiries, counter>> /\ ReleaseLocks(r)
    BY <1>6 DEF ConsumeExpire
  <2> QED BY <1>0, <2>3, <2>4, OthersKeepLocks DEF RowUntouched, CounterUntouched
<1>7. CASE ConsumeCommit(r)
  <2>1. /\ rowLock[request[r].id] = r
        /\ counterLock[WorkspaceOf[request[r].user]] = r
    BY <1>7, LocksOKFacts DEF LockFact, ConsumeCommit, Holding
  <2>2. request[r].id # c
    BY <1>0, <2>1
  <2>3. confirmations'[c] = confirmations[c]
    BY <1>7, <2>2, CommitFacts DEF TypeOK
  <2>4. {e \in enquiries' : e.confirmation = c}
           = {e \in enquiries : e.confirmation = c}
    <3>1. PICK e \in Enquiry :
             e.confirmation = request[r].id /\ enquiries' = enquiries \cup {e}
      BY <1>7, CommitFacts
    <3> QED BY <2>2, <3>1
  <2>5. request[o].step = "consume_commit" => counter'[w] = counter[w]
    <3>1. PICK v \in Workspaces :
             /\ v = WorkspaceOf[request[r].user]
             /\ counter' = [counter EXCEPT ![v] = counter[v] + 1]
      BY <1>7, CommitFacts
    <3> QED BY <1>0, <2>1, <3>1 DEF TypeOK
  <2>6. ReleaseLocks(r)
    BY <1>7 DEF ConsumeCommit
  <2> QED BY <1>0, <2>3, <2>4, <2>5, <2>6, OthersKeepLocks
          DEF RowUntouched, CounterUntouched
<1> QED BY <1>1, <1>2, <1>3, <1>4, <1>5, <1>6, <1>7 DEF Advance

\* A step of a request leaves what is said of the others true.
LEMMA OthersKeepFacts ==
    ASSUME PostgreSQL, Inv, LocksOK, NEW r \in Requests, NEW o \in Requests,
           o # r, Arrive(r) \/ Advance(r) \/ Abort(r)
    PROVE  LockFact(o)'
<1>1. LockFact(o)
  BY LocksOKFacts
<1>2. request'[o] = request[o]
  <2>1. PICK f : Become(r, f)
    BY DEF Arrive, PrepareReuse, PrepareMiss, ConfirmRead, CancelRead, Begin,
           ConsumeBegin, Advance, PrepareInsert, ConfirmCheck, ConfirmExpire,
           ConfirmWrite, CancelWrite, ConsumeLock, ConsumeExamine, Replay,
           FinishWith, ConsumeExpire, ConsumeNumber, ConsumeCommit,
           ConsumeRollback, ConsumeLookup, Return, Abort, Finish, Goto
  <2> QED BY <2>1 DEF Become, Inv, TypeOK
<1>3. CASE request[o].step \in Holding
  <2>1. PICK c \in ConfirmationIds, w \in Workspaces :
           c = request[o].id /\ w = WorkspaceOf[request[o].user]
    BY <1>3, ConfirmationsAssumption DEF Inv, RequestOK, Holding
  <2> QED BY <1>1, <1>2, <1>3, <2>1, OthersUntouched, LockFrame
<1>4. CASE request[o].step \notin Holding
  BY <1>1, <1>2, <1>4 DEF LockFact, Holding
<1> QED BY <1>3, <1>4

\* A request that ends, or goes to a step that holds nothing, has nothing to keep.
LEMMA IdleFact ==
    ASSUME NEW r \in Requests, request'[r].step \notin Holding,
           request'[r].step # "consume_lookup", request'[r].result # "raised"
    PROVE  LockFact(r)'
  BY DEF LockFact, Holding

\* The steps of a request establish what the locks protect.
LEMMA OwnFact ==
    ASSUME PostgreSQL, Inv, LocksOK, NEW r \in Requests,
           Arrive(r) \/ Advance(r) \/ Abort(r)
    PROVE  LockFact(r)'
<1> USE DEF Inv
<1> DEFINE q == request[r]
<1>0. /\ q \in Request /\ RequestOK(r) /\ LockFact(r)
      /\ (q.result = "none" \/ q.step = "done")
  BY LocksOKFacts DEF TypeOK, RequestOK
<1>1. CASE Arrive(r)
  <2> DEFINE Quiet(f) == /\ f.result # "raised"
                         /\ f.step \notin Holding \cup {"consume_lookup"}
  <2>1. ASSUME NEW f, Become(r, f), Quiet(f)
        PROVE  LockFact(r)'
    BY <2>1, BecomeRecord, IdleFact
  <2>2. ASSUME NEW u, NEW s, NEW p,
               PrepareReuse(r, u, s, p) \/ PrepareMiss(r, u, s, p)
        PROVE  LockFact(r)'
    <3>1. CASE PrepareReuse(r, u, s, p)
      <4>1. PICK c : Become(r, [NoRequest EXCEPT !.step = "done", !.user = u,
                                  !.session = s, !.payload = p, !.id = c,
                                  !.result = "prepared"])
        BY <3>1 DEF PrepareReuse, Begin
      <4>2. Quiet([NoRequest EXCEPT !.step = "done", !.user = u,
                                  !.session = s, !.payload = p, !.id = c,
                                  !.result = "prepared"])
        BY DEF NoRequest, Holding
      <4> QED BY <4>1, <4>2, <2>1
    <3>2. CASE PrepareMiss(r, u, s, p)
      <4>1. PICK c : Become(r, [NoRequest EXCEPT !.step = "prepare_insert",
                                  !.user = u, !.session = s, !.payload = p,
                                  !.id = c, !.stamp = now])
        BY <3>2 DEF PrepareMiss, Begin
      <4>2. Quiet([NoRequest EXCEPT !.step = "prepare_insert",
                                  !.user = u, !.session = s, !.payload = p,
                                  !.id = c, !.stamp = now])
        BY DEF NoRequest, Holding
      <4> QED BY <4>1, <4>2, <2>1
    <3> QED BY <2>2, <3>1, <3>2
  <2>3. ASSUME NEW u, NEW c, NEW step \in {"confirm_check", "cancel_write"},
               Become(r, [NoRequest EXCEPT !.step = step, !.user = u, !.id = c])
        PROVE  LockFact(r)'
    <3>1. Quiet([NoRequest EXCEPT !.step = step, !.user = u, !.id = c])
      BY DEF NoRequest, Holding
    <3> QED BY <2>1, <2>3, <3>1
  <2>4. ASSUME NEW u, NEW c, NEW result \in {"not_confirmed", "not_cancelled"},
               Become(r, [NoRequest EXCEPT !.step = "done", !.user = u, !.id = c,
                            !.result = result])
        PROVE  LockFact(r)'
    <3>1. Quiet([NoRequest EXCEPT !.step = "done", !.user = u, !.id = c,
                            !.result = result])
      BY DEF NoRequest, Holding
    <3> QED BY <2>1, <2>4, <3>1
  <2>5. ASSUME NEW u, NEW c, ConfirmRead(r, u, c) \/ CancelRead(r, u, c)
        PROVE  LockFact(r)'
    BY <2>3, <2>4, <2>5 DEF ConfirmRead, CancelRead, Begin
  <2>6. ASSUME NEW u, NEW c, NEW p, ConsumeBegin(r, u, c, p)
        PROVE  LockFact(r)'
    <3>1. Quiet([NoRequest EXCEPT !.step = "consume_lock", !.user = u,
                   !.id = c, !.payload = p])
      BY DEF NoRequest, Holding
    <3> QED BY <2>1, <2>6, <3>1 DEF ConsumeBegin, Begin
  <2> QED BY <1>1, <2>2, <2>5, <2>6 DEF Arrive
<1>2. CASE Return(r) \/ Abort(r)
  <2>1. request'[r] = NoRequest
    BY <1>2, BecomeRecord DEF Return, Abort
  <2> QED BY <2>1, IdleFact DEF NoRequest, Holding
<1>3. ASSUME NEW result \in Results \ {"raised"}, Finish(r, result)
      PROVE  LockFact(r)'
  <2>1. request'[r] = Finished(q, result)
    BY <1>3, BecomeRecord DEF Finish
  <2>2. request'[r].step = "done" /\ request'[r].result = result
    BY <1>0, <2>1, FinishedFields
  <2> QED BY <2>2, IdleFact DEF Holding
<1>4. CASE Replay(r)
  <2>1. PICK e \in EnquiriesOf(q.id) : FinishWith(r, "idempotent_replay", e.number)
    BY <1>4 DEF Replay
  <2>2. e.number \in Nat /\ "idempotent_replay" \in Results
    BY DEF EnquiriesOf, TypeOK, Enquiry, Results
  <2>3. request'[r] = [Finished(q, "idempotent_replay") EXCEPT !.number = e.number]
    BY <2>1, BecomeRecord DEF FinishWith
  <2>4. request'[r].step = "done" /\ request'[r].result = "idempotent_replay"
    BY <1>0, <2>2, <2>3, FinishedWithFields
  <2> QED BY <2>4, IdleFact DEF Holding
<1>5. CASE \/ PrepareInsert(r) \/ ConfirmExpire(r) \/ ConfirmWrite(r)
           \/ CancelWrite(r) \/ ConsumeExpire(r) \/ ConsumeCommit(r)
  <2>1. \E result \in Results \ {"raised"} : Finish(r, result)
    BY <1>5 DEF PrepareInsert, ConfirmExpire, ConfirmWrite, CancelWrite,
                ConsumeExpire, ConsumeCommit, Results
  <2> QED BY <1>3, <2>1
<1>6. CASE ConfirmCheck(r)
  <2>1. "confirm_expire" \in Steps /\ "confirm_write" \in Steps
    BY DEF Steps
  <2>2. /\ At(q, "confirm_expire").step = "confirm_expire"
        /\ At(q, "confirm_expire").result = q.result
        /\ At(q, "confirm_write") \in Request
        /\ At(q, "confirm_write").step = "confirm_write"
        /\ At(q, "confirm_write").result = q.result
    BY <1>0, <2>1, AtFields
  <2>3. request'[r].step \in {"confirm_expire", "confirm_write"}
        /\ request'[r].result = "none"
    <3>1. \/ request'[r] = At(q, "confirm_expire")
          \/ request'[r] = [At(q, "confirm_write") EXCEPT !.stamp = now]
      BY <1>6, BecomeRecord DEF ConfirmCheck, Goto
    <3> QED BY <1>0, <1>6, <2>2, <3>1 DEF ConfirmCheck, Request
  <2> QED BY <2>3, IdleFact DEF Holding
<1>7. CASE ConsumeLock(r)
  <2>1. CASE Finish(r, "confirmation_not_found")
    BY <1>3, <2>1 DEF Results
  <2>2. CASE /\ Visible(q.id, q.user)
             /\ Become(r, [At(q, "consume_examine")
                             EXCEPT !.seen = confirmations[q.id].status])
             /\ rowLock' = IF PostgreSQL THEN [rowLock EXCEPT ![q.id] = r]
                                          ELSE rowLock
    <3>1. "consume_examine" \in Steps
      BY DEF Steps
    <3>2. PICK g \in Request :
             /\ g = At(q, "consume_examine")
             /\ g.step = "consume_examine" /\ g.result = q.result /\ g.id = q.id
      BY <1>0, <3>1, AtFields
    <3>3. request'[r] = [g EXCEPT !.seen = confirmations[q.id].status]
      BY <2>2, <3>2, BecomeRecord
    <3>4. /\ request'[r].step = "consume_examine" /\ request'[r].id = q.id
          /\ request'[r].result = "none"
          /\ request'[r].seen = confirmations[q.id].status
      BY <1>0, <1>7, <3>2, <3>3 DEF Request, ConsumeLock
    <3>5. q.id \in ConfirmationIds
      BY <1>0, <1>7 DEF RequestOK, ConsumeLock
    <3>6. rowLock'[q.id] = r /\ confirmations' = confirmations
      BY <1>7, <2>2, <3>5 DEF TypeOK, ConsumeLock, tables
    <3> QED BY <3>4, <3>6 DEF LockFact, Holding
  <2> QED BY <1>7, <2>1, <2>2 DEF ConsumeLock, LockRow
<1>8. CASE ConsumeExamine(r)
  <2>0. UNCHANGED <<tables, locks>> /\ rowLock[q.id] = r
        /\ q.seen = confirmations[q.id].status /\ q.step = "consume_examine"
    BY <1>0, <1>8 DEF ConsumeExamine, LockFact, Holding
  <2>1. CASE \/ Finish(r, "confirmation_payload_mismatch")
             \/ Finish(r, "confirmation_required")
    BY <1>3, <2>1 DEF Results
  <2>2. CASE Goto(r, "consume_expire")
    <3>1. "consume_expire" \in Steps
      BY DEF Steps
    <3>2. request'[r] = At(q, "consume_expire")
      BY <2>2, BecomeRecord DEF Goto
    <3>3. /\ request'[r].step = "consume_expire" /\ request'[r].id = q.id
          /\ request'[r].result = "none"
      BY <1>0, <2>0, <3>1, <3>2, AtFields
    <3> QED BY <2>0, <3>3 DEF LockFact, Holding, locks
  <2>3. CASE /\ EnquiriesOf(q.id) = {} /\ q.seen = "confirmed"
             /\ Become(r, [At(q, "consume_number") EXCEPT !.stamp = now])
    <3>1. "consume_number" \in Steps
      BY DEF Steps
    <3>2. PICK g \in Request :
             /\ g = At(q, "consume_number")
             /\ g.step = "consume_number" /\ g.result = q.result /\ g.id = q.id
      BY <1>0, <3>1, AtFields
    <3>3. request'[r] = [g EXCEPT !.stamp = now]
      BY <2>3, <3>2, BecomeRecord
    <3>4. /\ request'[r].step = "consume_number" /\ request'[r].id = q.id
          /\ request'[r].result = "none"
      BY <1>0, <2>0, <3>2, <3>3 DEF Request
    <3>5. EnquiriesOf(request[r].id)' = {}
      BY <2>0, <2>3, <3>4 DEF EnquiriesOf, tables
    <3> QED BY <2>0, <2>3, <3>4, <3>5 DEF LockFact, Holding, locks, tables
  <2> QED BY <1>4, <1>8, <2>1, <2>2, <2>3 DEF ConsumeExamine, Confirmed
<1>9. CASE ConsumeNumber(r)
  <2>0. /\ UNCHANGED <<tables, rowLock>> /\ rowLock[q.id] = r
        /\ confirmations[q.id].status = "confirmed" /\ EnquiriesOf(q.id) = {}
        /\ q.step = "consume_number" /\ q.user \in Users
    BY <1>0, <1>9 DEF ConsumeNumber, LockFact, RequestOK, Holding
  <2>1. PICK w \in Workspaces : w = WorkspaceOf[q.user]
    BY <2>0, ConfirmationsAssumption
  <2>2. "consume_commit" \in Steps
    BY DEF Steps
  <2>3. PICK g \in Request :
           /\ g = At(q, "consume_commit") /\ g.step = "consume_commit"
           /\ g.result = q.result /\ g.id = q.id /\ g.user = q.user
    BY <1>0, <2>2, AtFields
  <2>4. request'[r] = [g EXCEPT !.number = counter[w]]
    BY <1>9, <2>1, <2>3, BecomeRecord DEF ConsumeNumber
  <2>5. /\ request'[r].step = "consume_commit" /\ request'[r].id = q.id
        /\ request'[r].user = q.user /\ request'[r].result = "none"
        /\ request'[r].number = counter[w]
    BY <1>0, <2>0, <2>3, <2>4 DEF Request
  <2>6. counterLock'[w] = r /\ counter' = counter
    BY <1>9, <2>1 DEF ConsumeNumber, LockCounter, TypeOK, tables
  <2>7. EnquiriesOf(request[r].id)' = {}
    BY <2>0, <2>5 DEF EnquiriesOf, tables
  <2> QED BY <2>0, <2>1, <2>5, <2>6, <2>7 DEF LockFact, Holding, tables
<1>10. CASE ConsumeRollback(r)
  <2>1. q.payload \in UnknownDistributor
    <3>1. ~\E e \in enquiries : e.confirmation = q.id
      BY <1>0, <1>10 DEF ConsumeRollback, LockFact, EnquiriesOf
    <3>2. ~\E e \in enquiries : /\ e.workspace = WorkspaceOf[q.user]
                               /\ e.number = q.number
      <4>1. PICK w \in Workspaces : w = WorkspaceOf[q.user] /\ q.number = counter[w]
        BY <1>0, <1>10, ConfirmationsAssumption
           DEF ConsumeRollback, LockFact, RequestOK
      <4>2. {e.number : e \in {d \in enquiries : d.workspace = w}}
               = FirstNumber .. counter[w] - 1
        BY DEF EnquiriesOK, NumberedOnceWithoutGaps
      <4>3. counter[w] \notin FirstNumber .. counter[w] - 1
        BY ConfirmationsAssumption DEF TypeOK
      <4> QED BY <4>1, <4>2, <4>3
    <3> QED BY <1>10, <3>1, <3>2 DEF ConsumeRollback, Violates
  <2>2. "consume_lookup" \in Steps
    BY DEF Steps
  <2>3. request'[r] = At(q, "consume_lookup")
    BY <1>10, BecomeRecord DEF ConsumeRollback, Goto
  <2>4. request'[r].step = "consume_lookup" /\ request'[r].payload = q.payload
    BY <1>0, <2>2, <2>3, AtFields
  <2> QED BY <2>1, <2>4 DEF LockFact, Holding
<1>11. CASE ConsumeLookup(r)
  <2>1. CASE Finish(r, "raised")
    <3>1. "raised" \in Results
      BY DEF Results
    <3>2. request'[r] = Finished(q, "raised")
      BY <2>1, BecomeRecord DEF Finish
    <3>3. request'[r].step = "done" /\ request'[r].payload = q.payload
      BY <1>0, <3>1, <3>2, FinishedFields
    <3>4. q.payload \in UnknownDistributor
      BY <1>0, <1>11 DEF ConsumeLookup, LockFact
    <3> QED BY <3>3, <3>4 DEF LockFact, Holding
  <2> QED BY <1>4, <1>11, <2>1 DEF ConsumeLookup
<1> QED BY <1>1, <1>2, <1>5, <1>6, <1>7, <1>8, <1>9, <1>10, <1>11 DEF Advance

-----------------------------------------------------------------------------
(* The theorems.                                                            *)

\* The lock invariant holds in every state on PostgreSQL.
THEOREM LockInvariance == Spec => []LocksOK
<1>1. Init => LocksOK
  BY DEF Init, LocksOK, NoRequest
<1>2. Inv /\ LocksOK /\ [Next]_vars => LocksOK'
  <2> SUFFICES ASSUME Inv, LocksOK, [Next]_vars, PostgreSQL
               PROVE  \A o \in Requests : LockFact(o)'
    BY DEF LocksOK, LockFact, Holding
  <2>1. CASE Tick \/ UNCHANGED vars
    <3>1. UNCHANGED <<tables, locks, request>>
      BY <2>1 DEF Tick, vars
    <3>2. \A o \in Requests : LockFact(o)
      BY LocksOKFacts
    <3> QED BY <3>1, <3>2 DEF LockFact, EnquiriesOf, tables, locks
  <2>2. ASSUME NEW r \in Requests, Arrive(r) \/ Advance(r) \/ Abort(r)
        PROVE  \A o \in Requests : LockFact(o)'
    BY <2>2, OwnFact, OthersKeepFacts
  <2> QED BY <2>1, <2>2 DEF Next
<1> QED BY <1>1, <1>2, Invariance, PTL DEF Spec

\* On PostgreSQL no request ever makes another one fail: the locks keep every
\* unique constraint from firing, and consume_confirmation raises only for a
\* payload whose distributor does not exist.
THEOREM ConstraintsNeverFire ==
    ASSUME PostgreSQL PROVE Spec => []OnlyUnknownDistributorRaises
<1>1. LocksOK => OnlyUnknownDistributorRaises
  BY DEF LocksOK, OnlyUnknownDistributorRaises
<1> QED BY <1>1, LockInvariance, PTL

\* On PostgreSQL an enquiry appears only in a step that finds its confirmation
\* confirmed and leaves it consumed.
THEOREM CreationIsConsumption ==
    ASSUME PostgreSQL PROVE Spec => CreationConsumesConfirmed
<1> DEFINE Creation ==
        \A c \in ConfirmationIds :
            (EnquiriesOf(c) = {} /\ EnquiriesOf(c)' # {})
                => /\ confirmations[c].status = "confirmed"
                   /\ confirmations'[c].status = "consumed"
<1>1. Inv /\ LocksOK /\ [Next]_vars => Creation
  <2> SUFFICES ASSUME Inv, LocksOK, [Next]_vars, NEW c \in ConfirmationIds,
                      EnquiriesOf(c) = {}, EnquiriesOf(c)' # {}
               PROVE  /\ confirmations[c].status = "confirmed"
                      /\ confirmations'[c].status = "consumed"
    OBVIOUS
  <2>1. PICK r \in Requests : ConsumeCommit(r)
    <3>1. enquiries' # enquiries
      BY DEF EnquiriesOf
    <3>2. ASSUME NEW r \in Requests, Arrive(r) \/ Abort(r)
          PROVE  UNCHANGED enquiries
      BY <3>2 DEF Arrive, PrepareReuse, PrepareMiss, ConfirmRead, CancelRead,
                  ConsumeBegin, Abort, tables
    <3>3. ASSUME NEW r \in Requests, Advance(r)
          PROVE  UNCHANGED enquiries \/ ConsumeCommit(r)
      BY <3>3 DEF Advance, PrepareInsert, ConfirmCheck, ConfirmExpire,
                  ConfirmWrite, CancelWrite, ConsumeLock, ConsumeExamine,
                  ConsumeExpire, ConsumeNumber, ConsumeRollback, ConsumeLookup,
                  Return, tables
    <3>4. ~UNCHANGED vars /\ ~Tick
      BY <3>1 DEF vars, tables, Tick
    <3> QED BY <3>1, <3>2, <3>3, <3>4 DEF Next
  <2>2. PICK e \in Enquiry : /\ e.confirmation = request[r].id
                             /\ enquiries' = enquiries \cup {e}
    BY <2>1, CommitFacts
  <2>3. c = request[r].id
    BY <2>2 DEF EnquiriesOf
  <2>4. confirmations[c].status = "confirmed"
    BY <2>1, <2>3 DEF LocksOK, ConsumeCommit
  <2>5. /\ confirmations[c] \in Confirmation
        /\ confirmations' = [confirmations EXCEPT ![c] =
               [confirmations[c] EXCEPT !.status = "consumed",
                                        !.consumedAt = request[r].stamp]]
    BY <2>1, <2>3, CommitFacts
  <2>6. confirmations'[c] = [confirmations[c] EXCEPT !.status = "consumed",
                                        !.consumedAt = request[r].stamp]
    BY <2>5 DEF Inv, TypeOK
  <2>7. confirmations'[c].status = "consumed"
    BY <2>5, <2>6 DEF Confirmation
  <2> QED BY <2>4, <2>7
<1>2. Creation => [Creation]_vars
  OBVIOUS
<1> QED BY <1>1, <1>2, Invariance, LockInvariance, PTL
        DEF Spec, CreationConsumesConfirmed
=============================================================================
