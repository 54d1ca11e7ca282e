----------------------- MODULE RealtimeGatewayProofs -----------------------
(***************************************************************************)
(* Theorems about RealtimeGateway, for every number of sessions, handlers,  *)
(* calls and confirmations, every size of the cache and both databases.     *)
(***************************************************************************)
EXTENDS RealtimeGateway, ConfirmationsLedgerProofs, FiniteSetTheorems

-----------------------------------------------------------------------------
(* The inductive invariant behind the safety properties.                    *)

\* The steps of a tool call, and those of them inside the session's lock.
Holding ==
    {"compare", "decide", "prepare", "proposing", "consume", "consuming"}

ToolSteps == {"lock"} \cup Holding

\* What a handler may rely on at each step, whatever the transcripts of its
\* session, which do not take the lock, have done since.
HandlerOK(r) ==
    LET h == handler[r]
        s == h.session
        q == request[r] IN
    /\ h.step = "idle" => q.step = "idle"
    /\ h.step \notin {"idle", "dead"} => s \in Sessions /\ life[s] # "new"
    /\ h.answer # "none" => h.step = "done"
    /\ h.step \in ToolSteps => h.call \in CallIds
    /\ h.call # Nothing => h.step \in ToolSteps \cup {"done"}
    /\ h.step \in Holding => sessionLock[s] = r /\ Cached(s, h.call) = {}
    /\ h.step = "decide" /\ pending[s] # NoPending =>
          pending[s].payload = PayloadOf(r)
    /\ h.step = "proposing" =>
          \/ /\ q.step = "prepare_insert"
             /\ q.user = owner[s] /\ q.session = s /\ q.payload = PayloadOf(r)
          \/ q.step = "done" /\ Fits(q.id, s, PayloadOf(r))
    /\ h.step \in {"consume", "consuming"} => Fits(h.id, s, PayloadOf(r))
    /\ h.step = "consuming" => q.id = h.id /\ q.user = owner[s]
    /\ h.step \in {"confirm", "cancel"} => h.id \in ConfirmationIds

\* A session has an owner from the start, and remembers one answer for a call.
SessionOK(s) ==
    /\ life[s] = "new" => pending[s] = NoPending /\ completed[s] = <<>>
    /\ life[s] # "new" => owner[s] \in Users
    /\ \A i, j \in 1 .. Len(completed[s]) :
          completed[s][i].call = completed[s][j].call => i = j

\* The answer to a call is among the remembered ones.
AnswersRemembered ==
    NothingIsEvicted =>
        \A r \in Requests :
            /\ handler[r].call # Nothing
            /\ handler[r].answer \notin {"none", "raised"}
            => \E i \in Cached(handler[r].session, handler[r].call) :
                  /\ completed[handler[r].session][i].answer = handler[r].answer
                  /\ completed[handler[r].session][i].number = handler[r].number

GatewayInv ==
    /\ Inv
    /\ GatewayTypeOK
    /\ \A r \in Requests : HandlerOK(r)
    /\ \A s \in Sessions : SessionOK(s)
    /\ PendingIsPrepared
    /\ SuccessIsTheEnquiry
    /\ AnswersRemembered

-----------------------------------------------------------------------------

\* What a step does to the sessions: their owners stay.
OwnersKept ==
    \A s \in Sessions :
        life[s] # "new" => life'[s] # "new" /\ owner'[s] = owner[s]

\* What handler r may do to a session that another handler has locked: not touch
\* the lock or the answers, and only clear or confirm what is pending.
LockRespected(r) ==
    \A s \in Sessions :
        sessionLock[s] \notin {Nothing, r} =>
            /\ sessionLock'[s] = sessionLock[s]
            /\ completed'[s] = completed[s]
            /\ \/ pending'[s] \in {pending[s], NoPending}
               \/ /\ pending[s] # NoPending
                  /\ pending'[s].payload = pending[s].payload

MemoryTyped ==
    /\ pending \in [Sessions -> PendingEnquiry \cup {NoPending}]
    /\ completed \in [Sessions -> Seq(Entry)]
    /\ sessionLock \in [Sessions -> Requests \cup {Nothing}]

\* What a sequence holds.
Elements(seq) == {seq[i] : i \in 1 .. Len(seq)}

\* No call is answered twice in a sequence of answers.
CallsDiffer(seq) ==
    \A i, j \in 1 .. Len(seq) : seq[i].call = seq[j].call => i = j

\* Names(s, k, n) of RealtimeGateway in the next state, for arguments of this one.
NamesNext(s, k, n) ==
    \E e \in enquiries' :
        /\ e.number = n /\ e.buyer = owner'[s]
        /\ e.payload = CallPayload[k]
        /\ confirmations'[e.confirmation].session = s

-----------------------------------------------------------------------------
(* The tables.                                                              *)

\* An answer that names an enquiry goes on naming it.
LEMMA NamesKept ==
    ASSUME Inv, TablesKept
    PROVE  \A s, k, n : Names(s, k, n) /\ owner'[s] = owner[s] => NamesNext(s, k, n)
<1> SUFFICES ASSUME NEW s, NEW k, NEW n, Names(s, k, n), owner'[s] = owner[s]
             PROVE  NamesNext(s, k, n)
  OBVIOUS
<1>1. PICK e \in enquiries :
         /\ e.number = n /\ e.buyer = owner[s] /\ e.payload = CallPayload[k]
         /\ confirmations[e.confirmation].session = s
  BY DEF Names
<1>2. e.confirmation \in ConfirmationIds /\ confirmations[e.confirmation] # NoRow
  BY DEF Inv, TypeOK, Enquiry, EnquiriesOK, EnquiryWasConfirmed
<1> QED BY <1>1, <1>2 DEF NamesNext, TablesKept

-----------------------------------------------------------------------------
(* The gateway is a client of the service.                                  *)

\* What the handler of a tool call passes to the service is well typed.
LEMMA CallArguments ==
    ASSUME GatewayInv, NEW r \in Requests, handler[r].step \in ToolSteps
    PROVE  /\ SessionOf(r) \in Sessions /\ life[SessionOf(r)] # "new"
           /\ owner[SessionOf(r)] \in Users
           /\ handler[r].call \in CallIds /\ PayloadOf(r) \in Payloads
<1>1. HandlerOK(r)
  BY DEF GatewayInv
<1>2. SessionOf(r) \in Sessions /\ life[SessionOf(r)] # "new" /\ handler[r].call \in CallIds
  BY <1>1 DEF HandlerOK, SessionOf, ToolSteps, Holding
<1>3. owner[SessionOf(r)] \in Users
  BY <1>2 DEF GatewayInv, SessionOK
<1> QED BY <1>2, <1>3, GatewayAssumption DEF PayloadOf

\* What the handler of a transcript passes to the service is well typed.
LEMMA TranscriptArguments ==
    ASSUME GatewayInv, NEW r \in Requests, handler[r].step \in {"confirm", "cancel"}
    PROVE  owner[SessionOf(r)] \in Users /\ handler[r].id \in ConfirmationIds
<1>1. HandlerOK(r)
  BY DEF GatewayInv
<1>2. /\ SessionOf(r) \in Sessions /\ life[SessionOf(r)] # "new"
      /\ handler[r].id \in ConfirmationIds
  BY <1>1 DEF HandlerOK, SessionOf
<1> QED BY <1>2 DEF GatewayInv, SessionOK

\* Every step of the gateway is a step of the service or leaves it alone.
LEMMA StepUses ==
    ASSUME GatewayInv, [GatewayNext]_allVars
    PROVE  UNCHANGED vars \/ Next
<1>1. CASE UNCHANGED allVars
  BY <1>1 DEF allVars
<1>2. ASSUME NEW s \in Sessions, CloseSession(s) \/ \E u \in Users : OpenSession(s, u)
      PROVE  UNCHANGED vars
  BY <1>2 DEF CloseSession, OpenSession
<1>3. ASSUME NEW r \in Requests, GatewayArrive(r)
      PROVE  UNCHANGED vars
  BY <1>3 DEF GatewayArrive, ToolArrive, ObserveArrive
<1>4. ASSUME NEW r \in Requests, GatewayAdvance(r)
      PROVE  UNCHANGED vars \/ Next
  <2>1. CASE ToolCached(r) \/ ToolUnknown(r) \/ ToolOther(r) \/ ToolEnquiry(r)
             \/ ToolCompare(r) \/ ToolDecide(r) \/ ToolNotPrepared(r)
             \/ ToolProposed(r) \/ ToolConsumed(r) \/ ObserveRead(r)
             \/ ObserveConfirmed(r) \/ ObserveCancelled(r)
    BY <2>1 DEF ToolCached, ToolUnknown, ToolOther, ToolEnquiry, ToolCompare,
                ToolDecide, ToolNotPrepared, ToolProposed, ToolConsumed,
                ObserveRead, ObserveConfirmed, ObserveCancelled
  <2>2. CASE ToolPrepare(r)
    <3>1. handler[r].step \in ToolSteps
      BY <2>2 DEF ToolPrepare, HandlerAt, ToolSteps, Holding
    <3> QED BY <2>2, <3>1, CallArguments DEF ToolPrepare, Arrive, Next
  <2>3. CASE ToolConsume(r)
    <3>1. handler[r].step = "consume"
      BY <2>3 DEF ToolConsume, HandlerAt
    <3>2. handler[r].id \in ConfirmationIds
      BY <3>1 DEF GatewayInv, HandlerOK, Fits
    <3>3. handler[r].step \in ToolSteps
      BY <3>1 DEF ToolSteps, Holding
    <3> QED BY <2>3, <3>2, <3>3, CallArguments DEF ToolConsume, Arrive, Next
  <2>4. CASE ObserveConfirm(r)
    BY <2>4, TranscriptArguments DEF ObserveConfirm, HandlerAt, Arrive, Next
  <2>5. CASE ObserveCancel(r)
    BY <2>5, TranscriptArguments DEF ObserveCancel, HandlerAt, Arrive, Next
  <2>6. CASE Service(r)
    BY <2>6 DEF Service, Advance, Next
  <2>7. CASE Answer(r) \/ Disconnect(r)
    BY <2>7 DEF Answer, Disconnect, Advance, Next
  <2> QED BY <1>4, <2>1, <2>2, <2>3, <2>4, <2>5, <2>6, <2>7 DEF GatewayAdvance
<1>5. ASSUME NEW r \in Requests, Fault(r)
      PROVE  Next
  BY <1>5 DEF Fault, Advance, Next
<1>6. CASE Crash \/ Tick
  BY <1>6 DEF Crash, Next
<1> QED BY <1>1, <1>2, <1>3, <1>4, <1>5, <1>6 DEF GatewayNext

-----------------------------------------------------------------------------
(* The remembered answers.                                                  *)

\* While nothing is evicted the cache has room for a call it does not hold: the
\* calls it holds are different ones, so there are fewer of them than calls.
LEMMA RoomForOneMore ==
    ASSUME GatewayTypeOK, NEW s \in Sessions, SessionOK(s), NothingIsEvicted,
           NEW k \in CallIds, Cached(s, k) = {}
    PROVE  Evicted(s) = completed[s]
<1> DEFINE I == 1 .. Len(completed[s])
           f == [i \in I |-> completed[s][i].call]
<1>1. completed[s] \in Seq(Entry) /\ Len(completed[s]) \in Nat
  BY DEF GatewayTypeOK
<1>2. f \in [I -> CallIds \ {k}]
  <2>1. \A i \in I : completed[s][i] \in Entry
    BY <1>1
  <2>2. \A i \in I : completed[s][i].call # k
    BY DEF Cached
  <2> QED BY <2>1, <2>2 DEF Entry
<1>3. f \in Injection(I, CallIds \ {k})
  <2>1. IsInjective(f)
    BY DEF SessionOK, IsInjective
  <2> QED BY <1>2, <2>1 DEF Injection
<1>4. IsFiniteSet(CallIds \ {k}) /\ Cardinality(CallIds \ {k}) = Cardinality(CallIds) - 1
  BY FS_RemoveElement DEF NothingIsEvicted
<1>5. Cardinality(I) = Len(completed[s])
  <2>1. 1 \in Int /\ Len(completed[s]) \in Int
    BY <1>1
  <2>2. Cardinality(I) = IF 1 > Len(completed[s]) THEN 0
                         ELSE Len(completed[s]) - 1 + 1
    BY <2>1, FS_Interval
  <2> QED BY <1>1, <2>2
<1>6. Cardinality(I) <= Cardinality(CallIds \ {k})
  <2> HIDE DEF f, I
  <2> QED BY <1>3, <1>4, FS_Injection
<1>7. Cardinality(CallIds) \in Nat
  BY FS_CardinalityType DEF NothingIsEvicted
<1>8. Len(completed[s]) < MaxCompleted
  BY <1>1, <1>4, <1>5, <1>6, <1>7, GatewayAssumption DEF NothingIsEvicted
<1> QED BY <1>1, <1>8, GatewayAssumption DEF Evicted

\* Session s remembers answer e as well, and unless something is evicted all that
\* it remembered before.
RemembersOneMore(s, e) ==
    /\ completed' \in [Sessions -> Seq(Entry)]
    /\ \A t \in Sessions \ {s} : completed'[t] = completed[t]
    /\ e \in Elements(completed'[s])
    /\ Elements(completed'[s]) \subseteq Elements(completed[s]) \cup {e}
    /\ NothingIsEvicted => Elements(completed[s]) \subseteq Elements(completed'[s])
    /\ CallsDiffer(completed'[s])

\* A new answer is added to those of its session, the oldest of which may go.
LEMMA Remembering ==
    ASSUME GatewayTypeOK, NEW s \in Sessions, SessionOK(s),
           NEW entries \in {completed[s], Evicted(s)},
           NEW k \in CallIds, NEW answer \in Answers, NEW n \in Nat,
           Cached(s, k) = {}, Remember(s, entries, k, answer, n),
           NEW e, e = [call |-> k, answer |-> answer, number |-> n]
    PROVE  RemembersOneMore(s, e)
<1> DEFINE old == completed[s]
<1>1. old \in Seq(Entry) /\ Len(old) \in Nat /\ e \in Entry
  <2>1. completed[s] \in Seq(Entry)
    BY DEF GatewayTypeOK
  <2>2. e \in Entry
    BY DEF Entry
  <2> QED BY <2>1, <2>2
<1>2. \A i, j \in 1 .. Len(old) : old[i].call = old[j].call => i = j
  BY DEF SessionOK
<1>3. \A i \in 1 .. Len(old) : old[i].call # k
  BY DEF Cached
<1>4. entries = old \/ (Len(old) >= MaxCompleted /\ entries = Tail(old))
  BY DEF Evicted
<1>5. NothingIsEvicted => entries = old
  BY RoomForOneMore
<1>6. PICK d \in {0, 1} :
         /\ entries \in Seq(Entry) /\ Len(entries) = Len(old) - d
         /\ \A i \in 1 .. Len(entries) : entries[i] = old[i + d]
         /\ entries = old => d = 0
  <2>1. CASE entries = old
    BY <1>1, <2>1
  <2>2. CASE entries # old
    <3>1. Len(old) >= 1 /\ entries = Tail(old)
      BY <1>1, <1>4, <2>2, GatewayAssumption
    <3>2. /\ entries \in Seq(Entry) /\ Len(entries) = Len(old) - 1
          /\ \A i \in 1 .. Len(entries) : entries[i] = old[i + 1]
      BY <1>1, <3>1
    <3> QED BY <2>2, <3>2
  <2> QED BY <2>1, <2>2
<1>7. completed' = [completed EXCEPT ![s] = Append(entries, e)]
  BY DEF Remember
<1>8. completed'[s] = Append(entries, e)
  BY <1>7 DEF GatewayTypeOK
<1>9. /\ Append(entries, e) \in Seq(Entry)
      /\ Len(Append(entries, e)) = Len(entries) + 1
      /\ \A i \in 1 .. Len(entries) : Append(entries, e)[i] = entries[i]
      /\ Append(entries, e)[Len(entries) + 1] = e
  BY <1>1, <1>6
<1>10. completed' \in [Sessions -> Seq(Entry)]
  BY <1>7, <1>9 DEF GatewayTypeOK
<1>11. \A t \in Sessions \ {s} : completed'[t] = completed[t]
  BY <1>7 DEF GatewayTypeOK
<1>12. Len(entries) \in Nat
  BY <1>6
<1>13. \A i \in 1 .. Len(completed'[s]) :
          \/ i = Len(entries) + 1 /\ completed'[s][i] = e
          \/ /\ i \in 1 .. Len(entries) /\ i + d \in 1 .. Len(old)
             /\ completed'[s][i] = old[i + d]
  <2> TAKE i \in 1 .. Len(completed'[s])
  <2>1. i = Len(entries) + 1 \/ i \in 1 .. Len(entries)
    BY <1>8, <1>9, <1>12
  <2>2. CASE i = Len(entries) + 1
    BY <1>8, <1>9, <2>2
  <2>3. CASE i \in 1 .. Len(entries)
    <3>1. i + d \in 1 .. Len(old)
      BY <1>1, <1>6, <1>12, <2>3
    <3> QED BY <1>6, <1>8, <1>9, <2>3, <3>1
  <2> QED BY <2>1, <2>2, <2>3
<1>14. e \in Elements(completed'[s])
  <2>1. Len(entries) + 1 \in 1 .. Len(completed'[s])
    BY <1>8, <1>9, <1>12
  <2> QED BY <1>8, <1>9, <2>1 DEF Elements
<1>15. Elements(completed'[s]) \subseteq Elements(completed[s]) \cup {e}
  BY <1>13 DEF Elements
<1>16. NothingIsEvicted => Elements(completed[s]) \subseteq Elements(completed'[s])
  <2> SUFFICES ASSUME NothingIsEvicted, NEW i \in 1 .. Len(old)
               PROVE  old[i] \in Elements(completed'[s])
    BY DEF Elements
  <2>1. d = 0 /\ entries = old
    BY <1>5, <1>6
  <2>2. i \in 1 .. Len(completed'[s]) /\ completed'[s][i] = old[i]
    BY <1>1, <1>8, <1>9, <2>1
  <2> QED BY <2>2 DEF Elements
<1>17. \A i, j \in 1 .. Len(completed'[s]) :
          completed'[s][i].call = completed'[s][j].call => i = j
  <2> TAKE i, j \in 1 .. Len(completed'[s])
  <2> HAVE completed'[s][i].call = completed'[s][j].call
  <2>1. e.call = k
    OBVIOUS
  <2>2. CASE completed'[s][i] = e \/ completed'[s][j] = e
    BY <1>3, <1>13, <2>1, <2>2
  <2>3. CASE completed'[s][i] # e /\ completed'[s][j] # e
    <3>1. /\ i + d \in 1 .. Len(old) /\ completed'[s][i] = old[i + d]
          /\ j + d \in 1 .. Len(old) /\ completed'[s][j] = old[j + d]
      BY <1>13, <2>3
    <3>2. i + d = j + d
      BY <1>2, <3>1
    <3> QED BY <3>2
  <2> QED BY <2>2, <2>3
<1> QED BY <1>10, <1>11, <1>14, <1>15, <1>16, <1>17
       DEF CallsDiffer, RemembersOneMore

-----------------------------------------------------------------------------
(* What a step of one handler leaves of the invariant.                      *)

AnswerOf(f) == [call |-> f.call, answer |-> f.answer, number |-> f.number]

\* What handler r, whose state becomes f, does to the remembered answers.
AnswersKept(f) ==
    /\ \A s \in Sessions :
          /\ Elements(completed'[s]) \subseteq
                Elements(completed[s]) \cup {a \in {AnswerOf(f)} : s = f.session}
          /\ NothingIsEvicted => Elements(completed[s]) \subseteq Elements(completed'[s])
    /\ f.call # Nothing /\ f.answer \notin {"none", "raised"} =>
          (NothingIsEvicted => AnswerOf(f) \in Elements(completed'[f.session]))
    /\ f.answer = "success" => NamesNext(f.session, f.call, f.number)

\* What another handler relies on survives a step of r that respects the locks
\* and keeps the tables.
LEMMA OthersFrame ==
    ASSUME GatewayInv, TablesKept, OwnersKept, NEW r, LockRespected(r),
           NEW q \in Requests, q # r,
           handler'[q] = handler[q], request'[q] = request[q]
    PROVE  HandlerOK(q)'
<1> DEFINE h == handler[q]
           s == h.session
<1>1. HandlerOK(q) /\ q # Nothing
  BY ConfirmationsAssumption DEF GatewayInv
<1>2. h.step \notin {"idle", "dead"} =>
         s \in Sessions /\ life'[s] # "new" /\ owner'[s] = owner[s]
  BY <1>1 DEF HandlerOK, OwnersKept
<1>3. h.step \in Holding => LET c == completed'[s] IN
         sessionLock'[s] = q /\ {i \in 1 .. Len(c) : c[i].call = h.call} = {}
  <2>1. h.step \in Holding => s \in Sessions /\ sessionLock[s] = q /\ Cached(s, h.call) = {}
    BY <1>1, <1>2 DEF HandlerOK, Holding
  <2> QED BY <1>1, <2>1 DEF LockRespected, Cached
<1>4. h.step = "decide" /\ pending'[s] # NoPending => pending'[s].payload = PayloadOf(q)
  <2>1. h.step = "decide" => s \in Sessions /\ sessionLock[s] = q
    BY <1>1, <1>2 DEF HandlerOK, Holding
  <2>2. h.step = "decide" /\ pending[s] # NoPending => pending[s].payload = PayloadOf(q)
    BY <1>1 DEF HandlerOK
  <2> QED BY <1>1, <2>1, <2>2 DEF LockRespected
<1>5. PayloadOf(q)' = PayloadOf(q)
  BY DEF PayloadOf
<1>6. h.step = "proposing" =>
          \/ /\ request[q].step = "prepare_insert" /\ request[q].user = owner'[s]
             /\ request[q].session = s /\ request[q].payload = PayloadOf(q)
          \/ request[q].step = "done" /\ Fits(request[q].id, s, PayloadOf(q))'
  BY <1>1, <1>2, <1>5 DEF HandlerOK, Fits, TablesKept
<1>7. h.step \in {"consume", "consuming"} => Fits(h.id, s, PayloadOf(q))'
  BY <1>1, <1>2, <1>5 DEF HandlerOK, Fits, TablesKept
<1>8. h.step = "consuming" => request[q].id = h.id /\ request[q].user = owner'[s]
  BY <1>1, <1>2 DEF HandlerOK
<1>9. /\ h.step = "idle" => request[q].step = "idle"
      /\ h.answer # "none" => h.step = "done"
      /\ h.step \in ToolSteps => h.call \in CallIds
      /\ h.call # Nothing => h.step \in ToolSteps \cup {"done"}
      /\ h.step \in {"confirm", "cancel"} => h.id \in ConfirmationIds
  BY <1>1 DEF HandlerOK
<1> QED BY <1>2, <1>3, <1>4, <1>5, <1>6, <1>7, <1>8, <1>9 DEF HandlerOK, Cached, Fits

\* A step of handler r keeps the invariant if the handler knows what its new
\* step requires, and the step respects locks, rows and remembered answers.
LEMMA HandlerActs ==
    ASSUME GatewayInv, Inv', TablesKept,
           NEW r \in Requests, NEW f \in Handler, Handle(r, f),
           \A q \in Requests \ {r} : request'[q] = request[q],
           UNCHANGED <<life, owner>>, MemoryTyped', LockRespected(r),
           HandlerOK(r)', \A s \in Sessions : SessionOK(s)',
           PendingIsPrepared', AnswersKept(f)
    PROVE  GatewayInv'
<1>0. handler \in [Requests -> Handler] /\ Inv /\ completed \in [Sessions -> Seq(Entry)]
  BY DEF GatewayInv, GatewayTypeOK
<1>1. handler'[r] = f /\ \A q \in Requests \ {r} : handler'[q] = handler[q]
  BY <1>0 DEF Handle
<1>2. GatewayTypeOK'
  BY <1>0 DEF GatewayInv, GatewayTypeOK, MemoryTyped, Handle, Inv
<1>3. OwnersKept
  BY DEF OwnersKept
<1>4. \A q \in Requests : HandlerOK(q)'
  <2> TAKE q \in Requests
  <2>1. CASE q # r
    BY <1>1, <1>3, <2>1, OthersFrame
  <2> QED BY <2>1
<1>5. \A s, k, n : Names(s, k, n) => NamesNext(s, k, n)
  BY <1>0, NamesKept
<1>6. SuccessIsTheEnquiry'
  <2>1. ASSUME NEW q \in Requests, NEW h, h = handler'[q], h.answer = "success"
        PROVE  NamesNext(h.session, h.call, h.number)
    <3>1. CASE q = r
      BY <1>1, <2>1, <3>1 DEF AnswersKept
    <3>2. CASE q # r
      <4>1. handler[q] = h
        BY <1>1, <2>1, <3>2
      <4>2. Names(h.session, h.call, h.number)
        BY <2>1, <4>1 DEF GatewayInv, SuccessIsTheEnquiry, SessionOf
      <4> QED BY <1>5, <4>2
    <3> QED BY <3>1, <3>2
  <2>2. ASSUME NEW s \in Sessions, NEW a \in Elements(completed'[s]),
               a.answer = "success"
        PROVE  NamesNext(s, a.call, a.number)
    <3>1. CASE a \in Elements(completed[s])
      <4>1. Names(s, a.call, a.number)
        BY <2>2, <3>1 DEF Elements, GatewayInv, SuccessIsTheEnquiry
      <4> QED BY <1>5, <4>1
    <3>2. CASE s = f.session /\ a = AnswerOf(f)
      BY <2>2, <3>2 DEF AnswersKept, AnswerOf
    <3> QED BY <3>1, <3>2 DEF AnswersKept
  <2> QED BY <2>1, <2>2 DEF SuccessIsTheEnquiry, SessionOf, Names, NamesNext, Elements
<1>7. AnswersRemembered'
  <2>1. ASSUME NothingIsEvicted, NEW q \in Requests, NEW h, h = handler'[q],
               h.call # Nothing, h.answer \notin {"none", "raised"}
        PROVE  AnswerOf(h) \in Elements(completed'[h.session])
    <3>1. CASE q = r
      BY <1>1, <2>1, <3>1 DEF AnswersKept
    <3>2. CASE q # r
      <4>1. handler[q] = h /\ h \in Handler
        BY <1>0, <1>1, <2>1, <3>2
      <4>2. h.session \in Sessions
        BY <2>1, <4>1 DEF GatewayInv, HandlerOK
      <4>3. PICK i \in Cached(h.session, h.call) :
               /\ completed[h.session][i].answer = h.answer
               /\ completed[h.session][i].number = h.number
        BY <2>1, <4>1 DEF GatewayInv, AnswersRemembered
      <4>4. i \in 1 .. Len(completed[h.session]) /\ completed[h.session][i].call = h.call
        BY <4>3 DEF Cached
      <4>5. completed[h.session] \in Seq(Entry)
        BY <1>0, <4>2
      <4>6. completed[h.session][i] = AnswerOf(h)
        <5>1. completed[h.session][i] \in Entry
          BY <4>4, <4>5
        <5> QED BY <4>3, <4>4, <5>1 DEF AnswerOf, Entry
      <4>7. AnswerOf(h) \in Elements(completed[h.session])
        BY <4>4, <4>6 DEF Elements
      <4> QED BY <2>1, <4>2, <4>7 DEF AnswersKept
    <3> QED BY <3>1, <3>2
  <2>2. NothingIsEvicted' = NothingIsEvicted
    BY DEF NothingIsEvicted
  <2>3. ASSUME NothingIsEvicted, NEW q \in Requests, NEW h, h = handler'[q],
               h.call # Nothing, h.answer \notin {"none", "raised"}
        PROVE  \E i \in 1 .. Len(completed'[h.session]) :
                  /\ completed'[h.session][i].call = h.call
                  /\ completed'[h.session][i].answer = h.answer
                  /\ completed'[h.session][i].number = h.number
    <3>1. AnswerOf(h) \in Elements(completed'[h.session])
      BY <2>1, <2>3
    <3>2. PICK i \in 1 .. Len(completed'[h.session]) :
             completed'[h.session][i] = AnswerOf(h)
      BY <3>1 DEF Elements
    <3> QED BY <3>2 DEF AnswerOf
  <2> QED BY <2>2, <2>3 DEF AnswersRemembered, Cached
<1> QED BY <1>2, <1>4, <1>6, <1>7 DEF GatewayInv

\* What is pending goes on fitting its session while it is only confirmed or
\* cleared.
LEMMA PendingFrame ==
    ASSUME GatewayInv, TablesKept, OwnersKept,
           \A s \in Sessions :
              \/ pending'[s] = NoPending
              \/ /\ pending[s] # NoPending
                 /\ pending'[s].id = pending[s].id
                 /\ pending'[s].payload = pending[s].payload
    PROVE  PendingIsPrepared'
<1> SUFFICES ASSUME NEW s \in Sessions, pending'[s] # NoPending
             PROVE  /\ pending'[s].id \in ConfirmationIds
                    /\ confirmations'[pending'[s].id] # NoRow
                    /\ confirmations'[pending'[s].id].session = s
                    /\ confirmations'[pending'[s].id].user = owner'[s]
                    /\ confirmations'[pending'[s].id].payload = pending'[s].payload
  BY DEF PendingIsPrepared, Fits
<1>1. Fits(pending[s].id, s, pending[s].payload) /\ owner'[s] = owner[s]
  BY DEF GatewayInv, PendingIsPrepared, SessionOK, OwnersKept
<1> QED BY <1>1 DEF Fits, TablesKept

\* A session of which no answer is remembered anew stays as it should be.
LEMMA SessionFrame ==
    ASSUME GatewayInv, NEW s \in Sessions, UNCHANGED <<life, owner>>,
           completed'[s] = completed[s],
           life[s] = "new" => pending'[s] = NoPending
    PROVE  SessionOK(s)'
<1>1. SessionOK(s)
  BY DEF GatewayInv
<1> QED BY <1>1 DEF SessionOK

\* A step of a handler that leaves the sessions alone, and remembers nothing but
\* an answer it found there.
LEMMA QuietStep ==
    ASSUME GatewayInv, Inv', TablesKept,
           NEW r \in Requests, NEW f \in Handler, Handle(r, f),
           \A q \in Requests \ {r} : request'[q] = request[q],
           UNCHANGED memory, HandlerOK(r)',
           NothingIsEvicted /\ f.call # Nothing /\ f.answer \notin {"none", "raised"} =>
               AnswerOf(f) \in Elements(completed[f.session]),
           f.answer = "success" => Names(f.session, f.call, f.number)
    PROVE  GatewayInv'
<1> USE DEF memory
<1>1. MemoryTyped'
  BY DEF GatewayInv, GatewayTypeOK, MemoryTyped
<1>2. LockRespected(r)
  BY DEF LockRespected
<1>3. OwnersKept
  BY DEF OwnersKept
<1>4. PendingIsPrepared'
  BY <1>3, PendingFrame
<1>5. \A s \in Sessions : SessionOK(s)'
  BY SessionFrame DEF GatewayInv, SessionOK
<1>6. AnswersKept(f)
  BY NamesKept DEF AnswersKept, GatewayInv
<1> QED BY <1>1, <1>2, <1>4, <1>5, <1>6, HandlerActs

\* The fields of a handler that answers, and of one that goes on.
LEMMA ResponseFields ==
    ASSUME NEW h \in Handler, NEW answer \in Answers, NEW n \in Nat
    PROVE  LET f == [h EXCEPT !.step = "done", !.answer = answer, !.number = n] IN
           /\ f \in Handler /\ f.step = "done" /\ f.answer = answer
           /\ f.number = n /\ f.session = h.session /\ f.call = h.call
  BY DEF Handler, HandlerSteps

\* A handler at another of its steps is a handler still.
LEMMA AwaitFields ==
    ASSUME NEW h \in Handler, NEW step \in HandlerSteps
    PROVE  LET f == [h EXCEPT !.step = step] IN
           /\ f \in Handler /\ f.step = step /\ f.answer = h.answer
           /\ f.session = h.session /\ f.call = h.call /\ f.id = h.id
           /\ f.number = h.number
  BY DEF Handler

\* What a handler answers with is well typed, and all it has to know is that
\* its session exists.
LEMMA DoneOK ==
    ASSUME NEW r \in Requests, handler'[r].step = "done",
           handler'[r].session \in Sessions, life'[handler'[r].session] # "new"
    PROVE  HandlerOK(r)'
  BY DEF HandlerOK, ToolSteps, Holding

\* What the invariant says of the handlers.
LEMMA HandlerTyped ==
    ASSUME GatewayInv
    PROVE  /\ handler \in [Requests -> Handler]
           /\ \A r \in Requests : handler[r] \in Handler /\ HandlerOK(r)
  BY DEF GatewayInv, GatewayTypeOK

\* A handler that moves is what it becomes.
LEMMA HandleRecord ==
    ASSUME GatewayInv, NEW r \in Requests, NEW f, Handle(r, f)
    PROVE  handler'[r] = f
  BY HandlerTyped DEF Handle

-----------------------------------------------------------------------------
(* The steps that leave the sessions alone.                                 *)

\* A tool call arrives and waits for the lock of its session.
LEMMA ToolArriveInv ==
    ASSUME GatewayInv, Inv', TablesKept, NEW r \in Requests, NEW s \in Sessions,
           NEW k \in CallIds, ToolArrive(r, s, k)
    PROVE  GatewayInv'
<1> DEFINE f == [NoHandler EXCEPT !.step = "lock", !.session = s, !.call = k]
<1>1. f \in Handler /\ f.step = "lock" /\ f.session = s /\ f.call = k /\ f.answer = "none"
  BY DEF NoHandler, Handler, HandlerSteps
<1> HIDE DEF f
<1>2. Handle(r, f) /\ UNCHANGED <<vars, memory>> /\ life[s] = "open"
  BY DEF f, ToolArrive
<1>3. handler'[r] = f
  BY <1>2, HandleRecord
<1>4. HandlerOK(r)'
  BY <1>1, <1>2, <1>3 DEF HandlerOK, ToolSteps, Holding, memory
<1> QED BY <1>1, <1>2, <1>4, QuietStep DEF vars

\* A call that is sent again is answered with the remembered answer.
LEMMA ToolCachedInv ==
    ASSUME GatewayInv, Inv', TablesKept, NEW r \in Requests, ToolCached(r)
    PROVE  GatewayInv'
<1> DEFINE h == handler[r]
           s == h.session
<1>1. h \in Handler /\ s \in Sessions /\ life[s] # "new" /\ h.call \in CallIds
  BY HandlerTyped DEF ToolCached, HandlerAt, HandlerOK, ToolSteps
<1>2. PICK i \in Cached(s, h.call) : Respond(r, completed[s][i].answer, completed[s][i].number)
  BY DEF ToolCached, SessionOf
<1> DEFINE a == completed[s][i]
<1>3. i \in 1 .. Len(completed[s]) /\ a.call = h.call
  BY <1>2 DEF Cached
<1>4. a \in Entry
  <2>1. completed[s] \in Seq(Entry)
    BY <1>1 DEF GatewayInv, GatewayTypeOK
  <2> QED BY <1>3, <2>1
<1>5. a.answer \in Answers /\ a.number \in Nat
  BY <1>4 DEF Entry
<1> DEFINE f == [h EXCEPT !.step = "done", !.answer = a.answer, !.number = a.number]
<1>6. /\ f \in Handler /\ f.step = "done" /\ f.answer = a.answer
      /\ f.number = a.number /\ f.session = s /\ f.call = h.call
  BY <1>1, <1>5 DEF Handler, HandlerSteps
<1>7. Handle(r, f)
  BY <1>2 DEF Respond
<1>8. UNCHANGED <<vars, memory>>
  BY DEF ToolCached
<1> HIDE DEF f
<1>9. HandlerOK(r)'
  BY <1>1, <1>6, <1>7, <1>8, HandleRecord, DoneOK DEF memory
<1>10. AnswerOf(f) \in Elements(completed[f.session])
  <2>1. AnswerOf(f) = a
    BY <1>3, <1>4, <1>6 DEF AnswerOf, Entry
  <2> QED BY <1>3, <1>6, <2>1 DEF Elements
<1>11. f.answer = "success" => Names(f.session, f.call, f.number)
  BY <1>1, <1>3, <1>6 DEF GatewayInv, SuccessIsTheEnquiry
<1> QED BY <1>6, <1>7, <1>8, <1>9, <1>10, <1>11, QuietStep DEF vars

\* A handler that goes on without touching the tables, its session or its answer.
LEMMA AwaitInv ==
    ASSUME GatewayInv, Inv', TablesKept, NEW r \in Requests,
           NEW step \in HandlerSteps \ {"done"}, Await(r, step),
           handler[r].answer = "none", UNCHANGED memory,
           \A q \in Requests \ {r} : request'[q] = request[q],
           handler'[r] = [handler[r] EXCEPT !.step = step] => HandlerOK(r)'
    PROVE  GatewayInv'
<1> DEFINE f == [handler[r] EXCEPT !.step = step]
<1>1. Handle(r, f)
  BY DEF Await
<1>2. f \in Handler /\ f.answer = "none"
  BY HandlerTyped, AwaitFields
<1>3. HandlerOK(r)'
  BY <1>1, HandleRecord
<1> HIDE DEF f
<1> QED BY <1>1, <1>2, <1>3, QuietStep

\* The handler compares the pending enquiry with that of the call.
LEMMA ToolCompareInv ==
    ASSUME GatewayInv, Inv', TablesKept, NEW r \in Requests, ToolCompare(r)
    PROVE  GatewayInv'
<1> DEFINE h == handler[r]
           step == IF PendingSame(r) THEN "decide" ELSE "prepare"
           f == [h EXCEPT !.step = step]
<1>1. /\ h \in Handler /\ h.step = "compare" /\ h.answer = "none"
      /\ h.session \in Sessions /\ life[h.session] # "new" /\ h.call \in CallIds
      /\ sessionLock[h.session] = r /\ Cached(h.session, h.call) = {}
  BY HandlerTyped DEF ToolCompare, HandlerAt, HandlerOK, ToolSteps, Holding
<1>2. step \in HandlerSteps \ {"done"}
  BY DEF HandlerSteps
<1>3. Await(r, step) /\ UNCHANGED <<vars, memory>>
  BY DEF ToolCompare
<1>4. /\ f \in Handler /\ f.step = step /\ f.answer = h.answer
      /\ f.session = h.session /\ f.call = h.call /\ f.id = h.id
  BY <1>1, <1>2, AwaitFields
<1>5. step = "decide" => pending[h.session].payload = CallPayload[h.call]
  BY DEF PendingSame, SessionOf, PayloadOf
<1> HIDE DEF f
<1>6. ASSUME handler'[r] = f PROVE HandlerOK(r)'
  BY <1>1, <1>3, <1>4, <1>5, <1>6
     DEF HandlerOK, ToolSteps, Holding, memory, PayloadOf, Cached
<1> QED BY <1>1, <1>2, <1>3, <1>6, AwaitInv DEF f, vars

\* A confirmed enquiry with the details of the call is going to be consumed.
LEMMA DecideConsumeInv ==
    ASSUME GatewayInv, Inv', TablesKept, NEW r \in Requests,
           HandlerAt(r, "decide"), pending[SessionOf(r)] # NoPending,
           Handle(r, [handler[r] EXCEPT !.step = "consume",
                                        !.id = pending[SessionOf(r)].id]),
           UNCHANGED <<vars, memory>>
    PROVE  GatewayInv'
<1> DEFINE h == handler[r]
           s == h.session
           c == pending[s].id
           f == [h EXCEPT !.step = "consume", !.id = c]
<1>1. /\ h \in Handler /\ h.step = "decide" /\ h.answer = "none"
      /\ s \in Sessions /\ life[s] # "new" /\ h.call \in CallIds
      /\ sessionLock[s] = r /\ Cached(s, h.call) = {}
      /\ pending[s].payload = CallPayload[h.call] /\ pending[s] # NoPending
  BY HandlerTyped DEF HandlerAt, HandlerOK, ToolSteps, Holding, SessionOf, PayloadOf
<1>2. Fits(c, s, CallPayload[h.call])
  BY <1>1 DEF GatewayInv, PendingIsPrepared
<1>3. c \in ConfirmationIds
  BY <1>2 DEF Fits
<1>4. /\ f \in Handler /\ f.step = "consume" /\ f.id = c /\ f.answer = "none"
      /\ f.session = s /\ f.call = h.call
  BY <1>1, <1>3 DEF Handler, HandlerSteps
<1>5. Handle(r, f)
  BY DEF SessionOf
<1> HIDE DEF f
<1>6. handler'[r] = f
  BY <1>5, HandleRecord
<1>7. HandlerOK(r)'
  BY <1>1, <1>2, <1>4, <1>6
     DEF HandlerOK, ToolSteps, Holding, memory, PayloadOf, Cached, Fits, vars, tables
<1> QED BY <1>4, <1>5, <1>7, QuietStep DEF vars

\* A step that begins, advances or ends request r leaves the others alone.
LEMMA OthersRequests ==
    ASSUME GatewayInv, NEW r \in Requests, NEW f, Become(r, f)
    PROVE  request'[r] = f /\ \A q \in Requests \ {r} : request'[q] = request[q]
  BY DEF GatewayInv, GatewayTypeOK, TypeOK, Become

\* prepare_confirmation begins: it finds a row of the session with the details
\* of the call, or is about to insert one.
LEMMA ToolPrepareInv ==
    ASSUME GatewayInv, Inv', TablesKept, NEW r \in Requests, ToolPrepare(r)
    PROVE  GatewayInv'
<1> DEFINE h == handler[r]
           s == h.session
           f == [h EXCEPT !.step = "proposing"]
<1>1. /\ h \in Handler /\ h.step = "prepare" /\ h.answer = "none"
      /\ s \in Sessions /\ life[s] # "new" /\ h.call \in CallIds
      /\ sessionLock[s] = r /\ Cached(s, h.call) = {}
  BY HandlerTyped DEF ToolPrepare, HandlerAt, HandlerOK, ToolSteps, Holding
<1>2. "proposing" \in HandlerSteps \ {"done"}
  BY DEF HandlerSteps
<1>3. Await(r, "proposing") /\ UNCHANGED <<memory, tables>>
  BY DEF ToolPrepare, PrepareReuse, PrepareMiss
<1>4. /\ f \in Handler /\ f.step = "proposing" /\ f.answer = h.answer
      /\ f.session = s /\ f.call = h.call
  BY <1>1, <1>2, AwaitFields
<1>5. PICK q :
         /\ request'[r] = q /\ \A o \in Requests \ {r} : request'[o] = request[o]
         /\ \/ /\ q.step = "prepare_insert" /\ q.user = owner[s]
               /\ q.session = s /\ q.payload = CallPayload[h.call]
            \/ q.step = "done" /\ Fits(q.id, s, CallPayload[h.call])
  <2>1. CASE PrepareReuse(r, owner[s], s, CallPayload[h.call])
    <3>1. PICK c \in PendingMatches(owner[s], s, CallPayload[h.call]) :
             Begin(r, [NoRequest EXCEPT !.step = "done", !.user = owner[s],
                         !.session = s, !.payload = CallPayload[h.call],
                         !.id = c, !.result = "prepared"])
      BY <2>1 DEF PrepareReuse
    <3> DEFINE q == [NoRequest EXCEPT !.step = "done", !.user = owner[s],
                         !.session = s, !.payload = CallPayload[h.call],
                         !.id = c, !.result = "prepared"]
    <3>2. q.step = "done" /\ q.id = c
      BY DEF NoRequest
    <3>3. Fits(c, s, CallPayload[h.call])
      BY DEF PendingMatches, Fits, NoRow
    <3> HIDE DEF q
    <3>4. Become(r, q)
      BY <3>1 DEF q, Begin
    <3> QED BY <3>2, <3>3, <3>4, OthersRequests
  <2>2. CASE PrepareMiss(r, owner[s], s, CallPayload[h.call])
    <3>1. PICK c \in ConfirmationIds :
             Begin(r, [NoRequest EXCEPT !.step = "prepare_insert", !.user = owner[s],
                         !.session = s, !.payload = CallPayload[h.call],
                         !.id = c, !.stamp = now])
      BY <2>2 DEF PrepareMiss
    <3> DEFINE q == [NoRequest EXCEPT !.step = "prepare_insert", !.user = owner[s],
                         !.session = s, !.payload = CallPayload[h.call],
                         !.id = c, !.stamp = now]
    <3>2. /\ q.step = "prepare_insert" /\ q.user = owner[s]
          /\ q.session = s /\ q.payload = CallPayload[h.call]
      BY DEF NoRequest
    <3> HIDE DEF q
    <3>3. Become(r, q)
      BY <3>1 DEF q, Begin
    <3> QED BY <3>2, <3>3, OthersRequests
  <2> QED BY <2>1, <2>2 DEF ToolPrepare, SessionOf, PayloadOf
<1> HIDE DEF f
<1>6. ASSUME handler'[r] = f PROVE HandlerOK(r)'
  BY <1>1, <1>3, <1>4, <1>5, <1>6
     DEF HandlerOK, ToolSteps, Holding, memory, PayloadOf, Cached, Fits, tables
<1> QED BY <1>1, <1>2, <1>3, <1>5, <1>6, AwaitInv DEF f

\* consume_confirmation begins, for the row the handler has read.
LEMMA ToolConsumeInv ==
    ASSUME GatewayInv, Inv', TablesKept, NEW r \in Requests, ToolConsume(r)
    PROVE  GatewayInv'
<1> DEFINE h == handler[r]
           s == h.session
           f == [h EXCEPT !.step = "consuming"]
           q == [NoRequest EXCEPT !.step = "consume_lock", !.user = owner[s],
                   !.id = h.id, !.payload = PayloadOf(r)]
<1>1. /\ h \in Handler /\ h.step = "consume" /\ h.answer = "none"
      /\ s \in Sessions /\ life[s] # "new" /\ h.call \in CallIds
      /\ sessionLock[s] = r /\ Cached(s, h.call) = {}
      /\ Fits(h.id, s, CallPayload[h.call])
  BY HandlerTyped DEF ToolConsume, HandlerAt, HandlerOK, ToolSteps, Holding, PayloadOf
<1>2. "consuming" \in HandlerSteps \ {"done"}
  BY DEF HandlerSteps
<1>3. Await(r, "consuming") /\ UNCHANGED <<memory, tables>>
  BY DEF ToolConsume, ConsumeBegin
<1>4. /\ f \in Handler /\ f.step = "consuming" /\ f.answer = h.answer
      /\ f.session = s /\ f.call = h.call /\ f.id = h.id
  BY <1>1, <1>2, AwaitFields
<1>5. q.id = h.id /\ q.user = owner[s]
  BY DEF NoRequest
<1>6. Become(r, q)
  BY DEF ToolConsume, ConsumeBegin, Begin, SessionOf
<1> HIDE DEF f, q
<1>7. request'[r] = q /\ \A o \in Requests \ {r} : request'[o] = request[o]
  BY <1>6, OthersRequests
<1>8. ASSUME handler'[r] = f PROVE HandlerOK(r)'
  BY <1>1, <1>3, <1>4, <1>5, <1>7, <1>8
     DEF HandlerOK, ToolSteps, Holding, memory, PayloadOf, Cached, Fits, tables
<1> QED BY <1>1, <1>2, <1>3, <1>7, <1>8, AwaitInv DEF f

\* A transcript arrives, and is answered at once if nothing is pending.
LEMMA ObserveArriveInv ==
    ASSUME GatewayInv, Inv', TablesKept, NEW r \in Requests, NEW s \in Sessions,
           NEW heard \in {"hear_confirm", "hear_cancel"}, ObserveArrive(r, s, heard)
    PROVE  GatewayInv'
<1>1. PICK f \in Handler :
         /\ Handle(r, f) /\ f.session = s /\ f.call = Nothing
         /\ \/ f.step = "done" /\ f.answer = "observed"
            \/ f.step = heard /\ f.answer = "none"
  <2> DEFINE g == [NoHandler EXCEPT !.step = "done", !.session = s, !.answer = "observed"]
             h == [NoHandler EXCEPT !.step = heard, !.session = s]
  <2>1. /\ g \in Handler /\ g.session = s /\ g.call = Nothing
        /\ g.step = "done" /\ g.answer = "observed"
    BY DEF NoHandler, Handler, HandlerSteps, Answers
  <2>2. /\ h \in Handler /\ h.session = s /\ h.call = Nothing
        /\ h.step = heard /\ h.answer = "none"
    BY DEF NoHandler, Handler, HandlerSteps
  <2>3. Handle(r, g) \/ Handle(r, h)
    BY DEF ObserveArrive
  <2> HIDE DEF g, h
  <2> QED BY <2>1, <2>2, <2>3
<1>2. UNCHANGED <<vars, memory>> /\ life[s] = "open"
  BY DEF ObserveArrive
<1>3. handler'[r] = f
  BY <1>1, HandleRecord
<1>4. HandlerOK(r)'
  BY <1>1, <1>2, <1>3 DEF HandlerOK, ToolSteps, Holding, memory
<1> QED BY <1>1, <1>2, <1>4, QuietStep DEF vars

\* The pending enquiry is read again: a tool call may have cleared it.
LEMMA ObserveReadInv ==
    ASSUME GatewayInv, Inv', TablesKept, NEW r \in Requests, ObserveRead(r)
    PROVE  GatewayInv'
<1> DEFINE h == handler[r]
           s == h.session
<1>1. /\ h \in Handler /\ h.step \in {"hear_confirm", "hear_cancel"}
      /\ h.answer = "none" /\ h.call = Nothing /\ s \in Sessions /\ life[s] # "new"
  BY HandlerTyped DEF ObserveRead, HandlerAt, HandlerOK, ToolSteps, Holding
<1>2. UNCHANGED <<vars, memory>>
  BY DEF ObserveRead
<1>3. CASE pending[s] = NoPending
  <2> DEFINE f == [h EXCEPT !.step = "done", !.answer = "raised", !.number = 0]
  <2>1. "raised" \in Answers /\ 0 \in Nat
    BY DEF Answers
  <2>2. /\ f \in Handler /\ f.step = "done" /\ f.answer = "raised"
        /\ f.session = s
    BY <1>1, <2>1 DEF Handler, HandlerSteps
  <2>3. Handle(r, f)
    BY <1>3 DEF ObserveRead, Respond, SessionOf
  <2> HIDE DEF f
  <2>4. HandlerOK(r)'
    BY <1>1, <1>2, <2>2, <2>3, HandleRecord, DoneOK DEF memory
  <2> QED BY <1>2, <2>2, <2>3, <2>4, QuietStep DEF vars
<1>4. CASE pending[s] # NoPending
  <2> DEFINE next == IF h.step = "hear_confirm" THEN "confirm" ELSE "cancel"
             c == pending[s].id
             f == [h EXCEPT !.step = next, !.id = c]
  <2>1. c \in ConfirmationIds
    BY <1>1, <1>4 DEF GatewayInv, PendingIsPrepared, Fits
  <2>2. /\ f \in Handler /\ f.step = next /\ f.id = c /\ f.answer = "none"
        /\ f.session = s /\ f.call = Nothing
    BY <1>1, <2>1 DEF Handler, HandlerSteps
  <2>3. Handle(r, f)
    BY <1>1, <1>4 DEF ObserveRead, SessionOf, Handler
  <2> HIDE DEF f
  <2>4. handler'[r] = f
    BY <2>3, HandleRecord
  <2>5. HandlerOK(r)'
    BY <1>1, <1>2, <2>1, <2>2, <2>4 DEF HandlerOK, ToolSteps, Holding, memory
  <2> QED BY <1>2, <2>2, <2>3, <2>5, QuietStep DEF vars
<1> QED BY <1>3, <1>4

\* The service functions of a transcript begin.
LEMMA ObserveServiceInv ==
    ASSUME GatewayInv, Inv', TablesKept, NEW r \in Requests,
           ObserveConfirm(r) \/ ObserveCancel(r)
    PROVE  GatewayInv'
<1> DEFINE h == handler[r]
<1>1. /\ h \in Handler /\ h.step \in {"confirm", "cancel"} /\ h.answer = "none"
      /\ h.call = Nothing /\ h.session \in Sessions /\ life[h.session] # "new"
  BY HandlerTyped
     DEF ObserveConfirm, ObserveCancel, HandlerAt, HandlerOK, ToolSteps, Holding
<1>2. PICK step \in {"confirming", "cancelling"} : Await(r, step)
  BY DEF ObserveConfirm, ObserveCancel
<1> DEFINE f == [h EXCEPT !.step = step]
<1>3. step \in HandlerSteps \ {"done"} /\ UNCHANGED memory
  BY DEF HandlerSteps, ObserveConfirm, ObserveCancel
<1>4. \A o \in Requests \ {r} : request'[o] = request[o]
  <2>1. \E q : Become(r, q)
    BY DEF ObserveConfirm, ObserveCancel, ConfirmRead, CancelRead, Begin
  <2> QED BY <2>1, OthersRequests
<1>5. /\ f \in Handler /\ f.step = step /\ f.session = h.session
      /\ f.answer = h.answer /\ f.call = h.call
  BY <1>1, <1>3, AwaitFields
<1> HIDE DEF f
<1>6. ASSUME handler'[r] = f PROVE HandlerOK(r)'
  BY <1>1, <1>3, <1>5, <1>6 DEF HandlerOK, ToolSteps, Holding, memory
<1> QED BY <1>1, <1>2, <1>3, <1>4, <1>6, AwaitInv DEF f

\* A step that leaves a handler where it is.
LEMMA StayInv ==
    ASSUME GatewayInv, Inv', TablesKept, NEW r \in Requests,
           \A q \in Requests \ {r} : request'[q] = request[q],
           UNCHANGED gatewayVars, HandlerOK(r)'
    PROVE  GatewayInv'
<1> DEFINE f == handler[r]
<1>1. f \in Handler /\ HandlerOK(r)
  BY HandlerTyped
<1>2. Handle(r, f)
  BY HandlerTyped DEF Handle, gatewayVars
<1>3. f.answer = "success" => Names(f.session, f.call, f.number)
  BY DEF GatewayInv, SuccessIsTheEnquiry, SessionOf
<1>4. ASSUME NothingIsEvicted, f.call # Nothing, f.answer \notin {"none", "raised"}
      PROVE  AnswerOf(f) \in Elements(completed[f.session])
  <2>1. PICK i \in Cached(f.session, f.call) :
           /\ completed[f.session][i].answer = f.answer
           /\ completed[f.session][i].number = f.number
    BY <1>4 DEF GatewayInv, AnswersRemembered
  <2>2. i \in 1 .. Len(completed[f.session]) /\ completed[f.session][i].call = f.call
    BY <2>1 DEF Cached
  <2>3. completed[f.session] \in Seq(Entry)
    BY <1>1, <1>4 DEF HandlerOK, GatewayInv, GatewayTypeOK
  <2>4. completed[f.session][i] \in Entry
    BY <2>2, <2>3
  <2>5. completed[f.session][i] = AnswerOf(f)
    BY <2>1, <2>2, <2>4 DEF AnswerOf, Entry
  <2> QED BY <2>2, <2>5 DEF Elements
<1> HIDE DEF f
<1> QED BY <1>1, <1>2, <1>3, <1>4, QuietStep DEF gatewayVars

\* What a request was called with stays while its service function runs.
SameCall(f, q) ==
    f.id = q.id /\ f.user = q.user /\ f.session = q.session /\ f.payload = q.payload

\* A request moved to another step is the same call.
LEMMA SameCallFields ==
    ASSUME NEW q \in Request
    PROVE  \A x, y : /\ SameCall(Finished(q, x), q)
                     /\ SameCall([Finished(q, x) EXCEPT !.number = y], q)
                     /\ SameCall(At(q, x), q)
                     /\ SameCall([At(q, x) EXCEPT !.stamp = y], q)
                     /\ SameCall([At(q, x) EXCEPT !.seen = y], q)
                     /\ SameCall([At(q, x) EXCEPT !.number = y], q)
  BY DEF SameCall, Finished, At, Request

\* The service function goes on: its row, once inserted, fits the session.
LEMMA ServiceInv ==
    ASSUME GatewayInv, Inv', TablesKept, NEW r \in Requests, Service(r)
    PROVE  GatewayInv'
<1> DEFINE h == handler[r]
           s == h.session
           q == request[r]
<1>1. HandlerOK(r) /\ h \in Handler /\ q \in Request /\ TypeOK
  BY HandlerTyped DEF GatewayInv, GatewayTypeOK, TypeOK
<1>2. UNCHANGED gatewayVars /\ q.step # "idle"
  BY DEF Service, PrepareInsert, ConfirmCheck, ConfirmExpire, ConfirmWrite,
         CancelWrite, ConsumeLock, ConsumeExamine, ConsumeExpire, ConsumeNumber,
         ConsumeCommit, ConsumeRollback, ConsumeLookup
<1>3. \E f : Become(r, f) /\ SameCall(f, q)
  <2> USE SameCallFields, <1>1
  <2>1. CASE PrepareInsert(r) \/ ConfirmExpire(r) \/ ConfirmWrite(r)
             \/ CancelWrite(r) \/ ConsumeExpire(r) \/ ConsumeCommit(r)
    <3>1. \E result : Become(r, Finished(q, result))
      BY <2>1 DEF PrepareInsert, ConfirmExpire, ConfirmWrite, CancelWrite,
                  ConsumeExpire, ConsumeCommit, Finish
    <3> QED BY <3>1
  <2>2. CASE ConfirmCheck(r) \/ ConsumeRollback(r)
    <3>1. \/ \E step : Become(r, At(q, step))
          \/ Become(r, [At(q, "confirm_write") EXCEPT !.stamp = now])
      BY <2>2 DEF ConfirmCheck, ConsumeRollback, Goto
    <3> QED BY <3>1
  <2>3. CASE ConsumeLock(r)
    <3>1. \/ Become(r, Finished(q, "confirmation_not_found"))
          \/ Become(r, [At(q, "consume_examine") EXCEPT !.seen = confirmations[q.id].status])
      BY <2>3 DEF ConsumeLock, Finish
    <3> QED BY <3>1
  <2>4. CASE ConsumeExamine(r)
    <3>1. \/ \E n : Become(r, [Finished(q, "idempotent_replay") EXCEPT !.number = n])
          \/ \E result : Become(r, Finished(q, result))
          \/ Become(r, At(q, "consume_expire"))
          \/ Become(r, [At(q, "consume_number") EXCEPT !.stamp = now])
      BY <2>4 DEF ConsumeExamine, Finish, Goto, Replay, FinishWith
    <3> QED BY <3>1
  <2>5. CASE ConsumeNumber(r)
    <3>1. \E n : Become(r, [At(q, "consume_commit") EXCEPT !.number = n])
      BY <2>5 DEF ConsumeNumber
    <3> QED BY <3>1
  <2>6. CASE ConsumeLookup(r)
    <3>1. \/ \E n : Become(r, [Finished(q, "idempotent_replay") EXCEPT !.number = n])
          \/ \E result : Become(r, Finished(q, result))
      BY <2>6 DEF ConsumeLookup, Finish, Replay, FinishWith
    <3> QED BY <3>1
  <2> QED BY <2>1, <2>2, <2>3, <2>4, <2>5, <2>6 DEF Service
<1>4. /\ request'[r].id = q.id /\ request'[r].user = q.user
      /\ request'[r].session = q.session /\ request'[r].payload = q.payload
      /\ \A o \in Requests \ {r} : request'[o] = request[o]
  BY <1>3, OthersRequests DEF SameCall
<1>5. ASSUME h.step = "proposing"
      PROVE  request'[r].step = "done" /\ Fits(q.id, s, CallPayload[h.call])'
  <2>1. q.step \in {"prepare_insert", "done"}
    BY <1>1, <1>5 DEF HandlerOK
  <2>2. PrepareInsert(r)
    BY <2>1 DEF Service, PrepareInsert, ConfirmCheck, ConfirmExpire, ConfirmWrite,
         CancelWrite, ConsumeLock, ConsumeExamine, ConsumeExpire, ConsumeNumber,
         ConsumeCommit, ConsumeRollback, ConsumeLookup
  <2>3. /\ q.step = "prepare_insert" /\ q.user = owner[s] /\ q.session = s
        /\ q.payload = CallPayload[h.call]
    BY <1>1, <1>5, <2>2 DEF HandlerOK, PrepareInsert, PayloadOf
  <2>4. q.id \in ConfirmationIds
    BY <2>3 DEF GatewayInv, Inv, RequestOK
  <2>5. confirmations'[q.id] = NewRow(q)
    BY <1>1, <2>2, <2>4 DEF PrepareInsert, SetRow, TypeOK
  <2>6. NewRow(q) # NoRow
    BY DEF NewRow, NoRow
  <2>7. request'[r].step = "done"
    <3>1. Become(r, Finished(q, "prepared"))
      BY <2>2 DEF PrepareInsert, Finish
    <3>2. Finished(q, "prepared").step = "done"
      BY <1>1 DEF Finished, Request
    <3> QED BY <3>1, <3>2, OthersRequests
  <2> QED BY <1>2, <1>4, <2>3, <2>4, <2>5, <2>6, <2>7
          DEF Fits, NewRow, gatewayVars, memory
<1>6. ASSUME h.step \in {"consume", "consuming"}
      PROVE  Fits(h.id, s, CallPayload[h.call])'
  <2>1. Fits(h.id, s, CallPayload[h.call])
    BY <1>1, <1>6 DEF HandlerOK, PayloadOf
  <2> QED BY <1>2, <2>1 DEF Fits, TablesKept, gatewayVars, memory
<1>7. HandlerOK(r)'
  BY <1>1, <1>2, <1>4, <1>5, <1>6
     DEF HandlerOK, gatewayVars, memory, PayloadOf, Cached, Fits
<1> QED BY <1>2, <1>4, <1>7, StayInv

\* The response is sent, or the database notices that its handler is gone.
LEMMA EndHandlerInv ==
    ASSUME GatewayInv, Inv', TablesKept, NEW r \in Requests,
           Answer(r) \/ Disconnect(r)
    PROVE  GatewayInv'
<1>1. Handle(r, NoHandler) /\ UNCHANGED memory
  BY DEF Answer, Disconnect
<1>2. \/ Become(r, NoRequest)
      \/ request[r] = NoRequest /\ UNCHANGED vars
  BY DEF Answer, Disconnect, Return, Abort
<1>3. /\ request'[r] = NoRequest
      /\ \A q \in Requests \ {r} : request'[q] = request[q]
  BY <1>2, OthersRequests DEF vars
<1>4. /\ NoHandler \in Handler /\ NoHandler.step = "idle"
      /\ NoHandler.answer = "none" /\ NoHandler.call = Nothing
      /\ NoRequest.step = "idle"
  BY DEF NoHandler, Handler, HandlerSteps, NoRequest
<1>5. handler'[r] = NoHandler
  BY <1>1, HandleRecord
<1>6. HandlerOK(r)'
  BY <1>3, <1>4, <1>5 DEF HandlerOK, ToolSteps, Holding
<1> QED BY <1>1, <1>3, <1>4, <1>6, QuietStep

-----------------------------------------------------------------------------
(* The steps that raise.                                                    *)

\* A lock that is given up was the handler's own.
LEMMA ReleaseRespects ==
    ASSUME GatewayInv, NEW r \in Requests, NEW s \in Sessions, Release(s, r)
    PROVE  /\ sessionLock' \in [Sessions -> Requests \cup {Nothing}]
           /\ \A t \in Sessions :
                 sessionLock[t] \notin {Nothing, r} => sessionLock'[t] = sessionLock[t]
<1>1. sessionLock \in [Sessions -> Requests \cup {Nothing}]
  BY DEF GatewayInv, GatewayTypeOK
<1> QED BY <1>1 DEF Release

\* An exception leaves the lock and is answered, whatever the handler did.
LEMMA RaiseInv ==
    ASSUME GatewayInv, Inv', TablesKept, NEW r \in Requests,
           handler[r].step \notin {"idle", "dead"}, Raise(r),
           \A q \in Requests \ {r} : request'[q] = request[q],
           UNCHANGED <<life, owner>>
    PROVE  GatewayInv'
<1> DEFINE h == handler[r]
           s == h.session
           f == [h EXCEPT !.step = "done", !.answer = "raised", !.number = 0]
<1>1. h \in Handler /\ s \in Sessions /\ life[s] # "new"
  BY HandlerTyped DEF HandlerOK
<1>2. "raised" \in Answers
  BY DEF Answers
<1>3. /\ f \in Handler /\ f.step = "done" /\ f.answer = "raised" /\ f.session = s
  BY <1>1, <1>2 DEF Handler, HandlerSteps
<1>4. Handle(r, f) /\ Release(s, r) /\ UNCHANGED <<pending, completed>>
  BY DEF Raise, Respond, SessionOf
<1> HIDE DEF f
<1>5. MemoryTyped' /\ LockRespected(r)
  BY <1>1, <1>4, ReleaseRespects
     DEF GatewayInv, GatewayTypeOK, MemoryTyped, LockRespected
<1>6. HandlerOK(r)'
  BY <1>1, <1>3, <1>4, HandleRecord, DoneOK
<1>7. PendingIsPrepared'
  BY <1>4, PendingFrame DEF OwnersKept
<1>8. \A t \in Sessions : SessionOK(t)'
  BY <1>4, SessionFrame DEF GatewayInv, SessionOK
<1>9. AnswersKept(f)
  BY <1>3, <1>4 DEF AnswersKept
<1> QED BY <1>3, <1>4, <1>5, <1>6, <1>7, <1>8, <1>9, HandlerActs

\* The insert of a confirmation fails.
LEMMA ToolNotPreparedInv ==
    ASSUME GatewayInv, Inv', TablesKept, NEW r \in Requests, ToolNotPrepared(r)
    PROVE  GatewayInv'
  BY RaiseInv DEF ToolNotPrepared, HandlerAt, vars

\* The connection is lost in the middle of a service function.
LEMMA FaultInv ==
    ASSUME GatewayInv, Inv', TablesKept, NEW r \in Requests, Fault(r)
    PROVE  GatewayInv'
<1>1. handler[r].step \notin {"idle", "dead"}
  BY HandlerTyped DEF Fault, Abort, Return, HandlerAt, HandlerOK
<1>2. \A q \in Requests \ {r} : request'[q] = request[q]
  BY OthersRequests DEF Fault, Abort, Return
<1> QED BY <1>1, <1>2, RaiseInv DEF Fault

-----------------------------------------------------------------------------
(* The steps that answer a call and remember the answer.                    *)

\* A tool call is answered: the new answer is remembered with the others.
LEMMA AnswerInv ==
    ASSUME GatewayInv, Inv', TablesKept, NEW r \in Requests,
           handler[r].step \in ToolSteps,
           sessionLock[SessionOf(r)] \in {Nothing, r},
           Cached(SessionOf(r), handler[r].call) = {},
           NEW entries \in {completed[SessionOf(r)], Evicted(SessionOf(r))},
           NEW answer \in Answers, NEW n \in Nat,
           Remember(SessionOf(r), entries, handler[r].call, answer, n),
           Respond(r, answer, n),
           UNCHANGED sessionLock \/ Release(SessionOf(r), r),
           UNCHANGED <<request, life, owner>>,
           pending' \in [Sessions -> PendingEnquiry \cup {NoPending}],
           \A t \in Sessions : t # SessionOf(r) => pending'[t] = pending[t],
           PendingIsPrepared',
           answer = "success" => NamesNext(SessionOf(r), handler[r].call, n)
    PROVE  GatewayInv'
<1>0. PICK k \in CallIds : k = handler[r].call
  BY CallArguments
<1>1. PICK s \in Sessions : s = SessionOf(r)
  BY CallArguments
<1> DEFINE h == handler[r]
           f == [h EXCEPT !.step = "done", !.answer = answer, !.number = n]
           e == [call |-> k, answer |-> answer, number |-> n]
<1>2. h \in Handler /\ h.session = s /\ life[s] # "new" /\ h.call = k
  BY <1>0, <1>1, HandlerTyped, CallArguments DEF SessionOf
<1>3. /\ f \in Handler /\ f.step = "done" /\ f.answer = answer
      /\ f.number = n /\ f.session = s /\ f.call = k
  BY <1>2 DEF Handler, HandlerSteps
<1>4. Handle(r, f)
  BY DEF Respond
<1>5. GatewayTypeOK /\ SessionOK(s)
  BY DEF GatewayInv
<1>6. Cached(s, k) = {} /\ entries \in {completed[s], Evicted(s)}
      /\ Remember(s, entries, k, answer, n)
  BY <1>0, <1>1
<1>7. /\ completed' \in [Sessions -> Seq(Entry)]
      /\ \A t \in Sessions \ {s} : completed'[t] = completed[t]
      /\ e \in Elements(completed'[s])
      /\ Elements(completed'[s]) \subseteq Elements(completed[s]) \cup {e}
      /\ NothingIsEvicted => Elements(completed[s]) \subseteq Elements(completed'[s])
      /\ CallsDiffer(completed'[s])
  <2>1. e = [call |-> k, answer |-> answer, number |-> n]
    OBVIOUS
  <2> HIDE DEF e
  <2>2. RemembersOneMore(s, e)
    BY <1>2, <1>5, <1>6, <2>1, Remembering
  <2> QED BY <2>2 DEF RemembersOneMore
<1>8. AnswerOf(f) = e
  BY <1>3 DEF AnswerOf
<1> HIDE DEF f, e
<1>9. /\ sessionLock' \in [Sessions -> Requests \cup {Nothing}]
      /\ \A t \in Sessions :
            sessionLock[t] \notin {Nothing, r} => sessionLock'[t] = sessionLock[t]
  BY <1>1, <1>5, ReleaseRespects DEF GatewayTypeOK
<1>10. MemoryTyped'
  BY <1>7, <1>9 DEF MemoryTyped
<1>11. LockRespected(r)
  BY <1>1, <1>7, <1>9 DEF LockRespected
<1>12. HandlerOK(r)'
  BY <1>2, <1>3, <1>4, HandleRecord, DoneOK
<1>13. \A t \in Sessions : SessionOK(t)'
  <2> TAKE t \in Sessions
  <2>1. CASE t = s
    <3>1. life'[s] # "new" /\ owner'[s] \in Users
      BY <1>2, <1>5 DEF SessionOK
    <3> QED BY <1>7, <2>1, <3>1 DEF SessionOK, CallsDiffer
  <2>2. CASE t # s
    <3>1. completed'[t] = completed[t] /\ pending'[t] = pending[t] /\ SessionOK(t)
      BY <1>1, <1>7, <2>2 DEF GatewayInv
    <3>2. life[t] = "new" => pending'[t] = NoPending
      BY <3>1 DEF SessionOK
    <3> QED BY <3>1, <3>2, SessionFrame
  <2> QED BY <2>1, <2>2
<1>14. AnswersKept(f)
  <2>1. ASSUME NEW t \in Sessions
        PROVE  /\ Elements(completed'[t]) \subseteq
                     Elements(completed[t]) \cup {a \in {AnswerOf(f)} : t = f.session}
               /\ NothingIsEvicted =>
                     Elements(completed[t]) \subseteq Elements(completed'[t])
    BY <1>3, <1>7, <1>8
  <2> QED BY <1>0, <1>1, <1>3, <1>7, <1>8, <2>1 DEF AnswersKept
<1> QED BY <1>3, <1>4, <1>10, <1>11, <1>12, <1>13, <1>14, HandlerActs

\* Calls of tools that are not registered, and of those that only read.
LEMMA ToolOtherInv ==
    ASSUME GatewayInv, Inv', TablesKept, NEW r \in Requests,
           ToolUnknown(r) \/ ToolOther(r)
    PROVE  GatewayInv'
<1>1. handler[r].step \in ToolSteps /\ Cached(SessionOf(r), handler[r].call) = {}
      /\ sessionLock[SessionOf(r)] = Nothing
  BY DEF ToolUnknown, ToolOther, HandlerAt, ToolSteps, Free
<1>2. \E entries \in {completed[SessionOf(r)], Evicted(SessionOf(r))},
         answer \in {"answered", "not_registered"} :
            /\ Remember(SessionOf(r), entries, handler[r].call, answer, 0)
            /\ Respond(r, answer, 0)
  BY DEF ToolUnknown, ToolOther
<1>3. UNCHANGED <<vars, life, owner, pending, sessionLock>>
  BY DEF ToolUnknown, ToolOther
<1>4. pending' \in [Sessions -> PendingEnquiry \cup {NoPending}]
  BY <1>3 DEF GatewayInv, GatewayTypeOK
<1>5. PendingIsPrepared'
  BY <1>3, PendingFrame DEF OwnersKept
<1>6. {"answered", "not_registered"} \subseteq Answers \ {"success"} /\ 0 \in Nat
  BY DEF Answers
<1> QED BY <1>1, <1>2, <1>3, <1>4, <1>5, <1>6, AnswerInv DEF vars

\* The call of create_enquiry enters the lock of its session.
LEMMA ToolEnquiryInv ==
    ASSUME GatewayInv, Inv', TablesKept, NEW r \in Requests, ToolEnquiry(r)
    PROVE  GatewayInv'
<1> DEFINE h == handler[r]
           s == h.session
           f == [h EXCEPT !.step = "compare"]
<1>1. /\ h \in Handler /\ s \in Sessions /\ life[s] # "new" /\ h.call \in CallIds
      /\ h.answer = "none" /\ sessionLock[s] = Nothing /\ Cached(s, h.call) = {}
  BY HandlerTyped DEF ToolEnquiry, HandlerAt, HandlerOK, ToolSteps, Free, SessionOf
<1>2. "compare" \in HandlerSteps
  BY DEF HandlerSteps
<1>3. /\ f \in Handler /\ f.step = "compare" /\ f.answer = "none"
      /\ f.session = s /\ f.call = h.call
  BY <1>1, <1>2, AwaitFields
<1>4. /\ Handle(r, f) /\ UNCHANGED <<vars, life, owner, pending, completed>>
      /\ sessionLock' = [sessionLock EXCEPT ![s] = r]
  BY DEF ToolEnquiry, Await, Acquire, SessionOf
<1> HIDE DEF f
<1>5. handler'[r] = f
  BY <1>4, HandleRecord
<1>6. MemoryTyped' /\ LockRespected(r) /\ sessionLock'[s] = r
  BY <1>1, <1>4 DEF GatewayInv, GatewayTypeOK, MemoryTyped, LockRespected
<1>7. HandlerOK(r)'
  BY <1>1, <1>3, <1>4, <1>5, <1>6 DEF HandlerOK, ToolSteps, Holding, Cached
<1>8. PendingIsPrepared'
  BY <1>4, PendingFrame DEF OwnersKept
<1>9. \A t \in Sessions : SessionOK(t)'
  BY <1>4, SessionFrame DEF GatewayInv, SessionOK
<1>10. AnswersKept(f)
  BY <1>3, <1>4 DEF AnswersKept
<1> QED BY <1>3, <1>4, <1>6, <1>7, <1>8, <1>9, <1>10, HandlerActs DEF vars

\* A call is settled under the lock of its session, which is given up.
LEMMA SettleInv ==
    ASSUME GatewayInv, Inv', TablesKept, NEW r \in Requests,
           handler[r].step \in Holding,
           NEW answer \in Answers, NEW n \in Nat, Settle(r, answer, n),
           UNCHANGED <<request, life, owner>>,
           pending' \in [Sessions -> PendingEnquiry \cup {NoPending}],
           \A t \in Sessions : t # SessionOf(r) => pending'[t] = pending[t],
           PendingIsPrepared',
           answer = "success" => NamesNext(SessionOf(r), handler[r].call, n)
    PROVE  GatewayInv'
<1>1. handler[r].step \in ToolSteps
  BY DEF ToolSteps
<1>2. sessionLock[SessionOf(r)] = r /\ Cached(SessionOf(r), handler[r].call) = {}
  BY HandlerTyped DEF HandlerOK, SessionOf
<1>3. /\ Remember(SessionOf(r), Evicted(SessionOf(r)), handler[r].call, answer, n)
      /\ Release(SessionOf(r), r) /\ Respond(r, answer, n)
  BY DEF Settle
<1> QED BY <1>1, <1>2, <1>3, AnswerInv

\* The pending enquiry of the call is not confirmed, or is going to be consumed,
\* or a transcript has cleared it.
LEMMA ToolDecideInv ==
    ASSUME GatewayInv, Inv', TablesKept, NEW r \in Requests, ToolDecide(r)
    PROVE  GatewayInv'
<1>1. HandlerAt(r, "decide") /\ UNCHANGED <<vars, life, owner>>
  BY DEF ToolDecide
<1>2. CASE Raise(r)
  BY <1>1, <1>2, RaiseInv DEF HandlerAt, vars
<1>3. CASE Settle(r, "confirmation_required", 0) /\ UNCHANGED pending
  <2>1. "confirmation_required" \in Answers \ {"success"} /\ 0 \in Nat
    BY DEF Answers
  <2>2. pending' \in [Sessions -> PendingEnquiry \cup {NoPending}]
    BY <1>3 DEF GatewayInv, GatewayTypeOK
  <2>3. PendingIsPrepared'
    BY <1>1, <1>3, PendingFrame DEF OwnersKept
  <2> QED BY <1>1, <1>3, <2>1, <2>2, <2>3, SettleInv DEF HandlerAt, Holding, vars
<1>4. CASE /\ pending[SessionOf(r)] # NoPending
           /\ Handle(r, [handler[r] EXCEPT !.step = "consume",
                                           !.id = pending[SessionOf(r)].id])
           /\ UNCHANGED <<pending, completed, sessionLock>>
  BY <1>1, <1>4, DecideConsumeInv DEF memory
<1> QED BY <1>2, <1>3, <1>4 DEF ToolDecide

\* The confirmation is prepared and becomes what is pending in the session.
LEMMA ToolProposedInv ==
    ASSUME GatewayInv, Inv', TablesKept, NEW r \in Requests, ToolProposed(r)
    PROVE  GatewayInv'
<1> DEFINE c == request[r].id
           new == [payload |-> PayloadOf(r), id |-> c, confirmed |-> FALSE]
<1>0. PICK s \in Sessions : s = SessionOf(r)
  BY CallArguments DEF ToolProposed, HandlerAt, ToolSteps, Holding
<1>1. /\ handler[r].step = "proposing" /\ UNCHANGED <<vars, life, owner>>
      /\ request[r].step = "done" /\ SetPending(s, new)
      /\ Settle(r, "confirmation_required", 0)
  BY <1>0 DEF ToolProposed, HandlerAt
<1>2. Fits(c, s, PayloadOf(r))
  BY <1>0, <1>1, HandlerTyped DEF HandlerOK, SessionOf
<1>3. new \in PendingEnquiry
  <2>1. PayloadOf(r) \in Payloads
    BY <1>1, CallArguments DEF ToolSteps, Holding
  <2> QED BY <1>2, <2>1 DEF PendingEnquiry, Fits
<1>4. /\ pending' \in [Sessions -> PendingEnquiry \cup {NoPending}]
      /\ pending'[s] = new
      /\ \A t \in Sessions : t # s => pending'[t] = pending[t]
  BY <1>1, <1>3 DEF SetPending, GatewayInv, GatewayTypeOK
<1>5. PendingIsPrepared'
  <2> SUFFICES ASSUME NEW t \in Sessions, NEW p, p = pending'[t], p # NoPending
               PROVE  Fits(p.id, t, p.payload)
    BY <1>1 DEF PendingIsPrepared, Fits, vars, tables
  <2>1. CASE t = s
    <3>1. p.id = c /\ p.payload = PayloadOf(r)
      BY <1>4, <2>1
    <3> QED BY <1>2, <2>1, <3>1
  <2>2. CASE t # s
    BY <1>4, <2>2 DEF GatewayInv, PendingIsPrepared
  <2> QED BY <2>1, <2>2
<1>6. "confirmation_required" \in Answers \ {"success"} /\ 0 \in Nat
  BY DEF Answers
<1> QED BY <1>0, <1>1, <1>4, <1>5, <1>6, SettleInv DEF Holding, vars

\* create_enquiry answers with what consume_confirmation returned.
LEMMA ToolConsumedInv ==
    ASSUME GatewayInv, Inv', TablesKept, NEW r \in Requests, ToolConsumed(r)
    PROVE  GatewayInv'
<1> DEFINE q == request[r]
           h == handler[r]
<1>0. PICK s \in Sessions : s = SessionOf(r)
  BY CallArguments DEF ToolConsumed, HandlerAt, ToolSteps, Holding
<1>1. /\ h.step = "consuming" /\ UNCHANGED <<vars, life, owner>> /\ s = h.session
  BY <1>0 DEF ToolConsumed, HandlerAt, SessionOf
<1>2. Fits(h.id, s, CallPayload[h.call]) /\ q.id = h.id /\ q.user = owner[s]
  BY <1>1, HandlerTyped DEF HandlerOK, PayloadOf
<1>3. CASE /\ q.result \in {"created", "idempotent_replay"}
           /\ SetPending(s, NoPending) /\ Settle(r, "success", q.number)
  <2>1. /\ pending' \in [Sessions -> PendingEnquiry \cup {NoPending}]
        /\ pending'[s] = NoPending
        /\ \A t \in Sessions : t # s => pending'[t] = pending[t]
    BY <1>3 DEF SetPending, GatewayInv, GatewayTypeOK
  <2>2. \A t \in Sessions :
           \/ pending'[t] = NoPending
           \/ /\ pending[t] # NoPending /\ pending'[t].id = pending[t].id
              /\ pending'[t].payload = pending[t].payload
    BY <2>1
  <2>3. PendingIsPrepared'
    BY <1>1, <2>2, PendingFrame DEF OwnersKept
  <2>4. PICK e \in enquiries :
           e.confirmation = h.id /\ e.number = q.number /\ e.buyer = owner[s]
    BY <1>2, <1>3 DEF GatewayInv, Inv, RequestOK
  <2>5. e.payload = CallPayload[h.call] /\ confirmations[e.confirmation].session = s
    BY <1>2, <2>4 DEF Fits, GatewayInv, Inv, EnquiriesOK, EnquiryWasConfirmed
  <2>6. NamesNext(s, h.call, q.number)
    BY <1>1, <2>4, <2>5 DEF NamesNext, vars, tables
  <2>7. "success" \in Answers /\ q.number \in Nat
    BY DEF Answers, GatewayInv, Inv, TypeOK, Request
  <2> QED BY <1>0, <1>1, <1>3, <2>1, <2>3, <2>6, <2>7, SettleInv DEF Holding, vars
<1>4. CASE /\ q.result \in {"confirmation_not_found", "confirmation_payload_mismatch",
                            "confirmation_required", "confirmation_expired"}
           /\ Settle(r, q.result, 0) /\ UNCHANGED pending
  <2>1. q.result \in Answers \ {"success"} /\ 0 \in Nat
    BY <1>4 DEF Answers
  <2>2. pending' \in [Sessions -> PendingEnquiry \cup {NoPending}]
    BY <1>4 DEF GatewayInv, GatewayTypeOK
  <2>3. PendingIsPrepared'
    BY <1>1, <1>4, PendingFrame DEF OwnersKept
  <2> QED BY <1>1, <1>4, <2>1, <2>2, <2>3, SettleInv DEF Holding, vars
<1>5. CASE Raise(r)
  BY <1>1, <1>5, RaiseInv DEF vars
<1> QED BY <1>0, <1>3, <1>4, <1>5 DEF ToolConsumed

\* A transcript is answered: what is pending is confirmed or cleared, without
\* the session's lock.
LEMMA ObserveAnswerInv ==
    ASSUME GatewayInv, Inv', TablesKept, NEW r \in Requests,
           handler[r].step \in {"confirming", "cancelling"},
           NEW answer \in Answers \ {"success"}, Respond(r, answer, 0),
           UNCHANGED <<vars, life, owner, completed, sessionLock>>,
           handler[r].call = Nothing,
           \/ UNCHANGED pending
           \/ SetPending(SessionOf(r), NoPending)
           \/ /\ pending[SessionOf(r)] # NoPending
              /\ SetPending(SessionOf(r),
                            [pending[SessionOf(r)] EXCEPT !.confirmed = TRUE])
    PROVE  GatewayInv'
<1> DEFINE h == handler[r]
           f == [h EXCEPT !.step = "done", !.answer = answer, !.number = 0]
<1>1. PICK s \in Sessions : s = SessionOf(r)
  BY HandlerTyped DEF HandlerOK, SessionOf
<1>2. h \in Handler /\ h.session = s /\ life[s] # "new"
  BY <1>1, HandlerTyped DEF HandlerOK, SessionOf
<1>3. /\ f \in Handler /\ f.step = "done" /\ f.answer = answer
      /\ f.session = s /\ f.call = Nothing
  BY <1>2 DEF Handler, HandlerSteps
<1>4. Handle(r, f)
  BY DEF Respond
<1> HIDE DEF f
<1>5. pending \in [Sessions -> PendingEnquiry \cup {NoPending}]
  BY DEF GatewayInv, GatewayTypeOK
<1>6. /\ pending' \in [Sessions -> PendingEnquiry \cup {NoPending}]
      /\ \A t \in Sessions :
            \/ pending'[t] = NoPending
            \/ /\ pending[t] # NoPending /\ pending'[t].id = pending[t].id
               /\ pending'[t].payload = pending[t].payload
  <2>1. CASE UNCHANGED pending
    BY <1>5, <2>1
  <2>2. CASE SetPending(s, NoPending)
    BY <1>5, <2>2 DEF SetPending
  <2>3. CASE /\ pending[s] # NoPending
             /\ SetPending(s, [pending[s] EXCEPT !.confirmed = TRUE])
    <3> DEFINE p == [pending[s] EXCEPT !.confirmed = TRUE]
    <3>1. p \in PendingEnquiry /\ p.id = pending[s].id /\ p.payload = pending[s].payload
      BY <1>5, <2>3 DEF PendingEnquiry
    <3>2. SetPending(s, p)
      BY <2>3
    <3> HIDE DEF p
    <3> QED BY <1>5, <2>3, <3>1, <3>2 DEF SetPending
  <2> QED BY <1>1, <2>1, <2>2, <2>3
<1>7. MemoryTyped'
  BY <1>6 DEF MemoryTyped, GatewayInv, GatewayTypeOK
<1>8. LockRespected(r)
  BY <1>6 DEF LockRespected
<1>9. HandlerOK(r)'
  BY <1>2, <1>3, <1>4, HandleRecord, DoneOK
<1>10. PendingIsPrepared'
  BY <1>6, PendingFrame DEF OwnersKept
<1>11. \A t \in Sessions : SessionOK(t)'
  BY <1>6, SessionFrame DEF GatewayInv, SessionOK
<1>12. AnswersKept(f)
  BY <1>3 DEF AnswersKept
<1> QED BY <1>3, <1>4, <1>7, <1>8, <1>9, <1>10, <1>11, <1>12, HandlerActs DEF vars

\* A transcript is answered with what the service returned.
LEMMA ObserveAnsweredInv ==
    ASSUME GatewayInv, Inv', TablesKept, NEW r \in Requests,
           ObserveConfirmed(r) \/ ObserveCancelled(r)
    PROVE  GatewayInv'
<1> DEFINE s == SessionOf(r)
<1>1. handler[r].step \in {"confirming", "cancelling"}
  BY DEF ObserveConfirmed, ObserveCancelled, HandlerAt
<1>2. handler[r].call = Nothing
  BY <1>1, HandlerTyped DEF HandlerOK, ToolSteps, Holding
<1>3. {"confirmation_expired", "raised", "confirmation_recorded", "cancelled"}
         \subseteq Answers \ {"success"}
  BY DEF Answers
<1>4. UNCHANGED <<vars, life, owner, completed, sessionLock>>
  BY DEF ObserveConfirmed, ObserveCancelled
<1>5. PICK answer \in {"confirmation_expired", "raised", "confirmation_recorded",
                       "cancelled"} :
         /\ Respond(r, answer, 0)
         /\ \/ UNCHANGED pending
            \/ SetPending(s, NoPending)
            \/ pending[s] # NoPending /\ SetPending(s, [pending[s] EXCEPT !.confirmed = TRUE])
  <2>1. CASE ObserveConfirmed(r)
    BY <2>1 DEF ObserveConfirmed
  <2>2. CASE ObserveCancelled(r)
    BY <2>2 DEF ObserveCancelled
  <2> QED BY <2>1, <2>2
<1> QED BY <1>1, <1>2, <1>3, <1>4, <1>5, ObserveAnswerInv

-----------------------------------------------------------------------------
(* The steps of the sessions.                                               *)

\* A session is opened, by a user who stays its owner, or leaves the store: the
\* handlers that hold it go on.
LEMMA StoreInv ==
    ASSUME GatewayInv, Inv', TablesKept, OwnersKept,
           life' \in [Sessions -> {"new", "open", "ended"}],
           owner' \in [Sessions -> Users \cup {Nothing}],
           \A s \in Sessions : life'[s] # "new" => owner'[s] \in Users,
           \A s \in Sessions : life'[s] = "new" => life[s] = "new",
           UNCHANGED <<request, pending, completed, sessionLock, handler>>
    PROVE  GatewayInv'
<1>1. GatewayTypeOK'
  BY DEF GatewayInv, GatewayTypeOK, Inv
<1>2. ASSUME NEW r \in Requests PROVE HandlerOK(r)'
  <2>1. r # Nothing
    BY ConfirmationsAssumption
  <2>2. LockRespected(Nothing)
    BY DEF LockRespected
  <2> QED BY <2>1, <2>2, OthersFrame
<1>3. ASSUME NEW s \in Sessions PROVE SessionOK(s)'
  <2>1. SessionOK(s)
    BY DEF GatewayInv
  <2> QED BY <2>1 DEF SessionOK
<1>4. PendingIsPrepared'
  BY PendingFrame
<1>5. SuccessIsTheEnquiry'
  <2>1. \A s \in Sessions : life[s] # "new" =>
           \A k, n : Names(s, k, n) => NamesNext(s, k, n)
    BY NamesKept DEF GatewayInv, OwnersKept
  <2>2. ASSUME NEW r \in Requests, handler[r].answer = "success"
        PROVE  NamesNext(handler[r].session, handler[r].call, handler[r].number)
    <3>1. handler[r].session \in Sessions /\ life[handler[r].session] # "new"
      BY <2>2, HandlerTyped DEF HandlerOK
    <3> QED BY <2>1, <2>2, <3>1 DEF GatewayInv, SuccessIsTheEnquiry, SessionOf
  <2>3. ASSUME NEW s \in Sessions, NEW i \in 1 .. Len(completed[s]),
               completed[s][i].answer = "success"
        PROVE  NamesNext(s, completed[s][i].call, completed[s][i].number)
    <3>1. Names(s, completed[s][i].call, completed[s][i].number)
      BY <2>3 DEF GatewayInv, SuccessIsTheEnquiry
    <3>2. life[s] # "new"
      <4>1. SessionOK(s) /\ Len(<<>>) = 0
        BY DEF GatewayInv
      <4> QED BY <4>1 DEF SessionOK
    <3> QED BY <2>1, <3>1, <3>2
  <2> QED BY <2>2, <2>3 DEF SuccessIsTheEnquiry, SessionOf, Names, NamesNext
<1>6. AnswersRemembered'
  BY DEF AnswersRemembered, NothingIsEvicted, Cached, GatewayInv
<1> QED BY <1>1, <1>2, <1>3, <1>4, <1>5, <1>6 DEF GatewayInv

\* Opening and closing a session keep the invariant.
LEMMA OpenCloseInv ==
    ASSUME GatewayInv, Inv', TablesKept, NEW s \in Sessions,
           CloseSession(s) \/ \E u \in Users : OpenSession(s, u)
    PROVE  GatewayInv'
<1>1. /\ life \in [Sessions -> {"new", "open", "ended"}]
      /\ owner \in [Sessions -> Users \cup {Nothing}]
      /\ \A t \in Sessions : life[t] # "new" => owner[t] \in Users
  BY DEF GatewayInv, GatewayTypeOK, SessionOK
<1>2. CASE CloseSession(s)
  BY <1>1, <1>2, StoreInv DEF CloseSession, OwnersKept, vars
<1>3. ASSUME NEW u \in Users, OpenSession(s, u) PROVE GatewayInv'
  BY <1>1, <1>3, StoreInv DEF OpenSession, OwnersKept, vars
<1> QED BY <1>2, <1>3

\* The process dies with every session and handler.
LEMMA CrashInv ==
    ASSUME GatewayInv, Inv', Crash
    PROVE  GatewayInv'
<1> DEFINE dead == [NoHandler EXCEPT !.step = "dead"]
<1>1. /\ NoHandler \in Handler /\ NoHandler.step = "idle"
      /\ NoHandler.answer = "none" /\ NoHandler.call = Nothing
      /\ dead \in Handler /\ dead.step = "dead"
      /\ dead.answer = "none" /\ dead.call = Nothing
  BY DEF NoHandler, Handler, HandlerSteps
<1> HIDE DEF dead
<1>2. \A r \in Requests :
         \/ handler[r] = NoHandler /\ handler'[r] = NoHandler
         \/ handler'[r] = dead
  BY DEF Crash, dead
<1>3. /\ UNCHANGED <<vars, owner>> /\ life \in [Sessions -> {"new", "open", "ended"}]
      /\ life' = [s \in Sessions |-> IF life[s] = "open" THEN "ended" ELSE life[s]]
      /\ pending' = [s \in Sessions |-> NoPending]
      /\ completed' = [s \in Sessions |-> <<>>]
      /\ sessionLock' = [s \in Sessions |-> Nothing]
  BY DEF Crash, GatewayInv, GatewayTypeOK
<1>4. GatewayTypeOK'
  <2>1. handler' \in [Requests -> Handler]
    BY <1>1 DEF Crash, dead
  <2>2. /\ life' \in [Sessions -> {"new", "open", "ended"}]
        /\ pending' \in [Sessions -> PendingEnquiry \cup {NoPending}]
        /\ completed' \in [Sessions -> Seq(Entry)]
        /\ sessionLock' \in [Sessions -> Requests \cup {Nothing}]
    BY <1>3
  <2>3. owner' \in [Sessions -> Users \cup {Nothing}]
    BY <1>3 DEF GatewayInv, GatewayTypeOK
  <2> QED BY <2>1, <2>2, <2>3 DEF GatewayTypeOK, Inv
<1>5. ASSUME NEW r \in Requests PROVE HandlerOK(r)'
  <2>1. handler[r] = NoHandler => request[r].step = "idle"
    BY <1>1, HandlerTyped DEF HandlerOK
  <2> QED BY <1>1, <1>2, <1>3, <2>1 DEF HandlerOK, ToolSteps, Holding, vars
<1>6. ASSUME NEW s \in Sessions PROVE SessionOK(s)'
  <2>1. life[s] # "new" => owner[s] \in Users
    BY DEF GatewayInv, SessionOK
  <2>2. Len(<<>>) = 0
    OBVIOUS
  <2> QED BY <1>3, <2>1, <2>2 DEF SessionOK
<1>7. PendingIsPrepared'
  BY <1>3 DEF PendingIsPrepared
<1>8. SuccessIsTheEnquiry'
  <2>1. Len(<<>>) = 0
    OBVIOUS
  <2> QED BY <1>1, <1>2, <1>3, <2>1 DEF SuccessIsTheEnquiry
<1>9. AnswersRemembered'
  BY <1>1, <1>2 DEF AnswersRemembered
<1> QED BY <1>4, <1>5, <1>6, <1>7, <1>8, <1>9 DEF GatewayInv

-----------------------------------------------------------------------------
(* The invariant.                                                           *)

\* The invariant holds at the start.
LEMMA GatewayInitInv ==
    ASSUME GatewayInit
    PROVE  GatewayInv
<1> USE DEF GatewayInit
<1>1. Inv
  BY InitInv
<1>2. /\ NoHandler \in Handler /\ NoHandler.step = "idle"
      /\ NoHandler.answer = "none" /\ NoHandler.call = Nothing
      /\ NoRequest.step = "idle" /\ Len(<<>>) = 0
  BY DEF NoHandler, Handler, HandlerSteps, NoRequest
<1>3. GatewayTypeOK
  BY <1>1, <1>2 DEF GatewayTypeOK, Inv
<1>4. ASSUME NEW r \in Requests PROVE HandlerOK(r)
  BY <1>2 DEF HandlerOK, ToolSteps, Holding, Init
<1>5. ASSUME NEW s \in Sessions PROVE SessionOK(s)
  BY <1>2 DEF SessionOK
<1>6. PendingIsPrepared /\ SuccessIsTheEnquiry /\ AnswersRemembered
  BY <1>2 DEF PendingIsPrepared, SuccessIsTheEnquiry, AnswersRemembered
<1> QED BY <1>1, <1>3, <1>4, <1>5, <1>6 DEF GatewayInv

\* Whatever the gateway does, the invariant stays.
LEMMA GatewayStepInv ==
    ASSUME GatewayInv, [GatewayNext]_allVars
    PROVE  GatewayInv'
<1>1. UNCHANGED vars \/ Next
  BY StepUses
<1>2. Inv'
  BY <1>1, NextInv DEF GatewayInv
<1>3. TablesKept
  BY <1>1, StepKeepsTables DEF GatewayInv
<1> USE <1>2, <1>3
<1>4. CASE UNCHANGED gatewayVars /\ UNCHANGED request
  <2>1. OwnersKept
    BY <1>4 DEF OwnersKept, gatewayVars, memory
  <2> QED BY <1>4, <2>1, StoreInv
          DEF GatewayInv, GatewayTypeOK, SessionOK, gatewayVars, memory
<1>5. ASSUME NEW r \in Requests, GatewayArrive(r)
      PROVE  GatewayInv'
  BY <1>5, ToolArriveInv, ObserveArriveInv DEF GatewayArrive
<1>6. ASSUME NEW r \in Requests, GatewayAdvance(r)
      PROVE  GatewayInv'
  <2>1. CASE ToolCached(r) \/ ToolUnknown(r) \/ ToolOther(r) \/ ToolEnquiry(r)
             \/ ToolCompare(r) \/ ToolDecide(r)
    BY <2>1, ToolCachedInv, ToolOtherInv, ToolEnquiryInv, ToolCompareInv, ToolDecideInv
  <2>2. CASE ToolPrepare(r) \/ ToolNotPrepared(r) \/ ToolProposed(r)
             \/ ToolConsume(r) \/ ToolConsumed(r)
    BY <2>2, ToolPrepareInv, ToolNotPreparedInv, ToolProposedInv, ToolConsumeInv,
       ToolConsumedInv
  <2>3. CASE ObserveRead(r) \/ ObserveConfirm(r) \/ ObserveConfirmed(r)
             \/ ObserveCancel(r) \/ ObserveCancelled(r)
    BY <2>3, ObserveReadInv, ObserveServiceInv, ObserveAnsweredInv
  <2>4. CASE Service(r) \/ Answer(r) \/ Disconnect(r)
    BY <2>4, ServiceInv, EndHandlerInv
  <2> QED BY <1>6, <2>1, <2>2, <2>3, <2>4 DEF GatewayAdvance
<1>7. ASSUME NEW r \in Requests, Fault(r)
      PROVE  GatewayInv'
  BY <1>7, FaultInv
<1> QED BY <1>4, <1>5, <1>6, <1>7, OpenCloseInv, CrashInv
        DEF GatewayNext, allVars, vars, Tick

\* The invariant holds in every state the gateway reaches.
THEOREM GatewayInvariance == GatewaySpec => []GatewayInv
<1>1. GatewayInit => GatewayInv
  BY GatewayInitInv
<1>2. GatewayInv /\ [GatewayNext]_allVars => GatewayInv'
  BY GatewayStepInv
<1> QED BY <1>1, <1>2, PTL DEF GatewaySpec

\* Every variable of the gateway, and those of the service under it, keep to
\* their types.
THEOREM GatewayTypeCorrect == GatewaySpec => []GatewayTypeOK
<1>1. GatewayInv => GatewayTypeOK
  BY DEF GatewayInv
<1> QED BY <1>1, GatewayInvariance, PTL

\* What a session holds as its pending enquiry is a confirmation the database
\* holds for this session, its owner and these details, although transcripts
\* clear and confirm it while a tool call is between reading and writing it.
THEOREM PendingAlwaysPrepared == GatewaySpec => []PendingIsPrepared
<1>1. GatewayInv => PendingIsPrepared
  BY DEF GatewayInv
<1> QED BY <1>1, GatewayInvariance, PTL

\* create_enquiry answers "success" only with the number of an enquiry of the
\* session's owner, for the details of the call, confirmed in this session; and
\* so do the remembered answers of later retries.
THEOREM SuccessAlwaysTheEnquiry == GatewaySpec => []SuccessIsTheEnquiry
<1>1. GatewayInv => SuccessIsTheEnquiry
  BY DEF GatewayInv
<1> QED BY <1>1, GatewayInvariance, PTL

\* Two deliveries of one call are answered alike while nothing has been evicted
\* from completed_calls, even when the second arrives while the first is running.
THEOREM RetriesAlwaysAgree == GatewaySpec => []RetriesAgree
<1>1. ASSUME GatewayInv, NothingIsEvicted, NEW q \in Requests, NEW r \in Requests,
             handler[q].call = handler[r].call, handler[r].call # Nothing,
             handler[q].session = handler[r].session,
             handler[q].answer \notin {"none", "raised"},
             handler[r].answer \notin {"none", "raised"}
      PROVE  handler[q].answer = handler[r].answer /\ handler[q].number = handler[r].number
  <2> DEFINE s == handler[r].session
             k == handler[r].call
  <2>1. PICK i \in Cached(s, k) :
           /\ completed[s][i].answer = handler[q].answer
           /\ completed[s][i].number = handler[q].number
    BY <1>1 DEF GatewayInv, AnswersRemembered
  <2>2. PICK j \in Cached(s, k) :
           /\ completed[s][j].answer = handler[r].answer
           /\ completed[s][j].number = handler[r].number
    BY <1>1 DEF GatewayInv, AnswersRemembered
  <2>3. s \in Sessions
    BY <1>1, HandlerTyped DEF HandlerOK
  <2>4. i = j
    BY <1>1, <2>1, <2>2, <2>3 DEF GatewayInv, SessionOK, Cached
  <2> QED BY <2>1, <2>2, <2>4
<1>2. GatewayInv => RetriesAgree
  BY <1>1 DEF RetriesAgree
<1> QED BY <1>2, GatewayInvariance, PTL

\* Every step the gateway takes is a step the functions of the confirmation
\* service allow, with arguments of the right kind, or leaves the service alone.
THEOREM GatewayUsesTheService == GatewaySpec => UsesTheService
<1>1. GatewayInit => Init
  BY DEF GatewayInit
<1>2. GatewayInv /\ [GatewayNext]_allVars => [UNCHANGED vars \/ Next]_vars
  BY StepUses
<1> QED BY <1>1, <1>2, GatewayInvariance, PTL DEF GatewaySpec, UsesTheService

\* The gateway therefore behaves as the specification of the service says.
THEOREM GatewayIsAClient == GatewaySpec => Spec
<1>1. [UNCHANGED vars \/ Next]_vars => [Next]_vars
  OBVIOUS
<1> QED BY <1>1, GatewayUsesTheService, PTL DEF UsesTheService, Spec

\* What is proved of the service holds behind the gateway: nothing is written
\* that its buyer did not approve, and every write is in the audit trail.
THEOREM GatewayWritesAreApproved ==
    GatewaySpec => ImplementsLedger /\ []EnquiryWasConfirmed /\ []AuditTrailMatches
  BY GatewayIsAClient, Implements, OnlyConfirmedIsCreated, AuditTrailComplete, PTL


-----------------------------------------------------------------------------
(* Who holds the lock of a session, and why nobody waits for it in vain.    *)

\* The lock of a session is with a tool call of this session that is between
\* entering and leaving it; a call that is still to enter has no transaction.
SessionLocksOK ==
    /\ \A s \in Sessions, r \in Requests :
          sessionLock[s] = r => handler[r].step \in Holding /\ handler[r].session = s
    /\ \A r \in Requests : HandlerAt(r, "lock") => request[r].step = "idle"

\* What handler r, which becomes f, may do to the locks of sessions: stay with the
\* one it has or has not, give it up, or take that of its session.
LocksMove(r, f) ==
    LET h == handler[r] IN
    \/ /\ UNCHANGED sessionLock
       /\ h.step \notin Holding \/ (f.step \in Holding /\ f.session = h.session)
    \/ Release(h.session, r)
    \/ /\ Acquire(h.session, r) /\ sessionLock[h.session] = Nothing
       /\ f.step \in Holding /\ f.session = h.session

\* A step of a handler leaves the locks of sessions in the right hands.
LEMMA SessionLocksStep ==
    ASSUME GatewayInv, SessionLocksOK, NEW r \in Requests, NEW f, Handle(r, f),
           \A q \in Requests \ {r} : request'[q] = request[q],
           LocksMove(r, f),
           f.step = "lock" => request'[r].step = "idle"
    PROVE  SessionLocksOK'
<1>1. handler'[r] = f /\ \A q \in Requests \ {r} : handler'[q] = handler[q]
  BY HandlerTyped DEF Handle
<1>2. sessionLock \in [Sessions -> Requests \cup {Nothing}]
  BY DEF GatewayInv, GatewayTypeOK
<1>3. Nothing \notin Requests
  BY ConfirmationsAssumption
<1>4. ASSUME NEW s \in Sessions, NEW q \in Requests, sessionLock'[s] = q, q # r
      PROVE  handler'[q].step \in Holding /\ handler'[q].session = s
  <2>1. sessionLock[s] = q
    BY <1>2, <1>3, <1>4 DEF LocksMove, Release, Acquire
  <2> QED BY <1>1, <1>4, <2>1 DEF SessionLocksOK
<1>5. ASSUME NEW s \in Sessions, sessionLock'[s] = r
      PROVE  f.step \in Holding /\ f.session = s
  <2>1. CASE UNCHANGED sessionLock
                /\ (handler[r].step \notin Holding
                       \/ (f.step \in Holding /\ f.session = handler[r].session))
    BY <1>5, <2>1 DEF SessionLocksOK
  <2>2. CASE Release(handler[r].session, r)
    BY <1>2, <1>3, <1>5, <2>2 DEF SessionLocksOK, Release
  <2>3. CASE /\ Acquire(handler[r].session, r)
             /\ f.step \in Holding /\ f.session = handler[r].session
    <3>1. s = handler[r].session \/ sessionLock[s] = r
      BY <1>2, <1>5, <2>3 DEF Acquire
    <3> QED BY <2>3, <3>1 DEF SessionLocksOK
  <2> QED BY <2>1, <2>2, <2>3 DEF LocksMove
<1>6. ASSUME NEW q \in Requests, handler'[q].step = "lock"
      PROVE  request'[q].step = "idle"
  <2>1. CASE q = r
    BY <1>1, <1>6, <2>1
  <2>2. CASE q # r
    <3>1. HandlerAt(q, "lock") /\ request'[q] = request[q]
      BY <1>1, <1>6, <2>2 DEF HandlerAt
    <3> QED BY <3>1 DEF SessionLocksOK
  <2> QED BY <2>1, <2>2
<1> QED BY <1>1, <1>4, <1>5, <1>6 DEF SessionLocksOK, HandlerAt

\* What the answer of a handler, or its next step, is made of.
LEMMA Fields ==
    ASSUME GatewayInv, NEW r \in Requests
    PROVE  /\ \A answer, n :
                 [handler[r] EXCEPT !.step = "done", !.answer = answer,
                                    !.number = n].step = "done"
           /\ \A step :
                 /\ [handler[r] EXCEPT !.step = step].step = step
                 /\ [handler[r] EXCEPT !.step = step].session = handler[r].session
           /\ \A step, id :
                 /\ [handler[r] EXCEPT !.step = step, !.id = id].step = step
                 /\ [handler[r] EXCEPT !.step = step, !.id = id].session
                       = handler[r].session
<1>1. handler[r] \in Handler
  BY HandlerTyped
<1> QED BY <1>1 DEF Handler

\* A handler that responds, without its session's lock or giving it up.
LEMMA RespondLocks ==
    ASSUME GatewayInv, SessionLocksOK, NEW r \in Requests,
           NEW answer, NEW n, Respond(r, answer, n),
           \A q \in Requests \ {r} : request'[q] = request[q],
           \/ UNCHANGED sessionLock /\ handler[r].step \notin Holding
           \/ Release(SessionOf(r), r)
    PROVE  SessionLocksOK'
<1> DEFINE f == [handler[r] EXCEPT !.step = "done", !.answer = answer,
                                   !.number = n]
<1>1. f.step = "done"
  BY Fields
<1>2. Handle(r, f)
  BY DEF Respond
<1> HIDE DEF f
<1>3. LocksMove(r, f)
  BY DEF LocksMove, SessionOf
<1> QED BY <1>1, <1>2, <1>3, SessionLocksStep

\* A handler that goes on to a step other than "lock", inside the lock or outside.
LEMMA AwaitLocks ==
    ASSUME GatewayInv, SessionLocksOK, NEW r \in Requests, NEW step, NEW f,
           Handle(r, f), f.step = step, f.session = handler[r].session,
           step # "lock",
           \A q \in Requests \ {r} : request'[q] = request[q],
           UNCHANGED sessionLock,
           handler[r].step \notin Holding \/ step \in Holding
    PROVE  SessionLocksOK'
<1>1. LocksMove(r, f)
  BY DEF LocksMove
<1> QED BY <1>1, SessionLocksStep

\* The steps of a tool call.
LEMMA ToolLocks ==
    ASSUME GatewayInv, SessionLocksOK, NEW r \in Requests,
           \/ ToolCached(r) \/ ToolUnknown(r) \/ ToolOther(r) \/ ToolEnquiry(r)
           \/ ToolCompare(r) \/ ToolDecide(r) \/ ToolPrepare(r)
           \/ ToolNotPrepared(r) \/ ToolProposed(r) \/ ToolConsume(r)
           \/ ToolConsumed(r)
    PROVE  SessionLocksOK'
<1> DEFINE h == handler[r]
<1>1. CASE ToolCached(r) \/ ToolUnknown(r) \/ ToolOther(r)
  <2>1. PICK answer, n : Respond(r, answer, n)
    BY <1>1 DEF ToolCached, ToolUnknown, ToolOther
  <2>2. /\ UNCHANGED <<request, sessionLock>> /\ h.step = "lock"
    BY <1>1 DEF ToolCached, ToolUnknown, ToolOther, vars, memory, HandlerAt
  <2>3. h.step \notin Holding
    BY <2>2 DEF Holding
  <2> QED BY <2>1, <2>2, <2>3, RespondLocks
<1>2. CASE ToolEnquiry(r)
  <2> DEFINE f == [h EXCEPT !.step = "compare"]
  <2>1. f.step = "compare" /\ f.session = h.session
    BY Fields
  <2>2. /\ Handle(r, f) /\ UNCHANGED request
        /\ Acquire(h.session, r) /\ sessionLock[h.session] = Nothing
    BY <1>2 DEF ToolEnquiry, Await, Free, SessionOf, vars
  <2> HIDE DEF f
  <2>3. LocksMove(r, f)
    BY <2>1, <2>2 DEF LocksMove, Holding
  <2> QED BY <2>1, <2>2, <2>3, SessionLocksStep
<1>3. ASSUME NEW step \in Holding, Await(r, step), UNCHANGED sessionLock,
             \A q \in Requests \ {r} : request'[q] = request[q]
      PROVE  SessionLocksOK'
  <2> DEFINE f == [h EXCEPT !.step = step]
  <2>1. f.step = step /\ f.session = h.session
    BY Fields
  <2>2. Handle(r, f) /\ step # "lock"
    BY <1>3 DEF Await, Holding
  <2> HIDE DEF f
  <2> QED BY <1>3, <2>1, <2>2, AwaitLocks
<1>4. CASE ToolCompare(r)
  <2>1. PICK step \in {"decide", "prepare"} : Await(r, step)
    BY <1>4 DEF ToolCompare
  <2>2. step \in Holding /\ UNCHANGED <<request, sessionLock>>
    BY <1>4, <2>1 DEF ToolCompare, Holding, vars, memory
  <2> QED BY <1>3, <2>1, <2>2
<1>5. CASE ToolPrepare(r) \/ ToolConsume(r)
  <2>1. PICK step \in {"proposing", "consuming"} : Await(r, step)
    BY <1>5 DEF ToolPrepare, ToolConsume
  <2>2. step \in Holding /\ UNCHANGED sessionLock
    BY <1>5, <2>1 DEF ToolPrepare, ToolConsume, Holding, memory
  <2>3. PICK g : Become(r, g)
    BY <1>5 DEF ToolPrepare, ToolConsume, PrepareReuse, PrepareMiss, ConsumeBegin,
                Begin
  <2> QED BY <1>3, <2>1, <2>2, <2>3, OthersRequests
<1>6. CASE /\ ToolNotPrepared(r) \/ ToolProposed(r) \/ ToolConsumed(r) \/ ToolDecide(r)
           /\ \E answer, n : Respond(r, answer, n) /\ Release(SessionOf(r), r)
  <2>1. UNCHANGED request
    BY <1>6 DEF ToolNotPrepared, ToolProposed, ToolConsumed, ToolDecide, vars
  <2>2. PICK answer, n : Respond(r, answer, n) /\ Release(SessionOf(r), r)
    BY <1>6
  <2> QED BY <2>1, <2>2, RespondLocks
<1>7. CASE ToolNotPrepared(r) \/ ToolProposed(r) \/ ToolConsumed(r)
  BY <1>6, <1>7 DEF ToolNotPrepared, ToolProposed, ToolConsumed, Settle, Raise
<1>8. CASE ToolDecide(r)
  <2> DEFINE f == [h EXCEPT !.step = "consume", !.id = pending[SessionOf(r)].id]
  <2>1. f.step = "consume" /\ f.session = h.session
    BY Fields
  <2>2. CASE Handle(r, f) /\ UNCHANGED sessionLock
    <3>1. UNCHANGED request
      BY <1>8 DEF ToolDecide, vars
    <3> HIDE DEF f
    <3> QED BY <2>1, <2>2, <3>1, AwaitLocks DEF Holding
  <2> HIDE DEF f
  <2> QED BY <1>6, <1>8, <2>2 DEF f, ToolDecide, Settle, Raise
<1> QED BY <1>1, <1>2, <1>4, <1>5, <1>7, <1>8

\* The steps of a transcript, which takes no lock.
LEMMA ObserveLocks ==
    ASSUME GatewayInv, SessionLocksOK, NEW r \in Requests,
           \/ ObserveRead(r) \/ ObserveConfirm(r) \/ ObserveConfirmed(r)
           \/ ObserveCancel(r) \/ ObserveCancelled(r)
    PROVE  SessionLocksOK'
<1> DEFINE h == handler[r]
<1>1. h.step \notin Holding /\ UNCHANGED sessionLock
  BY DEF ObserveRead, ObserveConfirm, ObserveConfirmed, ObserveCancel,
         ObserveCancelled, HandlerAt, Holding, memory
<1>2. \A q \in Requests \ {r} : request'[q] = request[q]
  <2>1. CASE ObserveRead(r) \/ ObserveConfirmed(r) \/ ObserveCancelled(r)
    BY <2>1 DEF ObserveRead, ObserveConfirmed, ObserveCancelled, vars
  <2>2. CASE ObserveConfirm(r) \/ ObserveCancel(r)
    <3>1. PICK g : Become(r, g)
      BY <2>2 DEF ObserveConfirm, ObserveCancel, ConfirmRead, CancelRead, Begin
    <3> QED BY <3>1, OthersRequests
  <2> QED BY <2>1, <2>2
<1>3. CASE \E answer, n : Respond(r, answer, n)
  <2>1. PICK answer, n : Respond(r, answer, n)
    BY <1>3
  <2> QED BY <1>1, <1>2, <2>1, RespondLocks
<1>4. CASE ObserveConfirm(r) \/ ObserveCancel(r)
  <2>1. PICK step \in {"confirming", "cancelling"} : Await(r, step)
    BY <1>4 DEF ObserveConfirm, ObserveCancel
  <2> DEFINE f == [h EXCEPT !.step = step]
  <2>2. f.step = step /\ f.session = h.session
    BY Fields
  <2>3. Handle(r, f)
    BY <2>1 DEF Await
  <2> HIDE DEF f
  <2> QED BY <1>1, <1>2, <2>2, <2>3, AwaitLocks
<1>5. CASE ObserveRead(r) /\ ~\E answer, n : Respond(r, answer, n)
  <2>1. PICK step \in {"confirm", "cancel"}, id \in {pending[SessionOf(r)].id} :
           Handle(r, [h EXCEPT !.step = step, !.id = id])
    <3>1. Handle(r, [h EXCEPT !.step = IF @ = "hear_confirm" THEN "confirm"
                                                              ELSE "cancel",
                              !.id = pending[SessionOf(r)].id])
      BY <1>5 DEF ObserveRead
    <3>2. CASE h.step = "hear_confirm"
      BY <3>1, <3>2
    <3>3. CASE h.step # "hear_confirm"
      BY <3>1, <3>3
    <3> QED BY <3>2, <3>3
  <2> DEFINE f == [h EXCEPT !.step = step, !.id = id]
  <2>2. f.step = step /\ f.session = h.session
    BY Fields
  <2>3. Handle(r, f)
    BY <2>1
  <2> HIDE DEF f
  <2> QED BY <1>1, <1>2, <2>2, <2>3, AwaitLocks
<1> QED BY <1>3, <1>4, <1>5 DEF ObserveConfirmed, ObserveCancelled

\* The steps that begin and end a handler, and the fault of the database.
LEMMA EndLocks ==
    ASSUME GatewayInv, SessionLocksOK, NEW r \in Requests,
           GatewayArrive(r) \/ Answer(r) \/ Disconnect(r) \/ Fault(r)
    PROVE  SessionLocksOK'
<1>0. NoHandler.step = "idle" /\ NoRequest.step = "idle"
  BY DEF NoHandler, NoRequest
<1>1. ASSUME NEW f, Handle(r, f), handler[r].step \in {"idle", "done", "dead"},
             UNCHANGED sessionLock,
             \A q \in Requests \ {r} : request'[q] = request[q],
             f.step = "lock" => request'[r].step = "idle"
      PROVE  SessionLocksOK'
  <2>1. LocksMove(r, f)
    BY <1>1 DEF LocksMove, Holding
  <2> QED BY <1>1, <2>1, SessionLocksStep
<1>2. CASE GatewayArrive(r)
  <2>1. /\ handler[r].step = "idle" /\ request[r].step = "idle"
        /\ UNCHANGED <<request, sessionLock>>
    BY <1>0, <1>2 DEF GatewayArrive, ToolArrive, ObserveArrive, vars, memory
  <2>2. PICK f : Handle(r, f)
    BY <1>2 DEF GatewayArrive, ToolArrive, ObserveArrive
  <2> QED BY <1>1, <2>1, <2>2
<1>3. CASE Answer(r) \/ Disconnect(r)
  <2>1. Handle(r, NoHandler) /\ handler[r].step \in {"done", "dead"}
        /\ UNCHANGED sessionLock
    BY <1>3 DEF Answer, Disconnect, HandlerAt, memory
  <2>2. \A q \in Requests \ {r} : request'[q] = request[q]
    <3>1. CASE UNCHANGED vars
      BY <3>1 DEF vars
    <3>2. CASE Return(r) \/ Abort(r)
      BY <3>2, OthersRequests DEF Return, Abort
    <3> QED BY <1>3, <3>1, <3>2 DEF Answer, Disconnect
  <2> QED BY <1>0, <1>1, <2>1, <2>2
<1>4. CASE Fault(r)
  <2>1. \A q \in Requests \ {r} : request'[q] = request[q]
    BY <1>4, OthersRequests DEF Fault, Abort, Return
  <2>2. Respond(r, "raised", 0) /\ Release(SessionOf(r), r)
    BY <1>4 DEF Fault, Raise
  <2> QED BY <2>1, <2>2, RespondLocks
<1> QED BY <1>2, <1>3, <1>4

\* A step of the service is one of a handler that has called it.
LEMMA ServiceLocks ==
    ASSUME GatewayInv, SessionLocksOK, NEW r \in Requests, Service(r)
    PROVE  SessionLocksOK'
<1>1. UNCHANGED <<handler, sessionLock>>
  BY DEF Service, gatewayVars, memory
<1>2. request[r].step # "idle"
  BY DEF Service, PrepareInsert, ConfirmCheck, ConfirmExpire, ConfirmWrite,
         CancelWrite, ConsumeLock, ConsumeExamine, ConsumeExpire, ConsumeNumber,
         ConsumeCommit, ConsumeRollback, ConsumeLookup
<1>3. \A q \in Requests \ {r} : request'[q] = request[q]
  <2>1. PICK g : Become(r, g)
    BY DEF Service, PrepareInsert, ConfirmCheck, ConfirmExpire, ConfirmWrite,
           CancelWrite, ConsumeLock, ConsumeExamine, ConsumeExpire, ConsumeNumber,
           ConsumeCommit, ConsumeRollback, ConsumeLookup, Replay, FinishWith,
           Finish, Goto
  <2> QED BY <2>1, OthersRequests
<1>4. \A q \in Requests : HandlerAt(q, "lock") => q # r /\ request[q].step = "idle"
  BY <1>2 DEF SessionLocksOK
<1> QED BY <1>1, <1>3, <1>4 DEF SessionLocksOK, HandlerAt

\* In every state of the gateway the locks of sessions are in the right hands.
LEMMA SessionLocks == GatewaySpec => []SessionLocksOK
<1>1. GatewayInit => SessionLocksOK
  BY ConfirmationsAssumption
     DEF GatewayInit, Init, SessionLocksOK, HandlerAt, NoHandler
<1>2. GatewayInv /\ SessionLocksOK /\ [GatewayNext]_allVars => SessionLocksOK'
  <2> SUFFICES ASSUME GatewayInv, SessionLocksOK, [GatewayNext]_allVars
               PROVE  SessionLocksOK'
    OBVIOUS
  <2>1. CASE UNCHANGED <<request, handler, sessionLock>>
    BY <2>1 DEF SessionLocksOK, HandlerAt
  <2>2. ASSUME NEW r \in Requests, GatewayAdvance(r)
        PROVE  SessionLocksOK'
    BY <2>2, ToolLocks, ObserveLocks, EndLocks, ServiceLocks DEF GatewayAdvance
  <2>3. ASSUME NEW r \in Requests, GatewayArrive(r) \/ Fault(r)
        PROVE  SessionLocksOK'
    BY <2>3, EndLocks
  <2>4. CASE Crash
    <3>1. \A s \in Sessions : sessionLock'[s] = Nothing
      BY <2>4 DEF Crash
    <3>2. \A r \in Requests : ~HandlerAt(r, "lock")'
      BY <2>4 DEF Crash, HandlerAt, NoHandler
    <3> QED BY <3>1, <3>2, ConfirmationsAssumption DEF SessionLocksOK
  <2> QED BY <2>1, <2>2, <2>3, <2>4
          DEF GatewayNext, CloseSession, OpenSession, Tick, allVars, gatewayVars,
              memory, vars
<1> QED BY <1>1, <1>2, GatewayInvariance, PTL DEF GatewaySpec

\* The locks of sessions, rows and counters close no cycle: openai_realtime.py
\* enters the session's lock before it calls the service and never from inside
\* it, and every answer and every exception leaves it.
THEOREM GatewayNeverDeadlocks == GatewaySpec => []NoHandlerDeadlock
<1>1. GatewayInv /\ SessionLocksOK /\ LockHoldersOK => NoHandlerDeadlock
  <2> SUFFICES ASSUME GatewayInv, SessionLocksOK, LockHoldersOK
               PROVE  NoHandlerDeadlock
    OBVIOUS
  <2>1. NoCircularWait
    BY HoldersWaitInOrder DEF GatewayInv
  <2> SUFFICES ASSUME NEW r \in Requests, NEW q \in Requests, WaitsForSession(r, q)
               PROVE  /\ handler[q].step \notin {"idle", "lock", "done", "dead"}
                      /\ \A p \in Requests : ~WaitsForSession(p, r) /\ ~WaitsFor(p, r)
    BY <2>1 DEF NoHandlerDeadlock
  <2>2. handler[r].step = "lock" /\ request[r].step = "idle" /\ SessionOf(r) \in Sessions
    BY HandlerTyped DEF WaitsForSession, HandlerAt, SessionLocksOK, HandlerOK, SessionOf
  <2>3. handler[q].step \in Holding
    BY <2>2 DEF WaitsForSession, SessionLocksOK
  <2>4. ASSUME NEW p \in Requests
        PROVE  ~WaitsForSession(p, r) /\ ~WaitsFor(p, r)
    <3>1. ~WaitsForSession(p, r)
      <4>1. handler[p].step = "lock" => SessionOf(p) \in Sessions
        BY HandlerTyped DEF HandlerOK, SessionOf
      <4> QED BY <2>2, <4>1 DEF WaitsForSession, HandlerAt, SessionLocksOK, Holding
    <3>2. ~WaitsFor(p, r)
      BY <2>1, <2>2 DEF NoCircularWait
    <3> QED BY <3>1, <3>2
  <2> QED BY <2>3, <2>4 DEF Holding
<1>2. GatewaySpec => []LockHoldersOK
  BY GatewayIsAClient, LockHolders, PTL
<1> QED BY <1>1, <1>2, GatewayInvariance, SessionLocks, PTL
===============================================================================
