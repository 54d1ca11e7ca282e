---------------------------- MODULE DialogueProofs ----------------------------
(***************************************************************************)
(* Theorems about Dialogue, for every set of utterances and vocabulary,     *)
(* every number of sockets, sessions and confirmations and both databases.  *)
(* Of the language understanding they need only that the drafts it extracts *)
(* are payloads (DialogueAssumption).                                       *)
(***************************************************************************)
EXTENDS Dialogue, ConfirmationsLedgerProofs

-----------------------------------------------------------------------------
(* The inductive invariant behind the safety properties.                    *)

HoldsNoLock(r) ==
    /\ \A c \in ConfirmationIds : rowLock[c] # r
    /\ \A w \in Workspaces : counterLock[w] # r

\* A transaction has locks only between the statement that takes the first and
\* its commit: in a conversation no function returns in between.
LocksFollow ==
    \A r \in Requests :
        request[r].step \notin {"consume_examine", "consume_expire",
                                "consume_number", "consume_commit"} =>
            HoldsNoLock(r)

\* Row c is a proposal of socket q, with details p.
ProposalOf(q, c, p, status) ==
    LET row == confirmations[c] IN
    /\ c \in ConfirmationIds /\ row # NoRow
    /\ row.user = q.user /\ row.session = q.session /\ row.payload = p
    /\ row.status = status

\* What is pending in q is its proposal, and was read back last.
PendingOf(q, status) ==
    /\ q.pending \in Payloads
    /\ ProposalOf(q, q.id, q.pending, status)
    /\ readBack[q.session] = q.pending

\* What the answer "created" is about.
EnquiryOf(t) ==
    \E e \in EnquiriesOf(t.id) :
        e.number = t.number /\ e.payload = t.payload /\ e.buyer = t.user

Open(q) == q.step \notin {"closed", "dead"}

\* What request t of the service is doing for socket q, and with what.
Serving(q, t) ==
    /\ q.step \in {"listening", "tool", "replying"} => t = NoRequest
    /\ q.step \in {"preparing", "confirming", "cancelling", "creating"} =>
          t.user = q.user
    /\ q.step \in {"confirming", "cancelling", "creating"} => t.id = q.id
    /\ q.step \in {"listening", "replying", "preparing"} =>
          \/ q.pending = Nothing /\ q.id = Nothing
          \/ PendingOf(q, "pending")
    /\ q.step = "preparing" =>
          \/ t.step = "prepare_insert" /\ t.session = q.session
          \/ t.step = "done" /\ ProposalOf(q, t.id, t.payload, "pending")
    /\ q.step = "confirming" =>
          \/ /\ t.step \in {"confirm_check", "confirm_expire", "confirm_write"}
             /\ PendingOf(q, "pending")
          \/ /\ t.step = "done" /\ t.result = "confirmed"
             /\ PendingOf(q, "confirmed")
          \/ /\ t.step = "done" /\ t.result = "not_confirmed"
             /\ PendingOf(q, "expired")
    /\ q.step = "cancelling" =>
          \/ t.step = "cancel_write" /\ PendingOf(q, "pending")
          \/ t.step = "done" /\ PendingOf(q, "cancelled")
    /\ q.step = "tool" => PendingOf(q, "confirmed")
    /\ q.step = "creating" =>
          /\ t.payload = q.pending
          /\ \/ /\ t.step \in {"consume_lock", "consume_examine",
                               "consume_expire", "consume_number",
                               "consume_commit"}
                /\ t.step = "consume_examine" => t.seen = "confirmed"
                /\ PendingOf(q, "confirmed")
             \/ /\ t.step = "done" /\ t.result = "confirmation_expired"
                /\ PendingOf(q, "expired")
             \/ /\ t.step = "done" /\ t.result = "created"
                /\ PendingOf(q, "consumed") /\ EnquiryOf(t)

SocketOK(r) ==
    LET q == socket[r] IN
    /\ ~Open(q) => q \in {NoSocket, [NoSocket EXCEPT !.step = "dead"]}
    /\ q.step = "closed" \/ request[r].step = "idle" => request[r] = NoRequest
    /\ Open(q) => /\ q.user \in Users /\ q.session \in opened
                  /\ Serving(q, request[r])
    /\ q.slots # Nothing =>
          \E text \in Utterances :
             Partial(Extraction[text]) /\ q.slots = Draft(Extraction[text])

\* A voice session has one socket, and so a proposal has.
SocketsApart ==
    \A q, r \in Requests :
        /\ Open(socket[q]) /\ Open(socket[r])
        /\ socket[q].session = socket[r].session
        => q = r

\* The statuses at which a row does not change any more: one that yielded an
\* enquiry, and one of which the caller was told that it will yield none.
FinalRows ==
    /\ \A c \in ConfirmationIds :
          EnquiriesOf(c) # {} => confirmations[c].status = "consumed"
    /\ \A c \in told.cancelled : confirmations[c].status = "cancelled"

\* The inductive strengthening of the properties above: a proposal is touched by
\* the one socket of its session only, whose state says where the row stands.
DialogueInv ==
    /\ Inv
    /\ DialogueTypeOK
    /\ told \in [created : SUBSET [id : ConfirmationIds, number : Nat,
                                   payload : Payloads, user : Users],
                 cancelled : SUBSET ConfirmationIds]
    /\ \A r \in Requests : SocketOK(r)
    /\ SocketsApart
    /\ LocksFollow
    /\ FinalRows
    /\ \A t \in told.created : EnquiryOf(t)

-----------------------------------------------------------------------------

Told ==
    [created : SUBSET [id : ConfirmationIds, number : Nat,
                       payload : Payloads, user : Users],
     cancelled : SUBSET ConfirmationIds]

LockSteps ==
    {"consume_examine", "consume_expire", "consume_number", "consume_commit"}

\* What a step for socket r does to a row: nothing, insert it, or change it
\* while it is not final, if it is a proposal of the socket's session.
RowsMove(r) ==
    \A c \in ConfirmationIds :
        \/ confirmations'[c] = confirmations[c]
        \/ confirmations[c] = NoRow
        \/ /\ Open(socket[r]) /\ confirmations[c].session = socket[r].session
           /\ confirmations[c].status \notin {"consumed", "cancelled"}

\* What it does to the locks: take them for its request, or release those.
LocksMove(r) ==
    /\ \A c \in ConfirmationIds : rowLock'[c] \in {rowLock[c], Nothing, r}
    /\ \A w \in Workspaces : counterLock'[w] \in {counterLock[w], Nothing, r}
    /\ request'[r].step \notin LockSteps =>
          /\ \A c \in ConfirmationIds : rowLock'[c] # r
          /\ \A w \in Workspaces : counterLock'[w] # r

\* What a step for socket r does to the other sockets, and to the state that they
\* share.
StepFor(r) ==
    /\ \A q \in Requests \ {r} : socket'[q] = socket[q] /\ request'[q] = request[q]
    /\ RowsMove(r)
    /\ \A e \in enquiries' \ enquiries :
          confirmations'[e.confirmation].status = "consumed"
    /\ LocksMove(r)
    /\ opened \subseteq opened'
    /\ \A s \in Sessions :
          readBack'[s] # readBack[s] => Open(socket[r]) /\ s = socket[r].session

-----------------------------------------------------------------------------
(* What a step for one socket leaves of the invariant.                      *)

\* The proposals of a socket are not touched by a step for another one.
LEMMA OthersOK ==
    ASSUME DialogueInv, TablesKept, NEW r \in Requests, StepFor(r),
           NEW q \in Requests \ {r}
    PROVE  SocketOK(q)'
<1>1. PICK k, t : k = socket[q] /\ t = request[q]
  OBVIOUS
<1>2. SocketOK(q) /\ socket'[q] = k /\ request'[q] = t
  BY <1>1 DEF DialogueInv, StepFor
<1>3. Open(k) => k.session \in Sessions /\ k.session \in opened'
  BY <1>1, <1>2 DEF DialogueInv, DialogueTypeOK, SocketOK, StepFor
<1>4. ASSUME NEW c, NEW p, NEW status, Open(k), ProposalOf(k, c, p, status)
      PROVE  ProposalOf(k, c, p, status)'
  <2>1. c \in ConfirmationIds /\ confirmations[c] # NoRow
        /\ confirmations[c].session = k.session
    BY <1>4 DEF ProposalOf
  <2>2. ~(Open(socket[r]) /\ confirmations[c].session = socket[r].session)
    BY <1>1, <1>4, <2>1 DEF DialogueInv, SocketsApart
  <2>3. confirmations'[c] = confirmations[c]
    BY <2>1, <2>2 DEF StepFor, RowsMove
  <2> QED BY <1>4, <2>3 DEF ProposalOf
<1>5. ASSUME NEW status, Open(k), PendingOf(k, status)
      PROVE  PendingOf(k, status)'
  <2>1. readBack'[k.session] = readBack[k.session]
    BY <1>1, <1>3, <1>5 DEF StepFor, DialogueInv, SocketsApart
  <2>2. ProposalOf(k, k.id, k.pending, status)'
    BY <1>4, <1>5 DEF PendingOf
  <2> QED BY <1>5, <2>1, <2>2 DEF PendingOf
<1>6. EnquiryOf(t) => EnquiryOf(t)'
  BY DEF EnquiryOf, EnquiriesOf, TablesKept
<1>7. Open(k) => Serving(k, t)'
  <2> HAVE Open(k)
  <2>1. Serving(k, t)
    BY <1>1, <1>2 DEF SocketOK
  <2> QED BY <1>4, <1>5, <1>6, <2>1 DEF Serving
<1> QED BY <1>1, <1>2, <1>3, <1>7 DEF SocketOK


\* What the other sockets rely on, the locks and the histories survive a step for
\* socket r; what remains to be shown of it is its types and its own state.
LEMMA StepInv ==
    ASSUME DialogueInv, UNCHANGED vars \/ Next, NEW r \in Requests,
           StepFor(r), SocketOK(r)', DialogueTypeOK', told' \in Told,
           Open(socket'[r]) =>
               \/ Open(socket[r]) /\ socket'[r].session = socket[r].session
               \/ socket'[r].session \notin opened,
           \A c \in told'.cancelled \ told.cancelled :
               confirmations'[c].status = "cancelled",
           \A t \in told'.created \ told.created : EnquiryOf(t)'
    PROVE  DialogueInv'
<1>1. Inv /\ Inv' /\ TablesKept
  BY NextInv, StepKeepsTables DEF DialogueInv
<1>2. \A q \in Requests : SocketOK(q)'
  BY <1>1, OthersOK
<1>3. SocketsApart'
  <2> SUFFICES ASSUME NEW p \in Requests, NEW q \in Requests,
                      Open(socket'[p]), Open(socket'[q]),
                      socket'[p].session = socket'[q].session, p # q
               PROVE  FALSE
    BY DEF SocketsApart, Open
  <2>1. ASSUME NEW k \in Requests \ {r}, Open(socket'[k])
        PROVE  /\ Open(socket[k]) /\ socket'[k].session = socket[k].session
               /\ socket[k].session \in opened
    BY <2>1 DEF StepFor, DialogueInv, SocketOK
  <2> QED BY <2>1 DEF DialogueInv, SocketsApart
<1>4. LocksFollow'
  <2> SUFFICES ASSUME NEW q \in Requests, request'[q].step \notin LockSteps
               PROVE  /\ \A c \in ConfirmationIds : rowLock'[c] # q
                      /\ \A w \in Workspaces : counterLock'[w] # q
    BY DEF LocksFollow, HoldsNoLock, LockSteps
  <2>1. CASE q = r
    BY <2>1 DEF StepFor, LocksMove
  <2>2. CASE q # r
    <3>1. HoldsNoLock(q)
      BY <2>2 DEF StepFor, DialogueInv, LocksFollow, LockSteps
    <3>2. q # Nothing
      BY ConfirmationsAssumption
    <3> QED BY <2>2, <3>1, <3>2 DEF StepFor, LocksMove, HoldsNoLock
  <2> QED BY <2>1, <2>2
<1>5. FinalRows'
  <2>1. ASSUME NEW c \in ConfirmationIds,
               confirmations[c].status \in {"consumed", "cancelled"}
        PROVE  confirmations'[c] = confirmations[c]
    BY <2>1 DEF StepFor, RowsMove, NoRow
  <2>2. ASSUME NEW c \in ConfirmationIds, NEW e \in enquiries', e.confirmation = c
        PROVE  confirmations'[c].status = "consumed"
    <3>1. CASE e \in enquiries
      <4>1. confirmations[c].status = "consumed"
        BY <2>2, <3>1 DEF DialogueInv, FinalRows, EnquiriesOf
      <4> QED BY <2>1, <4>1
    <3>2. CASE e \notin enquiries
      BY <2>2, <3>2 DEF StepFor
    <3> QED BY <3>1, <3>2
  <2>3. ASSUME NEW c \in told'.cancelled
        PROVE  confirmations'[c].status = "cancelled"
    <3>1. CASE c \in told.cancelled
      <4>1. confirmations[c].status = "cancelled" /\ c \in ConfirmationIds
        BY <3>1 DEF DialogueInv, FinalRows, DialogueTypeOK
      <4> QED BY <2>1, <4>1
    <3> QED BY <2>3, <3>1
  <2> QED BY <2>2, <2>3 DEF FinalRows, EnquiriesOf
<1>6. \A t \in told'.created : EnquiryOf(t)'
  BY <1>1 DEF DialogueInv, TablesKept, EnquiryOf, EnquiriesOf
<1> QED BY <1>1, <1>2, <1>3, <1>4, <1>5, <1>6 DEF DialogueInv, Told

-----------------------------------------------------------------------------
(* Steps that leave the tables alone.                                       *)

\* The slots that may be filled in.
SlotsOK(f) ==
    f.slots # Nothing =>
        \E text \in Utterances :
           Partial(Extraction[text]) /\ f.slots = Draft(Extraction[text])

\* Whether a step for r moves only r's locks can be seen from r's request.
LEMMA LocksStay ==
    ASSUME DialogueInv, NEW r \in Requests, UNCHANGED locks,
           request'[r].step \notin LockSteps, request[r].step \notin LockSteps
    PROVE  LocksMove(r)
BY DEF DialogueInv, LocksFollow, HoldsNoLock, LocksMove, LockSteps, locks

\* A function that ends moves no lock but its own.
LEMMA LocksReleased ==
    ASSUME NEW r \in Requests, ReleaseLocks(r)
    PROVE  LocksMove(r)
<1>1. r # Nothing
  BY ConfirmationsAssumption
<1> QED BY <1>1 DEF ReleaseLocks, LocksMove

\* Socket r goes from one state to another, f, and its request to g.
LEMMA SocketMoves ==
    ASSUME DialogueInv, UNCHANGED vars \/ Next, NEW r \in Requests,
           UNCHANGED <<tables, opened>>, LocksMove(r),
           NEW f \in Socket, NEW g, Converse(r, f), Become(r, g),
           Open(socket[r]),
           \/ f = NoSocket /\ g = NoRequest
           \/ /\ Open(f) /\ f.user = socket[r].user /\ f.session = socket[r].session
              /\ Serving(f, g)'
              /\ (f.pending = Nothing) <=> (f.id = Nothing)
              /\ g.step = "idle" => g = NoRequest
              /\ SlotsOK(f),
           supports' \subseteq [workspace : Workspaces, user : Users, number : Nat],
           supportNext' \in [Workspaces -> Nat],
           messages' \in 0 .. MaxMessages,
           readBack' \in [Sessions -> Payloads \cup {Nothing}],
           \A s \in Sessions : readBack'[s] # readBack[s] => s = socket[r].session,
           told' \in Told,
           \A c \in told'.cancelled \ told.cancelled :
               confirmations[c].status = "cancelled",
           \A t \in told'.created \ told.created : EnquiryOf(t)
    PROVE  DialogueInv'
<1>1. /\ socket' = [socket EXCEPT ![r] = f] /\ socket \in [Requests -> Socket]
      /\ request' = [request EXCEPT ![r] = g] /\ request \in [Requests -> Request]
  BY DEF Converse, Become, DialogueInv, DialogueTypeOK, Inv, TypeOK
<1>2. /\ socket'[r] = f /\ request'[r] = g
      /\ \A q \in Requests \ {r} : socket'[q] = socket[q] /\ request'[q] = request[q]
  BY <1>1
<1>3. StepFor(r)
  BY <1>2 DEF StepFor, RowsMove, tables
<1>4. SocketOK(r)'
  <2>1. CASE f = NoSocket /\ g = NoRequest
    BY <1>2, <2>1 DEF SocketOK, NoSocket, Open
  <2>2. CASE Open(f)
    <3>1. socket[r].user \in Users /\ socket[r].session \in opened
      BY DEF DialogueInv, SocketOK
    <3>2. /\ f.user \in Users /\ f.session \in opened
          /\ Serving(f, g)' /\ SlotsOK(f)
          /\ g.step = "idle" => g = NoRequest
      BY <2>2, <3>1 DEF NoSocket, Open
    <3> QED BY <1>2, <2>2, <3>2 DEF SocketOK, Open, SlotsOK
  <2> QED BY <2>1, <2>2
<1>5. DialogueTypeOK'
  <2>1. socket' \in [Requests -> Socket]
    BY <1>1
  <2>2. \A q \in Requests : (socket'[q].pending = Nothing) <=> (socket'[q].id = Nothing)
    <3>1. (f.pending = Nothing) <=> (f.id = Nothing)
      BY DEF NoSocket
    <3> QED BY <1>2, <3>1 DEF DialogueInv, DialogueTypeOK
  <2>3. opened' \subseteq Sessions
    BY DEF DialogueInv, DialogueTypeOK
  <2> QED BY <2>1, <2>2, <2>3 DEF DialogueTypeOK, Told
<1>6. Open(f) => f.session = socket[r].session
  BY DEF NoSocket, Open
<1>7. /\ \A c \in told'.cancelled \ told.cancelled :
            confirmations'[c].status = "cancelled"
      /\ \A t \in told'.created \ told.created : EnquiryOf(t)'
  BY DEF tables, EnquiryOf, EnquiriesOf
<1> QED BY <1>2, <1>3, <1>4, <1>5, <1>6, <1>7, StepInv

\* The same, when nobody is told anything of an enquiry.
LEMMA SocketMovesQuietly ==
    ASSUME DialogueInv, UNCHANGED vars \/ Next, NEW r \in Requests,
           UNCHANGED <<tables, opened, readBack, told>>, LocksMove(r),
           NEW f \in Socket, NEW g, Converse(r, f), Become(r, g),
           Open(socket[r]),
           \/ f = NoSocket /\ g = NoRequest
           \/ /\ Open(f) /\ f.user = socket[r].user /\ f.session = socket[r].session
              /\ Serving(f, g)
              /\ (f.pending = Nothing) <=> (f.id = Nothing)
              /\ g.step = "idle" => g = NoRequest
              /\ SlotsOK(f),
           supports' \subseteq [workspace : Workspaces, user : Users, number : Nat],
           supportNext' \in [Workspaces -> Nat],
           messages' \in 0 .. MaxMessages
    PROVE  DialogueInv'
<1>1. told \in Told /\ readBack \in [Sessions -> Payloads \cup {Nothing}]
  BY DEF DialogueInv, DialogueTypeOK, Told
<1>2. Serving(f, g) => Serving(f, g)'
  BY DEF Serving, PendingOf, ProposalOf, EnquiryOf, EnquiriesOf, tables
<1> QED BY <1>1, <1>2, SocketMoves

-----------------------------------------------------------------------------
(* The conversation is a client of the service.                             *)

\* What is known of a socket that is open.
LEMMA OpenFields ==
    ASSUME DialogueInv, NEW r \in Requests, Open(socket[r])
    PROVE  /\ socket[r] \in Socket /\ request[r] \in Request
           /\ socket[r].user \in Users
           /\ socket[r].session \in Sessions /\ socket[r].session \in opened
           /\ (socket[r].pending = Nothing) <=> (socket[r].id = Nothing)
           /\ Serving(socket[r], request[r]) /\ SlotsOK(socket[r])
BY DEF DialogueInv, DialogueTypeOK, Inv, TypeOK, SocketOK, SlotsOK

\* What is pending can be passed to the service.
LEMMA PendingFields ==
    ASSUME DialogueInv, NEW r \in Requests,
           \/ OnStep(r, "listening") /\ socket[r].pending # Nothing
           \/ OnStep(r, "tool")
    PROVE  /\ socket[r].pending \in Payloads /\ socket[r].id \in ConfirmationIds
           /\ request[r] = NoRequest
<1>1. Serving(socket[r], request[r])
  BY OpenFields DEF Open, OnStep
<1> QED BY <1>1 DEF Serving, PendingOf, ProposalOf, OnStep

\* A request that holds no locks need not release any.
LEMMA NothingToRelease ==
    ASSUME DialogueInv, NEW r \in Requests, request[r].step \notin LockSteps
    PROVE  ReleaseLocks(r) <=> UNCHANGED locks
<1>1. HoldsNoLock(r)
  BY DEF DialogueInv, LocksFollow, LockSteps
<1>2. rowLock = [c \in ConfirmationIds |-> rowLock[c]]
      /\ counterLock = [w \in Workspaces |-> counterLock[w]]
  BY DEF DialogueInv, Inv, TypeOK
<1> QED BY <1>1, <1>2 DEF ReleaseLocks, HoldsNoLock, locks

\* A socket that hangs up ends its request, or had none.
LEMMA HangupUses ==
    ASSUME DialogueInv, NEW r \in Requests, Hangup(r)
    PROVE  UNCHANGED vars \/ Next
<1>1. CASE request[r].step = "idle"
  <2>1. request[r] = NoRequest
    BY <1>1 DEF DialogueInv, SocketOK
  <2>2. UNCHANGED request
    BY <2>1 DEF Hangup, Become, DialogueInv, Inv, TypeOK
  <2>3. UNCHANGED locks
    BY <1>1, NothingToRelease DEF Hangup, LockSteps
  <2> QED BY <2>2, <2>3 DEF Hangup, vars
<1>2. CASE request[r].step = "done"
  BY <1>2 DEF Hangup, Return, Advance, Next
<1>3. CASE request[r].step \notin {"idle", "done"}
  BY <1>3 DEF Hangup, Abort, Next
<1> QED BY <1>1, <1>2, <1>3

\* A function that has returned has no locks, so it matters not that its database
\* session stays open.
LEMMA ResumeUses ==
    ASSUME DialogueInv, NEW r \in Requests, Served(r), Resume(r)
    PROVE  Next
<1>1. ReleaseLocks(r)
  BY NothingToRelease DEF Resume, Served, LockSteps
<1> QED BY <1>1 DEF Resume, Served, Return, Advance, Next

\* The payload of a proposal is one, if it is valid.
DraftOK(draft) == Valid(draft) => draft \in Payloads

\* A proposal is a step of the service.
LEMMA ProposeUses ==
    ASSUME DialogueInv, NEW r \in Requests, OnStep(r, "listening"), NEW draft,
           DraftOK(draft), NEW q, q.user = socket[r].user,
           q.session = socket[r].session, Propose(r, q, draft)
    PROVE  UNCHANGED vars \/ Next
<1>1. q.user \in Users /\ q.session \in Sessions
  BY OpenFields DEF Open, OnStep
<1> QED BY <1>1, HangupUses DEF Propose, DraftOK, Arrive, Next

\* The drafts that are proposed are those of DialogueAssumption.
LEMMA SlotsAreOK ==
    ASSUME DialogueInv, NEW r \in Requests, OnStep(r, "listening"),
           NEW text \in Utterances, NEW s \in Selected,
           CompletesSlots(r, text, Intent[text][s])
    PROVE  DraftOK(IF Restated(text) THEN Draft(Extraction[text])
                   ELSE [socket[r].slots EXCEPT !.destination = PlaceIn(text)])
<1>1. CASE Restated(text)
  BY <1>1, DialogueAssumption DEF Restated, DraftOK
<1>2. CASE ~Restated(text)
  <2>1. PICK asked \in Utterances :
           Partial(Extraction[asked]) /\ socket[r].slots = Draft(Extraction[asked])
    BY OpenFields DEF Open, OnStep, CompletesSlots, SlotsOK
  <2>2. Valid([socket[r].slots EXCEPT !.destination = PlaceIn(text)]) =>
           Valid(Draft(Extraction[asked]))
    BY <2>1 DEF Valid, Draft
  <2>3. \E t \in Selected : Completing(Intent[text][t])
    BY <1>2 DEF CompletesSlots
  <2> QED BY <1>2, <2>1, <2>2, <2>3, DialogueAssumption DEF DraftOK
<1> QED BY <1>1, <1>2

\* A complete enquiry that was understood is a payload, if it is valid.
LEMMA EnquiriesAreOK ==
    ASSUME NEW text \in Utterances, Complete(Extraction[text])
    PROVE  DraftOK(Draft(Extraction[text]))
BY DialogueAssumption DEF DraftOK

\* Every step of a message is one of the service or leaves it alone.
LEMMA HearUses ==
    ASSUME DialogueInv, NEW r \in Requests, Hear(r)
    PROVE  UNCHANGED vars \/ Next
<1>1. OnStep(r, "listening") /\ Open(socket[r])
  BY DEF Hear, Hears, OnStep, Open
<1>2. PICK text \in Utterances, s \in Selected :
         LET intent == Intent[text][s] IN
         \/ HearConfirm(r, intent) \/ HearCancel(r, intent)
         \/ HearAboutSearch(r, intent) \/ HearNothingPending(r, intent)
         \/ HearDrop(r, intent)
         \/ HearSlots(r, text, intent)
         \/ HearEnquiry(r, text, intent)
         \/ HearHuman(r, text, intent)
         \/ HearQuestion(r, text, intent, Sure[text][s])
         \/ HearInVain(r, text, intent, Sure[text][s])
         \/ HearUnsure(r, text, intent, Sure[text][s])
  BY DEF Hear
<1> DEFINE intent == Intent[text][s]
<1> HIDE DEF intent
<1>3. CASE HearConfirm(r, intent)
  <2>1. socket[r].user \in Users
    BY <1>1, OpenFields
  <2>2. socket[r].id \in ConfirmationIds
    BY <1>1, <1>3, PendingFields DEF HearConfirm
  <2> QED BY <1>3, <2>1, <2>2, HangupUses DEF HearConfirm, Arrive, Next
<1>4. CASE HearCancel(r, intent)
  <2>1. socket[r].user \in Users
    BY <1>1, OpenFields
  <2>2. socket[r].id \in ConfirmationIds
    BY <1>1, <1>4, PendingFields DEF HearCancel
  <2> QED BY <1>4, <2>1, <2>2, HangupUses DEF HearCancel, Arrive, Next
<1>5. CASE HearAboutSearch(r, intent) \/ HearNothingPending(r, intent)
           \/ HearDrop(r, intent) \/ HearHuman(r, text, intent)
           \/ HearQuestion(r, text, intent, Sure[text][s])
           \/ HearInVain(r, text, intent, Sure[text][s])
           \/ HearUnsure(r, text, intent, Sure[text][s])
  BY <1>5 DEF HearAboutSearch, HearNothingPending, HearDrop, HearHuman,
              HearQuestion, HearInVain, HearUnsure
<1>6. CASE HearSlots(r, text, intent)
  <2>1. WithoutSlots(r).user = socket[r].user
        /\ WithoutSlots(r).session = socket[r].session
    BY <1>1, OpenFields DEF WithoutSlots, Socket
  <2>2. PICK q, draft :
           /\ q = WithoutSlots(r)
           /\ draft = IF Restated(text) THEN Draft(Extraction[text])
                      ELSE [socket[r].slots EXCEPT !.destination = PlaceIn(text)]
    OBVIOUS
  <2>3. DraftOK(draft)
    BY <1>1, <1>6, <2>2, SlotsAreOK DEF HearSlots, intent
  <2>4. Propose(r, q, draft)
    BY <1>6, <2>2 DEF HearSlots
  <2> QED BY <1>1, <2>1, <2>2, <2>3, <2>4, ProposeUses
<1>7. CASE HearEnquiry(r, text, intent)
  <2>1. WithoutSlots(r).user = socket[r].user
        /\ WithoutSlots(r).session = socket[r].session
    BY <1>1, OpenFields DEF WithoutSlots, Socket
  <2>2. CASE UNCHANGED vars
    BY <2>2
  <2>3. CASE Complete(Extraction[text])
             /\ Propose(r, WithoutSlots(r), Draft(Extraction[text]))
    <3>1. PICK q : q = WithoutSlots(r)
      OBVIOUS
    <3> QED BY <1>1, <2>1, <2>3, <3>1, EnquiriesAreOK, ProposeUses
  <2> QED BY <1>7, <2>2, <2>3 DEF HearEnquiry
<1> QED BY <1>2, <1>3, <1>4, <1>5, <1>6, <1>7 DEF intent

\* Every step of the conversations is a step of the service or leaves it alone.
LEMMA StepUses ==
    ASSUME DialogueInv, [DialogueNext]_dialogueVars
    PROVE  UNCHANGED vars \/ Next
<1>1. CASE UNCHANGED dialogueVars
  BY <1>1 DEF dialogueVars
<1>2. ASSUME NEW r \in Requests, Progress(r)
      PROVE  UNCHANGED vars \/ Next
  <2>1. CASE ServiceStep(r)
    BY <2>1 DEF ServiceStep, Advance, Next
  <2>2. CASE ProposalReady(r) \/ ConfirmAnswered(r) \/ CancelAnswered(r)
             \/ EnquiryAnswered(r)
    BY <2>2, ResumeUses DEF ProposalReady, ConfirmAnswered, CancelAnswered,
                            EnquiryAnswered
  <2>3. CASE CreateEnquiry(r)
    <3>1. OnStep(r, "tool") /\ Open(socket[r])
      BY <2>3 DEF CreateEnquiry, OnStep, Open
    <3>2. socket[r].user \in Users
      BY <3>1, OpenFields
    <3> QED BY <2>3, <3>1, <3>2, PendingFields DEF CreateEnquiry, Arrive, Next
  <2>4. CASE Reply(r)
    BY <2>4 DEF Reply
  <2>5. CASE Reap(r)
    BY <2>5, HangupUses DEF Reap
  <2> QED BY <1>2, <2>1, <2>2, <2>3, <2>4, <2>5 DEF Progress
<1>3. ASSUME NEW r \in Requests, Interrupt(r)
      PROVE  UNCHANGED vars \/ Next
  BY <1>3, HangupUses DEF Interrupt, Disconnect, Fault, Advance, Next
<1>4. ASSUME NEW r \in Requests, NEW u \in Users, NEW s \in Sessions, Connect(r, u, s)
      PROVE  UNCHANGED vars
  BY <1>4 DEF Connect
<1>5. CASE Crash \/ Tick
  BY <1>5 DEF Crash, Next
<1> QED BY <1>1, <1>2, <1>3, <1>4, <1>5, HearUses DEF DialogueNext

-----------------------------------------------------------------------------
(* What a message leaves of the invariant.                                  *)

SupportsTyped ==
    /\ supports \subseteq [workspace : Workspaces, user : Users, number : Nat]
    /\ supportNext \in [Workspaces -> Nat]

MessagesTyped == messages \in 0 .. MaxMessages

\* What state f of a listening socket keeps of q: its caller and its session, and
\* what is pending unless it is forgotten.
Follows(f, q) ==
    /\ f.user = q.user /\ f.session = q.session
    /\ \/ f.pending = q.pending /\ f.id = q.id
       \/ f.pending = Nothing /\ f.id = Nothing

\* A socket that was listening, and has or had no proposal to change, answers.
LEMMA AnswerInv ==
    ASSUME DialogueInv, NEW r \in Requests, OnStep(r, "listening"),
           UNCHANGED <<vars, opened, readBack, told>>,
           SupportsTyped', MessagesTyped',
           NEW f \in Socket, Converse(r, f), f.step = "replying",
           Follows(f, socket[r]), SlotsOK(f)
    PROVE  DialogueInv'
<1>1. Open(socket[r]) /\ Open(f)
  BY DEF OnStep, Open
<1>2. Serving(socket[r], request[r])
  BY <1>1, OpenFields
<1>3. request[r] = NoRequest
  BY <1>2 DEF Serving, OnStep
<1>4. Become(r, NoRequest)
  BY <1>3 DEF Become, vars, DialogueInv, Inv, TypeOK
<1>5. LocksMove(r)
  <2>1. request'[r] = NoRequest
    BY <1>3 DEF vars
  <2> QED BY <1>3, <2>1, LocksStay DEF vars, NoRequest, LockSteps
<1>6. Serving(f, NoRequest)
  <2>1. \/ socket[r].pending = Nothing /\ socket[r].id = Nothing
        \/ PendingOf(socket[r], "pending")
    BY <1>2 DEF Serving, OnStep
  <2>2. \/ f.pending = Nothing /\ f.id = Nothing
        \/ PendingOf(f, "pending")
    BY <2>1 DEF Follows, PendingOf, ProposalOf
  <2> QED BY <2>2 DEF Serving
<1>7. (f.pending = Nothing) <=> (f.id = Nothing)
  BY <1>1, OpenFields DEF Follows
<1>8. UNCHANGED <<tables, opened, readBack, told>> /\ NoRequest.step = "idle"
  BY DEF vars, NoRequest
<1> QED BY <1>1, <1>4, <1>5, <1>6, <1>7, <1>8, SocketMovesQuietly
       DEF Follows, SupportsTyped, MessagesTyped

\* A socket that was listening hangs up, answers or begins to call the service.
LEMMA HangupInv ==
    ASSUME DialogueInv, NEW r \in Requests, Open(socket[r]), Hangup(r),
           MessagesTyped'
    PROVE  DialogueInv'
<1>1. NoSocket \in Socket
  BY DEF NoSocket, Socket, SocketSteps, Replies
<1>2. LocksMove(r)
  BY LocksReleased DEF Hangup
<1>3. UNCHANGED <<tables, opened, readBack, told>>
  BY DEF Hangup, Unheard
<1>4. UNCHANGED vars \/ Next
  BY HangupUses
<1>5. SupportsTyped'
  BY DEF Hangup, Unheard, DialogueInv, DialogueTypeOK, SupportsTyped
<1>6. PICK f, g : f = NoSocket /\ g = NoRequest
  OBVIOUS
<1> QED BY <1>1, <1>2, <1>3, <1>4, <1>5, <1>6, SocketMovesQuietly
       DEF Hangup, SupportsTyped, MessagesTyped

\* Socket r begins to call the service: its request becomes g.
LEMMA BeginInv ==
    ASSUME DialogueInv, UNCHANGED vars \/ Next, NEW r \in Requests,
           Open(socket[r]), request[r] = NoRequest,
           UNCHANGED <<tables, locks>>, Unheard, MessagesTyped',
           NEW f \in Socket, Converse(r, f), Open(f), Follows(f, socket[r]), SlotsOK(f),
           NEW g, Become(r, g), g.step \notin LockSteps \cup {"idle"}, Serving(f, g)
    PROVE  DialogueInv'
<1>1. LocksMove(r)
  <2>1. request'[r] = g
    BY DEF Become, DialogueInv, Inv, TypeOK
  <2> QED BY <2>1, LocksStay DEF NoRequest, LockSteps
<1>2. UNCHANGED <<opened, readBack, told>> /\ SupportsTyped'
  BY DEF Unheard, DialogueInv, DialogueTypeOK, SupportsTyped
<1>3. (f.pending = Nothing) <=> (f.id = Nothing)
  BY OpenFields DEF Follows
<1> QED BY <1>1, <1>2, <1>3, SocketMovesQuietly
       DEF Follows, SupportsTyped, MessagesTyped

\* propose_enquiry: a quantity that is impossible, a proposal to reuse or to
\* insert, or a database session that is of no use any more.
LEMMA ProposeInv ==
    ASSUME DialogueInv, UNCHANGED vars \/ Next, NEW r \in Requests,
           OnStep(r, "listening"), MessagesTyped',
           NEW q \in Socket, q.user = socket[r].user,
           q.session = socket[r].session, q.pending = socket[r].pending,
           q.id = socket[r].id, SlotsOK(q), NEW draft, Propose(r, q, draft)
    PROVE  DialogueInv'
<1>1. Open(socket[r]) /\ request[r] = NoRequest
  <2>1. Open(socket[r])
    BY DEF OnStep, Open
  <2> QED BY <2>1, OpenFields DEF Serving, OnStep
<1>2. \/ q.pending = Nothing /\ q.id = Nothing
      \/ PendingOf(q, "pending")
  <2>1. \/ socket[r].pending = Nothing /\ socket[r].id = Nothing
        \/ PendingOf(socket[r], "pending")
    BY <1>1, OpenFields DEF Serving, OnStep
  <2> QED BY <2>1 DEF PendingOf, ProposalOf
<1>3. CASE /\ Converse(r, Answered(Forget(q), "invalid"))
           /\ UNCHANGED vars /\ Unheard
  <2>1. PICK f : f = Answered(Forget(q), "invalid")
    OBVIOUS
  <2>2. /\ f \in Socket /\ f.step = "replying" /\ f.user = q.user
        /\ f.session = q.session /\ f.slots = q.slots
        /\ f.pending = Nothing /\ f.id = Nothing
    BY <2>1 DEF Answered, Forget, Socket, SocketSteps, Replies
  <2>3. SlotsOK(f)
    BY <2>2 DEF SlotsOK
  <2>4. SupportsTyped' /\ UNCHANGED <<vars, opened, readBack, told>>
    BY <1>3 DEF Unheard, DialogueInv, DialogueTypeOK, SupportsTyped
  <2> QED BY <1>3, <2>1, <2>2, <2>3, <2>4, AnswerInv DEF Follows
<1>4. CASE /\ \/ PrepareReuse(r, q.user, q.session, draft)
              \/ PrepareMiss(r, q.user, q.session, draft)
           /\ Converse(r, [q EXCEPT !.step = "preparing"])
           /\ Unheard
  <2>1. PICK f : f = [q EXCEPT !.step = "preparing"]
    OBVIOUS
  <2>2. /\ f \in Socket /\ f.step = "preparing" /\ f.user = q.user
        /\ f.session = q.session /\ f.slots = q.slots
        /\ f.pending = q.pending /\ f.id = q.id
    BY <2>1 DEF Socket, SocketSteps
  <2>3. SlotsOK(f) /\ Follows(f, socket[r]) /\ Open(f)
    BY <2>2 DEF SlotsOK, Follows, Open
  <2>4. /\ f.pending = Nothing /\ f.id = Nothing
        \/ PendingOf(f, "pending")
    BY <1>2, <2>2 DEF PendingOf, ProposalOf
  <2>5. PICK g : /\ Become(r, g) /\ g.user = q.user
                 /\ \/ g.step = "prepare_insert" /\ g.session = q.session
                    \/ g.step = "done" /\ ProposalOf(f, g.id, g.payload, "pending")
    <3>1. CASE PrepareReuse(r, q.user, q.session, draft)
      <4>1. PICK c \in PendingMatches(q.user, q.session, draft) :
               Begin(r, [NoRequest EXCEPT !.step = "done", !.user = q.user,
                           !.session = q.session, !.payload = draft, !.id = c,
                           !.result = "prepared"])
        BY <3>1 DEF PrepareReuse
      <4>2. PICK g : g = [NoRequest EXCEPT !.step = "done", !.user = q.user,
                           !.session = q.session, !.payload = draft, !.id = c,
                           !.result = "prepared"]
        OBVIOUS
      <4>3. g.step = "done" /\ g.id = c /\ g.payload = draft /\ g.user = q.user
        BY <4>2 DEF NoRequest
      <4>4. ProposalOf(f, c, draft, "pending")
        BY <2>2 DEF PendingMatches, ProposalOf, NoRow
      <4> QED BY <4>1, <4>2, <4>3, <4>4 DEF Begin
    <3>2. CASE PrepareMiss(r, q.user, q.session, draft)
      <4>1. PICK c \in ConfirmationIds :
               Begin(r, [NoRequest EXCEPT !.step = "prepare_insert",
                           !.user = q.user, !.session = q.session,
                           !.payload = draft, !.id = c, !.stamp = now])
        BY <3>2 DEF PrepareMiss
      <4>2. PICK g : g = [NoRequest EXCEPT !.step = "prepare_insert",
                           !.user = q.user, !.session = q.session,
                           !.payload = draft, !.id = c, !.stamp = now]
        OBVIOUS
      <4>3. /\ g.step = "prepare_insert" /\ g.session = q.session
            /\ g.user = q.user
        BY <4>2 DEF NoRequest
      <4> QED BY <4>1, <4>2, <4>3 DEF Begin
    <3> QED BY <1>4, <3>1, <3>2
  <2>6. Serving(f, g)
    BY <2>2, <2>4, <2>5 DEF Serving
  <2>7. UNCHANGED <<tables, locks>>
    BY <1>4 DEF PrepareReuse, PrepareMiss
  <2>8. g.step \notin LockSteps \cup {"idle"}
    BY <2>5 DEF LockSteps
  <2> QED BY <1>1, <1>4, <2>1, <2>2, <2>3, <2>5, <2>6, <2>7, <2>8, BeginInv
<1>5. CASE Hangup(r)
  BY <1>1, <1>5, HangupInv
<1> QED BY <1>3, <1>4, <1>5 DEF Propose

\* "yes" to what was read back.
LEMMA HearConfirmInv ==
    ASSUME DialogueInv, UNCHANGED vars \/ Next, NEW r \in Requests,
           OnStep(r, "listening"), MessagesTyped', NEW intent,
           HearConfirm(r, intent)
    PROVE  DialogueInv'
<1>1. Open(socket[r]) /\ request[r] = NoRequest
  BY PendingFields DEF OnStep, Open, HearConfirm
<1>2. PendingOf(socket[r], "pending")
  BY <1>1, OpenFields DEF Serving, OnStep, HearConfirm
<1>3. CASE Hangup(r)
  BY <1>1, <1>3, HangupInv
<1>4. CASE /\ ConfirmRead(r, socket[r].user, socket[r].id)
           /\ Converse(r, [socket[r] EXCEPT !.step = "confirming"])
           /\ Unheard
  <2>1. PICK f, g :
           /\ f = [socket[r] EXCEPT !.step = "confirming"]
           /\ g = [NoRequest EXCEPT !.step = "confirm_check",
                     !.user = socket[r].user, !.id = socket[r].id]
    OBVIOUS
  <2>2. /\ f \in Socket /\ f.step = "confirming" /\ f.slots = socket[r].slots
        /\ f.user = socket[r].user /\ f.session = socket[r].session
        /\ f.pending = socket[r].pending /\ f.id = socket[r].id
    BY <1>1, <2>1, OpenFields DEF Socket, SocketSteps
  <2>3. SlotsOK(f) /\ Follows(f, socket[r]) /\ Open(f)
    BY <1>1, <2>2, OpenFields DEF SlotsOK, Follows, Open
  <2>4. g.step = "confirm_check" /\ g.user = f.user /\ g.id = f.id
    BY <2>1, <2>2 DEF NoRequest
  <2>5. Become(r, g) /\ UNCHANGED <<tables, locks>>
    BY <1>2, <1>4, <2>1 DEF ConfirmRead, Begin, Visible, PendingOf, ProposalOf
  <2>6. PendingOf(f, "pending")
    BY <1>2, <2>2 DEF PendingOf, ProposalOf
  <2>7. Serving(f, g)
    BY <2>2, <2>4, <2>6 DEF Serving
  <2>8. g.step \notin LockSteps \cup {"idle"}
    BY <2>4 DEF LockSteps
  <2> QED BY <1>1, <1>4, <2>1, <2>2, <2>3, <2>5, <2>7, <2>8, BeginInv
<1> QED BY <1>3, <1>4 DEF HearConfirm

\* "no" to it.
LEMMA HearCancelInv ==
    ASSUME DialogueInv, UNCHANGED vars \/ Next, NEW r \in Requests,
           OnStep(r, "listening"), MessagesTyped', NEW intent,
           HearCancel(r, intent)
    PROVE  DialogueInv'
<1>1. Open(socket[r]) /\ request[r] = NoRequest
  BY PendingFields DEF OnStep, Open, HearCancel
<1>2. PendingOf(socket[r], "pending")
  BY <1>1, OpenFields DEF Serving, OnStep, HearCancel
<1>3. CASE Hangup(r)
  BY <1>1, <1>3, HangupInv
<1>4. CASE /\ CancelRead(r, socket[r].user, socket[r].id)
           /\ Converse(r, [socket[r] EXCEPT !.step = "cancelling"])
           /\ Unheard
  <2>1. PICK f, g :
           /\ f = [socket[r] EXCEPT !.step = "cancelling"]
           /\ g = [NoRequest EXCEPT !.step = "cancel_write",
                     !.user = socket[r].user, !.id = socket[r].id]
    OBVIOUS
  <2>2. /\ f \in Socket /\ f.step = "cancelling" /\ f.slots = socket[r].slots
        /\ f.user = socket[r].user /\ f.session = socket[r].session
        /\ f.pending = socket[r].pending /\ f.id = socket[r].id
    BY <1>1, <2>1, OpenFields DEF Socket, SocketSteps
  <2>3. SlotsOK(f) /\ Follows(f, socket[r]) /\ Open(f)
    BY <1>1, <2>2, OpenFields DEF SlotsOK, Follows, Open
  <2>4. g.step = "cancel_write" /\ g.user = f.user /\ g.id = f.id
    BY <2>1, <2>2 DEF NoRequest
  <2>5. Become(r, g) /\ UNCHANGED <<tables, locks>>
    BY <1>2, <1>4, <2>1 DEF CancelRead, Begin, Visible, PendingOf, ProposalOf
  <2>6. PendingOf(f, "pending")
    BY <1>2, <2>2 DEF PendingOf, ProposalOf
  <2>7. Serving(f, g)
    BY <2>2, <2>4, <2>6 DEF Serving
  <2>8. g.step \notin LockSteps \cup {"idle"}
    BY <2>4 DEF LockSteps
  <2> QED BY <1>1, <1>4, <2>1, <2>2, <2>3, <2>5, <2>7, <2>8, BeginInv
<1> QED BY <1>3, <1>4 DEF HearCancel

\* The answers that call no service function.
LEMMA HearQuietlyInv ==
    ASSUME DialogueInv, NEW r \in Requests, OnStep(r, "listening"),
           MessagesTyped', NEW text \in Utterances, NEW intent, NEW sure,
           \/ HearAboutSearch(r, intent) \/ HearNothingPending(r, intent)
           \/ HearDrop(r, intent) \/ HearHuman(r, text, intent)
           \/ HearQuestion(r, text, intent, sure)
           \/ HearInVain(r, text, intent, sure)
           \/ HearUnsure(r, text, intent, sure)
    PROVE  DialogueInv'
<1>1. socket[r] \in Socket /\ SlotsOK(socket[r]) /\ socket[r].user \in Users
  BY OpenFields DEF OnStep, Open
<1>2. SupportsTyped /\ SlotsOK(WithoutSlots(r))
  BY <1>1 DEF DialogueInv, DialogueTypeOK, SupportsTyped, WithoutSlots, SlotsOK, Socket
<1>3. ASSUME NEW f \in Socket, Converse(r, f), f.step = "replying",
             Follows(f, socket[r]), SlotsOK(f),
             UNCHANGED <<vars, opened, readBack, told>>, SupportsTyped'
      PROVE  DialogueInv'
  BY <1>3, AnswerInv
<1>4. CASE HearAboutSearch(r, intent)
  <2>1. PICK failed \in BOOLEAN :
           Converse(r, Answered([socket[r] EXCEPT !.search = FALSE,
                                                  !.poisoned = @ \/ failed], "other"))
    BY <1>4 DEF HearAboutSearch
  <2>2. PICK f : f = Answered([socket[r] EXCEPT !.search = FALSE,
                                                !.poisoned = @ \/ failed], "other")
    OBVIOUS
  <2>3. socket[r].poisoned \/ failed \in BOOLEAN
    OBVIOUS
  <2>4. f \in Socket /\ f.step = "replying" /\ Follows(f, socket[r]) /\ SlotsOK(f)
    BY <1>1, <2>2, <2>3 DEF Answered, Socket, SocketSteps, Replies, Follows, SlotsOK
  <2> QED BY <1>2, <1>3, <1>4, <2>1, <2>2, <2>4 DEF HearAboutSearch, Unheard, SupportsTyped
<1>5. ASSUME NEW q \in {socket[r], WithoutSlots(r)}, NEW reply \in Replies,
             Converse(r, Answered(q, reply)),
             UNCHANGED <<vars, opened, readBack, told>>, SupportsTyped'
      PROVE  DialogueInv'
  <2>1. PICK f : f = Answered(q, reply)
    OBVIOUS
  <2>2. f \in Socket /\ f.step = "replying" /\ Follows(f, socket[r]) /\ SlotsOK(f)
    BY <1>1, <1>2, <2>1
       DEF Answered, WithoutSlots, Socket, SocketSteps, Follows, SlotsOK
  <2> QED BY <1>3, <1>5, <2>1, <2>2
<1>6. CASE HearNothingPending(r, intent)
  BY <1>2, <1>5, <1>6 DEF HearNothingPending, Say, Unheard, SupportsTyped, Replies
<1>7. CASE HearDrop(r, intent)
  BY <1>2, <1>5, <1>7 DEF HearDrop, WithoutSlots, Unheard, SupportsTyped, Replies
<1>8. CASE HearHuman(r, text, intent)
  <2>1. SupportsTyped'
    <3>1. WorkspaceOf[socket[r].user] \in Workspaces
      BY <1>1, ConfirmationsAssumption
    <3> QED BY <1>1, <1>2, <1>8, <3>1 DEF HearHuman, SupportsTyped
  <2> QED BY <1>5, <1>8, <2>1 DEF HearHuman, Replies
<1>9. CASE HearQuestion(r, text, intent, sure)
  BY <1>2, <1>5, <1>9 DEF HearQuestion, Unheard, SupportsTyped, Replies
<1>10. CASE HearInVain(r, text, intent, sure)
  <2>1. PICK f : f = Answered([WithoutSlots(r) EXCEPT !.poisoned = TRUE], "failed")
    OBVIOUS
  <2>2. f \in Socket /\ f.step = "replying" /\ Follows(f, socket[r]) /\ SlotsOK(f)
    BY <1>1, <2>1
       DEF Answered, WithoutSlots, Socket, SocketSteps, Replies, Follows, SlotsOK
  <2> QED BY <1>2, <1>3, <1>10, <2>1, <2>2 DEF HearInVain, Unheard, SupportsTyped
<1>11. CASE HearUnsure(r, text, intent, sure)
  <2>1. CASE Converse(r, Answered(WithoutSlots(r), "other"))
    BY <1>2, <1>5, <1>11, <2>1 DEF HearUnsure, Unheard, SupportsTyped, Replies
  <2>2. CASE Converse(r, Answered([WithoutSlots(r) EXCEPT !.search = TRUE], "search"))
    <3>1. PICK f : f = Answered([WithoutSlots(r) EXCEPT !.search = TRUE], "search")
      OBVIOUS
    <3>2. f \in Socket /\ f.step = "replying" /\ Follows(f, socket[r]) /\ SlotsOK(f)
      BY <1>1, <3>1
         DEF Answered, WithoutSlots, Socket, SocketSteps, Replies, Follows, SlotsOK
    <3> QED BY <1>2, <1>3, <1>11, <2>2, <3>1, <3>2 DEF HearUnsure, Unheard, SupportsTyped
  <2> QED BY <1>11, <2>1, <2>2 DEF HearUnsure
<1> QED BY <1>4, <1>6, <1>7, <1>8, <1>9, <1>10, <1>11

\* A complete enquiry, one that lacks its destination, or neither.
LEMMA HearEnquiryInv ==
    ASSUME DialogueInv, UNCHANGED vars \/ Next, NEW r \in Requests,
           OnStep(r, "listening"), MessagesTyped', NEW text \in Utterances,
           NEW intent, HearEnquiry(r, text, intent)
    PROVE  DialogueInv'
<1>1. socket[r] \in Socket
  BY OpenFields DEF OnStep, Open
<1>2. PICK q : q = WithoutSlots(r)
  OBVIOUS
<1>3. /\ q \in Socket /\ q.user = socket[r].user /\ q.session = socket[r].session
      /\ q.pending = socket[r].pending /\ q.id = socket[r].id /\ q.slots = Nothing
  BY <1>1, <1>2 DEF WithoutSlots, Socket
<1>4. CASE Propose(r, WithoutSlots(r), Draft(Extraction[text]))
  <2>1. SlotsOK(q)
    BY <1>3 DEF SlotsOK
  <2> QED BY <1>2, <1>3, <1>4, <2>1, ProposeInv
<1>5. CASE /\ Partial(Extraction[text])
           /\ Converse(r, Answered([WithoutSlots(r) EXCEPT
                                       !.slots = Draft(Extraction[text])], "where"))
           /\ UNCHANGED vars /\ Unheard
  <2>1. PICK f : f = Answered([q EXCEPT !.slots = Draft(Extraction[text])], "where")
    OBVIOUS
  <2>2. Draft(Extraction[text]) \in Drafts
    BY DEF Drafts
  <2>3. /\ f \in Socket /\ f.step = "replying" /\ Follows(f, socket[r])
        /\ f.slots = Draft(Extraction[text])
    BY <1>3, <2>1, <2>2 DEF Answered, Socket, SocketSteps, Replies, Follows
  <2>4. SlotsOK(f)
    BY <1>5, <2>3 DEF SlotsOK
  <2>5. UNCHANGED <<vars, opened, readBack, told>> /\ SupportsTyped'
    BY <1>5 DEF Unheard, SupportsTyped, DialogueInv, DialogueTypeOK
  <2> QED BY <1>2, <1>5, <2>1, <2>3, <2>4, <2>5, AnswerInv
<1>6. CASE /\ Converse(r, Answered(WithoutSlots(r), "other"))
           /\ UNCHANGED vars /\ Unheard
  <2>1. PICK f : f = Answered(q, "other")
    OBVIOUS
  <2>2. /\ f \in Socket /\ f.step = "replying" /\ Follows(f, socket[r])
        /\ SlotsOK(f)
    BY <1>3, <2>1 DEF Answered, Socket, SocketSteps, Replies, Follows, SlotsOK
  <2>3. UNCHANGED <<vars, opened, readBack, told>> /\ SupportsTyped'
    BY <1>6 DEF Unheard, SupportsTyped, DialogueInv, DialogueTypeOK
  <2> QED BY <1>2, <1>6, <2>1, <2>2, <2>3, AnswerInv
<1> QED BY <1>4, <1>5, <1>6 DEF HearEnquiry

\* Hear keeps the invariant.
LEMMA HearInv ==
    ASSUME DialogueInv, UNCHANGED vars \/ Next, NEW r \in Requests, Hear(r)
    PROVE  DialogueInv'
<1>1. OnStep(r, "listening")
  BY DEF Hear, Hears
<1>2. MessagesTyped'
  BY DialogueAssumption DEF Hear, MessagesTyped, DialogueInv, DialogueTypeOK
<1>3. PICK text \in Utterances, s \in Selected :
         LET intent == Intent[text][s] IN
         \/ HearConfirm(r, intent) \/ HearCancel(r, intent)
         \/ HearAboutSearch(r, intent) \/ HearNothingPending(r, intent)
         \/ HearDrop(r, intent)
         \/ HearSlots(r, text, intent)
         \/ HearEnquiry(r, text, intent)
         \/ HearHuman(r, text, intent)
         \/ HearQuestion(r, text, intent, Sure[text][s])
         \/ HearInVain(r, text, intent, Sure[text][s])
         \/ HearUnsure(r, text, intent, Sure[text][s])
  BY DEF Hear
<1> DEFINE intent == Intent[text][s]
           sure == Sure[text][s]
<1> HIDE DEF intent, sure
<1>4. CASE HearSlots(r, text, intent)
  <2>1. socket[r] \in Socket
    BY <1>1, OpenFields DEF OnStep, Open
  <2>2. PICK q, draft :
           /\ q = WithoutSlots(r)
           /\ draft = IF Restated(text) THEN Draft(Extraction[text])
                      ELSE [socket[r].slots EXCEPT !.destination = PlaceIn(text)]
    OBVIOUS
  <2>3. /\ q \in Socket /\ q.user = socket[r].user
        /\ q.session = socket[r].session /\ q.pending = socket[r].pending
        /\ q.id = socket[r].id /\ SlotsOK(q)
    BY <2>1, <2>2 DEF WithoutSlots, Socket, SlotsOK
  <2>4. Propose(r, q, draft)
    BY <1>4, <2>2 DEF HearSlots
  <2> QED BY <1>1, <1>2, <2>3, <2>4, ProposeInv
<1>5. CASE \/ HearAboutSearch(r, intent) \/ HearNothingPending(r, intent)
           \/ HearDrop(r, intent) \/ HearHuman(r, text, intent)
           \/ HearQuestion(r, text, intent, sure)
           \/ HearInVain(r, text, intent, sure)
           \/ HearUnsure(r, text, intent, sure)
  BY <1>1, <1>2, <1>5, HearQuietlyInv
<1>6. CASE HearConfirm(r, intent) \/ HearCancel(r, intent)
  BY <1>1, <1>2, <1>6, HearConfirmInv, HearCancelInv
<1>7. CASE HearEnquiry(r, text, intent)
  BY <1>1, <1>2, <1>7, HearEnquiryInv
<1> QED BY <1>3, <1>4, <1>5, <1>6, <1>7 DEF intent, sure

-----------------------------------------------------------------------------
(* What the answers of the service leave of the invariant.                  *)

\* A function has returned: what a step that takes its answer has in common.
LEMMA ServedFields ==
    ASSUME DialogueInv, NEW r \in Requests, Served(r), Open(socket[r]),
           Resume(r), UNCHANGED messages
    PROVE  /\ UNCHANGED vars \/ Next
           /\ UNCHANGED tables /\ LocksMove(r) /\ Become(r, NoRequest)
           /\ NoRequest.step = "idle" /\ MessagesTyped'
<1>1. request'[r] = NoRequest
  BY DEF Resume, Become, DialogueInv, Inv, TypeOK
<1>2. LocksMove(r)
  BY <1>1, LocksStay DEF Resume, NoRequest, LockSteps, Served
<1>3. MessagesTyped'
  BY DEF MessagesTyped, DialogueInv, DialogueTypeOK
<1> QED BY <1>2, <1>3, ResumeUses DEF Resume, NoRequest

\* ProposalReady keeps the invariant.
LEMMA ProposalReadyInv ==
    ASSUME DialogueInv, NEW r \in Requests, ProposalReady(r), UNCHANGED messages
    PROVE  DialogueInv'
<1>1. PICK q, t : q = socket[r] /\ t = request[r]
  OBVIOUS
<1>2. q.step = "preparing" /\ Open(socket[r]) /\ Served(r) /\ Resume(r)
  BY <1>1 DEF ProposalReady, OnStep, Open
<1>3. /\ q \in Socket /\ SlotsOK(q) /\ q.session \in Sessions
      /\ ProposalOf(q, t.id, t.payload, "pending")
  BY <1>1, <1>2, OpenFields DEF Serving, Served
<1>4. t.payload \in Payloads /\ t.id \in ConfirmationIds
  BY <1>3 DEF ProposalOf, DialogueInv, Inv, TypeOK, Confirmation
<1>5. PICK f : f = Answered([q EXCEPT !.pending = t.payload, !.id = t.id], "read_back")
  OBVIOUS
<1>6. /\ f \in Socket /\ f.step = "replying" /\ f.user = q.user
      /\ f.session = q.session /\ f.slots = q.slots
      /\ f.pending = t.payload /\ f.id = t.id
  BY <1>3, <1>4, <1>5 DEF Answered, Socket, SocketSteps, Replies
<1>7. SlotsOK(f) /\ Open(f)
  BY <1>3, <1>6 DEF SlotsOK, Open
<1>8. (f.pending = Nothing) <=> (f.id = Nothing)
  BY <1>4, <1>6, ConfirmationsAssumption
<1>9. readBack' = [readBack EXCEPT ![q.session] = t.payload]
      /\ readBack \in [Sessions -> Payloads \cup {Nothing}]
  BY <1>1 DEF ProposalReady, DialogueInv, DialogueTypeOK
<1>10. /\ readBack' \in [Sessions -> Payloads \cup {Nothing}]
       /\ readBack'[q.session] = t.payload
       /\ \A s \in Sessions : readBack'[s] # readBack[s] => s = socket[r].session
  BY <1>1, <1>3, <1>4, <1>9
<1>11. UNCHANGED tables /\ LocksMove(r) /\ Become(r, NoRequest)
       /\ NoRequest.step = "idle" /\ MessagesTyped' /\ (UNCHANGED vars \/ Next)
  BY <1>2, ServedFields
<1>12. Serving(f, NoRequest)'
  <2>1. PendingOf(f, "pending")'
    BY <1>3, <1>4, <1>6, <1>10, <1>11 DEF PendingOf, ProposalOf, tables
  <2> QED BY <1>6, <2>1 DEF Serving
<1>13. UNCHANGED <<opened, told>> /\ Converse(r, f) /\ told \in Told /\ SupportsTyped'
  BY <1>1, <1>5 DEF ProposalReady, DialogueInv, DialogueTypeOK, SupportsTyped, Told
<1> QED BY <1>1, <1>2, <1>6, <1>7, <1>8, <1>10, <1>11, <1>12, <1>13, SocketMoves
       DEF SupportsTyped, MessagesTyped

\* ConfirmAnswered keeps the invariant.
LEMMA ConfirmAnsweredInv ==
    ASSUME DialogueInv, NEW r \in Requests, ConfirmAnswered(r), UNCHANGED messages
    PROVE  DialogueInv'
<1>1. PICK q, t : q = socket[r] /\ t = request[r]
  OBVIOUS
<1>2. q.step = "confirming" /\ Open(socket[r]) /\ Served(r) /\ Resume(r)
  BY <1>1 DEF ConfirmAnswered, OnStep, Open
<1>3. /\ q \in Socket /\ SlotsOK(q) /\ Serving(q, t)
      /\ (q.pending = Nothing) <=> (q.id = Nothing)
  BY <1>1, <1>2, OpenFields
<1>4. UNCHANGED tables /\ LocksMove(r) /\ Become(r, NoRequest)
      /\ NoRequest.step = "idle" /\ MessagesTyped' /\ (UNCHANGED vars \/ Next)
  BY <1>2, ServedFields
<1>5. UNCHANGED <<opened, readBack, told>> /\ SupportsTyped'
  BY DEF ConfirmAnswered, Unheard, DialogueInv, DialogueTypeOK, SupportsTyped
<1>6. ASSUME NEW f \in Socket, Converse(r, f), Open(f), f.user = q.user,
             f.session = q.session, SlotsOK(f), Serving(f, NoRequest),
             (f.pending = Nothing) <=> (f.id = Nothing)
      PROVE  DialogueInv'
  BY <1>1, <1>2, <1>4, <1>5, <1>6, SocketMovesQuietly DEF SupportsTyped, MessagesTyped
<1>7. CASE Converse(r, Answered(Forget(q), "expired"))
  <2>1. PICK f : f = Answered(Forget(q), "expired")
    OBVIOUS
  <2>2. /\ f \in Socket /\ f.step = "replying" /\ f.user = q.user
        /\ f.session = q.session /\ f.slots = q.slots
        /\ f.pending = Nothing /\ f.id = Nothing
    BY <1>3, <2>1 DEF Answered, Forget, Socket, SocketSteps, Replies
  <2>3. SlotsOK(f) /\ Open(f) /\ Serving(f, NoRequest)
    BY <1>3, <2>2 DEF SlotsOK, Open, Serving
  <2> QED BY <1>6, <1>7, <2>1, <2>2, <2>3
<1>8. CASE t.result = "confirmed" /\ Converse(r, [q EXCEPT !.step = "tool"])
  <2>1. PICK f : f = [q EXCEPT !.step = "tool"]
    OBVIOUS
  <2>2. /\ f \in Socket /\ f.step = "tool" /\ f.user = q.user
        /\ f.session = q.session /\ f.slots = q.slots
        /\ f.pending = q.pending /\ f.id = q.id
    BY <1>3, <2>1 DEF Socket, SocketSteps
  <2>3. PendingOf(q, "confirmed")
    BY <1>1, <1>2, <1>3, <1>8 DEF Serving, Served
  <2>4. PendingOf(f, "confirmed")
    BY <2>2, <2>3 DEF PendingOf, ProposalOf
  <2>5. SlotsOK(f) /\ Open(f) /\ Serving(f, NoRequest)
    BY <1>3, <2>2, <2>4 DEF SlotsOK, Open, Serving
  <2>6. (f.pending = Nothing) <=> (f.id = Nothing)
    BY <1>3, <2>2
  <2> QED BY <1>6, <1>8, <2>1, <2>2, <2>5, <2>6
<1> QED BY <1>1, <1>7, <1>8 DEF ConfirmAnswered

\* The socket forgets what was pending, and tells what became of it.
LEMMA ForgottenInv ==
    ASSUME DialogueInv, NEW r \in Requests, Served(r), Resume(r),
           OnStep(r, "cancelling") \/ OnStep(r, "creating"), UNCHANGED messages,
           NEW reply \in Replies, Converse(r, Answered(Forget(socket[r]), reply)),
           UNCHANGED <<opened, supports, supportNext, readBack>>, told' \in Told,
           \A c \in told'.cancelled \ told.cancelled :
               confirmations[c].status = "cancelled",
           \A t \in told'.created \ told.created : EnquiryOf(t)
    PROVE  DialogueInv'
<1>1. Open(socket[r])
  BY DEF OnStep, Open
<1>2. PICK f : f = Answered(Forget(socket[r]), reply)
  OBVIOUS
<1>3. socket[r] \in Socket /\ SlotsOK(socket[r])
  BY <1>1, OpenFields
<1>4. /\ f \in Socket /\ f.step = "replying" /\ f.user = socket[r].user
      /\ f.session = socket[r].session /\ f.slots = socket[r].slots
      /\ f.pending = Nothing /\ f.id = Nothing
  BY <1>2, <1>3 DEF Answered, Forget, Socket, SocketSteps
<1>5. SlotsOK(f) /\ Open(f) /\ Serving(f, NoRequest)'
  BY <1>3, <1>4 DEF SlotsOK, Open, Serving
<1>6. UNCHANGED tables /\ LocksMove(r) /\ Become(r, NoRequest)
      /\ NoRequest.step = "idle" /\ MessagesTyped' /\ (UNCHANGED vars \/ Next)
  BY <1>1, ServedFields
<1>7. SupportsTyped' /\ readBack \in [Sessions -> Payloads \cup {Nothing}]
  BY DEF DialogueInv, DialogueTypeOK, SupportsTyped
<1> QED BY <1>1, <1>2, <1>4, <1>5, <1>6, <1>7, SocketMoves
       DEF SupportsTyped, MessagesTyped

\* CancelAnswered keeps the invariant.
LEMMA CancelAnsweredInv ==
    ASSUME DialogueInv, NEW r \in Requests, CancelAnswered(r), UNCHANGED messages
    PROVE  DialogueInv'
<1>1. Open(socket[r]) /\ OnStep(r, "cancelling") /\ Served(r)
  BY DEF CancelAnswered, OnStep, Open
<1>2. PendingOf(socket[r], "cancelled")
  BY <1>1, OpenFields DEF Serving, OnStep, Served
<1>3. /\ socket[r].id \in ConfirmationIds
      /\ confirmations[socket[r].id].status = "cancelled"
  BY <1>2 DEF PendingOf, ProposalOf
<1>4. told \in Told
  BY DEF DialogueInv, Told
<1>5. /\ told' \in Told /\ told'.created = told.created
      /\ told'.cancelled = told.cancelled \cup {socket[r].id}
  BY <1>3, <1>4 DEF CancelAnswered, Told
<1> QED BY <1>1, <1>3, <1>5, ForgottenInv DEF CancelAnswered, Replies

\* EnquiryAnswered keeps the invariant.
LEMMA EnquiryAnsweredInv ==
    ASSUME DialogueInv, NEW r \in Requests, EnquiryAnswered(r), UNCHANGED messages
    PROVE  DialogueInv'
<1>1. Open(socket[r]) /\ OnStep(r, "creating") /\ Served(r)
  BY DEF EnquiryAnswered, OnStep, Open
<1>2. told \in Told
  BY DEF DialogueInv, Told
<1>3. CASE ~Created(r)
  BY <1>1, <1>2, <1>3, ForgottenInv DEF EnquiryAnswered, Replies
<1>4. CASE Created(r)
  <2>1. request[r].result = "created" /\ EnquiryOf(request[r])
        /\ PendingOf(socket[r], "consumed")
        /\ request[r].payload = socket[r].pending
        /\ request[r].id = socket[r].id /\ request[r].user = socket[r].user
    BY <1>1, <1>4, OpenFields DEF Serving, OnStep, Served, Created
  <2>2. PICK t : t = Creation(r)
    OBVIOUS
  <2>3. /\ t.id = request[r].id /\ t.number = request[r].number
        /\ t.payload = request[r].payload /\ t.user = request[r].user
    BY <2>2 DEF Creation
  <2>4. t \in [id : ConfirmationIds, number : Nat, payload : Payloads, user : Users]
    <3>1. request[r].number \in Nat
      BY DEF DialogueInv, Inv, TypeOK, Request
    <3> QED BY <1>1, <2>1, <2>2, <3>1, OpenFields DEF Creation, PendingOf, ProposalOf
  <2>5. EnquiryOf(t)
    BY <2>1, <2>3 DEF EnquiryOf
  <2>6. /\ told' \in Told /\ told'.cancelled = told.cancelled
        /\ told'.created = told.created \cup {t}
    BY <1>2, <1>4, <2>2, <2>4 DEF EnquiryAnswered, Told
  <2> QED BY <1>1, <1>4, <2>5, <2>6, ForgottenInv DEF EnquiryAnswered, Replies
<1> QED BY <1>3, <1>4

-----------------------------------------------------------------------------
(* What the statements of the service leave of the invariant.               *)

\* Which function the request of an open socket is in, and how its row stands.
LEMMA InService ==
    ASSUME DialogueInv, NEW r \in Requests, ~OnStep(r, "dead"),
           request[r].step \notin {"idle", "done"}
    PROVE  LET q == socket[r]
               t == request[r] IN
           /\ Open(q)
           /\ t.step = "prepare_insert" =>
                 q.step = "preparing" /\ t.user = q.user /\ t.session = q.session
           /\ t.step \in {"confirm_check", "confirm_expire", "confirm_write"} =>
                 q.step = "confirming" /\ PendingOf(q, "pending") /\ t.id = q.id
           /\ t.step = "cancel_write" =>
                 q.step = "cancelling" /\ PendingOf(q, "pending") /\ t.id = q.id
           /\ t.step \in {"consume_lock", "consume_examine", "consume_expire",
                          "consume_number", "consume_commit"} =>
                 /\ q.step = "creating" /\ PendingOf(q, "confirmed") /\ t.id = q.id
                 /\ t.user = q.user /\ t.payload = q.pending
           /\ t.step = "consume_examine" => t.seen = "confirmed"
<1>1. PICK q, t : q = socket[r] /\ t = request[r]
  OBVIOUS
<1>2. q.step \in SocketSteps /\ q.step # "dead"
  BY <1>1 DEF DialogueInv, DialogueTypeOK, Socket, OnStep
<1>3. q.step # "closed"
  BY <1>1 DEF DialogueInv, SocketOK, NoRequest
<1>4. Open(q) /\ Serving(q, t)
  BY <1>1, <1>2, <1>3, OpenFields DEF Open
<1>5. q.step \notin {"listening", "tool", "replying"}
  BY <1>1, <1>4 DEF Serving, NoRequest
<1>6. q.step \in {"preparing", "confirming", "cancelling", "creating"}
  BY <1>2, <1>3, <1>5 DEF SocketSteps
<1> QED BY <1>1, <1>4, <1>6 DEF Serving

\* A statement for socket r, which waits for its function.
LEMMA StatementInv ==
    ASSUME DialogueInv, UNCHANGED vars \/ Next, NEW r \in Requests,
           UNCHANGED conversation, Open(socket[r]), RowsMove(r), LocksMove(r),
           \A e \in enquiries' \ enquiries :
               confirmations'[e.confirmation].status = "consumed",
           NEW g, Become(r, g), g.step # "idle",
           Serving(socket[r], g)'
    PROVE  DialogueInv'
<1>1. request'[r] = g /\ \A q \in Requests \ {r} : request'[q] = request[q]
  BY DEF Become, DialogueInv, Inv, TypeOK
<1>2. StepFor(r)
  BY <1>1 DEF StepFor, conversation
<1>3. SocketOK(r)'
  <2>1. SocketOK(r)
    BY DEF DialogueInv
  <2>2. Serving(socket[r], request[r])'
    BY <1>1
  <2> QED BY <1>1, <2>1, <2>2 DEF SocketOK, conversation, Open
<1>4. DialogueTypeOK' /\ told' \in Told
  BY DEF DialogueInv, DialogueTypeOK, conversation, Told
<1> QED BY <1>2, <1>3, <1>4, StepInv DEF conversation

\* The row of the proposal that is pending gets another status.
LEMMA PendingRow ==
    ASSUME DialogueInv, NEW r \in Requests, UNCHANGED conversation,
           Open(socket[r]), NEW old \in {"pending", "confirmed"},
           PendingOf(socket[r], old), NEW row, SetRow(socket[r].id, row),
           row.user = confirmations[socket[r].id].user,
           row.session = confirmations[socket[r].id].session,
           row.payload = confirmations[socket[r].id].payload,
           row.status \in Status
    PROVE  RowsMove(r) /\ PendingOf(socket[r], row.status)'
<1>1. PICK q : q = socket[r]
  OBVIOUS
<1>2. q.id \in ConfirmationIds /\ confirmations[q.id].session = q.session
      /\ confirmations[q.id].status = old /\ confirmations[q.id].user = q.user
      /\ confirmations[q.id].payload = q.pending
  BY <1>1 DEF PendingOf, ProposalOf
<1>3. /\ confirmations'[q.id] = row
      /\ \A c \in ConfirmationIds \ {q.id} : confirmations'[c] = confirmations[c]
  BY <1>1, <1>2 DEF SetRow, DialogueInv, Inv, TypeOK
<1>4. RowsMove(r)
  BY <1>1, <1>2, <1>3 DEF RowsMove
<1>5. row # NoRow
  BY DEF NoRow, Status
<1>6. PendingOf(q, row.status)'
  BY <1>1, <1>2, <1>3, <1>5 DEF PendingOf, ProposalOf, conversation
<1>7. socket'[r] = q
  BY <1>1 DEF conversation
<1> QED BY <1>4, <1>6, <1>7

\* The proposal is inserted.
LEMMA PrepareInsertKeeps ==
    ASSUME DialogueInv, UNCHANGED vars \/ Next, NEW r \in Requests,
           ~OnStep(r, "dead"), PrepareInsert(r), UNCHANGED conversation
    PROVE  DialogueInv'
<1>1. PICK q, t, g : q = socket[r] /\ t = request[r] /\ g = Finished(t, "prepared")
  OBVIOUS
<1>2. /\ Open(q) /\ q.step = "preparing" /\ t.step = "prepare_insert"
      /\ t.user = q.user /\ t.session = q.session
  BY <1>1, InService DEF PrepareInsert
<1>3. Serving(q, t) /\ t \in Request
  BY <1>1, <1>2, OpenFields
<1>4. t.id \in ConfirmationIds /\ confirmations[t.id] = NoRow
  BY <1>1, <1>2 DEF DialogueInv, Inv, RequestOK
<1>5. /\ g.step = "done" /\ g.id = t.id /\ g.payload = t.payload /\ g.user = t.user
  BY <1>1, <1>3 DEF Finished, Request
<1>6. /\ confirmations'[t.id] = NewRow(t)
      /\ \A c \in ConfirmationIds \ {t.id} : confirmations'[c] = confirmations[c]
  BY <1>1, <1>4 DEF PrepareInsert, SetRow, DialogueInv, Inv, TypeOK
<1>7. RowsMove(r)
  BY <1>4, <1>6 DEF RowsMove
<1>8. ProposalOf(q, g.id, g.payload, "pending")'
  <2>1. NewRow(t) # NoRow
    BY DEF NewRow, NoRow
  <2> QED BY <1>2, <1>4, <1>5, <1>6, <2>1 DEF ProposalOf, NewRow
<1>9. Serving(q, g)'
  <2>1. PendingOf(q, "pending") => PendingOf(q, "pending")'
    <3> HAVE PendingOf(q, "pending")
    <3>1. q.id \in ConfirmationIds \ {t.id}
      BY <1>4 DEF PendingOf, ProposalOf
    <3> QED BY <1>6, <3>1 DEF PendingOf, ProposalOf, conversation
  <2> QED BY <1>2, <1>3, <1>5, <1>8, <2>1 DEF Serving
<1>10. LocksMove(r) /\ Become(r, g)
  <2>1. Become(r, g)
    BY <1>1 DEF PrepareInsert, Finish
  <2>2. request'[r] = g
    BY <2>1 DEF Become, DialogueInv, Inv, TypeOK
  <2> QED BY <1>1, <1>2, <1>5, <2>1, <2>2, LocksStay DEF PrepareInsert, LockSteps
<1>11. socket'[r] = q
  BY <1>1 DEF conversation
<1>12. enquiries' = enquiries
  BY DEF PrepareInsert
<1> QED BY <1>1, <1>2, <1>5, <1>7, <1>9, <1>10, <1>11, <1>12, StatementInv

\* A statement of a function that has no locks yet, and takes none.
LEMMA UnlockedStatementInv ==
    ASSUME DialogueInv, UNCHANGED vars \/ Next, NEW r \in Requests,
           UNCHANGED <<conversation, locks, enquiries>>, Open(socket[r]), RowsMove(r),
           request[r].step \notin LockSteps,
           NEW g, Become(r, g), g.step \notin LockSteps \cup {"idle"},
           Serving(socket[r], g)'
    PROVE  DialogueInv'
<1>1. request'[r] = g
  BY DEF Become, DialogueInv, Inv, TypeOK
<1>2. LocksMove(r)
  BY <1>1, LocksStay
<1> QED BY <1>2, StatementInv

\* The steps of confirm_confirmation keep the invariant.
LEMMA ConfirmKeeps ==
    ASSUME DialogueInv, UNCHANGED vars \/ Next, NEW r \in Requests,
           ~OnStep(r, "dead"), ConfirmCheck(r) \/ ConfirmExpire(r) \/ ConfirmWrite(r),
           UNCHANGED conversation
    PROVE  DialogueInv'
<1>1. PICK q, t : q = socket[r] /\ t = request[r]
  OBVIOUS
<1>2. t.step \in {"confirm_check", "confirm_expire", "confirm_write"}
  BY <1>1 DEF ConfirmCheck, ConfirmExpire, ConfirmWrite
<1>3. /\ Open(q) /\ q.step = "confirming" /\ t.id = q.id /\ PendingOf(q, "pending")
  BY <1>1, <1>2, InService
<1>4. t \in Request /\ t.user = q.user
  BY <1>1, <1>3, OpenFields DEF Serving
<1>5. /\ q.id \in ConfirmationIds /\ confirmations[q.id] \in Confirmation
      /\ socket'[r] = q
  BY <1>1, <1>3 DEF PendingOf, ProposalOf, conversation, DialogueInv, Inv, TypeOK
<1>6. t.step \notin LockSteps /\ UNCHANGED <<locks, enquiries>>
  BY <1>2 DEF LockSteps, ConfirmCheck, ConfirmExpire, ConfirmWrite, tables
<1>7. ASSUME NEW g, Become(r, g), g.step \in {"confirm_expire", "confirm_write"},
             g.user = t.user, g.id = t.id, UNCHANGED tables
      PROVE  DialogueInv'
  <2>1. RowsMove(r)
    BY <1>7 DEF RowsMove, tables
  <2>2. PendingOf(q, "pending")'
    BY <1>3, <1>7 DEF PendingOf, ProposalOf, tables, conversation
  <2>3. Serving(q, g)'
    BY <1>3, <1>4, <1>7, <2>2 DEF Serving
  <2>4. g.step \notin LockSteps \cup {"idle"}
    BY <1>7 DEF LockSteps
  <2> QED BY <1>1, <1>3, <1>5, <1>6, <1>7, <2>1, <2>3, <2>4, UnlockedStatementInv
<1>8. CASE ConfirmCheck(r)
  <2>1. CASE Goto(r, "confirm_expire")
    <3>1. PICK g : g = At(t, "confirm_expire")
      OBVIOUS
    <3>2. g.step = "confirm_expire" /\ g.user = t.user /\ g.id = t.id
      BY <1>4, <3>1 DEF At, Request
    <3> QED BY <1>1, <1>7, <1>8, <2>1, <3>1, <3>2 DEF Goto, ConfirmCheck
  <2>2. CASE Become(r, [At(request[r], "confirm_write") EXCEPT !.stamp = now])
    <3>1. PICK g : g = [At(t, "confirm_write") EXCEPT !.stamp = now]
      OBVIOUS
    <3>2. g.step = "confirm_write" /\ g.user = t.user /\ g.id = t.id
      BY <1>4, <3>1 DEF At, Request
    <3> QED BY <1>1, <1>7, <1>8, <2>2, <3>1, <3>2 DEF ConfirmCheck
  <2> QED BY <1>8, <2>1, <2>2 DEF ConfirmCheck
<1>9. ASSUME NEW row, SetRow(q.id, row), row.user = confirmations[q.id].user,
             row.session = confirmations[q.id].session,
             row.payload = confirmations[q.id].payload,
             NEW g, Become(r, g), g.step = "done", g.user = t.user, g.id = t.id,
             \/ row.status = "confirmed" /\ g.result = "confirmed"
             \/ row.status = "expired" /\ g.result = "not_confirmed"
      PROVE  DialogueInv'
  <2>1. row.status \in Status
    BY <1>9 DEF Status
  <2>2. RowsMove(r) /\ PendingOf(q, row.status)'
    BY <1>1, <1>3, <1>5, <1>9, <2>1, PendingRow
  <2>3. Serving(q, g)'
    BY <1>3, <1>4, <1>9, <2>2 DEF Serving
  <2>4. g.step \notin LockSteps \cup {"idle"}
    BY <1>9 DEF LockSteps
  <2> QED BY <1>1, <1>3, <1>5, <1>6, <1>9, <2>2, <2>3, <2>4, UnlockedStatementInv
<1>10. CASE ConfirmExpire(r)
  <2>1. PICK g, row : /\ g = Finished(t, "not_confirmed")
                      /\ row = [confirmations[q.id] EXCEPT !.status = "expired"]
    OBVIOUS
  <2>2. /\ g.step = "done" /\ g.user = t.user /\ g.id = t.id
        /\ g.result = "not_confirmed"
    BY <1>4, <2>1 DEF Finished, Request
  <2>3. /\ row.status = "expired" /\ row.user = confirmations[q.id].user
        /\ row.session = confirmations[q.id].session
        /\ row.payload = confirmations[q.id].payload
    BY <1>5, <2>1 DEF Confirmation
  <2> QED BY <1>1, <1>3, <1>9, <1>10, <2>1, <2>2, <2>3
          DEF ConfirmExpire, SetStatus, Finish
<1>11. CASE ConfirmWrite(r)
  <2>1. PICK g, row : /\ g = Finished(t, "confirmed")
                      /\ row = [confirmations[q.id] EXCEPT !.status = "confirmed",
                                                           !.confirmedAt = t.stamp]
    OBVIOUS
  <2>2. /\ g.step = "done" /\ g.user = t.user /\ g.id = t.id
        /\ g.result = "confirmed"
    BY <1>4, <2>1 DEF Finished, Request
  <2>3. /\ row.status = "confirmed" /\ row.user = confirmations[q.id].user
        /\ row.session = confirmations[q.id].session
        /\ row.payload = confirmations[q.id].payload
    BY <1>5, <2>1 DEF Confirmation
  <2> QED BY <1>1, <1>3, <1>9, <1>11, <2>1, <2>2, <2>3 DEF ConfirmWrite, Finish
<1> QED BY <1>8, <1>10, <1>11

\* CancelWrite keeps the invariant.
LEMMA CancelWriteKeeps ==
    ASSUME DialogueInv, UNCHANGED vars \/ Next, NEW r \in Requests,
           ~OnStep(r, "dead"), CancelWrite(r), UNCHANGED conversation
    PROVE  DialogueInv'
<1>1. PICK q, t : q = socket[r] /\ t = request[r]
  OBVIOUS
<1>2. /\ Open(q) /\ q.step = "cancelling" /\ t.id = q.id /\ PendingOf(q, "pending")
  BY <1>1, InService DEF CancelWrite
<1>3. t \in Request /\ t.user = q.user
  BY <1>1, <1>2, OpenFields DEF Serving
<1>4. /\ q.id \in ConfirmationIds /\ confirmations[q.id] \in Confirmation
      /\ socket'[r] = q
  BY <1>1, <1>2 DEF PendingOf, ProposalOf, conversation, DialogueInv, Inv, TypeOK
<1>5. PICK g, row : /\ g = Finished(t, "cancelled")
                    /\ row = [confirmations[q.id] EXCEPT !.status = "cancelled"]
  OBVIOUS
<1>6. g.step = "done" /\ g.user = t.user /\ g.id = t.id
  BY <1>3, <1>5 DEF Finished, Request
<1>7. /\ row.status = "cancelled" /\ row.user = confirmations[q.id].user
      /\ row.session = confirmations[q.id].session
      /\ row.payload = confirmations[q.id].payload
  BY <1>4, <1>5 DEF Confirmation
<1>8. SetRow(q.id, row) /\ Become(r, g) /\ row.status \in Status
  BY <1>1, <1>2, <1>5, <1>7 DEF CancelWrite, SetStatus, Finish, Status
<1>9. RowsMove(r) /\ PendingOf(q, "cancelled")'
  BY <1>1, <1>2, <1>4, <1>7, <1>8, PendingRow
<1>10. Serving(q, g)'
  BY <1>2, <1>3, <1>6, <1>9 DEF Serving
<1>11. UNCHANGED <<locks, enquiries>> /\ t.step \notin LockSteps
       /\ g.step \notin LockSteps \cup {"idle"}
  BY <1>1, <1>6 DEF CancelWrite, LockSteps
<1> QED BY <1>1, <1>2, <1>4, <1>8, <1>9, <1>10, <1>11, UnlockedStatementInv

\* consume_confirmation finds the row of its socket confirmed, and the enquiry
\* not yet made, so it never answers before it has committed.
LEMMA ConsumeKeeps ==
    ASSUME DialogueInv, UNCHANGED vars \/ Next, NEW r \in Requests,
           ~OnStep(r, "dead"), UNCHANGED conversation,
           \/ ConsumeLock(r) \/ ConsumeExamine(r) \/ ConsumeExpire(r)
           \/ ConsumeNumber(r) \/ ConsumeCommit(r)
    PROVE  DialogueInv'
<1>1. PICK q, t : q = socket[r] /\ t = request[r]
  OBVIOUS
<1>2. t.step \in {"consume_lock", "consume_examine", "consume_expire",
                  "consume_number", "consume_commit"}
  BY <1>1 DEF ConsumeLock, ConsumeExamine, ConsumeExpire, ConsumeNumber, ConsumeCommit
<1>3. /\ Open(q) /\ q.step = "creating" /\ t.id = q.id /\ t.user = q.user
      /\ t.payload = q.pending /\ PendingOf(q, "confirmed")
      /\ t.step = "consume_examine" => t.seen = "confirmed"
  BY <1>1, <1>2, InService
<1>4. t \in Request /\ q.user \in Users
  BY <1>1, <1>3, OpenFields
<1>5. /\ q.id \in ConfirmationIds /\ confirmations[q.id] \in Confirmation
      /\ confirmations[q.id].status = "confirmed" /\ confirmations[q.id] # NoRow
      /\ confirmations[q.id].user = q.user /\ confirmations[q.id].payload = q.pending
      /\ socket'[r] = q
  BY <1>1, <1>3 DEF PendingOf, ProposalOf, conversation, DialogueInv, Inv, TypeOK
<1>6. EnquiriesOf(q.id) = {}
  BY <1>5 DEF DialogueInv, FinalRows
<1>7. r # Nothing
  BY ConfirmationsAssumption
<1>8. \A g : Become(r, g) => request'[r] = g
  BY DEF Become, DialogueInv, Inv, TypeOK
<1>9. ASSUME NEW g, Become(r, g),
             g.step \in LockSteps, g.step = "consume_examine" => g.seen = "confirmed",
             g.user = t.user, g.id = t.id, g.payload = t.payload,
             UNCHANGED tables, LocksMove(r)
      PROVE  DialogueInv'
  <2>1. RowsMove(r) /\ UNCHANGED enquiries
    BY <1>9 DEF RowsMove, tables
  <2>2. PendingOf(q, "confirmed")'
    BY <1>3, <1>9 DEF PendingOf, ProposalOf, tables, conversation
  <2>3. Serving(q, g)'
    BY <1>3, <1>4, <1>9, <2>2 DEF Serving, LockSteps
  <2>4. g.step # "idle"
    BY <1>9 DEF LockSteps
  <2> QED BY <1>1, <1>3, <1>5, <1>9, <2>1, <2>3, <2>4, StatementInv
<1>10. CASE ConsumeLock(r)
  <2>1. PICK g : g = [At(t, "consume_examine") EXCEPT !.seen = confirmations[q.id].status]
    OBVIOUS
  <2>2. /\ g.step = "consume_examine" /\ g.seen = "confirmed" /\ g.user = t.user
        /\ g.id = t.id /\ g.payload = t.payload
    BY <1>4, <1>5, <2>1 DEF At, Request
  <2>3. /\ Become(r, g) /\ LockRow(q.id, r) /\ UNCHANGED <<tables, counterLock>>
    <3>1. Visible(q.id, q.user)
      BY <1>5 DEF Visible
    <3> QED BY <1>1, <1>3, <1>10, <2>1, <3>1 DEF ConsumeLock
  <2>4. LocksMove(r)
    <3>1. request'[r].step \in LockSteps
      BY <1>8, <2>2, <2>3 DEF LockSteps
    <3>2. \A c \in ConfirmationIds : rowLock'[c] \in {rowLock[c], Nothing, r}
      BY <2>3 DEF LockRow, DialogueInv, Inv, TypeOK
    <3> QED BY <2>3, <3>1, <3>2 DEF LocksMove
  <2> QED BY <1>9, <2>2, <2>3, <2>4 DEF LockSteps
<1>11. CASE ConsumeExamine(r)
  <2>1. ~Replay(r)
    BY <1>1, <1>3, <1>6 DEF Replay
  <2>2. SamePayload(r) /\ Confirmed(r)
    <3>1. t.step = "consume_examine"
      BY <1>1, <1>11 DEF ConsumeExamine
    <3> QED BY <1>1, <1>3, <1>5, <3>1 DEF SamePayload, Confirmed
  <2>3. LocksMove(r) <=> (request'[r].step \notin LockSteps => HoldsNoLock(r))
    BY <1>11 DEF ConsumeExamine, LocksMove, locks, HoldsNoLock
  <2>4. CASE Goto(r, "consume_expire")
    <3>1. PICK g : g = At(t, "consume_expire")
      OBVIOUS
    <3>2. /\ g.step = "consume_expire" /\ g.user = t.user
          /\ g.id = t.id /\ g.payload = t.payload
      BY <1>4, <3>1 DEF At, Request
    <3>3. Become(r, g) /\ LocksMove(r)
      BY <1>1, <1>8, <2>3, <2>4, <3>1, <3>2 DEF Goto, LockSteps
    <3> QED BY <1>9, <1>11, <3>2, <3>3 DEF ConsumeExamine, LockSteps
  <2>5. CASE Become(r, [At(request[r], "consume_number") EXCEPT !.stamp = now])
    <3>1. PICK g : g = [At(t, "consume_number") EXCEPT !.stamp = now]
      OBVIOUS
    <3>2. /\ g.step = "consume_number" /\ g.user = t.user
          /\ g.id = t.id /\ g.payload = t.payload
      BY <1>4, <3>1 DEF At, Request
    <3>3. Become(r, g) /\ LocksMove(r)
      BY <1>1, <1>8, <2>3, <2>5, <3>1, <3>2 DEF LockSteps
    <3> QED BY <1>9, <1>11, <3>2, <3>3 DEF ConsumeExamine, LockSteps
  <2> QED BY <1>11, <2>1, <2>2, <2>4, <2>5 DEF ConsumeExamine
<1>12. CASE ConsumeNumber(r)
  <2> DEFINE w == WorkspaceOf[request[r].user]
  <2>1. PICK g : g = [At(t, "consume_commit") EXCEPT !.number = counter[w]]
    OBVIOUS
  <2>2. /\ g.step = "consume_commit" /\ g.user = t.user
        /\ g.id = t.id /\ g.payload = t.payload
    BY <1>4, <2>1 DEF At, Request
  <2>3. Become(r, g) /\ LockCounter(w, r) /\ UNCHANGED <<tables, rowLock>>
    BY <1>1, <1>12, <2>1 DEF ConsumeNumber
  <2>4. LocksMove(r)
    <3>1. request'[r].step \in LockSteps
      BY <1>8, <2>2, <2>3 DEF LockSteps
    <3>2. \A v \in Workspaces : counterLock'[v] \in {counterLock[v], Nothing, r}
      BY <2>3 DEF LockCounter, DialogueInv, Inv, TypeOK
    <3> QED BY <2>3, <3>1, <3>2 DEF LocksMove
  <2> QED BY <1>9, <2>2, <2>3, <2>4 DEF LockSteps
<1>13. CASE ConsumeExpire(r)
  <2>1. PICK g, row : /\ g = Finished(t, "confirmation_expired")
                      /\ row = [confirmations[q.id] EXCEPT !.status = "expired"]
    OBVIOUS
  <2>2. /\ g.step = "done" /\ g.user = t.user /\ g.id = t.id
        /\ g.payload = t.payload /\ g.result = "confirmation_expired"
    BY <1>4, <2>1 DEF Finished, Request
  <2>3. /\ row.status = "expired" /\ row.user = confirmations[q.id].user
        /\ row.session = confirmations[q.id].session
        /\ row.payload = confirmations[q.id].payload
    BY <1>5, <2>1 DEF Confirmation
  <2>4. SetRow(q.id, row) /\ Become(r, g) /\ row.status \in Status
    BY <1>1, <1>3, <1>13, <2>1, <2>3 DEF ConsumeExpire, SetStatus, Finish, Status
  <2>5. RowsMove(r) /\ PendingOf(q, "expired")'
    BY <1>1, <1>3, <1>5, <2>3, <2>4, PendingRow
  <2>6. Serving(q, g)'
    BY <1>3, <2>2, <2>5 DEF Serving
  <2>7. LocksMove(r) /\ UNCHANGED enquiries /\ g.step # "idle"
    BY <1>13, <2>2, LocksReleased DEF ConsumeExpire
  <2> QED BY <1>1, <1>3, <1>5, <2>4, <2>5, <2>6, <2>7, StatementInv
<1>14. CASE ConsumeCommit(r)
  <2>1. PICK g, row, e :
           /\ g = Finished(t, "created")
           /\ row = [confirmations[q.id] EXCEPT !.status = "consumed",
                                                !.consumedAt = t.stamp]
           /\ e = [workspace |-> WorkspaceOf[t.user], buyer |-> t.user,
                   number |-> t.number, payload |-> t.payload,
                   confirmation |-> t.id]
    OBVIOUS
  <2>2. /\ g.step = "done" /\ g.user = t.user /\ g.id = t.id
        /\ g.payload = t.payload /\ g.number = t.number /\ g.result = "created"
    BY <1>4, <2>1 DEF Finished, Request
  <2>3. /\ row.status = "consumed" /\ row.user = confirmations[q.id].user
        /\ row.session = confirmations[q.id].session
        /\ row.payload = confirmations[q.id].payload
    BY <1>5, <2>1 DEF Confirmation
  <2>4. /\ SetRow(q.id, row) /\ Become(r, g) /\ enquiries' = enquiries \cup {e}
        /\ row.status \in Status
    BY <1>1, <1>3, <1>14, <2>1, <2>3 DEF ConsumeCommit, Finish, Status
  <2>5. RowsMove(r) /\ PendingOf(q, "consumed")'
    BY <1>1, <1>3, <1>5, <2>3, <2>4, PendingRow
  <2>6. EnquiryOf(g)'
    BY <2>1, <2>2, <2>4 DEF EnquiryOf, EnquiriesOf
  <2>7. Serving(q, g)'
    BY <1>3, <2>2, <2>5, <2>6 DEF Serving
  <2>8. LocksMove(r) /\ g.step # "idle"
    BY <1>14, <2>2, LocksReleased DEF ConsumeCommit
  <2>9. \A d \in enquiries' \ enquiries :
           confirmations'[d.confirmation].status = "consumed"
    BY <1>3, <2>1, <2>4, <2>5 DEF PendingOf, ProposalOf
  <2> QED BY <1>1, <1>3, <1>5, <2>4, <2>5, <2>7, <2>8, <2>9, StatementInv
<1> QED BY <1>10, <1>11, <1>12, <1>13, <1>14

-----------------------------------------------------------------------------
(* What the other steps leave of it.                                        *)

\* CreateEnquiry keeps the invariant.
LEMMA CreateEnquiryInv ==
    ASSUME DialogueInv, UNCHANGED vars \/ Next, NEW r \in Requests,
           CreateEnquiry(r), UNCHANGED messages
    PROVE  DialogueInv'
<1>1. OnStep(r, "tool") /\ Open(socket[r])
  BY DEF CreateEnquiry, OnStep, Open
<1>2. PICK q : q = socket[r]
  OBVIOUS
<1>3. /\ q \in Socket /\ SlotsOK(q) /\ PendingOf(q, "confirmed")
      /\ request[r] = NoRequest
  BY <1>1, <1>2, OpenFields DEF Serving, OnStep
<1>4. PICK f, g :
         /\ f = [q EXCEPT !.step = "creating"]
         /\ g = [NoRequest EXCEPT !.step = "consume_lock", !.user = q.user,
                                  !.id = q.id, !.payload = q.pending]
  OBVIOUS
<1>5. /\ f \in Socket /\ f.step = "creating" /\ f.slots = q.slots
      /\ f.user = q.user /\ f.session = q.session
      /\ f.pending = q.pending /\ f.id = q.id
  BY <1>3, <1>4 DEF Socket, SocketSteps
<1>6. SlotsOK(f) /\ Follows(f, socket[r]) /\ Open(f)
  BY <1>2, <1>3, <1>5 DEF SlotsOK, Follows, Open
<1>7. /\ g.step = "consume_lock" /\ g.user = q.user /\ g.id = q.id
      /\ g.payload = q.pending
  BY <1>4 DEF NoRequest
<1>8. PendingOf(f, "confirmed")
  BY <1>3, <1>5 DEF PendingOf, ProposalOf
<1>9. Serving(f, g) /\ g.step \notin LockSteps \cup {"idle"}
  BY <1>5, <1>7, <1>8 DEF Serving, LockSteps
<1>10. /\ Become(r, g) /\ Converse(r, f) /\ UNCHANGED <<tables, locks>> /\ Unheard
       /\ MessagesTyped'
  BY <1>2, <1>4 DEF CreateEnquiry, ConsumeBegin, Begin, MessagesTyped,
                    DialogueInv, DialogueTypeOK
<1> QED BY <1>1, <1>3, <1>5, <1>6, <1>9, <1>10, BeginInv

\* A socket and its request come to an end, the crashed ones included.
LEMMA EndedInv ==
    ASSUME DialogueInv, NEW r \in Requests, Hangup(r), UNCHANGED messages
    PROVE  DialogueInv'
<1>1. /\ socket \in [Requests -> Socket] /\ socket' = [socket EXCEPT ![r] = NoSocket]
      /\ request \in [Requests -> Request]
      /\ request' = [request EXCEPT ![r] = NoRequest]
  BY DEF Hangup, Converse, Become, DialogueInv, DialogueTypeOK, Inv, TypeOK
<1>2. /\ socket'[r] = NoSocket /\ request'[r] = NoRequest
      /\ \A q \in Requests \ {r} : socket'[q] = socket[q] /\ request'[q] = request[q]
  BY <1>1
<1>3. LocksMove(r)
  BY LocksReleased DEF Hangup
<1>4. StepFor(r)
  BY <1>2, <1>3 DEF StepFor, RowsMove, Hangup, tables, Unheard
<1>5. SocketOK(r)'
  BY <1>2 DEF SocketOK, NoSocket, Open
<1>6. DialogueTypeOK' /\ told' \in Told
  <2>1. NoSocket \in Socket
    BY DEF NoSocket, Socket, SocketSteps, Replies
  <2>2. socket' \in [Requests -> Socket]
    BY <1>1, <2>1
  <2>3. \A q \in Requests : (socket'[q].pending = Nothing) <=> (socket'[q].id = Nothing)
    BY <1>2 DEF NoSocket, DialogueInv, DialogueTypeOK
  <2> QED BY <2>2, <2>3 DEF DialogueInv, DialogueTypeOK, Hangup, Unheard, Told
<1>7. ~Open(socket'[r])
  BY <1>2 DEF NoSocket, Open
<1> QED BY <1>4, <1>5, <1>6, <1>7, HangupUses, StepInv DEF Hangup, Unheard

\* Reply keeps the invariant.
LEMMA ReplyInv ==
    ASSUME DialogueInv, NEW r \in Requests, Reply(r), UNCHANGED messages
    PROVE  DialogueInv'
<1>1. Open(socket[r]) /\ OnStep(r, "replying")
  BY DEF Reply, OnStep, Open
<1>2. /\ socket[r] \in Socket /\ SlotsOK(socket[r]) /\ request[r] = NoRequest
      /\ (socket[r].pending = Nothing) <=> (socket[r].id = Nothing)
      /\ \/ socket[r].pending = Nothing /\ socket[r].id = Nothing
         \/ PendingOf(socket[r], "pending")
  BY <1>1, OpenFields DEF Serving, OnStep
<1>3. PICK f : f = [socket[r] EXCEPT !.step = "listening"]
  OBVIOUS
<1>4. /\ f \in Socket /\ f.step = "listening" /\ f.slots = socket[r].slots
      /\ f.user = socket[r].user /\ f.session = socket[r].session
      /\ f.pending = socket[r].pending /\ f.id = socket[r].id
  BY <1>2, <1>3 DEF Socket, SocketSteps
<1>5. SlotsOK(f) /\ Open(f)
  BY <1>2, <1>4 DEF SlotsOK, Open
<1>6. Serving(f, NoRequest)
  <2>1. \/ f.pending = Nothing /\ f.id = Nothing
        \/ PendingOf(f, "pending")
    BY <1>2, <1>4 DEF PendingOf, ProposalOf
  <2> QED BY <1>4, <2>1 DEF Serving
<1>7. Become(r, NoRequest) /\ UNCHANGED vars
  BY <1>2 DEF Reply, Become, vars, DialogueInv, Inv, TypeOK
<1>8. LocksMove(r)
  <2>1. request'[r] = NoRequest
    BY <1>2, <1>7 DEF vars
  <2> QED BY <1>2, <1>7, <2>1, LocksStay DEF vars, NoRequest, LockSteps
<1>9. /\ UNCHANGED <<tables, opened, readBack, told>> /\ Converse(r, f)
      /\ SupportsTyped' /\ MessagesTyped' /\ NoRequest.step = "idle"
  BY <1>3, <1>7 DEF Reply, Unheard, vars, SupportsTyped, MessagesTyped, NoRequest,
                    DialogueInv, DialogueTypeOK
<1> QED BY <1>1, <1>2, <1>4, <1>5, <1>6, <1>7, <1>8, <1>9, SocketMovesQuietly
       DEF SupportsTyped, MessagesTyped

\* Fault keeps the invariant.
LEMMA FaultInv ==
    ASSUME DialogueInv, UNCHANGED vars \/ Next, NEW r \in Requests, Fault(r),
           UNCHANGED messages
    PROVE  DialogueInv'
<1>1. Open(socket[r])
  BY DEF Fault, Open
<1>2. socket[r] \in Socket /\ SlotsOK(socket[r])
  BY <1>1, OpenFields
<1>3. Become(r, NoRequest) /\ ReleaseLocks(r) /\ UNCHANGED <<tables, now>> /\ Unheard
  BY DEF Fault, Abort, Return
<1>4. CASE OnStep(r, "creating")
  <2>1. PICK f : f = Answered([Forget(socket[r]) EXCEPT !.poisoned = TRUE], "failed")
    OBVIOUS
  <2>2. /\ f \in Socket /\ f.step = "replying" /\ f.user = socket[r].user
        /\ f.session = socket[r].session /\ f.slots = socket[r].slots
        /\ f.pending = Nothing /\ f.id = Nothing
    BY <1>2, <2>1 DEF Answered, Forget, Socket, SocketSteps, Replies
  <2>3. SlotsOK(f) /\ Open(f) /\ Serving(f, NoRequest)
    BY <1>2, <2>2 DEF SlotsOK, Open, Serving
  <2>4. LocksMove(r)
    BY <1>3, LocksReleased
  <2>5. /\ UNCHANGED <<tables, opened, readBack, told>> /\ Converse(r, f)
        /\ SupportsTyped' /\ MessagesTyped' /\ NoRequest.step = "idle"
    BY <1>3, <1>4, <2>1 DEF Fault, Unheard, SupportsTyped, MessagesTyped, NoRequest,
                            DialogueInv, DialogueTypeOK
  <2>6. (f.pending = Nothing) <=> (f.id = Nothing)
    BY <2>2
  <2> QED BY <1>1, <1>3, <2>2, <2>3, <2>4, <2>5, <2>6, SocketMovesQuietly
         DEF SupportsTyped, MessagesTyped
<1>5. CASE ~OnStep(r, "creating")
  BY <1>3, <1>5, EndedInv DEF Fault, Hangup
<1> QED BY <1>4, <1>5

\* Connect keeps the invariant.
LEMMA ConnectInv ==
    ASSUME DialogueInv, NEW r \in Requests, NEW u \in Users, NEW s \in Sessions,
           Connect(r, u, s)
    PROVE  DialogueInv'
<1>1. PICK f : f = [NoSocket EXCEPT !.step = "listening", !.user = u, !.session = s]
  OBVIOUS
<1>2. /\ f.step = "listening" /\ f.user = u /\ f.session = s /\ f.slots = Nothing
      /\ f.pending = Nothing /\ f.id = Nothing
  BY <1>1 DEF NoSocket
<1>3. f \in Socket
  BY <1>1 DEF NoSocket, Socket, SocketSteps, Replies
<1>4. /\ socket \in [Requests -> Socket] /\ socket' = [socket EXCEPT ![r] = f]
      /\ request \in [Requests -> Request] /\ request' = request
  BY <1>1 DEF Connect, Converse, vars, DialogueInv, DialogueTypeOK, Inv, TypeOK
<1>5. request[r] = NoRequest
  BY DEF Connect, NoSocket, DialogueInv, SocketOK
<1>6. LocksMove(r)
  BY <1>4, <1>5, LocksStay DEF Connect, vars, NoRequest, LockSteps
<1>7. StepFor(r)
  BY <1>4, <1>6 DEF StepFor, RowsMove, Connect, vars, tables
<1>8. SocketOK(r)'
  <2>1. socket'[r] = f /\ request'[r] = NoRequest /\ opened' = opened \cup {s}
    BY <1>4, <1>5 DEF Connect
  <2>2. Serving(f, NoRequest)'
    BY <1>2 DEF Serving
  <2>3. Open(f) /\ f.step # "closed" /\ NoRequest.step = "idle"
    BY <1>2 DEF Open, NoRequest
  <2> QED BY <1>2, <2>1, <2>2, <2>3 DEF SocketOK, Open
<1>9. DialogueTypeOK' /\ told' \in Told
  <2>1. socket' \in [Requests -> Socket]
    BY <1>3, <1>4
  <2>2. \A q \in Requests : (socket'[q].pending = Nothing) <=> (socket'[q].id = Nothing)
    BY <1>2, <1>4 DEF DialogueInv, DialogueTypeOK
  <2> QED BY <2>1, <2>2 DEF DialogueInv, DialogueTypeOK, Connect, Told
<1>10. socket'[r].session \notin opened
  BY <1>2, <1>4 DEF Connect
<1> QED BY <1>7, <1>8, <1>9, <1>10, StepInv DEF Connect

\* Crash keeps the invariant.
LEMMA CrashInv ==
    ASSUME DialogueInv, Crash, UNCHANGED vars
    PROVE  DialogueInv'
<1>1. \A r \in Requests :
         socket'[r] = IF socket[r] = NoSocket THEN NoSocket
                      ELSE [NoSocket EXCEPT !.step = "dead"]
  BY DEF Crash
<1>2. \A r \in Requests : ~Open(socket'[r]) /\ socket'[r].slots = Nothing
                          /\ socket'[r].pending = Nothing /\ socket'[r].id = Nothing
  BY <1>1 DEF NoSocket, Open
<1>3. Inv' /\ LocksFollow' /\ FinalRows' /\ told' = told
  <2>1. Inv'
    BY NextInv DEF DialogueInv
  <2> QED BY <2>1 DEF DialogueInv, LocksFollow, HoldsNoLock, FinalRows, EnquiriesOf,
                      Crash, Unheard, vars, tables, locks
<1>4. \A r \in Requests : SocketOK(r)'
  <2> TAKE r \in Requests
  <2>1. socket'[r].step = "closed" => socket[r] = NoSocket
    BY <1>1 DEF NoSocket
  <2>2. socket'[r].step = "closed" \/ request[r].step = "idle" => request[r] = NoRequest
    BY <2>1 DEF DialogueInv, SocketOK, NoSocket
  <2> QED BY <1>1, <1>2, <2>2 DEF SocketOK, Open, vars
<1>5. SocketsApart'
  BY <1>2 DEF SocketsApart, Open
<1>6. DialogueTypeOK'
  <2>1. NoSocket \in Socket /\ [NoSocket EXCEPT !.step = "dead"] \in Socket
    BY DEF NoSocket, Socket, SocketSteps, Replies
  <2>2. socket' \in [Requests -> Socket]
    BY <2>1 DEF Crash
  <2> QED BY <1>2, <2>2 DEF DialogueInv, DialogueTypeOK, Crash, Unheard
<1>7. \A t \in told'.created : EnquiryOf(t)'
  BY <1>3 DEF DialogueInv, EnquiryOf, EnquiriesOf, vars, tables
<1> QED BY <1>3, <1>4, <1>5, <1>6, <1>7 DEF DialogueInv

\* Time passes, or nothing happens.
LEMMA QuietInv ==
    ASSUME DialogueInv, Tick \/ UNCHANGED vars, UNCHANGED conversation
    PROVE  DialogueInv'
<1>1. Inv'
  BY NextInv DEF DialogueInv, Next
<1>2. UNCHANGED <<tables, locks, request>>
  BY DEF Tick, vars
<1>3. \A r \in Requests : SocketOK(r)'
  <2> TAKE r \in Requests
  <2>1. Serving(socket[r], request[r]) => Serving(socket[r], request[r])'
    BY <1>2 DEF Serving, PendingOf, ProposalOf, EnquiryOf, EnquiriesOf, tables,
                conversation
  <2> QED BY <1>2, <2>1 DEF DialogueInv, SocketOK, conversation, Open
<1>4. LocksFollow' /\ FinalRows' /\ SocketsApart'
  BY <1>2 DEF DialogueInv, LocksFollow, HoldsNoLock, FinalRows, EnquiriesOf,
              SocketsApart, Open, conversation, tables, locks
<1>5. DialogueTypeOK' /\ (\A t \in told'.created : EnquiryOf(t)')
  BY <1>2 DEF DialogueInv, DialogueTypeOK, EnquiryOf, EnquiriesOf, conversation, tables
<1> QED BY <1>1, <1>3, <1>4, <1>5 DEF DialogueInv, conversation

-----------------------------------------------------------------------------
(* The theorems.                                                            *)

\* The invariant holds at the start.
LEMMA DialogueInitInv ==
    ASSUME DialogueInit
    PROVE  DialogueInv
<1>1. Inv
  BY InitInv DEF DialogueInit
<1>2. NoSocket \in Socket
  BY DEF NoSocket, Socket, SocketSteps, Replies
<1>3. DialogueTypeOK
  <2>1. messages \in 0 .. MaxMessages
    BY DialogueAssumption DEF DialogueInit
  <2>2. \A r \in Requests : (socket[r].pending = Nothing) <=> (socket[r].id = Nothing)
    BY DEF DialogueInit, NoSocket
  <2> QED BY <1>2, <2>1, <2>2, DialogueAssumption DEF DialogueInit, DialogueTypeOK
<1>4. \A r \in Requests : SocketOK(r)
  BY DEF DialogueInit, Init, SocketOK, NoSocket, Open
<1>5. SocketsApart
  BY DEF DialogueInit, SocketsApart, NoSocket, Open
<1>6. LocksFollow
  BY ConfirmationsAssumption DEF DialogueInit, Init, LocksFollow, HoldsNoLock
<1>7. FinalRows
  BY DEF DialogueInit, Init, FinalRows, EnquiriesOf
<1> QED BY <1>1, <1>3, <1>4, <1>5, <1>6, <1>7 DEF DialogueInv, DialogueInit

\* Every step keeps the invariant.
LEMMA DialogueStepInv ==
    ASSUME DialogueInv, [DialogueNext]_dialogueVars
    PROVE  DialogueInv'
<1>1. UNCHANGED vars \/ Next
  BY StepUses
<1>2. CASE UNCHANGED dialogueVars
  BY <1>2, QuietInv DEF dialogueVars
<1>3. ASSUME NEW r \in Requests, Progress(r)
      PROVE  DialogueInv'
  <2>1. CASE ServiceStep(r)
    BY <1>1, <2>1, PrepareInsertKeeps, ConfirmKeeps, CancelWriteKeeps, ConsumeKeeps
       DEF ServiceStep
  <2>2. CASE ProposalReady(r)
    BY <1>3, <2>2, ProposalReadyInv DEF Progress
  <2>3. CASE ConfirmAnswered(r)
    BY <1>3, <2>3, ConfirmAnsweredInv DEF Progress
  <2>4. CASE CancelAnswered(r)
    BY <1>3, <2>4, CancelAnsweredInv DEF Progress
  <2>5. CASE CreateEnquiry(r)
    BY <1>1, <1>3, <2>5, CreateEnquiryInv DEF Progress
  <2>6. CASE EnquiryAnswered(r)
    BY <1>3, <2>6, EnquiryAnsweredInv DEF Progress
  <2>7. CASE Reply(r)
    BY <1>3, <2>7, ReplyInv DEF Progress
  <2>8. CASE Reap(r)
    BY <1>3, <2>8, EndedInv DEF Progress, Reap
  <2> QED BY <1>3, <2>1, <2>2, <2>3, <2>4, <2>5, <2>6, <2>7, <2>8 DEF Progress
<1>4. ASSUME NEW r \in Requests, Interrupt(r)
      PROVE  DialogueInv'
  BY <1>1, <1>4, EndedInv, FaultInv DEF Interrupt, Disconnect
<1>5. ASSUME NEW r \in Requests, Hear(r)
      PROVE  DialogueInv'
  BY <1>1, <1>5, HearInv
<1>6. ASSUME NEW r \in Requests, NEW u \in Users, NEW s \in Sessions, Connect(r, u, s)
      PROVE  DialogueInv'
  BY <1>6, ConnectInv
<1>7. CASE Crash
  BY <1>7, CrashInv DEF Crash
<1>8. CASE Tick /\ UNCHANGED conversation
  BY <1>8, QuietInv
<1> QED BY <1>2, <1>3, <1>4, <1>5, <1>6, <1>7, <1>8 DEF DialogueNext

\* Every reachable state of the conversations satisfies the inductive invariant.
THEOREM DialogueInvariance == DialogueSpec => []DialogueInv
<1>1. DialogueInit => DialogueInv
  BY DialogueInitInv
<1>2. DialogueInv /\ [DialogueNext]_dialogueVars => DialogueInv'
  BY DialogueStepInv
<1> QED BY <1>1, <1>2, PTL DEF DialogueSpec

\* Sockets, support requests and the histories keep their types, and a pending
\* enquiry and its identifier are set and cleared together.
THEOREM DialogueTypeCorrect == DialogueSpec => []DialogueTypeOK
<1>1. DialogueInv => DialogueTypeOK
  BY DEF DialogueInv
<1> QED BY <1>1, DialogueInvariance, PTL

\* "Created" and "cancelled, and nothing was created" stay true, in whatever order
\* callers propose, repeat, confirm, cancel and hang up, and whatever fails.
THEOREM AlwaysTellsTheTruth == DialogueSpec => []TellsTheTruth
<1>1. DialogueInv => TellsTheTruth
  <2> HAVE DialogueInv
  <2>1. \A t \in told.created :
           \E e \in EnquiriesOf(t.id) :
              e.number = t.number /\ e.payload = t.payload /\ e.buyer = t.user
    BY DEF DialogueInv, EnquiryOf
  <2>2. ASSUME NEW c \in told.cancelled
        PROVE  EnquiriesOf(c) = {}
    <3>1. c \in ConfirmationIds /\ confirmations[c].status = "cancelled"
      BY DEF DialogueInv, DialogueTypeOK, FinalRows
    <3> QED BY <3>1 DEF DialogueInv, FinalRows
  <2> QED BY <2>1, <2>2 DEF TellsTheTruth
<1> QED BY <1>1, DialogueInvariance, PTL

\* A socket that waits for its caller holds no row, although its database session
\* is open: consume_confirmation never answers early in a conversation.
THEOREM ListenersNeverHoldLocks == DialogueSpec => []ListenersHoldNoLocks
<1>1. DialogueInv => ListenersHoldNoLocks
  <2> SUFFICES ASSUME DialogueInv, NEW r \in Requests, OnStep(r, "listening")
               PROVE  HoldsNoLock(r)
    BY DEF ListenersHoldNoLocks, HoldsNoLock
  <2>1. request[r] = NoRequest
    BY OpenFields DEF Open, OnStep, Serving
  <2> QED BY <2>1 DEF DialogueInv, LocksFollow, NoRequest
<1> QED BY <1>1, DialogueInvariance, PTL

\* A step that creates an enquiry is a commit for a socket that is open.
LEMMA CommitCreates ==
    ASSUME DialogueInv, [DialogueNext]_dialogueVars
    PROVE  \/ UNCHANGED enquiries
           \/ \E r \in Requests : ConsumeCommit(r) /\ ~OnStep(r, "dead")
<1>1. CASE UNCHANGED tables
  BY <1>1 DEF tables
<1>2. UNCHANGED dialogueVars => UNCHANGED tables
  BY DEF dialogueVars, vars
<1>3. ASSUME NEW r \in Requests, ServiceStep(r)
      PROVE  \/ UNCHANGED enquiries
             \/ ConsumeCommit(r) /\ ~OnStep(r, "dead")
  BY <1>3 DEF ServiceStep, PrepareInsert, ConfirmCheck, ConfirmExpire,
              ConfirmWrite, CancelWrite, ConsumeLock, ConsumeExamine,
              ConsumeExpire, ConsumeNumber, tables
<1>4. ASSUME NEW r \in Requests, Progress(r), ~ServiceStep(r)
      PROVE  UNCHANGED tables
  BY <1>4 DEF Progress, ProposalReady, ConfirmAnswered, CancelAnswered,
              CreateEnquiry, ConsumeBegin, EnquiryAnswered, Reply, Reap, Hangup,
              Resume, vars
<1>5. ASSUME NEW r \in Requests, Interrupt(r)
      PROVE  UNCHANGED tables
  BY <1>5 DEF Interrupt, Disconnect, Fault, Hangup, Abort, Return
<1>6. ASSUME NEW r \in Requests, Hear(r)
      PROVE  UNCHANGED tables
  <2>1. \A q, draft : Propose(r, q, draft) => UNCHANGED tables
    BY DEF Propose, PrepareReuse, PrepareMiss, Hangup, vars
  <2>2. ASSUME NEW text, NEW intent, NEW sure,
               \/ HearAboutSearch(r, intent) \/ HearNothingPending(r, intent)
               \/ HearDrop(r, intent) \/ HearHuman(r, text, intent)
               \/ HearQuestion(r, text, intent, sure)
               \/ HearInVain(r, text, intent, sure)
               \/ HearUnsure(r, text, intent, sure)
        PROVE  UNCHANGED tables
    BY <2>2 DEF HearAboutSearch, HearNothingPending, HearDrop, HearHuman,
                HearQuestion, HearInVain, HearUnsure, vars
  <2>3. ASSUME NEW intent, HearConfirm(r, intent) \/ HearCancel(r, intent)
        PROVE  UNCHANGED tables
    BY <2>3 DEF HearConfirm, ConfirmRead, HearCancel, CancelRead, Hangup
  <2>4. ASSUME NEW text, NEW intent, HearSlots(r, text, intent)
        PROVE  UNCHANGED tables
    <3>1. PICK q, draft :
             /\ q = WithoutSlots(r)
             /\ draft = IF Restated(text) THEN Draft(Extraction[text])
                        ELSE [socket[r].slots EXCEPT !.destination = PlaceIn(text)]
      OBVIOUS
    <3> QED BY <2>1, <2>4, <3>1 DEF HearSlots
  <2>5. ASSUME NEW text, NEW intent, HearEnquiry(r, text, intent)
        PROVE  UNCHANGED tables
    <3>1. PICK q : q = WithoutSlots(r)
      OBVIOUS
    <3> QED BY <2>1, <2>5, <3>1 DEF HearEnquiry, vars
  <2>6. PICK text \in Utterances, s \in Selected :
           LET intent == Intent[text][s] IN
           \/ HearConfirm(r, intent) \/ HearCancel(r, intent)
           \/ HearAboutSearch(r, intent) \/ HearNothingPending(r, intent)
           \/ HearDrop(r, intent)
           \/ HearSlots(r, text, intent)
           \/ HearEnquiry(r, text, intent)
           \/ HearHuman(r, text, intent)
           \/ HearQuestion(r, text, intent, Sure[text][s])
           \/ HearInVain(r, text, intent, Sure[text][s])
           \/ HearUnsure(r, text, intent, Sure[text][s])
    BY <1>6 DEF Hear
  <2> QED BY <2>2, <2>3, <2>4, <2>5, <2>6
<1>7. ASSUME NEW r \in Requests, NEW u \in Users, NEW s \in Sessions, Connect(r, u, s)
      PROVE  UNCHANGED tables
  BY <1>7 DEF Connect, vars
<1>8. Crash \/ Tick => UNCHANGED tables
  BY DEF Crash, Tick, vars
<1> QED BY <1>1, <1>2, <1>3, <1>4, <1>5, <1>6, <1>7, <1>8 DEF DialogueNext

\* The enquiry that is created is the one read back last in its session.
THEOREM OnlyLastReadBackIsEverCreated ==
    DialogueSpec => OnlyLastReadBackIsCreated
<1> DEFINE AsReadBack ==
        \A e \in enquiries' \ enquiries :
            readBack[confirmations[e.confirmation].session] = e.payload
<1>1. DialogueInv /\ [DialogueNext]_dialogueVars => [AsReadBack]_dialogueVars
  <2> SUFFICES ASSUME DialogueInv, [DialogueNext]_dialogueVars,
                      NEW e \in enquiries' \ enquiries
               PROVE  readBack[confirmations[e.confirmation].session] = e.payload
    OBVIOUS
  <2>1. PICK r \in Requests : ConsumeCommit(r) /\ ~OnStep(r, "dead")
    BY CommitCreates
  <2>2. e.confirmation = request[r].id /\ e.payload = request[r].payload
    BY <2>1 DEF ConsumeCommit
  <2>3. /\ PendingOf(socket[r], "confirmed") /\ request[r].id = socket[r].id
        /\ request[r].payload = socket[r].pending
    BY <2>1, InService DEF ConsumeCommit
  <2> QED BY <2>2, <2>3 DEF PendingOf, ProposalOf
<1> QED BY <1>1, DialogueInvariance, PTL DEF DialogueSpec, OnlyLastReadBackIsCreated

\* Every conversation is a behaviour of the confirmation service: each message,
\* answer, hang-up, fault and crash is a step of Next, or leaves it alone.
THEOREM DialogueUsesTheService == DialogueSpec => UsesTheService
<1>1. DialogueInv /\ [DialogueNext]_dialogueVars => [UNCHANGED vars \/ Next]_vars
  BY StepUses
<1> QED BY <1>1, DialogueInvariance, PTL
        DEF DialogueSpec, DialogueInit, UsesTheService

\* The same, in the form in which the theorems about the service use it.
THEOREM DialogueIsAClient == DialogueSpec => Spec
<1>1. DialogueInv /\ [DialogueNext]_dialogueVars => [Next]_vars
  BY StepUses
<1> QED BY <1>1, DialogueInvariance, PTL DEF DialogueSpec, DialogueInit, Spec

\* What was proved of the service holds of the conversations: only approved
\* enquiries are written, confirmed in time, each with its audit event.
THEOREM DialogueWritesAreApproved ==
    DialogueSpec => ImplementsLedger /\ []EnquiryWasConfirmed /\ []AuditTrailMatches
BY DialogueIsAClient, Implements, OnlyConfirmedIsCreated, AuditTrailComplete, PTL

-----------------------------------------------------------------------------
(* The event loop.                                                          *)

\* At most one coroutine of a process that runs is in a service function.
OneInService ==
    \A q, r \in Requests :
        q # r /\ ~OnStep(q, "dead") /\ ~OnStep(r, "dead")
            => request[q] = NoRequest \/ request[r] = NoRequest

\* A step for socket r touches no other one, and leaves r in no function but the
\* one it is in or one that it enters alone.
TakesTurn(r) ==
    /\ \A q \in Requests \ {r} : socket'[q] = socket[q] /\ request'[q] = request[q]
    /\ \/ request'[r] = NoRequest
       \/ ~OnStep(r, "dead") /\ request[r] # NoRequest
       \/ LoopFree(r)

\* Taking turns keeps the coroutines apart.
LEMMA TurnsKeepApart ==
    ASSUME OneInService, NEW r \in Requests, TakesTurn(r)
    PROVE  OneInService'
<1>1. ASSUME NEW q \in Requests \ {r}, ~OnStep(q, "dead")', request'[q] # NoRequest
      PROVE  request'[r] = NoRequest
  <2>1. ~OnStep(q, "dead") /\ request[q] # NoRequest
    BY <1>1 DEF TakesTurn, OnStep
  <2>2. ~LoopFree(r)
    BY <2>1 DEF LoopFree, OnStep
  <2>3. ~(~OnStep(r, "dead") /\ request[r] # NoRequest)
    BY <2>1 DEF OneInService
  <2> QED BY <2>2, <2>3 DEF TakesTurn
<1>2. ASSUME NEW q \in Requests \ {r}, NEW p \in Requests \ {r}, q # p,
             ~OnStep(q, "dead")', ~OnStep(p, "dead")'
      PROVE  request'[q] = NoRequest \/ request'[p] = NoRequest
  BY <1>2 DEF TakesTurn, OnStep, OneInService
<1> QED BY <1>1, <1>2 DEF OneInService

\* Whatever is done for one socket, or begun for its request, is done for no other.
LEMMA BecomesAlone ==
    ASSUME DialogueInv, NEW r \in Requests
    PROVE  /\ \A g : Become(r, g) =>
                 request'[r] = g /\ \A q \in Requests \ {r} : request'[q] = request[q]
           /\ \A f : Converse(r, f) =>
                 \A q \in Requests \ {r} : socket'[q] = socket[q]
BY DEF DialogueInv, DialogueTypeOK, Inv, TypeOK, Become, Converse

\* A socket that hangs up, or whose answer comes, leaves its function.
LEMMA LeavingTakesTurn ==
    ASSUME DialogueInv, NEW r \in Requests, NEW f, Converse(r, f),
           Become(r, NoRequest)
    PROVE  TakesTurn(r)
BY BecomesAlone DEF TakesTurn

\* A statement of a service function.
LEMMA StatementTakesTurn ==
    ASSUME DialogueInv, NEW r \in Requests, ServiceStep(r)
    PROVE  TakesTurn(r)
<1>1. ~OnStep(r, "dead") /\ socket' = socket
  BY DEF ServiceStep, conversation
<1>2. request[r] # NoRequest
  BY DEF ServiceStep, PrepareInsert, ConfirmCheck, ConfirmExpire, ConfirmWrite,
         CancelWrite, ConsumeLock, ConsumeExamine, ConsumeExpire, ConsumeNumber,
         ConsumeCommit, NoRequest
<1>3. \E g : Become(r, g)
  BY DEF ServiceStep, PrepareInsert, ConfirmCheck, ConfirmExpire, ConfirmWrite,
         CancelWrite, ConsumeLock, ConsumeExamine, ConsumeExpire, ConsumeNumber,
         ConsumeCommit, Replay, Finish, FinishWith, Goto
<1> QED BY <1>1, <1>2, <1>3, BecomesAlone DEF TakesTurn

\* A message is heard when no other coroutine is in a function.
LEMMA HearingTakesTurn ==
    ASSUME DialogueInv, NEW r \in Requests, Hear(r)
    PROVE  TakesTurn(r)
<1>1. LoopFree(r)
  BY DEF Hear, Hears
<1>2. PICK text \in Utterances, s \in Selected :
         LET intent == Intent[text][s] IN
         \/ HearConfirm(r, intent) \/ HearCancel(r, intent)
         \/ HearAboutSearch(r, intent) \/ HearNothingPending(r, intent)
         \/ HearDrop(r, intent)
         \/ HearSlots(r, text, intent)
         \/ HearEnquiry(r, text, intent)
         \/ HearHuman(r, text, intent)
         \/ HearQuestion(r, text, intent, Sure[text][s])
         \/ HearInVain(r, text, intent, Sure[text][s])
         \/ HearUnsure(r, text, intent, Sure[text][s])
  BY DEF Hear
<1>3. PICK intent : intent = Intent[text][s]
  OBVIOUS
<1>4. ASSUME NEW q, NEW draft, Propose(r, q, draft)
      PROVE  (\E f : Converse(r, f)) /\ (UNCHANGED vars \/ \E g : Become(r, g))
  BY <1>4 DEF Propose, Hangup, PrepareReuse, PrepareMiss, Begin
<1>5. \E f : Converse(r, f)
  BY <1>2, <1>3, <1>4 DEF HearConfirm, HearCancel, HearAboutSearch, HearNothingPending,
     HearDrop, HearSlots, HearEnquiry, HearHuman, HearQuestion, HearInVain, HearUnsure,
     Say, Hangup
<1>6. UNCHANGED vars \/ \E g : Become(r, g)
  BY <1>2, <1>3, <1>4 DEF HearConfirm, HearCancel, HearAboutSearch, HearNothingPending,
     HearDrop, HearSlots, HearEnquiry, HearHuman, HearQuestion, HearInVain, HearUnsure,
     Hangup, ConfirmRead, CancelRead, Begin
<1>7. \A q \in Requests \ {r} : request'[q] = request[q]
  BY <1>6, BecomesAlone DEF vars
<1> QED BY <1>1, <1>5, <1>7, BecomesAlone DEF TakesTurn

\* Every step of the conversations keeps the coroutines apart.
LEMMA LoopStep ==
    ASSUME DialogueInv, OneInService, [DialogueNext]_dialogueVars
    PROVE  OneInService'
<1>1. ASSUME NEW r \in Requests, Progress(r)
      PROVE  TakesTurn(r)
  <2>1. CASE ServiceStep(r)
    BY <2>1, StatementTakesTurn
  <2>2. CASE \/ ProposalReady(r) \/ ConfirmAnswered(r) \/ CancelAnswered(r)
             \/ EnquiryAnswered(r) \/ Reap(r)
    <3>1. Become(r, NoRequest) /\ \E f : Converse(r, f)
      BY <2>2 DEF ProposalReady, ConfirmAnswered, CancelAnswered, EnquiryAnswered,
                  Reap, Resume, Hangup
    <3> QED BY <3>1, LeavingTakesTurn
  <2>3. CASE CreateEnquiry(r)
    <3>1. LoopFree(r) /\ (\E g : Become(r, g)) /\ \E f : Converse(r, f)
      BY <2>3 DEF CreateEnquiry, ConsumeBegin, Begin
    <3> QED BY <3>1, BecomesAlone DEF TakesTurn
  <2>4. CASE Reply(r)
    <3>1. /\ \E f : Converse(r, f)
          /\ request' = request /\ OnStep(r, "replying")
      BY <2>4 DEF Reply, vars
    <3>2. request[r] = NoRequest
      BY <3>1, OpenFields DEF Open, OnStep, Serving
    <3> QED BY <3>1, <3>2, BecomesAlone DEF TakesTurn
  <2> QED BY <1>1, <2>1, <2>2, <2>3, <2>4 DEF Progress
<1>2. ASSUME NEW r \in Requests, Interrupt(r)
      PROVE  TakesTurn(r)
  <2>1. Become(r, NoRequest) /\ \E f : Converse(r, f)
    BY <1>2 DEF Interrupt, Disconnect, Fault, Hangup, Abort, Return
  <2> QED BY <2>1, LeavingTakesTurn
<1>3. ASSUME NEW r \in Requests, NEW u \in Users, NEW s \in Sessions, Connect(r, u, s)
      PROVE  TakesTurn(r)
  <2>1. (\E f : Converse(r, f)) /\ request' = request /\ socket[r].step = "closed"
    BY <1>3 DEF Connect, vars, NoSocket
  <2>2. request[r] = NoRequest
    BY <2>1 DEF DialogueInv, SocketOK
  <2> QED BY <2>1, <2>2, BecomesAlone DEF TakesTurn
<1>4. CASE Crash
  <2>1. /\ request' = request
        /\ \A q \in Requests : OnStep(q, "dead")' \/ socket[q].step = "closed"
    BY <1>4 DEF Crash, vars, OnStep, NoSocket
  <2>2. \A q \in Requests : socket[q].step = "closed" => request[q] = NoRequest
    BY DEF DialogueInv, SocketOK
  <2> QED BY <2>1, <2>2 DEF OneInService
<1>5. CASE (Tick /\ UNCHANGED conversation) \/ UNCHANGED dialogueVars
  <2>1. request' = request /\ socket' = socket
    BY <1>5 DEF Tick, conversation, dialogueVars, vars
  <2> QED BY <2>1 DEF OneInService, OnStep
<1> QED BY <1>1, <1>2, <1>3, <1>4, <1>5, HearingTakesTurn, TurnsKeepApart
       DEF DialogueNext

\* Who is in no function has no lock.
LEMMA IdleHoldsNothing ==
    ASSUME DialogueInv, NEW q \in Requests, request[q] = NoRequest
    PROVE  HoldsNoLock(q)
BY DEF DialogueInv, LocksFollow, NoRequest

\* The event loop never waits for itself: no coroutine blocks it for a row or a
\* counter that another one has locked, since none is suspended with a lock.
THEOREM LoopNeverBlocks == DialogueSpec => []LoopNeverBlocksItself
<1>1. DialogueInit => OneInService
  BY DEF DialogueInit, Init, OneInService
<1>2. DialogueInv /\ OneInService /\ [DialogueNext]_dialogueVars => OneInService'
  BY LoopStep
<1>3. DialogueInv /\ OneInService => LoopNeverBlocksItself
  <2> SUFFICES ASSUME DialogueInv, OneInService, NEW r \in Requests,
                      NEW q \in Requests, ~OnStep(q, "dead")
               PROVE  /\ WaitsFor(r, q) => OnStep(r, "dead")
                      /\ Hears(r) => counterLock[WorkspaceOf[socket[r].user]] # q
    BY DEF LoopNeverBlocksItself
  <2>1. ASSUME WaitsFor(r, q) PROVE OnStep(r, "dead")
    <3>1. request[r].step # "idle" /\ r # q
      BY <2>1 DEF WaitsFor, WaitsForRow, WaitsForCounter
    <3>2. ~HoldsNoLock(q)
      <4>1. CASE WaitsForRow(r, q)
        <5>1. request[r].id \in ConfirmationIds
          BY <4>1 DEF DialogueInv, Inv, RequestOK, WaitsForRow
        <5> QED BY <4>1, <5>1 DEF HoldsNoLock, WaitsForRow
      <4>2. CASE WaitsForCounter(r, q)
        <5>1. WorkspaceOf[request[r].user] \in Workspaces
          BY <4>2, ConfirmationsAssumption DEF DialogueInv, Inv, RequestOK, WaitsForCounter
        <5> QED BY <4>2, <5>1 DEF HoldsNoLock, WaitsForCounter
      <4> QED BY <2>1, <4>1, <4>2 DEF WaitsFor
    <3>3. request[q] # NoRequest /\ request[r] # NoRequest
      BY <3>1, <3>2, IdleHoldsNothing DEF NoRequest
    <3> QED BY <3>1, <3>3 DEF OneInService
  <2>2. ASSUME Hears(r) PROVE counterLock[WorkspaceOf[socket[r].user]] # q
    <3>1. request[q] = NoRequest
      <4>1. CASE q = r
        BY <2>2, <4>1, OpenFields DEF Hears, OnStep, Open, Serving
      <4>2. CASE q # r
        BY <2>2, <4>2 DEF Hears, LoopFree, OnStep
      <4> QED BY <4>1, <4>2
    <3>2. WorkspaceOf[socket[r].user] \in Workspaces
      BY <2>2, OpenFields, ConfirmationsAssumption DEF Hears, OnStep, Open
    <3> QED BY <3>1, <3>2, IdleHoldsNothing DEF HoldsNoLock
  <2> QED BY <2>1, <2>2
<1> QED BY <1>1, <1>2, <1>3, DialogueInvariance, PTL DEF DialogueSpec
===============================================================================
