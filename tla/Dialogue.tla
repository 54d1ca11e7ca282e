------------------------------- MODULE Dialogue -------------------------------
(***************************************************************************)
(* The mock conversation (backend/app/voice/mock.py): a socket, its slots   *)
(* and pending actions, over the confirmation service.  Socket r drives the *)
(* database request r of Confirmations, in one database session for as long *)
(* as the socket is open.                                                   *)
(*                                                                          *)
(* The sockets are coroutines of one event loop.  What a coroutine does     *)
(* between two of its awaits no other socket sees; it awaits the next       *)
(* message and each message it sends.                                       *)
(***************************************************************************)
EXTENDS Confirmations, NLU

CONSTANTS
    Utterances,     \* what a caller may say
    Products,       \* the categories of the workspace's distributors
    Places,         \* their locations
    FirstSupport,   \* first display number of a support request
    MaxMessages     \* bound: the messages that all callers send

MaxQuantity == 1000000

\* The constants of the utterances that the branches look at.
Selected == BOOLEAN   \* whether a distributor is selected on the page

Intent ==
    [text \in Utterances |-> [s \in Selected |-> Classify(text, s)]]

Sure ==
    [text \in Utterances |-> [s \in Selected |-> Actionable(text, s)]]

Extraction == [text \in Utterances |-> ExtractEnquiry(text)]

\* Is a product or a place recognised in the utterance?
Recognised ==
    [text \in Utterances |->
        ExtractSearchSlots(text, Products, Places)
            # [product |-> <<>>, location |-> <<>>]]

\* EnquiryDraft: the details that an extraction knows.
Draft(extraction) ==
    [product |-> extraction.product, quantity |-> extraction.quantity,
     unit |-> extraction.unit, destination |-> extraction.destination]

\* The first words of an answer to "Where should it be delivered?".
PlaceIn(text) == SubSeq(Tokenise(text), 1, Min({4, Len(Tokenise(text))}))

\* Is the whole enquiry in the utterance?
Restated(text) == Complete(Extraction[text])

\* The intents with which an utterance is an answer to that question.
Completing(intent) == intent \in {"unknown", "create_enquiry"}

\* EnquiryCreate.
Valid(draft) == draft.quantity \in 1 .. MaxQuantity

Partial(extraction) ==
    /\ extraction.unsupported = ""
    /\ extraction.missing = {"destination"}

ASSUME DialogueAssumption ==
    /\ <<>> \notin Utterances
    /\ \A text \in Utterances :
          LET found == Extraction[text] IN
          /\ Complete(found) /\ Valid(Draft(found)) => Draft(found) \in Payloads
          /\ Partial(found) /\ Valid(Draft(found)) =>
                \A place \in Utterances :
                    ~Restated(place)
                    /\ (\E s \in Selected : Completing(Intent[place][s])) =>
                        [Draft(found) EXCEPT !.destination = PlaceIn(place)]
                            \in Payloads
    /\ FirstSupport \in Nat /\ MaxMessages \in Nat

VARIABLES
    socket,       \* what each socket is doing and remembers
    opened,       \* the session identifiers that were given out
    supports,     \* the support_requests table
    supportNext,  \* workspace_counters.support_next
    readBack,     \* history: the draft last read back, by session
    told,         \* history: what callers were told of their enquiries
    messages      \* the number of messages heard

conversation ==
    <<socket, opened, supports, supportNext, readBack, told, messages>>
dialogueVars == <<vars, conversation>>

-----------------------------------------------------------------------------

SocketSteps ==
    {"closed", "listening", "confirming", "tool", "creating", "cancelling",
     "preparing", "replying", "dead"}

Replies ==
    {"read_back", "invalid", "created", "expired", "cancelled", "failed",
     "where", "search", "support", "other"}

Drafts == {Draft(Extraction[text]) : text \in Utterances}

Socket ==
    [step : SocketSteps, user : Users \cup {Nothing},
     session : Sessions \cup {Nothing},
     pending : Payloads \cup {Nothing},           \* pending_enquiry
     id : ConfirmationIds \cup {Nothing},         \* pending_confirmation_id
     search : BOOLEAN,                            \* is there a pending_search
     slots : Drafts \cup {Nothing},
     reply : Replies, poisoned : BOOLEAN]

NoSocket ==
    [step |-> "closed", user |-> Nothing, session |-> Nothing,
     pending |-> Nothing, id |-> Nothing, search |-> FALSE, slots |-> Nothing,
     reply |-> "other", poisoned |-> FALSE]

DialogueTypeOK ==
    /\ socket \in [Requests -> Socket]
    /\ opened \subseteq Sessions
    /\ supports \subseteq [workspace : Workspaces, user : Users, number : Nat]
    /\ supportNext \in [Workspaces -> Nat]
    /\ readBack \in [Sessions -> Payloads \cup {Nothing}]
    /\ told.created \subseteq
          [id : ConfirmationIds, number : Nat, payload : Payloads, user : Users]
    /\ told.cancelled \subseteq ConfirmationIds
    /\ messages \in 0 .. MaxMessages
    /\ \A r \in Requests :   \* set and cleared together
          socket[r].pending = Nothing <=> socket[r].id = Nothing

DialogueInit ==
    /\ Init
    /\ socket = [r \in Requests |-> NoSocket]
    /\ opened = {}
    /\ supports = {}
    /\ supportNext = [w \in Workspaces |-> FirstSupport]
    /\ readBack = [s \in Sessions |-> Nothing]
    /\ told = [created |-> {}, cancelled |-> {}]
    /\ messages = 0

-----------------------------------------------------------------------------
(* Helpers.                                                                 *)

Converse(r, fields) == socket' = [socket EXCEPT ![r] = fields]

OnStep(r, step) == socket[r].step = step

Answered(q, reply) == [q EXCEPT !.step = "replying", !.reply = reply]

Say(r, reply) == Converse(r, Answered(socket[r], reply))

Forget(q) == [q EXCEPT !.pending = Nothing, !.id = Nothing]

\* Mutant: the service functions run in a pool of threads.
LoopShared(r) == TRUE

\* No other coroutine is between two of its awaits.
LoopFree(r) ==
    \A q \in Requests \ {r} : socket[q].step = "dead" \/ request[q] = NoRequest

Hears(r) == OnStep(r, "listening") /\ LoopFree(r)

\* The service function has returned; the database session stays open, with
\* whatever it has locked.
Served(r) == request[r].step = "done"

Resume(r) == Become(r, NoRequest) /\ UNCHANGED <<tables, locks, now>>

Unheard == UNCHANGED <<opened, supports, supportNext, readBack, told>>

\* The database session is closed and the socket with it.
Hangup(r) ==
    /\ Converse(r, NoSocket)
    /\ Become(r, NoRequest)
    /\ ReleaseLocks(r)
    /\ UNCHANGED <<tables, now>>
    /\ Unheard

-----------------------------------------------------------------------------
(* propose_enquiry, for a draft that was understood in state q.             *)

Propose(r, q, draft) ==
    \/ /\ ~Valid(draft)
       /\ Converse(r, Answered(Forget(q), "invalid"))
       /\ UNCHANGED vars
       /\ Unheard
    \/ /\ Valid(draft) /\ ~q.poisoned
       /\ \/ PrepareReuse(r, q.user, q.session, draft)
          \/ PrepareMiss(r, q.user, q.session, draft)
       /\ Converse(r, [q EXCEPT !.step = "preparing"])
       /\ Unheard
    \/ Valid(draft) /\ q.poisoned /\ Hangup(r)

\* Mutant: an enquiry that is pending already is kept.
ProposalKept(r) ==
    LET q == socket[r] IN
    /\ OnStep(r, "preparing") /\ Served(r)
    /\ Converse(r, Answered(IF q.pending # Nothing THEN q
                            ELSE [q EXCEPT !.pending = request[r].payload,
                                           !.id = request[r].id], "read_back"))
    /\ readBack' = [readBack EXCEPT ![q.session] = request[r].payload]
    /\ Resume(r)
    /\ UNCHANGED <<opened, supports, supportNext, told>>

\* The details are read back, and pending in the place of earlier ones.
ProposalReady(r) ==
    LET q == socket[r] IN
    /\ OnStep(r, "preparing") /\ Served(r)
    /\ Converse(r, Answered([q EXCEPT !.pending = request[r].payload,
                                      !.id = request[r].id], "read_back"))
    /\ readBack' = [readBack EXCEPT ![q.session] = request[r].payload]
    /\ Resume(r)
    /\ UNCHANGED <<opened, supports, supportNext, told>>

-----------------------------------------------------------------------------
(* The confirmation lifecycle.                                              *)

HearConfirm(r, intent) ==
    /\ intent = "confirm" /\ socket[r].pending # Nothing
    /\ \/ /\ ~socket[r].poisoned
          /\ ConfirmRead(r, socket[r].user, socket[r].id)
          /\ Converse(r, [socket[r] EXCEPT !.step = "confirming"])
          /\ Unheard
       \/ socket[r].poisoned /\ Hangup(r)

\* Mutant: what confirm_confirmation returned is not looked at.
ConfirmIgnored(r) ==
    /\ OnStep(r, "confirming") /\ Served(r)
    /\ Converse(r, [socket[r] EXCEPT !.step = "tool"])
    /\ Resume(r)
    /\ Unheard

ConfirmAnswered(r) ==
    /\ OnStep(r, "confirming") /\ Served(r)
    /\ \/ /\ request[r].result = "not_confirmed"
          /\ Converse(r, Answered(Forget(socket[r]), "expired"))
       \/ /\ request[r].result = "confirmed"
          /\ Converse(r, [socket[r] EXCEPT !.step = "tool"])
    /\ Resume(r)
    /\ Unheard

\* execute_tool, after it has announced the tool.
CreateEnquiry(r) ==
    /\ OnStep(r, "tool") /\ LoopFree(r)
    /\ ConsumeBegin(r, socket[r].user, socket[r].id, socket[r].pending)
    /\ Converse(r, [socket[r] EXCEPT !.step = "creating"])
    /\ Unheard

Creation(r) ==
    [id |-> request[r].id, number |-> request[r].number,
     payload |-> request[r].payload, user |-> request[r].user]

\* Mutant: the status of the tool's result is not looked at.
CreatedUnlessMissing(r) == request[r].result # "confirmation_not_found"

Created(r) == request[r].result \in {"created", "idempotent_replay"}

EnquiryAnswered(r) ==
    /\ OnStep(r, "creating") /\ Served(r)
    /\ Converse(r, Answered(Forget(socket[r]),
                            IF Created(r) THEN "created" ELSE "failed"))
    /\ told' = IF Created(r)
               THEN [told EXCEPT !.created = @ \cup {Creation(r)}] ELSE told
    /\ Resume(r)
    /\ UNCHANGED <<opened, supports, supportNext, readBack>>

HearCancel(r, intent) ==
    /\ intent = "cancel" /\ socket[r].pending # Nothing
    /\ \/ /\ ~socket[r].poisoned
          /\ CancelRead(r, socket[r].user, socket[r].id)
          /\ Converse(r, [socket[r] EXCEPT !.step = "cancelling"])
          /\ Unheard
       \/ socket[r].poisoned /\ Hangup(r)

\* Whatever cancel_confirmation returned.
CancelAnswered(r) ==
    /\ OnStep(r, "cancelling") /\ Served(r)
    /\ Converse(r, Answered(Forget(socket[r]), "cancelled"))
    /\ told' = [told EXCEPT !.cancelled = @ \cup {socket[r].id}]
    /\ Resume(r)
    /\ UNCHANGED <<opened, supports, supportNext, readBack>>

\* An answer to "Did you want me to find distributors ...?", either way; the
\* search may fail as in HearInVain.
HearAboutSearch(r, intent) ==
    /\ intent \in {"confirm", "cancel"}
    /\ socket[r].pending = Nothing /\ socket[r].search
    /\ \E failed \in IF intent = "confirm" THEN BOOLEAN ELSE {FALSE} :
          Converse(r, Answered([socket[r] EXCEPT !.search = FALSE,
                                                 !.poisoned = @ \/ failed], "other"))
    /\ UNCHANGED vars
    /\ Unheard

HearNothingPending(r, intent) ==
    /\ intent = "confirm"
    /\ socket[r].pending = Nothing /\ ~socket[r].search
    /\ Say(r, "other")
    /\ UNCHANGED vars
    /\ Unheard

HearDrop(r, intent) ==
    /\ intent = "cancel" /\ socket[r].slots # Nothing
    /\ socket[r].pending = Nothing /\ ~socket[r].search
    /\ Converse(r, Answered([socket[r] EXCEPT !.slots = Nothing], "other"))
    /\ UNCHANGED vars
    /\ Unheard

\* Is the utterance taken for a decision, by one of the actions above?
Decision(r, intent) ==
    \/ intent = "confirm"
    \/ /\ intent = "cancel"
       /\ \/ socket[r].pending # Nothing
          \/ socket[r].search
          \/ socket[r].slots # Nothing

-----------------------------------------------------------------------------
(* Slot filling and the other intents.  The slots are used or dropped.      *)

CompletesSlots(r, text, intent) ==
    /\ socket[r].slots # Nothing
    /\ Restated(text) \/ Completing(intent)

WithoutSlots(r) == [socket[r] EXCEPT !.slots = Nothing]

HearSlots(r, text, intent) ==
    /\ ~Decision(r, intent)
    /\ CompletesSlots(r, text, intent)
    /\ Propose(r, WithoutSlots(r),
               IF Restated(text) THEN Draft(Extraction[text])
               ELSE [socket[r].slots EXCEPT !.destination = PlaceIn(text)])

\* An intent is acted on when no decision and no slot took the utterance.
Acts(r, text, intent) ==
    ~Decision(r, intent) /\ ~CompletesSlots(r, text, intent)

HearEnquiry(r, text, intent) ==
    LET q == WithoutSlots(r)
        found == Extraction[text] IN
    /\ Acts(r, text, intent) /\ intent = "create_enquiry"
    /\ \/ Complete(found) /\ Propose(r, q, Draft(found))
       \/ /\ Partial(found)
          /\ Converse(r, Answered([q EXCEPT !.slots = Draft(found)], "where"))
          /\ UNCHANGED vars
          /\ Unheard
       \/ /\ ~Complete(found) /\ ~Partial(found)
          /\ Converse(r, Answered(q, "other"))
          /\ UNCHANGED vars
          /\ Unheard

\* request_human_support: the counter row is locked, the request numbered and
\* committed without an await in between.
HearHuman(r, text, intent) ==
    LET u == socket[r].user
        w == WorkspaceOf[u] IN
    /\ Acts(r, text, intent) /\ intent = "human_support"
    /\ ~socket[r].poisoned
    /\ counterLock[w] = Nothing
    /\ supports' = supports \cup
           {[workspace |-> w, user |-> u, number |-> supportNext[w]]}
    /\ supportNext' = [supportNext EXCEPT ![w] = @ + 1]
    /\ Converse(r, Answered(WithoutSlots(r), "support"))
    /\ UNCHANGED <<vars, opened, readBack, told>>

\* The tools that only read, and the answers that need no tool.
HearQuestion(r, text, intent, sure) ==
    /\ Acts(r, text, intent)
    /\ \/ intent = "greeting"
       \/ intent \in {"describe_selected", "check_enquiry"} /\ ~socket[r].poisoned
       \/ intent = "search_distributors" /\ sure /\ ~socket[r].poisoned
    /\ Converse(r, Answered(WithoutSlots(r), "other"))
    /\ UNCHANGED vars
    /\ Unheard

\* The connection to the database is lost in a tool, which answers with an
\* error; every later statement of the session fails, in a tool with the same
\* answer, elsewhere with an exception that ends the conversation.
HearInVain(r, text, intent, sure) ==
    /\ Acts(r, text, intent)
    /\ \/ intent \in {"describe_selected", "check_enquiry", "human_support"}
       \/ intent = "search_distributors" /\ sure
    /\ Converse(r, Answered([WithoutSlots(r) EXCEPT !.poisoned = TRUE],
                            "failed"))
    /\ UNCHANGED vars
    /\ Unheard

\* Nothing to act on: what was recognised is offered as a search.
HearUnsure(r, text, intent, sure) ==
    /\ Acts(r, text, intent)
    /\ \/ intent \in {"cancel", "help", "unknown"}
       \/ intent = "search_distributors" /\ ~sure
    /\ Converse(r, IF Recognised[text]
                   THEN Answered([WithoutSlots(r) EXCEPT !.search = TRUE],
                                 "search")
                   ELSE Answered(WithoutSlots(r), "other"))
    /\ UNCHANGED vars
    /\ Unheard

Hear(r) ==
    /\ Hears(r)
    /\ messages < MaxMessages
    /\ messages' = messages + 1
    /\ \E text \in Utterances, s \in Selected :
          LET intent == Intent[text][s] IN
          \/ HearConfirm(r, intent) \/ HearCancel(r, intent)
          \/ HearAboutSearch(r, intent) \/ HearNothingPending(r, intent)
          \/ HearDrop(r, intent)
          \/ HearSlots(r, text, intent)
          \/ HearEnquiry(r, text, intent)
          \/ HearHuman(r, text, intent)
          \/ HearQuestion(r, text, intent, Sure[text][s])
          \/ HearInVain(r, text, intent, Sure[text][s])
          \/ HearUnsure(r, text, intent, Sure[text][s])

-----------------------------------------------------------------------------
(* The socket.                                                              *)

Connect(r, u, s) ==
    /\ socket[r] = NoSocket /\ s \notin opened
    /\ Converse(r, [NoSocket EXCEPT !.step = "listening", !.user = u,
                                    !.session = s])
    /\ opened' = opened \cup {s}
    /\ UNCHANGED <<vars, supports, supportNext, readBack, told, messages>>

\* The last message of an answer has been sent.
Reply(r) ==
    /\ OnStep(r, "replying")
    /\ Converse(r, [socket[r] EXCEPT !.step = "listening"])
    /\ UNCHANGED vars
    /\ Unheard

\* Noticed where the coroutine awaits a message or the sending of one.
Disconnect(r) ==
    /\ socket[r].step \in {"listening", "tool", "replying"}
    /\ Hangup(r)

\* The next statement of the service function.
ServiceStep(r) ==
    /\ ~OnStep(r, "dead")
    /\ \/ PrepareInsert(r)
       \/ ConfirmCheck(r) \/ ConfirmExpire(r) \/ ConfirmWrite(r)
       \/ CancelWrite(r)
       \/ ConsumeLock(r) \/ ConsumeExamine(r) \/ ConsumeExpire(r)
       \/ ConsumeNumber(r) \/ ConsumeCommit(r)
    /\ UNCHANGED conversation

\* The connection to the database is lost in a service function, before its
\* commit or while the answer to it is awaited.  A tool's exception is caught;
\* any other ends the conversation.
Fault(r) ==
    /\ socket[r].step \in {"confirming", "cancelling", "preparing", "creating"}
    /\ Abort(r) \/ Return(r)
    /\ Converse(r, IF OnStep(r, "creating")
                   THEN Answered([Forget(socket[r]) EXCEPT !.poisoned = TRUE],
                                 "failed")
                   ELSE NoSocket)
    /\ Unheard

\* The process dies with all its sockets; the database notices the connections
\* it has lost one by one.
Crash ==
    /\ \E r \in Requests : socket[r].step \notin {"closed", "dead"}
    /\ socket' = [r \in Requests |->
                     IF socket[r] = NoSocket THEN NoSocket
                     ELSE [NoSocket EXCEPT !.step = "dead"]]
    /\ UNCHANGED <<vars, messages>>
    /\ Unheard

\* Mutant: the locks of a connection that is gone are kept.
ReapKeepsLocks(r) ==
    /\ OnStep(r, "dead")
    /\ Converse(r, NoSocket)
    /\ Become(r, NoRequest)
    /\ UNCHANGED <<tables, locks, now>>
    /\ Unheard

Reap(r) == OnStep(r, "dead") /\ Hangup(r)

Progress(r) ==
    /\ \/ ServiceStep(r)
       \/ ProposalReady(r) \/ ConfirmAnswered(r) \/ CancelAnswered(r)
       \/ CreateEnquiry(r) \/ EnquiryAnswered(r)
       \/ Reply(r) \/ Reap(r)
    /\ UNCHANGED messages

Interrupt(r) == (Disconnect(r) \/ Fault(r)) /\ UNCHANGED messages

DialogueNext ==
    \/ \E r \in Requests :
          \/ \E u \in Users, s \in Sessions : Connect(r, u, s)
          \/ Hear(r) \/ Progress(r) \/ Interrupt(r)
    \/ Crash
    \/ Tick /\ UNCHANGED conversation

DialogueSpec == DialogueInit /\ [][DialogueNext]_dialogueVars

-----------------------------------------------------------------------------
(* Properties.                                                              *)

\* An enquiry is created with the details read back last in its session: what
\* was said, dropped, corrected or left pending before does not come back.
OnlyLastReadBackIsCreated ==
    [][\A e \in enquiries' \ enquiries :
          readBack[confirmations[e.confirmation].session] = e.payload]_dialogueVars

\* What a caller was told stays true: "created" names an enquiry of theirs with
\* the details agreed on, and what was "cancelled and nothing was created" is
\* not created later, through whatever reuse of the proposal.
TellsTheTruth ==
    /\ \A t \in told.created :
          \E e \in EnquiriesOf(t.id) :
             e.number = t.number /\ e.payload = t.payload /\ e.buyer = t.user
    /\ \A c \in told.cancelled : EnquiriesOf(c) = {}

\* A socket keeps its database session while it waits for the caller, but never
\* a lock: no early return of consume_confirmation, which leaves its row locked,
\* is reachable from a conversation.
ListenersHoldNoLocks ==
    \A r \in Requests :
        OnStep(r, "listening") =>
            /\ \A c \in ConfirmationIds : rowLock[c] # r
            /\ \A w \in Workspaces : counterLock[w] # r

\* A coroutine that waits for a lock blocks the event loop, and with it whoever
\* could release the lock: it only ever waits for the connection of a process
\* that has died, whether in a service function or in request_human_support.
LoopNeverBlocksItself ==
    \A r, q \in Requests :
        ~OnStep(q, "dead") =>
            /\ WaitsFor(r, q) => OnStep(r, "dead")
            /\ Hears(r) => counterLock[WorkspaceOf[socket[r].user]] # q

\* Every conversation is a behaviour of the confirmation service, so that what
\* holds of the service holds here.  (The same as Init /\ [][Next]_vars, in the
\* order that is the cheaper one to evaluate.)
UsesTheService == Init /\ [][UNCHANGED vars \/ Next]_vars

\* "Create an enquiry only after confirming the exact details": the question
\* the caller said yes to is the one that read the details back.
CreatedOnItsQuestion ==
    \A r \in Requests :
        OnStep(r, "creating") /\ Created(r) => socket[r].reply = "read_back"
==============================================================================
