----------------------------- MODULE VoiceClient -----------------------------
(***************************************************************************)
(* The browser's side of a realtime voice session                           *)
(* (frontend/src/voice/openaiRealtime.ts, held by                           *)
(* frontend/src/components/VoicePanel.tsx).  The panel makes a client,      *)
(* which asks for the microphone, opens a connection to the provider,       *)
(* creates a session at the backend, posts the transcripts and tool calls   *)
(* that it hears, and releases all of it when it is closed.                 *)
(*                                                                          *)
(* The code runs to completion between two awaits, so a step is what        *)
(* happens from one await to the next; whatever is awaited may end, or      *)
(* fail, in any order.                                                      *)
(***************************************************************************)
EXTENDS Naturals, FiniteSets

CONSTANTS
    Clients,     \* the OpenAIRealtimeClients that the panels may make
    Calls,       \* call_id of the tool calls
    Nobody,      \* null
    MaxHeard     \* bound: the transcripts of a client, or of any two

ASSUME ClientAssumption ==
    /\ Nobody \notin Clients
    /\ MaxHeard \in Nat

VARIABLES
    panel,    \* the mounted panel: its realtimeRef, what it shows, its clients
    client,   \* the fields of each client, and how far connect has come
    call,     \* what has become of each tool call of a client
    words,    \* what has become of each transcript of a client
    network,  \* the other requests of clients, and answers, on their way
    store,    \* the clients whose session the backend has
    history   \* when each client was closed, which ones lost a request

voiceVars == <<panel, client, call, words, network, store, history>>

-----------------------------------------------------------------------------

ConnectSteps ==
    {"new", "microphone", "offer", "call", "answer", "ready", "failed"}

Client ==
    [step : ConnectSteps, closed : BOOLEAN,
     microphone : BOOLEAN,                     \* localStream has live tracks
     channel : {"none", "live", "closed"},     \* the connection and its channel
     session : BOOLEAN,                        \* sessionId is not null
     heard : 0 .. MaxHeard,                    \* transcripts so far
     observation : 0 .. MaxHeard,              \* transcriptObservation
     processed : SUBSET Calls]                 \* processedToolCalls

NewClient ==
    [step |-> "new", closed |-> FALSE, microphone |-> FALSE, channel |-> "none",
     session |-> FALSE, heard |-> 0, observation |-> 0, processed |-> {}]

CallState ==
    [step : {"none", "waiting", "posted", "returned", "failed"},
     awaits : 0 .. MaxHeard,   \* the observation it waits for
     heard : 0 .. MaxHeard,    \* history: the transcripts heard before it
     posts : Nat]              \* history: how often it was posted

NoCall == [step |-> "none", awaits |-> 0, heard |-> 0, posts |-> 0]

\* The request that posts a transcript, and whether its fetch is over.  The handler
\* of the session has got it, or there is no such session; if the fetch failed,
\* nobody knows whether it has arrived, or still will.
Word ==
    [post : {"none", "sent", "observed", "unknown", "unsure"}, settled : BOOLEAN]

NoWord == [post |-> "none", settled |-> FALSE]

\* Requests on their way, and the answers to the one that creates a session.
Setup(c) == [kind |-> "setup", client |-> c]
Answer(c, ok) == [kind |-> "answer", client |-> c, ok |-> ok]
Delete(c, reason) == [kind |-> "delete", client |-> c, reason |-> reason]

\* Who awaits close: endSession, startRealtimeSession, nobody.
Reasons == {"ended", "failed", "unmounted"}

Messages ==
    UNION {{Setup(c)} \cup {Answer(c, ok) : ok \in BOOLEAN}
           \cup {Delete(c, reason) : reason \in Reasons} : c \in Clients}

ClientTypeOK ==
    /\ panel \in [mounted : BOOLEAN, current : Clients \cup {Nobody},
                  connected : BOOLEAN, clients : SUBSET Clients]
    /\ client \in [Clients -> Client]
    /\ call \in [Clients -> [Calls -> CallState]]
    /\ words \in [Clients -> [1 .. MaxHeard -> Word]]
    /\ network \subseteq Messages
    /\ store \subseteq Clients
    /\ history \in [closedAt : [Clients -> ConnectSteps], lost : SUBSET Clients]
    /\ ~panel.mounted => panel.current = Nobody /\ ~panel.connected

NoPanel ==
    [mounted |-> FALSE, current |-> Nobody, connected |-> FALSE, clients |-> {}]

VoiceInit ==
    /\ panel = NoPanel
    /\ client = [c \in Clients |-> NewClient]
    /\ call = [c \in Clients |-> [k \in Calls |-> NoCall]]
    /\ words = [c \in Clients |-> [n \in 1 .. MaxHeard |-> NoWord]]
    /\ network = {}
    /\ store = {}
    /\ history = [closedAt |-> [c \in Clients |-> "new"], lost |-> {}]

-----------------------------------------------------------------------------
(* Helpers.                                                                 *)

AtStep(c, step) == client[c].step = step

Update(c, q) == client' = [client EXCEPT ![c] = q]

\* Mutant: the microphone is left to the garbage collector.
ReleasedQuietly(q) ==
    [q EXCEPT !.closed = TRUE, !.session = FALSE,
              !.channel = IF @ = "live" THEN "closed" ELSE @]

\* What close has given back before it awaits anything.
Released(q) ==
    [q EXCEPT !.closed = TRUE, !.session = FALSE, !.microphone = FALSE,
              !.channel = IF @ = "live" THEN "closed" ELSE @]

\* close: nothing for a client that is closed already; a request only for a
\* session the client knows of.
Close(c, q, reason, others) ==
    /\ Update(c, IF q.closed THEN q ELSE Released(q))
    /\ network' = others \cup (IF q.session /\ ~q.closed
                               THEN {Delete(c, reason)} ELSE {})
    /\ history' = IF q.closed THEN history
                  ELSE [history EXCEPT !.closedAt[c] = client[c].step]

\* Mutant: what is shown is left to the next status.
ResumeSilently(c, p, reason) ==
    [p EXCEPT !.current = IF reason = "failed" /\ @ = c THEN Nobody ELSE @]

\* What the panel that made the client does after the close it awaited.
Resume(c, p, reason) ==
    IF reason = "unmounted" \/ c \notin p.clients THEN p
    ELSE [p EXCEPT !.connected = FALSE,
                   !.current = IF reason = "failed" /\ @ = c THEN Nobody ELSE @]

\* It waits for nothing if there is no request.
Proceed(c, p, reason) ==
    IF client[c].session /\ ~client[c].closed THEN p ELSE Resume(c, p, reason)

-----------------------------------------------------------------------------
(* VoicePanel.                                                              *)

OpenPanel ==
    /\ ~panel.mounted
    /\ panel' = [NoPanel EXCEPT !.mounted = TRUE]
    /\ UNCHANGED <<client, call, words, network, store, history>>

\* The button is there while the panel shows no connection; it does nothing while
\* there is a client.
Start(c) ==
    /\ panel.mounted /\ ~panel.connected /\ panel.current = Nobody
    /\ AtStep(c, "new")
    /\ panel' = [panel EXCEPT !.current = c, !.clients = @ \cup {c}]
    /\ Update(c, [NewClient EXCEPT !.step = "microphone"])
    /\ UNCHANGED <<call, words, network, store, history>>

\* endSession by its button.  A second click finds no client and resets what is
\* shown at once.
End ==
    /\ panel.mounted /\ panel.connected
    /\ IF panel.current = Nobody
       THEN /\ panel' = [panel EXCEPT !.connected = FALSE]
            /\ UNCHANGED <<client, network, history>>
       ELSE LET c == panel.current IN
            /\ panel' = Proceed(c, [panel EXCEPT !.current = Nobody], "ended")
            /\ Close(c, client[c], "ended", network)
    /\ UNCHANGED <<call, words, store>>

\* The panel is closed, or the user signs out: it is unmounted, whatever its
\* client is doing.
ClosePanel ==
    /\ panel.mounted
    /\ panel' = NoPanel
    /\ IF panel.current = Nobody
       THEN UNCHANGED <<client, network, history>>
       ELSE Close(panel.current, client[panel.current], "unmounted", network)
    /\ UNCHANGED <<call, words, store>>

-----------------------------------------------------------------------------
(* connect.  The client may have been closed during any of its awaits.      *)

\* connect throws: startRealtimeSession closes the client.
Fail(c, others) ==
    /\ Close(c, [client[c] EXCEPT !.step = "failed"], "failed", others)
    /\ panel' = Proceed(c, panel, "failed")

MicrophoneGranted(c) ==
    /\ AtStep(c, "microphone")
    /\ Update(c, [client[c] EXCEPT !.step = "offer", !.microphone = TRUE,
                                   !.channel = "live"])
    /\ UNCHANGED <<panel, call, words, network, store, history>>

OfferMade(c) ==
    /\ AtStep(c, "offer") /\ client[c].channel = "live"
    /\ Update(c, [client[c] EXCEPT !.step = "call"])
    /\ network' = network \cup {Setup(c)}
    /\ UNCHANGED <<panel, call, words, store, history>>

CallAnswered(c) ==
    /\ AtStep(c, "call") /\ Answer(c, TRUE) \in network
    /\ Update(c, [client[c] EXCEPT !.step = "answer", !.session = TRUE])
    /\ network' = network \ {Answer(c, TRUE)}
    /\ UNCHANGED <<panel, call, words, store, history>>

AnswerApplied(c) ==
    /\ AtStep(c, "answer") /\ client[c].channel = "live"
    /\ Update(c, [client[c] EXCEPT !.step = "ready"])
    /\ panel' = IF c \in panel.clients THEN [panel EXCEPT !.connected = TRUE]
                                       ELSE panel
    /\ UNCHANGED <<call, words, network, store, history>>

\* The microphone is refused, the browser makes no offer or rejects the answer, as
\* it does if the connection was closed meanwhile, or the backend's answer is an
\* error.
ConnectFails(c) ==
    /\ client[c].step \in {"microphone", "offer", "call", "answer"}
    /\ AtStep(c, "call") => Answer(c, FALSE) \in network
    /\ Fail(c, network \ {Answer(c, FALSE)})
    /\ UNCHANGED <<call, words, store>>

-----------------------------------------------------------------------------
(* What the client hears.                                                   *)

Hears(c) == AtStep(c, "ready") /\ client[c].channel = "live"

SetWord(c, n, word) == words' = [words EXCEPT ![c][n] = word]

\* Words that the provider has transcribed, or that were typed.
HearWords(c) ==
    LET n == client[c].heard + 1 IN
    /\ Hears(c) /\ n <= MaxHeard
    /\ \A d \in Clients \ {c} : client[d].heard + n <= MaxHeard
    /\ Update(c, [client[c] EXCEPT !.heard = n, !.observation = n])
    /\ SetWord(c, n, [post |-> "sent", settled |-> FALSE])
    /\ UNCHANGED <<panel, call, network, store, history>>

\* response.function_call_arguments.done, or the response.done that repeats it.
HearCall(c, k) ==
    /\ Hears(c) /\ k \notin client[c].processed
    /\ Update(c, [client[c] EXCEPT !.processed = @ \cup {k}])
    /\ call' = [call EXCEPT ![c][k] = [@ EXCEPT !.step = "waiting",
                                  !.awaits = client[c].observation,
                                  !.heard = client[c].heard]]
    /\ UNCHANGED <<panel, words, network, store, history>>

\* Mutant: the transcript is not awaited.
SettledAtOnce(c, n) == n <= client[c].heard

\* recordUserTranscript has returned, whatever became of its request.
Settled(c, n) == n # 0 => words[c][n].settled

\* The session is read after the wait: it may be null by then, and the call goes
\* to a session of that name, which does not exist.
PostCall(c, k) ==
    /\ call[c][k].step = "waiting"
    /\ Settled(c, call[c][k].awaits)
    /\ call' = [call EXCEPT ![c][k] =
          IF client[c].session
          THEN [@ EXCEPT !.step = "posted", !.posts = call[c][k].posts + 1]
          ELSE [@ EXCEPT !.step = "failed"]]
    /\ UNCHANGED <<panel, client, words, network, store, history>>

\* The result is returned to the model, if there is one and the channel is open.
CallSettles(c, k) ==
    /\ call[c][k].step = "posted"
    /\ \E step \in {"failed"} \cup
              (IF c \in store /\ client[c].channel = "live"
               THEN {"returned"} ELSE {}) :
          call' = [call EXCEPT ![c][k].step = step]
    /\ UNCHANGED <<panel, client, words, network, store, history>>

-----------------------------------------------------------------------------
(* The network and the backend.                                             *)

\* create_openai_realtime_call, which takes its session back if it fails.
SessionCreated(c) ==
    /\ Setup(c) \in network
    /\ \E ok \in BOOLEAN :
          /\ network' = (network \ {Setup(c)}) \cup {Answer(c, ok)}
          /\ store' = IF ok THEN store \cup {c} ELSE store
    /\ UNCHANGED <<panel, client, call, words, history>>

\* observe_user_transcript has it, even if it raises, or finds no such session.
TranscriptObserved(c, n) ==
    /\ words[c][n].post = "sent"
    /\ SetWord(c, n, [words[c][n] EXCEPT !.post =
                        IF c \in store THEN "observed" ELSE "unknown"])
    /\ UNCHANGED <<panel, client, call, network, store, history>>

\* The fetch is answered, with whatever status, or its connection breaks.
TranscriptSettles(c, n) ==
    /\ words[c][n].post # "none" /\ ~words[c][n].settled
    /\ \/ /\ words[c][n].post # "sent"
          /\ SetWord(c, n, [words[c][n] EXCEPT !.settled = TRUE])
       \/ SetWord(c, n, [post |-> "unsure", settled |-> TRUE])
    /\ UNCHANGED <<panel, client, call, network, store, history>>

SessionDeleted(c) ==
    /\ \E reason \in Reasons :
          /\ Delete(c, reason) \in network
          /\ network' = network \ {Delete(c, reason)}
          /\ panel' = Resume(c, panel, reason)
    /\ store' = store \ {c}
    /\ UNCHANGED <<client, call, words, history>>

\* A connection breaks; the client sees an error, whatever the backend has done.
RequestLost(c) ==
    /\ \/ /\ Answer(c, TRUE) \in network
          /\ network' = (network \ {Answer(c, TRUE)}) \cup {Answer(c, FALSE)}
          /\ UNCHANGED panel
       \/ \E reason \in Reasons :
             /\ Delete(c, reason) \in network
             /\ network' = network \ {Delete(c, reason)}
             /\ panel' = Resume(c, panel, reason)
    /\ history' = [history EXCEPT !.lost = @ \cup {c}]
    /\ UNCHANGED <<client, call, words, store>>

\* The backend forgets a session that is too old, or all when it restarts.
SessionForgotten(c) ==
    /\ c \in store
    /\ store' = store \ {c}
    /\ UNCHANGED <<panel, client, call, words, network, history>>

-----------------------------------------------------------------------------

VoiceNext ==
    \/ OpenPanel \/ End \/ ClosePanel
    \/ \E c \in Clients :
          \/ Start(c)
          \/ MicrophoneGranted(c) \/ OfferMade(c) \/ CallAnswered(c)
          \/ AnswerApplied(c) \/ ConnectFails(c)
          \/ HearWords(c)
          \/ \E k \in Calls : HearCall(c, k) \/ PostCall(c, k) \/ CallSettles(c, k)
          \/ \E n \in 1 .. MaxHeard : TranscriptObserved(c, n) \/ TranscriptSettles(c, n)
          \/ SessionCreated(c) \/ SessionDeleted(c)
          \/ RequestLost(c) \/ SessionForgotten(c)

VoiceSpec == VoiceInit /\ [][VoiceNext]_voiceVars

-----------------------------------------------------------------------------
(* Properties.                                                              *)

\* A call is posted once, however often the provider repeats it, and when it is
\* posted the last words heard before it are no longer on their way, unless the
\* connection of their request broke.  If the session answers the call, these
\* words have not gone to a session that did not exist.  Earlier words may still
\* be on their way, as may words that are transcribed after the call was heard.
CallsFollowWords ==
    \A c \in Clients, k \in Calls :
        LET last == words[c][call[c][k].heard] IN
        /\ call[c][k].posts <= 1
        /\ call[c][k].heard # 0 /\ call[c][k].posts # 0 =>
              /\ last.post \notin {"none", "sent"}
              /\ call[c][k].step = "returned" => last.post # "unknown"

\* Whoever is connected can be disconnected, and leaves nothing behind: a client
\* is open only as the panel's own, and one that is closed holds no microphone,
\* connection or session.  Except for a client that was closed while it waited
\* for the microphone, which goes on to connect and is closed by nobody, and for
\* sessions that it was not told of or could not delete.
OnlyInterruptedLeak ==
    \A c \in Clients :
        /\ ~AtStep(c, "new") /\ ~client[c].closed => panel.current = c
        /\ client[c].closed /\ history.closedAt[c] # "microphone" =>
              /\ ~client[c].microphone /\ client[c].channel # "live"
              /\ c \in store =>
                    \/ \E reason \in Reasons : Delete(c, reason) \in network
                    \/ history.closedAt[c] = "call"
                    \/ c \in history.lost

\* The panel shows a connection only while it has one that is ready, or waits for
\* the deletion of the one it had.
ShownIsThere ==
    panel.connected =>
        \/ panel.current # Nobody /\ AtStep(panel.current, "ready")
        \/ \E c \in panel.clients : Delete(c, "ended") \in network
=============================================================================
