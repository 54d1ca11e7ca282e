--------------------------- MODULE VoiceClientProofs ---------------------------
(***************************************************************************)
(* Theorems about VoiceClient, for every number of clients, of tool calls   *)
(* and of transcripts.                                                      *)
(***************************************************************************)
EXTENDS VoiceClient, TLAPS

-----------------------------------------------------------------------------
(* The inductive invariant behind the properties.                           *)

\* The panel and a client: it has at most the one that is open, it shows a
\* connection only beside one that is ready, and whom it closed had come to the
\* end of connect.
HeldOK(c) ==
    LET q == client[c] IN
    /\ panel.current = c => q.step # "new" /\ c \in panel.clients
    /\ panel.current = c /\ panel.connected => q.step = "ready"
    /\ q.step # "new" /\ ~q.closed => panel.current = c
    /\ c \in panel.clients /\ q.closed => q.step \in {"ready", "failed"}

\* How far connect has come, and which of its requests are on their way.
ConnectOK(c) ==
    LET q == client[c] IN
    /\ q.step = "new" => ~q.closed /\ q.processed = {}
    /\ q.step = "failed" => q.closed
    /\ q.step \in {"answer", "ready"} /\ ~q.closed => q.session
    /\ q.step \in {"new", "microphone", "offer"} => c \notin store
    /\ Setup(c) \in network => q.step = "call"
    /\ \A ok \in BOOLEAN : Answer(c, ok) \in network =>
          q.step = "call" /\ Setup(c) \notin network /\ Answer(c, ~ok) \notin network
    /\ \A reason \in Reasons : Delete(c, reason) \in network => q.closed

\* What a closed client holds, by what it waited for when it was closed.
ClosedOK(c) ==
    LET q == client[c]
        at == history.closedAt[c] IN
    q.closed =>
        /\ at \in {"microphone", "offer", "call", "answer", "ready"}
        /\ at # "microphone" =>
              ~q.microphone /\ q.channel # "live" /\ q.step # "microphone"
        /\ at = "offer" => c \notin store /\ q.step \in {"offer", "failed"}
        /\ at \in {"answer", "ready"} =>
              /\ q.step \in {"answer", "ready", "failed"}
              /\ c \in store =>
                    \/ \E reason \in Reasons : Delete(c, reason) \in network
                    \/ c \in history.lost

\* The words of a client: only one that is connected has any, no fetch is answered
\* before the backend has dealt with its request, and a session that was not
\* there will not be there.
WordsOK(c) ==
    \A n \in 1 .. MaxHeard :
        /\ words[c][n].post # "none" => client[c].step = "ready"
        /\ words[c][n].settled => words[c][n].post \notin {"none", "sent"}
        /\ words[c][n].post = "unknown" => c \notin store

\* A call waits for the last words before it, and is posted after them.
CallOK(c, k) ==
    LET q == client[c]
        h == call[c][k]
        last == words[c][h.heard] IN
    /\ q.observation = q.heard
    /\ k \notin q.processed => h.step = "none"
    /\ h.step \in {"none", "waiting"} => h.posts = 0
    /\ h.posts <= 1
    /\ h.step # "none" => h.heard <= q.heard
    /\ h.step = "waiting" => h.awaits = h.heard
    /\ h.heard # 0 /\ h.posts # 0 =>
          /\ last.post \notin {"none", "sent"}
          /\ h.step = "returned" => last.post # "unknown"

TalkOK(c) == WordsOK(c) /\ \A k \in Calls : CallOK(c, k)

VoiceInv ==
    /\ ClientTypeOK
    /\ \A c \in Clients :
          HeldOK(c) /\ ConnectOK(c) /\ ClosedOK(c) /\ TalkOK(c)
    /\ ShownIsThere

-----------------------------------------------------------------------------

\* All that the invariant says of one client.
ClientOK(c) ==
    HeldOK(c) /\ ConnectOK(c) /\ ClosedOK(c) /\ TalkOK(c)

\* A step in which client d takes no part: its fields, calls, words, session and
\* requests stay, and the panel neither takes it up nor drops it while
\* it is open.
Untouched(d) ==
    /\ client'[d] = client[d] /\ call'[d] = call[d] /\ words'[d] = words[d]
    /\ d \in store' <=> d \in store
    /\ history'.closedAt[d] = history.closedAt[d]
    /\ d \in history.lost => d \in history'.lost
    /\ \A m : m.client = d => (m \in network' <=> m \in network)
    /\ d \in panel'.clients => d \in panel.clients
    /\ panel'.current = d => panel.current = d /\ d \in panel'.clients
    /\ panel'.current = d /\ panel'.connected => panel.connected
    /\ panel.current = d /\ ~client[d].closed => panel'.current = d

-----------------------------------------------------------------------------
(* Messages.                                                                *)

\* Requests of different kinds, of different clients or with different contents
\* are different ones.
LEMMA MessagesDiffer ==
    \A c, d, ok, okay, reason, why :
        /\ Setup(c) = Setup(d) => c = d
        /\ Setup(c) # Answer(d, ok) /\ Setup(c) # Delete(d, reason)
        /\ Answer(c, ok) = Answer(d, okay) => c = d /\ ok = okay
        /\ Answer(c, ok) # Delete(d, reason)
        /\ Delete(c, reason) = Delete(d, why) => c = d /\ reason = why
<1> USE DEF Setup, Answer, Delete
<1>1. \A c, d, ok, reason :
          /\ Setup(c) # Answer(d, ok) /\ Setup(c) # Delete(d, reason)
          /\ Answer(c, ok) # Delete(d, reason)
  OBVIOUS
<1>2. \A c, d : Setup(c) = Setup(d) => c = d
  <2> TAKE c, d
  <2>1. Setup(c).client = c /\ Setup(d).client = d
    OBVIOUS
  <2> QED BY <2>1
<1>3. \A c, d, ok, okay : Answer(c, ok) = Answer(d, okay) => c = d /\ ok = okay
  <2> TAKE c, d, ok, okay
  <2>1. /\ Answer(c, ok).client = c /\ Answer(d, okay).client = d
        /\ Answer(c, ok).ok = ok /\ Answer(d, okay).ok = okay
    OBVIOUS
  <2> QED BY <2>1
<1>4. \A c, d, reason, why : Delete(c, reason) = Delete(d, why) => c = d /\ reason = why
  <2> TAKE c, d, reason, why
  <2>1. /\ Delete(c, reason).client = c /\ Delete(d, why).client = d
        /\ Delete(c, reason).reason = reason /\ Delete(d, why).reason = why
    OBVIOUS
  <2> QED BY <2>1
<1> QED BY <1>1, <1>2, <1>3, <1>4

\* Every message that can be sent has its type.
LEMMA MessageTypes ==
    ASSUME NEW c \in Clients
    PROVE  /\ Setup(c) \in Messages
           /\ \A ok \in BOOLEAN : Answer(c, ok) \in Messages
           /\ \A reason \in Reasons : Delete(c, reason) \in Messages
  BY DEF Messages

\* Every message is from its client.
LEMMA MessageClients ==
    \A c, ok, reason :
        /\ Setup(c).client = c /\ Answer(c, ok).client = c
        /\ Delete(c, reason).client = c
  BY DEF Setup, Answer, Delete

-----------------------------------------------------------------------------
(* Frames.                                                                  *)

\* What the invariant says of a client stays while it takes no part.
LEMMA UntouchedOK ==
    ASSUME VoiceInv, NEW d \in Clients, Untouched(d)
    PROVE  ClientOK(d)'
<1>1. ClientOK(d)
  BY DEF VoiceInv, ClientOK
<1>2. HeldOK(d)'
  BY <1>1 DEF ClientOK, HeldOK, Untouched
<1>3. /\ Setup(d) \in network' <=> Setup(d) \in network
      /\ \A ok : Answer(d, ok) \in network' <=> Answer(d, ok) \in network
      /\ \A reason : Delete(d, reason) \in network' <=> Delete(d, reason) \in network
  BY MessageClients DEF Untouched
<1>4. ConnectOK(d)'
  BY <1>1, <1>3 DEF ClientOK, ConnectOK, Untouched
<1>5. ClosedOK(d)'
  BY <1>1, <1>3 DEF ClientOK, ClosedOK, Untouched
<1>6. TalkOK(d)'
  BY <1>1 DEF ClientOK, TalkOK, WordsOK, CallOK, Untouched
<1> QED BY <1>2, <1>4, <1>5, <1>6 DEF ClientOK

\* A step of one client keeps the invariant if it keeps what it says of that one.
LEMMA OneClient ==
    ASSUME VoiceInv, NEW c \in Clients, ClientTypeOK', ClientOK(c)', ShownIsThere',
           \A d \in Clients \ {c} : Untouched(d)
    PROVE  VoiceInv'
  BY UntouchedOK DEF VoiceInv, ClientOK

\* The panel shows what it showed while it and the requests to delete stay.
LEMMA ShownFrame ==
    ASSUME VoiceInv, panel' = panel,
           \A c \in Clients : AtStep(c, "ready") => client'[c].step = "ready",
           \A c \in Clients : Delete(c, "ended") \in network => Delete(c, "ended") \in network'
    PROVE  ShownIsThere'
  BY DEF VoiceInv, ShownIsThere, ClientTypeOK, AtStep

\* What the invariant says of the types.
LEMMA Typed ==
    ASSUME VoiceInv
    PROVE  /\ client \in [Clients -> Client]
           /\ call \in [Clients -> [Calls -> CallState]]
           /\ words \in [Clients -> [1 .. MaxHeard -> Word]]
           /\ history \in [closedAt : [Clients -> ConnectSteps], lost : SUBSET Clients]
           /\ panel \in [mounted : BOOLEAN, current : Clients \cup {Nobody},
                         connected : BOOLEAN, clients : SUBSET Clients]
           /\ network \subseteq Messages /\ store \subseteq Clients
           /\ ~panel.mounted => panel.current = Nobody /\ ~panel.connected
           /\ \A c \in Clients : ClientOK(c)
           /\ ShownIsThere
  BY DEF VoiceInv, ClientTypeOK, ClientOK

\* What updating one client means.
LEMMA Updated ==
    ASSUME VoiceInv, NEW c \in Clients, NEW q \in Client, Update(c, q)
    PROVE  /\ client' \in [Clients -> Client]
           /\ client'[c] = q
           /\ \A d \in Clients \ {c} : client'[d] = client[d]
  BY Typed DEF Update

\* The other clients take no part in a step that changes the client, its calls
\* and its requests only.
LEMMA OthersUntouched ==
    ASSUME VoiceInv, NEW c \in Clients, UNCHANGED <<panel, history>>,
           \A d \in Clients \ {c} :
              client'[d] = client[d] /\ call'[d] = call[d] /\ words'[d] = words[d],
           store \ {c} = store' \ {c},
           \A m : m.client # c => (m \in network' <=> m \in network)
    PROVE  \A d \in Clients \ {c} : Untouched(d)
<1> TAKE d \in Clients \ {c}
<1>1. panel.current = d => d \in panel.clients
  BY Typed DEF ClientOK, HeldOK
<1> QED BY <1>1 DEF Untouched

\* Calls and words stay as they are while nothing is heard.
LEMMA CallsFrame ==
    ASSUME VoiceInv, NEW c \in Clients, call'[c] = call[c], words'[c] = words[c],
           client'[c].heard = client[c].heard,
           client'[c].observation = client[c].observation,
           client'[c].processed = client[c].processed,
           client[c].step = "ready" =>
              client'[c].step = "ready" /\ (c \in store' => c \in store)
    PROVE  TalkOK(c)'
<1>1. TalkOK(c)
  BY DEF VoiceInv
<1>2. WordsOK(c)'
  BY <1>1 DEF TalkOK, WordsOK
<1>3. \A k \in Calls : CallOK(c, k)'
  BY <1>1 DEF TalkOK, CallOK
<1> QED BY <1>2, <1>3 DEF TalkOK

-----------------------------------------------------------------------------
(* connect.                                                                 *)

\* MicrophoneGranted keeps the invariant.
LEMMA MicrophoneGrantedInv ==
    ASSUME VoiceInv, NEW c \in Clients, MicrophoneGranted(c)
    PROVE  VoiceInv'
<1> DEFINE q == [client[c] EXCEPT !.step = "offer", !.microphone = TRUE,
                                  !.channel = "live"]
<1>0. client[c] \in Client
  BY Typed
<1>1. /\ q \in Client /\ q.step = "offer" /\ q.closed = client[c].closed
      /\ q.heard = client[c].heard /\ q.observation = client[c].observation
      /\ q.processed = client[c].processed
  BY <1>0 DEF Client, ConnectSteps
<1>2. Update(c, q) /\ UNCHANGED <<panel, call, words, network, store, history>>
  BY DEF MicrophoneGranted
<1>3. client[c].step = "microphone"
  BY DEF MicrophoneGranted, AtStep
<1> HIDE DEF q
<1>4. /\ client' \in [Clients -> Client] /\ client'[c] = q
      /\ \A d \in Clients \ {c} : client'[d] = client[d]
  BY <1>1, <1>2, Updated
<1>5. ClientTypeOK'
  BY <1>2, <1>4, Typed DEF ClientTypeOK
<1>6. ClientOK(c)'
  <2>1. HeldOK(c)'
    BY <1>1, <1>2, <1>3, <1>4, Typed DEF ClientOK, HeldOK
  <2>2. ConnectOK(c)'
    BY <1>1, <1>2, <1>3, <1>4, Typed DEF ClientOK, ConnectOK
  <2>3. ClosedOK(c)'
    BY <1>1, <1>2, <1>3, <1>4, Typed DEF ClientOK, ClosedOK
  <2>4. TalkOK(c)'
    BY <1>1, <1>2, <1>3, <1>4, CallsFrame
  <2> QED BY <2>1, <2>2, <2>3, <2>4 DEF ClientOK
<1>7. ShownIsThere'
  BY <1>2, <1>3, <1>4, ShownFrame DEF AtStep
<1> QED BY <1>2, <1>4, <1>5, <1>6, <1>7, OthersUntouched, OneClient

\* OfferMade keeps the invariant.
LEMMA OfferMadeInv ==
    ASSUME VoiceInv, NEW c \in Clients, OfferMade(c)
    PROVE  VoiceInv'
<1> DEFINE q == [client[c] EXCEPT !.step = "call"]
<1>0. client[c] \in Client
  BY Typed
<1>1. /\ q \in Client /\ q.step = "call" /\ q.closed = client[c].closed
      /\ q.heard = client[c].heard /\ q.observation = client[c].observation
      /\ q.processed = client[c].processed /\ q.channel = client[c].channel
      /\ q.microphone = client[c].microphone
  BY <1>0 DEF Client, ConnectSteps
<1>2. /\ Update(c, q) /\ UNCHANGED <<panel, call, words, store, history>>
      /\ network' = network \cup {Setup(c)}
  BY DEF OfferMade
<1>3. client[c].step = "offer" /\ client[c].channel = "live"
  BY DEF OfferMade, AtStep
<1> HIDE DEF q
<1>4. /\ client' \in [Clients -> Client] /\ client'[c] = q
      /\ \A d \in Clients \ {c} : client'[d] = client[d]
  BY <1>1, <1>2, Updated
<1>9. \A d, reason : Delete(d, reason) \in network' <=> Delete(d, reason) \in network
  BY <1>2, MessagesDiffer
<1>5. ClientTypeOK'
  BY <1>2, <1>4, Typed, MessageTypes DEF ClientTypeOK
<1>6. ClientOK(c)'
  <2>1. HeldOK(c)'
    BY <1>1, <1>2, <1>3, <1>4, Typed DEF ClientOK, HeldOK
  <2>2. ConnectOK(c)'
    BY <1>1, <1>2, <1>3, <1>4, Typed, MessagesDiffer DEF ClientOK, ConnectOK
  <2>3. ClosedOK(c)'
    BY <1>1, <1>2, <1>3, <1>4, Typed, MessagesDiffer DEF ClientOK, ClosedOK
  <2>4. TalkOK(c)'
    BY <1>1, <1>2, <1>3, <1>4, CallsFrame
  <2> QED BY <2>1, <2>2, <2>3, <2>4 DEF ClientOK
<1>7. ShownIsThere'
  BY <1>2, <1>3, <1>4, <1>9, ShownFrame DEF AtStep
<1>8. \A m : m.client # c => (m \in network' <=> m \in network)
  BY <1>2, MessageClients
<1> QED BY <1>2, <1>4, <1>5, <1>6, <1>7, <1>8, OthersUntouched, OneClient

\* CallAnswered keeps the invariant.
LEMMA CallAnsweredInv ==
    ASSUME VoiceInv, NEW c \in Clients, CallAnswered(c)
    PROVE  VoiceInv'
<1> DEFINE q == [client[c] EXCEPT !.step = "answer", !.session = TRUE]
<1>0. client[c] \in Client
  BY Typed
<1>1. /\ q \in Client /\ q.step = "answer" /\ q.closed = client[c].closed
      /\ q.heard = client[c].heard /\ q.observation = client[c].observation
      /\ q.processed = client[c].processed /\ q.channel = client[c].channel
      /\ q.microphone = client[c].microphone /\ q.session
  BY <1>0 DEF Client, ConnectSteps
<1>2. /\ Update(c, q) /\ UNCHANGED <<panel, call, words, store, history>>
      /\ network' = network \ {Answer(c, TRUE)}
  BY DEF CallAnswered
<1>3. client[c].step = "call" /\ Answer(c, TRUE) \in network
  BY DEF CallAnswered, AtStep
<1> HIDE DEF q
<1>4. /\ client' \in [Clients -> Client] /\ client'[c] = q
      /\ \A d \in Clients \ {c} : client'[d] = client[d]
  BY <1>1, <1>2, Updated
<1>9. \A d, reason : Delete(d, reason) \in network' <=> Delete(d, reason) \in network
  <2>1. \A d, reason : Delete(d, reason) # Answer(c, TRUE)
    BY DEF Delete, Answer
  <2> QED BY <1>2, <2>1
<1>5. ClientTypeOK'
  BY <1>2, <1>4, Typed DEF ClientTypeOK
<1>6. ClientOK(c)'
  <2>1. HeldOK(c)'
    BY <1>1, <1>2, <1>3, <1>4, Typed DEF ClientOK, HeldOK
  <2>2. ConnectOK(c)'
    <3>1. /\ Setup(c) \notin network' /\ \A ok \in BOOLEAN : Answer(c, ok) \notin network'
          /\ \A reason \in Reasons : Delete(c, reason) \in network' => client[c].closed
      BY <1>2, <1>3, Typed DEF ClientOK, ConnectOK
    <3> QED BY <1>1, <1>4, <3>1 DEF ConnectOK
  <2>3. ClosedOK(c)'
    BY <1>1, <1>2, <1>3, <1>4, Typed, MessagesDiffer DEF ClientOK, ClosedOK
  <2>4. TalkOK(c)'
    BY <1>1, <1>2, <1>3, <1>4, CallsFrame
  <2> QED BY <2>1, <2>2, <2>3, <2>4 DEF ClientOK
<1>7. ShownIsThere'
  BY <1>2, <1>3, <1>4, <1>9, ShownFrame DEF AtStep
<1>8. \A m : m.client # c => (m \in network' <=> m \in network)
  BY <1>2, MessageClients
<1> QED BY <1>2, <1>4, <1>5, <1>6, <1>7, <1>8, OthersUntouched, OneClient

\* The last await of connect: the panel that made the client has it still, and
\* shows the connection, or was closed while the client waited for the microphone.
LEMMA AnswerAppliedInv ==
    ASSUME VoiceInv, NEW c \in Clients, AnswerApplied(c)
    PROVE  VoiceInv'
<1> DEFINE q == [client[c] EXCEPT !.step = "ready"]
<1>0. client[c] \in Client
  BY Typed
<1>1. /\ q \in Client /\ q.step = "ready" /\ q.closed = client[c].closed
      /\ q.heard = client[c].heard /\ q.observation = client[c].observation
      /\ q.processed = client[c].processed /\ q.channel = client[c].channel
      /\ q.microphone = client[c].microphone /\ q.session = client[c].session
  BY <1>0 DEF Client, ConnectSteps
<1>2. /\ Update(c, q) /\ UNCHANGED <<call, words, network, store, history>>
      /\ panel' = IF c \in panel.clients THEN [panel EXCEPT !.connected = TRUE]
                                         ELSE panel
  BY DEF AnswerApplied
<1>3. client[c].step = "answer" /\ client[c].channel = "live"
  BY DEF AnswerApplied, AtStep
<1> HIDE DEF q
<1>4. /\ client' \in [Clients -> Client] /\ client'[c] = q
      /\ \A d \in Clients \ {c} : client'[d] = client[d]
  BY <1>1, <1>2, Updated
<1>5. /\ panel'.current = panel.current /\ panel'.clients = panel.clients
      /\ panel'.mounted = panel.mounted
      /\ c \notin panel.clients => panel' = panel
      /\ c \in panel.clients => panel'.connected
      /\ panel' \in [mounted : BOOLEAN, current : Clients \cup {Nobody},
                     connected : BOOLEAN, clients : SUBSET Clients]
  BY <1>2, Typed
<1>6. c \in panel.clients => panel.current = c
  BY <1>3, Typed DEF ClientOK, HeldOK
<1>7. ClientTypeOK'
  <2>1. ~panel'.mounted => panel'.current = Nobody /\ ~panel'.connected
    BY <1>5, <1>6, Typed, ClientAssumption
  <2> QED BY <1>2, <1>4, <1>5, <2>1, Typed DEF ClientTypeOK
<1>8. ClientOK(c)'
  <2>1. HeldOK(c)'
    BY <1>1, <1>2, <1>3, <1>4, <1>5, Typed DEF ClientOK, HeldOK
  <2>2. ConnectOK(c)'
    BY <1>1, <1>2, <1>3, <1>4, Typed DEF ClientOK, ConnectOK
  <2>3. ClosedOK(c)'
    BY <1>1, <1>2, <1>3, <1>4, Typed DEF ClientOK, ClosedOK
  <2>4. TalkOK(c)'
    BY <1>1, <1>2, <1>4, CallsFrame
  <2> QED BY <2>1, <2>2, <2>3, <2>4 DEF ClientOK
<1>9. ShownIsThere'
  <2>1. CASE c \in panel.clients
    BY <1>1, <1>4, <1>5, <1>6, <2>1, ClientAssumption DEF ShownIsThere, AtStep
  <2>2. CASE c \notin panel.clients
    BY <1>2, <1>3, <1>4, <1>5, <2>2, ShownFrame DEF AtStep
  <2> QED BY <2>1, <2>2
<1>10. ASSUME NEW d \in Clients \ {c} PROVE Untouched(d)
  <2>1. panel.current = d => d \in panel.clients /\ c \notin panel.clients
    BY <1>6, Typed DEF ClientOK, HeldOK
  <2> QED BY <1>2, <1>4, <1>5, <2>1 DEF Untouched
<1> QED BY <1>7, <1>8, <1>9, <1>10, OneClient

-----------------------------------------------------------------------------
(* close.                                                                   *)

\* What close does to its client c, which may have failed to connect: it gives
\* back what the client holds, or lets a request to delete it be on its way.
LEMMA ClosedClient ==
    ASSUME VoiceInv, NEW c \in Clients, NEW q \in Client, NEW reason \in Reasons,
           NEW others, client[c].step # "new",
           \/ q.step = client[c].step /\ others = network
           \/ /\ q.step = "failed"
              /\ client[c].step \in {"microphone", "offer", "call", "answer"}
              /\ client[c].step = "call" => Answer(c, FALSE) \in network
              /\ others = network \ {Answer(c, FALSE)},
           q.closed = client[c].closed, q.session = client[c].session,
           q.microphone = client[c].microphone, q.channel = client[c].channel,
           q.heard = client[c].heard, q.observation = client[c].observation,
           q.processed = client[c].processed,
           Close(c, q, reason, others), UNCHANGED <<call, words, store>>
    PROVE  /\ client' \in [Clients -> Client] /\ network' \subseteq Messages
           /\ history' \in [closedAt : [Clients -> ConnectSteps], lost : SUBSET Clients]
           /\ client'[c].closed /\ client'[c].step = q.step
           /\ ConnectOK(c)' /\ ClosedOK(c)' /\ TalkOK(c)'
           /\ \A d, why : Delete(d, why) \in network => Delete(d, why) \in network'
           /\ client[c].session /\ ~client[c].closed => Delete(c, reason) \in network'
           /\ history'.lost = history.lost
           /\ \A d \in Clients \ {c} :
                 client'[d] = client[d] /\ history'.closedAt[d] = history.closedAt[d]
           /\ \A m : m.client # c => (m \in network' <=> m \in network)
<1> DEFINE next == IF q.closed THEN q ELSE Released(q)
<1>0. client[c] \in Client /\ ClientOK(c)
  BY Typed
<1>1. /\ next \in Client /\ next.closed /\ next.step = q.step
      /\ next.heard = q.heard /\ next.observation = q.observation
      /\ next.processed = q.processed
      /\ q.closed => next = q
      /\ ~q.closed => ~next.microphone /\ next.channel # "live"
  BY DEF Client, Released
<1>2. Update(c, next)
  BY DEF Close
<1>3. /\ network' = others \cup (IF q.session /\ ~q.closed
                                 THEN {Delete(c, reason)} ELSE {})
      /\ history' = IF q.closed THEN history
                    ELSE [history EXCEPT !.closedAt[c] = client[c].step]
  BY DEF Close
<1> HIDE DEF next
<1>4. /\ client' \in [Clients -> Client] /\ client'[c] = next
      /\ \A d \in Clients \ {c} : client'[d] = client[d]
  BY <1>1, <1>2, Updated
<1>5. \A d, why : /\ Setup(d) # Answer(c, FALSE) /\ Setup(d) # Delete(c, reason)
                  /\ Delete(d, why) # Answer(c, FALSE)
                  /\ Answer(d, FALSE) # Delete(c, reason)
                  /\ Answer(d, TRUE) # Delete(c, reason)
                  /\ Answer(d, TRUE) # Answer(c, FALSE)
  <2>1. \A d : Answer(d, TRUE) # Answer(c, FALSE)
    <3> TAKE d
    <3>1. Answer(d, TRUE).ok /\ ~Answer(c, FALSE).ok
      BY DEF Answer
    <3> QED BY <3>1
  <2> QED BY <2>1 DEF Setup, Delete, Answer
<1>6. /\ Setup(c) \in network' <=> Setup(c) \in network
      /\ Answer(c, TRUE) \in network' <=> Answer(c, TRUE) \in network
      /\ Answer(c, FALSE) \in network' =>
            Answer(c, FALSE) \in network /\ q.step = client[c].step
      /\ \A d, why : Delete(d, why) \in network => Delete(d, why) \in network'
      /\ q.session /\ ~q.closed => Delete(c, reason) \in network'
  BY <1>3, <1>5
<1>7. /\ \A m : m.client # c => (m \in network' <=> m \in network)
      /\ network' \subseteq Messages
  <2>1. Delete(c, reason) \in Messages
    BY MessageTypes
  <2>2. Delete(c, reason).client = c /\ Answer(c, FALSE).client = c
    BY DEF Delete, Answer
  <2>3. others \subseteq network /\ network \subseteq Messages
    BY Typed
  <2>4. \A m : m.client # c => (m \in others <=> m \in network)
    BY <2>2
  <2>5. \A m : m.client # c => (m \in network' <=> m \in others)
    BY <1>3, <2>2
  <2> QED BY <1>3, <2>1, <2>3, <2>4, <2>5
<1>8. /\ history' \in [closedAt : [Clients -> ConnectSteps], lost : SUBSET Clients]
      /\ history'.lost = history.lost
      /\ \A d \in Clients \ {c} : history'.closedAt[d] = history.closedAt[d]
      /\ q.closed => history'.closedAt[c] = history.closedAt[c]
      /\ ~q.closed => history'.closedAt[c] = client[c].step
  <2>1. client[c].step \in ConnectSteps
    BY <1>0 DEF Client
  <2> QED BY <1>3, <2>1, Typed
<1>9. ConnectOK(c)'
  <2>1. q.step # "new" /\ (q.step \in {"microphone", "offer"} => c \notin store)
    BY <1>0 DEF ClientOK, ConnectOK
  <2>2. Setup(c) \in network' => q.step = "call"
    BY <1>0, <1>6 DEF ClientOK, ConnectOK
  <2>3. \A ok \in BOOLEAN : Answer(c, ok) \in network' =>
           q.step = "call" /\ Setup(c) \notin network' /\ Answer(c, ~ok) \notin network'
    <3>1. Answer(c, TRUE) \in network' =>
             q.step = "call" /\ Setup(c) \notin network' /\ Answer(c, FALSE) \notin network'
      BY <1>0, <1>6 DEF ClientOK, ConnectOK
    <3>2. Answer(c, FALSE) \in network' =>
             q.step = "call" /\ Setup(c) \notin network' /\ Answer(c, TRUE) \notin network'
      BY <1>0, <1>6 DEF ClientOK, ConnectOK
    <3> QED BY <3>1, <3>2
  <2> QED BY <1>1, <1>4, <2>1, <2>2, <2>3 DEF ConnectOK
<1>10. ClosedOK(c)'
  <2>1. CASE q.closed
    BY <1>0, <1>1, <1>4, <1>6, <1>8, <2>1 DEF ClientOK, ClosedOK
  <2>2. CASE ~q.closed
    <3>1. client[c].step \in {"microphone", "offer", "call", "answer", "ready"}
      BY <1>0, <2>2 DEF ClientOK, ConnectOK, Client, ConnectSteps
    <3>2. client[c].step = "offer" => c \notin store
      BY <1>0 DEF ClientOK, ConnectOK
    <3>3. client[c].step \in {"answer", "ready"} => Delete(c, reason) \in network'
      BY <1>0, <1>6, <2>2 DEF ClientOK, ConnectOK
    <3> QED BY <1>1, <1>4, <1>8, <2>2, <3>1, <3>2, <3>3 DEF ClosedOK
  <2> QED BY <2>1, <2>2
<1>11. TalkOK(c)'
  BY <1>1, <1>4, <1>6, CallsFrame
<1> QED BY <1>1, <1>4, <1>6, <1>7, <1>8, <1>9, <1>10, <1>11

\* What the panel becomes once a client has been deleted: it stays as it was, or
\* shows no connection, and lets go of the client if that had failed to connect.
LEMMA ResumedPanel ==
    ASSUME NEW c \in Clients, NEW reason \in Reasons,
           NEW p \in [mounted : BOOLEAN, current : Clients \cup {Nobody},
                      connected : BOOLEAN, clients : SUBSET Clients]
    PROVE  LET q == Resume(c, p, reason) IN
           /\ q \in [mounted : BOOLEAN, current : Clients \cup {Nobody},
                     connected : BOOLEAN, clients : SUBSET Clients]
           /\ q.mounted = p.mounted /\ q.clients = p.clients
           /\ q.current = IF reason = "failed" /\ c \in p.clients /\ p.current = c
                          THEN Nobody ELSE p.current
           /\ q.connected => p.connected
           /\ q.connected => c \notin p.clients \/ reason = "unmounted"
           /\ q.connected => q = p
  BY DEF Resume

\* ConnectFails keeps the invariant.
LEMMA ConnectFailsInv ==
    ASSUME VoiceInv, NEW c \in Clients, ConnectFails(c)
    PROVE  VoiceInv'
<1> DEFINE q == [client[c] EXCEPT !.step = "failed"]
           others == network \ {Answer(c, FALSE)}
<1>0. client[c] \in Client /\ ClientOK(c)
  BY Typed
<1>1. /\ q \in Client /\ q.step = "failed" /\ q.closed = client[c].closed
      /\ q.heard = client[c].heard /\ q.observation = client[c].observation
      /\ q.processed = client[c].processed /\ q.channel = client[c].channel
      /\ q.microphone = client[c].microphone /\ q.session = client[c].session
  BY <1>0 DEF Client, ConnectSteps
<1>2. /\ Close(c, q, "failed", others) /\ UNCHANGED <<call, words, store>>
      /\ panel' = Proceed(c, panel, "failed")
  BY DEF ConnectFails, Fail
<1>3. /\ client[c].step \in {"microphone", "offer", "call", "answer"}
      /\ client[c].step = "call" => Answer(c, FALSE) \in network
  BY DEF ConnectFails, AtStep
<1>4. "failed" \in Reasons /\ client[c].step # "new"
  BY <1>3 DEF Reasons
<1> HIDE DEF q, others
<1>5. /\ client' \in [Clients -> Client] /\ network' \subseteq Messages
      /\ history' \in [closedAt : [Clients -> ConnectSteps], lost : SUBSET Clients]
      /\ client'[c].closed /\ client'[c].step = "failed"
      /\ ConnectOK(c)' /\ ClosedOK(c)' /\ TalkOK(c)'
      /\ \A d, why : Delete(d, why) \in network => Delete(d, why) \in network'
      /\ history'.lost = history.lost
      /\ \A d \in Clients \ {c} :
            client'[d] = client[d] /\ history'.closedAt[d] = history.closedAt[d]
      /\ \A m : m.client # c => (m \in network' <=> m \in network)
  BY <1>1, <1>2, <1>3, <1>4, ClosedClient DEF others
<1>6. /\ panel' \in [mounted : BOOLEAN, current : Clients \cup {Nobody},
                     connected : BOOLEAN, clients : SUBSET Clients]
      /\ panel'.mounted = panel.mounted /\ panel'.clients = panel.clients
      /\ \/ panel'.current = panel.current
         \/ panel'.current = Nobody /\ panel.current = c
      /\ panel'.connected => panel' = panel
  <2>1. CASE panel' = panel
    BY <2>1, Typed
  <2>2. CASE panel' = Resume(c, panel, "failed")
    BY <1>4, <2>2, Typed, ResumedPanel
  <2> QED BY <1>2, <2>1, <2>2 DEF Proceed
<1>7. ClientTypeOK'
  BY <1>2, <1>5, <1>6, Typed DEF ClientTypeOK
<1>8. ClientOK(c)'
  <2>1. HeldOK(c)'
    BY <1>0, <1>3, <1>5, <1>6, ClientAssumption DEF ClientOK, HeldOK
  <2> QED BY <1>5, <2>1 DEF ClientOK
<1>9. ShownIsThere'
  <2>1. CASE panel'.connected
    BY <1>3, <1>5, <1>6, <2>1, ShownFrame DEF AtStep
  <2>2. CASE ~panel'.connected
    BY <2>2 DEF ShownIsThere
  <2> QED BY <2>1, <2>2
<1>10. ASSUME NEW d \in Clients \ {c} PROVE Untouched(d)
  <2>1. d # Nobody /\ (panel.current = d => d \in panel.clients)
    BY Typed, ClientAssumption DEF ClientOK, HeldOK
  <2> QED BY <1>2, <1>5, <1>6, <2>1 DEF Untouched
<1> QED BY <1>7, <1>8, <1>9, <1>10, OneClient

\* A closed client of a panel that is gone.
LEMMA ClosePanelInv ==
    ASSUME VoiceInv, ClosePanel
    PROVE  VoiceInv'
<1>1. /\ panel' = NoPanel /\ UNCHANGED <<call, words, store>>
      /\ ~panel'.connected /\ panel'.current = Nobody /\ panel'.clients = {}
      /\ panel' \in [mounted : BOOLEAN, current : Clients \cup {Nobody},
                     connected : BOOLEAN, clients : SUBSET Clients]
  BY DEF ClosePanel, NoPanel
<1>2. ShownIsThere'
  BY <1>1 DEF ShownIsThere
<1>3. CASE panel.current = Nobody
  <2>1. UNCHANGED <<client, network, history>>
    BY <1>3 DEF ClosePanel
  <2>2. \A d \in Clients : Untouched(d)
    BY <1>1, <1>3, <2>1, ClientAssumption DEF Untouched
  <2>3. ClientTypeOK'
    BY <1>1, <2>1, Typed DEF ClientTypeOK
  <2> QED BY <1>2, <2>2, <2>3, UntouchedOK DEF VoiceInv, ClientOK
<1>4. CASE panel.current # Nobody
  <2>0. PICK c \in Clients : c = panel.current
    BY <1>4, Typed
  <2>1. client[c] \in Client /\ ClientOK(c) /\ client[c].step # "new"
    BY <2>0, Typed DEF ClientOK, HeldOK
  <2>2. Close(c, client[c], "unmounted", network) /\ "unmounted" \in Reasons
    BY <1>4, <2>0 DEF ClosePanel, Reasons
  <2>3. /\ client' \in [Clients -> Client] /\ network' \subseteq Messages
        /\ history' \in [closedAt : [Clients -> ConnectSteps], lost : SUBSET Clients]
        /\ client'[c].closed
        /\ ConnectOK(c)' /\ ClosedOK(c)' /\ TalkOK(c)'
        /\ history'.lost = history.lost
        /\ \A d \in Clients \ {c} :
              client'[d] = client[d] /\ history'.closedAt[d] = history.closedAt[d]
        /\ \A m : m.client # c => (m \in network' <=> m \in network)
    BY <1>1, <2>1, <2>2, ClosedClient
  <2>4. ClientTypeOK'
    BY <1>1, <2>3, Typed DEF ClientTypeOK
  <2>5. ClientOK(c)'
    BY <1>1, <2>3, ClientAssumption DEF ClientOK, HeldOK
  <2>6. \A d \in Clients \ {c} : Untouched(d)
    BY <1>1, <2>0, <2>3, ClientAssumption DEF Untouched
  <2> QED BY <1>2, <2>4, <2>5, <2>6, OneClient
<1> QED BY <1>3, <1>4

\* The button ends a connection that is ready, or resets what is shown.
LEMMA EndInv ==
    ASSUME VoiceInv, End
    PROVE  VoiceInv'
<1>0. panel.mounted /\ panel.connected /\ UNCHANGED <<call, words, store>>
  BY DEF End
<1>1. CASE panel.current = Nobody
  <2>1. /\ panel' = [panel EXCEPT !.connected = FALSE]
        /\ UNCHANGED <<client, network, history>>
    BY <1>1 DEF End
  <2>2. /\ ~panel'.connected /\ panel'.current = Nobody
        /\ panel'.clients = panel.clients
        /\ panel' \in [mounted : BOOLEAN, current : Clients \cup {Nobody},
                       connected : BOOLEAN, clients : SUBSET Clients]
    BY <1>1, <2>1, Typed
  <2>3. \A d \in Clients : Untouched(d)
    BY <1>0, <1>1, <2>1, <2>2, ClientAssumption DEF Untouched
  <2>4. ClientTypeOK' /\ ShownIsThere'
    BY <1>0, <2>1, <2>2, Typed DEF ClientTypeOK, ShownIsThere
  <2> QED BY <2>3, <2>4, UntouchedOK DEF VoiceInv, ClientOK
<1>2. CASE panel.current # Nobody
  <2>0. PICK c \in Clients : c = panel.current
    BY <1>2, Typed
  <2> DEFINE p == [panel EXCEPT !.current = Nobody]
  <2>1. /\ client[c] \in Client /\ ClientOK(c) /\ client[c].step = "ready"
        /\ c \in panel.clients
    BY <1>0, <2>0, Typed DEF ClientOK, HeldOK
  <2>2. /\ Close(c, client[c], "ended", network) /\ "ended" \in Reasons
        /\ panel' = Proceed(c, p, "ended")
    BY <1>2, <2>0 DEF End, Reasons
  <2>3. /\ client' \in [Clients -> Client] /\ network' \subseteq Messages
        /\ history' \in [closedAt : [Clients -> ConnectSteps], lost : SUBSET Clients]
        /\ client'[c].closed /\ client'[c].step = "ready"
        /\ ConnectOK(c)' /\ ClosedOK(c)' /\ TalkOK(c)'
        /\ client[c].session /\ ~client[c].closed => Delete(c, "ended") \in network'
        /\ history'.lost = history.lost
        /\ \A d \in Clients \ {c} :
              client'[d] = client[d] /\ history'.closedAt[d] = history.closedAt[d]
        /\ \A m : m.client # c => (m \in network' <=> m \in network)
    BY <1>0, <2>1, <2>2, ClosedClient
  <2>4. /\ p \in [mounted : BOOLEAN, current : Clients \cup {Nobody},
                  connected : BOOLEAN, clients : SUBSET Clients]
        /\ p.current = Nobody /\ p.clients = panel.clients /\ p.mounted = panel.mounted
    BY Typed
  <2> HIDE DEF p
  <2>5. /\ panel' \in [mounted : BOOLEAN, current : Clients \cup {Nobody},
                       connected : BOOLEAN, clients : SUBSET Clients]
        /\ panel'.current = Nobody /\ panel'.clients = panel.clients
        /\ panel'.mounted
        /\ panel'.connected => client[c].session /\ ~client[c].closed
    <3>1. CASE client[c].session /\ ~client[c].closed
      BY <1>0, <2>2, <2>4, <3>1 DEF Proceed
    <3>2. CASE ~(client[c].session /\ ~client[c].closed)
      <4>1. panel' = Resume(c, p, "ended")
        BY <2>2, <3>2 DEF Proceed
      <4>2. /\ panel' \in [mounted : BOOLEAN, current : Clients \cup {Nobody},
                             connected : BOOLEAN, clients : SUBSET Clients]
            /\ panel'.mounted = p.mounted /\ panel'.clients = p.clients
            /\ panel'.current = p.current
            /\ panel'.connected => c \notin p.clients
        BY <2>2, <2>4, <4>1, ResumedPanel
      <4> QED BY <1>0, <2>1, <2>4, <4>2
    <3> QED BY <3>1, <3>2
  <2>6. ClientTypeOK'
    BY <1>0, <2>3, <2>5, Typed DEF ClientTypeOK
  <2>7. ClientOK(c)'
    BY <2>3, <2>5, ClientAssumption DEF ClientOK, HeldOK
  <2>8. ShownIsThere'
    BY <2>1, <2>3, <2>5 DEF ShownIsThere
  <2>9. \A d \in Clients \ {c} : Untouched(d)
    BY <1>0, <2>0, <2>3, <2>5, ClientAssumption DEF Untouched
  <2> QED BY <2>6, <2>7, <2>8, <2>9, OneClient
<1> QED BY <1>1, <1>2

-----------------------------------------------------------------------------
(* The panel opens, and its client starts.                                  *)

\* OpenPanel keeps the invariant.
LEMMA OpenPanelInv ==
    ASSUME VoiceInv, OpenPanel
    PROVE  VoiceInv'
<1>1. /\ panel.current = Nobody /\ UNCHANGED <<client, call, words, network, store, history>>
      /\ panel'.mounted /\ ~panel'.connected /\ panel'.current = Nobody
      /\ panel'.clients = {}
      /\ panel' \in [mounted : BOOLEAN, current : Clients \cup {Nobody},
                     connected : BOOLEAN, clients : SUBSET Clients]
  BY Typed DEF OpenPanel, NoPanel
<1>2. \A d \in Clients : Untouched(d)
  BY <1>1, ClientAssumption DEF Untouched
<1>3. ClientTypeOK' /\ ShownIsThere'
  BY <1>1, Typed DEF ClientTypeOK, ShownIsThere
<1> QED BY <1>2, <1>3, UntouchedOK DEF VoiceInv, ClientOK

\* Start keeps the invariant.
LEMMA StartInv ==
    ASSUME VoiceInv, NEW c \in Clients, Start(c)
    PROVE  VoiceInv'
<1> DEFINE q == [NewClient EXCEPT !.step = "microphone"]
<1>1. /\ q \in Client /\ q.step = "microphone" /\ ~q.closed
      /\ q.heard = 0 /\ q.observation = 0 /\ q.processed = {}
  <2>1. 0 \in 0 .. MaxHeard /\ {} \in SUBSET Calls
    BY ClientAssumption
  <2>2. NewClient \in Client
    BY <2>1 DEF NewClient, Client, ConnectSteps
  <2>3. /\ ~NewClient.closed /\ NewClient.heard = 0 /\ NewClient.observation = 0
        /\ NewClient.processed = {}
    BY DEF NewClient
  <2> QED BY <2>2, <2>3 DEF Client, ConnectSteps
<1>2. Update(c, q) /\ UNCHANGED <<call, words, network, store, history>>
  BY DEF Start
<1>3. /\ client[c].step = "new" /\ panel.current = Nobody
      /\ panel.mounted /\ ~panel.connected
      /\ panel' = [panel EXCEPT !.current = c, !.clients = @ \cup {c}]
  BY DEF Start, AtStep
<1>4. /\ panel' \in [mounted : BOOLEAN, current : Clients \cup {Nobody},
                     connected : BOOLEAN, clients : SUBSET Clients]
      /\ panel'.current = c /\ panel'.clients = panel.clients \cup {c}
      /\ panel'.mounted = panel.mounted /\ panel'.connected = panel.connected
  BY <1>3, Typed
<1> HIDE DEF q
<1>5. /\ client' \in [Clients -> Client] /\ client'[c] = q
      /\ \A d \in Clients \ {c} : client'[d] = client[d]
  BY <1>1, <1>2, Updated
<1>6. ClientTypeOK'
  BY <1>2, <1>3, <1>4, <1>5, Typed DEF ClientTypeOK
<1>7. ClientOK(c)'
  <2>1. HeldOK(c)'
    BY <1>1, <1>3, <1>4, <1>5 DEF HeldOK
  <2>2. ConnectOK(c)'
    BY <1>1, <1>2, <1>3, <1>5, Typed DEF ClientOK, ConnectOK
  <2>3. ClosedOK(c)'
    BY <1>1, <1>5 DEF ClosedOK
  <2>4. ASSUME NEW k \in Calls PROVE CallOK(c, k)'
    <3>1. call[c][k].step = "none" /\ call[c][k].posts = 0
      BY <1>3, Typed DEF ClientOK, ConnectOK, TalkOK, CallOK
    <3> QED BY <1>1, <1>2, <1>5, <3>1 DEF CallOK
  <2>5. WordsOK(c)'
    BY <1>2, <1>3, Typed DEF ClientOK, TalkOK, WordsOK
  <2> QED BY <2>1, <2>2, <2>3, <2>4, <2>5 DEF ClientOK, TalkOK
<1>8. ShownIsThere'
  BY <1>3, <1>4 DEF ShownIsThere
<1>9. \A d \in Clients \ {c} : Untouched(d)
  BY <1>2, <1>3, <1>4, <1>5, ClientAssumption DEF Untouched
<1> QED BY <1>6, <1>7, <1>8, <1>9, OneClient

-----------------------------------------------------------------------------
(* What the client hears.                                                   *)

\* What setting one word means.
LEMMA WordSet ==
    ASSUME VoiceInv, NEW c \in Clients, NEW n \in 1 .. MaxHeard, NEW word \in Word,
           SetWord(c, n, word)
    PROVE  /\ words' \in [Clients -> [1 .. MaxHeard -> Word]]
           /\ words'[c][n] = word
           /\ \A m \in (1 .. MaxHeard) \ {n} : words'[c][m] = words[c][m]
           /\ \A d \in Clients \ {c} : words'[d] = words[d]
  BY Typed DEF SetWord

\* HearWords keeps the invariant.
LEMMA HearWordsInv ==
    ASSUME VoiceInv, NEW c \in Clients, HearWords(c)
    PROVE  VoiceInv'
<1>0. PICK n \in 0 .. MaxHeard :
         /\ n = client[c].heard + 1 /\ n \in 1 .. MaxHeard
         /\ client[c] \in Client /\ client[c].heard \in Nat
  <2>1. client[c] \in Client /\ client[c].heard \in 0 .. MaxHeard
    BY Typed DEF Client
  <2> QED BY <2>1, ClientAssumption DEF HearWords
<1> DEFINE q == [client[c] EXCEPT !.heard = n, !.observation = n]
<1>1. /\ q \in Client /\ q.step = client[c].step /\ q.closed = client[c].closed
      /\ q.heard = n /\ q.observation = n /\ q.session = client[c].session
      /\ q.processed = client[c].processed /\ q.channel = client[c].channel
      /\ q.microphone = client[c].microphone
  BY <1>0 DEF Client
<1>2. /\ Update(c, q) /\ UNCHANGED <<panel, call, network, store, history>>
      /\ SetWord(c, n, [post |-> "sent", settled |-> FALSE])
      /\ client[c].step = "ready"
  BY <1>0 DEF HearWords, Hears, AtStep
<1> HIDE DEF q
<1>3. /\ client' \in [Clients -> Client] /\ client'[c] = q
      /\ \A d \in Clients \ {c} : client'[d] = client[d]
  BY <1>1, <1>2, Updated
<1>4. /\ words' \in [Clients -> [1 .. MaxHeard -> Word]]
      /\ words'[c][n].post = "sent" /\ ~words'[c][n].settled
      /\ \A m \in (1 .. MaxHeard) \ {n} : words'[c][m] = words[c][m]
      /\ \A d \in Clients \ {c} : words'[d] = words[d]
  <2> DEFINE word == [post |-> "sent", settled |-> FALSE]
  <2>1. word \in Word /\ word.post = "sent" /\ ~word.settled
    BY DEF Word
  <2>2. SetWord(c, n, word)
    BY <1>2
  <2> HIDE DEF word
  <2> QED BY <1>0, <2>1, <2>2, WordSet
<1>5. ClientTypeOK'
  BY <1>2, <1>3, <1>4, Typed DEF ClientTypeOK
<1>6. ClientOK(c)'
  <2>1. HeldOK(c)'
    BY <1>1, <1>2, <1>3, Typed DEF ClientOK, HeldOK
  <2>2. ConnectOK(c)'
    BY <1>1, <1>2, <1>3, Typed DEF ClientOK, ConnectOK
  <2>3. ClosedOK(c)'
    BY <1>1, <1>2, <1>3, Typed DEF ClientOK, ClosedOK
  <2>4. ASSUME NEW k \in Calls PROVE CallOK(c, k)'
    <3>1. CallOK(c, k) /\ call[c][k].heard \in 0 .. MaxHeard
      BY Typed DEF ClientOK, TalkOK, CallState
    <3>2. call[c][k].posts # 0 => call[c][k].heard <= client[c].heard
      BY <3>1 DEF CallOK
    <3>3. call[c][k].posts # 0 /\ call[c][k].heard # 0 =>
             words'[c][call[c][k].heard] = words[c][call[c][k].heard]
      BY <1>0, <1>4, <3>1, <3>2, ClientAssumption
    <3> QED BY <1>0, <1>1, <1>2, <1>3, <3>1, <3>3, ClientAssumption DEF CallOK
  <2>5. WordsOK(c)'
    BY <1>1, <1>2, <1>3, <1>4, Typed DEF ClientOK, TalkOK, WordsOK
  <2> QED BY <2>1, <2>2, <2>3, <2>4, <2>5 DEF ClientOK, TalkOK
<1>7. ShownIsThere'
  BY <1>1, <1>2, <1>3, ShownFrame DEF AtStep
<1> QED BY <1>2, <1>3, <1>4, <1>5, <1>6, <1>7, OthersUntouched, OneClient

\* What updating one call means.
LEMMA CallUpdated ==
    ASSUME VoiceInv, NEW c \in Clients, NEW k \in Calls, NEW h \in CallState,
           call' = [call EXCEPT ![c][k] = h]
    PROVE  /\ call' \in [Clients -> [Calls -> CallState]]
           /\ call'[c][k] = h
           /\ \A j \in Calls \ {k} : call'[c][j] = call[c][j]
           /\ \A d \in Clients \ {c} : call'[d] = call[d]
  BY Typed

\* A step of one call keeps the invariant if it keeps what it says of that call;
\* the client may have noted that it has heard of it.
LEMMA OneCall ==
    ASSUME VoiceInv, NEW c \in Clients, NEW k \in Calls, NEW h \in CallState,
           call' = [call EXCEPT ![c][k] = h],
           UNCHANGED <<panel, words, network, store, history>>, CallOK(c, k)',
           \/ UNCHANGED client
           \/ /\ client[c].step = "ready"
              /\ Update(c, [client[c] EXCEPT !.processed = @ \cup {k}])
    PROVE  VoiceInv'
<1>1. client[c] \in Client /\ ClientOK(c)
  BY Typed
<1>2. /\ call' \in [Clients -> [Calls -> CallState]]
      /\ \A j \in Calls \ {k} : call'[c][j] = call[c][j]
      /\ \A d \in Clients \ {c} : call'[d] = call[d]
  BY CallUpdated
<1>3. /\ client' \in [Clients -> Client]
      /\ \A d \in Clients \ {c} : client'[d] = client[d]
      /\ client'[c].step = client[c].step /\ client'[c].closed = client[c].closed
      /\ client'[c].heard = client[c].heard /\ client'[c].session = client[c].session
      /\ client'[c].observation = client[c].observation
      /\ client'[c].channel = client[c].channel
      /\ client'[c].microphone = client[c].microphone
      /\ client[c].processed \subseteq client'[c].processed
      /\ client'[c].processed = client[c].processed \/ client[c].step # "new"
  <2>1. CASE UNCHANGED client
    BY <2>1, Typed
  <2>2. CASE ~UNCHANGED client
    <3> DEFINE q == [client[c] EXCEPT !.processed = @ \cup {k}]
    <3>1. /\ q \in Client /\ q.step = client[c].step /\ q.closed = client[c].closed
          /\ q.heard = client[c].heard /\ q.session = client[c].session
          /\ q.observation = client[c].observation
          /\ q.channel = client[c].channel /\ q.microphone = client[c].microphone
          /\ client[c].processed \subseteq q.processed
      BY <1>1 DEF Client
    <3>2. Update(c, q) /\ client[c].step = "ready"
      BY <2>2
    <3> HIDE DEF q
    <3>3. /\ client' \in [Clients -> Client] /\ client'[c] = q
          /\ \A d \in Clients \ {c} : client'[d] = client[d]
      BY <3>1, <3>2, Updated
    <3> QED BY <3>1, <3>2, <3>3
  <2> QED BY <2>1, <2>2
<1>4. ClientTypeOK'
  BY <1>2, <1>3, Typed DEF ClientTypeOK
<1>5. HeldOK(c)' /\ ConnectOK(c)' /\ ClosedOK(c)'
  <2>1. HeldOK(c)'
    BY <1>1, <1>3 DEF ClientOK, HeldOK
  <2>2. ConnectOK(c)'
    BY <1>1, <1>3 DEF ClientOK, ConnectOK
  <2>3. ClosedOK(c)'
    BY <1>1, <1>3 DEF ClientOK, ClosedOK
  <2> QED BY <2>1, <2>2, <2>3
<1>6. ASSUME NEW j \in Calls PROVE CallOK(c, j)'
  <2>1. CASE j = k
    BY <2>1
  <2>2. CASE j # k
    BY <1>1, <1>2, <1>3, <2>2 DEF ClientOK, TalkOK, CallOK
  <2> QED BY <2>1, <2>2
<1>7. ShownIsThere'
  BY <1>3, ShownFrame DEF AtStep
<1>8. WordsOK(c)'
  BY <1>1, <1>3 DEF ClientOK, TalkOK, WordsOK
<1>9. ClientOK(c)'
  BY <1>5, <1>6, <1>8 DEF ClientOK, TalkOK
<1> QED BY <1>2, <1>3, <1>4, <1>7, <1>9, OthersUntouched, OneClient

\* A call is heard of for the first time.
LEMMA HearCallInv ==
    ASSUME VoiceInv, NEW c \in Clients, NEW k \in Calls, HearCall(c, k)
    PROVE  VoiceInv'
<1> DEFINE h == [call[c][k] EXCEPT !.step = "waiting", !.awaits = client[c].observation,
                                   !.heard = client[c].heard]
           q == [client[c] EXCEPT !.processed = @ \cup {k}]
<1>1. /\ client[c] \in Client /\ call[c][k] \in CallState /\ CallOK(c, k)
      /\ client[c].heard \in Nat
  BY Typed, ClientAssumption DEF ClientOK, TalkOK, Client
<1>2. /\ h \in CallState /\ h.step = "waiting" /\ h.awaits = client[c].observation
      /\ h.heard = client[c].heard /\ h.posts = call[c][k].posts
  BY <1>1 DEF CallState, Client
<1>3. /\ k \notin client[c].processed /\ client[c].step = "ready" /\ Update(c, q)
      /\ call' = [call EXCEPT ![c][k] = h]
      /\ UNCHANGED <<panel, words, network, store, history>>
  BY Typed DEF HearCall, Hears, AtStep
<1>4. /\ q \in Client /\ q.processed = client[c].processed \cup {k}
      /\ q.heard = client[c].heard /\ q.observation = client[c].observation
  BY <1>1 DEF Client
<1> HIDE DEF h
<1>5. call'[c][k] = h
  BY <1>2, <1>3, CallUpdated
<1>6. client'[c] = q
  BY <1>3, <1>4, Updated
<1>7. CallOK(c, k)'
  BY <1>1, <1>2, <1>3, <1>4, <1>5, <1>6 DEF CallOK
<1> QED BY <1>2, <1>3, <1>7, OneCall

\* The call is posted, after the words it waited for.
LEMMA PostCallInv ==
    ASSUME VoiceInv, NEW c \in Clients, NEW k \in Calls, PostCall(c, k)
    PROVE  VoiceInv'
<1> DEFINE h == IF client[c].session
                THEN [call[c][k] EXCEPT !.step = "posted",
                                        !.posts = call[c][k].posts + 1]
                ELSE [call[c][k] EXCEPT !.step = "failed"]
<1>1. /\ call[c][k] \in CallState /\ CallOK(c, k) /\ call[c][k].step = "waiting"
      /\ call[c][k].awaits # 0 => words[c][call[c][k].awaits].settled
      /\ call[c][k].heard \in 0 .. MaxHeard
      /\ WordsOK(c)
  BY Typed DEF ClientOK, TalkOK, PostCall, Settled, CallState
<1>2. /\ h \in CallState /\ h.step \in {"posted", "failed"} /\ h.posts <= 1
      /\ h.heard = call[c][k].heard /\ h.awaits = call[c][k].awaits
  <2>1. call[c][k].posts = 0 /\ 0 + 1 \in Nat /\ 0 + 1 <= 1
    BY <1>1 DEF CallOK
  <2>2. CASE client[c].session
    BY <1>1, <2>1, <2>2 DEF CallState
  <2>3. CASE ~client[c].session
    BY <1>1, <2>1, <2>3 DEF CallState
  <2> QED BY <2>2, <2>3
<1>3. /\ call' = [call EXCEPT ![c][k] = h]
      /\ UNCHANGED <<panel, client, words, network, store, history>>
  BY Typed DEF PostCall
<1> HIDE DEF h
<1>4. call'[c][k] = h
  BY <1>2, <1>3, CallUpdated
<1>5. call[c][k].heard # 0 => words[c][call[c][k].heard].post \notin {"none", "sent"}
  <2>1. call[c][k].awaits = call[c][k].heard
    BY <1>1 DEF CallOK
  <2>2. call[c][k].heard # 0 => call[c][k].heard \in 1 .. MaxHeard
    BY <1>1, ClientAssumption
  <2> QED BY <1>1, <2>1, <2>2 DEF WordsOK
<1>6. CallOK(c, k)'
  BY <1>1, <1>2, <1>3, <1>4, <1>5 DEF CallOK
<1> QED BY <1>2, <1>3, <1>6, OneCall

\* CallSettles keeps the invariant.
LEMMA CallSettlesInv ==
    ASSUME VoiceInv, NEW c \in Clients, NEW k \in Calls, CallSettles(c, k)
    PROVE  VoiceInv'
<1>1. /\ call[c][k] \in CallState /\ CallOK(c, k) /\ call[c][k].step = "posted"
      /\ WordsOK(c)
  BY Typed DEF ClientOK, TalkOK, CallSettles
<1>2. PICK step \in {"failed", "returned"} :
         /\ call' = [call EXCEPT ![c][k].step = step]
         /\ step = "returned" => c \in store
  BY DEF CallSettles
<1> DEFINE h == [call[c][k] EXCEPT !.step = step]
<1>3. /\ h \in CallState /\ h.step = step /\ h.posts = call[c][k].posts
      /\ h.heard = call[c][k].heard
  BY <1>1 DEF CallState
<1>4. /\ call' = [call EXCEPT ![c][k] = h]
      /\ UNCHANGED <<panel, client, words, network, store, history>>
  BY <1>2 DEF CallSettles
<1> HIDE DEF h
<1>5. call'[c][k] = h
  BY <1>3, <1>4, CallUpdated
<1>6. step = "returned" /\ h.heard # 0 => words[c][h.heard].post # "unknown"
  <2>1. h.heard # 0 => h.heard \in 1 .. MaxHeard
    BY <1>3, ClientAssumption DEF CallState
  <2> QED BY <1>1, <1>2, <2>1 DEF WordsOK
<1>7. CallOK(c, k)'
  BY <1>1, <1>3, <1>4, <1>5, <1>6 DEF CallOK
<1> QED BY <1>3, <1>4, <1>7, OneCall

-----------------------------------------------------------------------------
(* The network and the backend.                                             *)

\* The backend answers the request that creates a session, or the answer to it is
\* lost: the client is told one thing at most.
LEMMA SetupInv ==
    ASSUME VoiceInv, NEW c \in Clients, UNCHANGED <<panel, client, call, words>>,
           client[c].step = "call", store \subseteq store', store' \ {c} = store \ {c},
           history' \in [closedAt : [Clients -> ConnectSteps], lost : SUBSET Clients],
           history'.closedAt = history.closedAt,
           history.lost \subseteq history'.lost,
           \A m : m.client # c => (m \in network' <=> m \in network),
           \A d, why : Delete(d, why) \in network' <=> Delete(d, why) \in network,
           Setup(c) \notin network', network' \subseteq Messages,
           Answer(c, TRUE) \notin network' \/ Answer(c, FALSE) \notin network'
    PROVE  VoiceInv'
<1>1. ClientOK(c)
  BY Typed
<1>2. ClientTypeOK'
  BY Typed DEF ClientTypeOK
<1>3. HeldOK(c)'
  BY <1>1 DEF ClientOK, HeldOK
<1>4. ConnectOK(c)'
  <2>1. \A ok \in BOOLEAN : Answer(c, ok) \in network' => Answer(c, ~ok) \notin network'
    <3>1. Answer(c, TRUE) \in network' => Answer(c, ~TRUE) \notin network'
      OBVIOUS
    <3>2. Answer(c, FALSE) \in network' => Answer(c, ~FALSE) \notin network'
      OBVIOUS
    <3> QED BY <3>1, <3>2
  <2> QED BY <1>1, <2>1 DEF ClientOK, ConnectOK
<1>5. ClosedOK(c)'
  BY <1>1 DEF ClientOK, ClosedOK
<1>6. TalkOK(c)'
  BY CallsFrame
<1>7. ShownIsThere'
  BY ShownFrame DEF AtStep
<1>8. ASSUME NEW d \in Clients \ {c} PROVE Untouched(d)
  <2>1. panel.current = d => d \in panel.clients
    BY Typed DEF ClientOK, HeldOK
  <2> QED BY <2>1 DEF Untouched
<1> QED BY <1>2, <1>3, <1>4, <1>5, <1>6, <1>7, <1>8, OneClient DEF ClientOK

\* SessionCreated keeps the invariant.
LEMMA SessionCreatedInv ==
    ASSUME VoiceInv, NEW c \in Clients, SessionCreated(c)
    PROVE  VoiceInv'
<1>1. ClientOK(c) /\ client[c].step = "call"
  BY Typed DEF SessionCreated, ClientOK, ConnectOK
<1>2. /\ Setup(c) \in network /\ UNCHANGED <<panel, client, call, words, history>>
      /\ store' \in {store, store \cup {c}}
      /\ \/ network' = (network \ {Setup(c)}) \cup {Answer(c, TRUE)}
         \/ network' = (network \ {Setup(c)}) \cup {Answer(c, FALSE)}
  BY DEF SessionCreated
<1>3. Answer(c, TRUE) \notin network /\ Answer(c, FALSE) \notin network
  BY <1>1, <1>2 DEF ClientOK, ConnectOK
<1>4. /\ Answer(c, TRUE) # Answer(c, FALSE)
      /\ Setup(c) # Answer(c, TRUE) /\ Setup(c) # Answer(c, FALSE)
      /\ \A d, why : /\ Delete(d, why) # Answer(c, TRUE) /\ Delete(d, why) # Answer(c, FALSE)
                     /\ Delete(d, why) # Setup(c)
  <2>1. Answer(c, TRUE).ok /\ ~Answer(c, FALSE).ok
    BY DEF Answer
  <2>2. Answer(c, TRUE) # Answer(c, FALSE)
    BY <2>1
  <2> QED BY <2>2 DEF Setup, Delete, Answer
<1>5. /\ \A m : m.client # c => (m \in network' <=> m \in network)
      /\ network' \subseteq Messages
  <2>1. Answer(c, TRUE) \in Messages /\ Answer(c, FALSE) \in Messages
    BY MessageTypes
  <2>2. Answer(c, TRUE).client = c /\ Answer(c, FALSE).client = c /\ Setup(c).client = c
    BY DEF Answer, Setup
  <2> QED BY <1>2, <2>1, <2>2, Typed
<1>6. /\ Setup(c) \notin network'
      /\ Answer(c, TRUE) \notin network' \/ Answer(c, FALSE) \notin network'
      /\ \A d, why : Delete(d, why) \in network' <=> Delete(d, why) \in network
  BY <1>2, <1>3, <1>4
<1>7. store \subseteq store' /\ store' \ {c} = store \ {c}
  BY <1>2
<1> QED BY <1>1, <1>2, <1>5, <1>6, <1>7, SetupInv, Typed

\* AnswerLost keeps the invariant.
LEMMA AnswerLostInv ==
    ASSUME VoiceInv, NEW c \in Clients, RequestLost(c), Answer(c, TRUE) \in network,
           network' = (network \ {Answer(c, TRUE)}) \cup {Answer(c, FALSE)},
           UNCHANGED panel
    PROVE  VoiceInv'
<1>1. ClientOK(c) /\ client[c].step = "call" /\ Setup(c) \notin network
  BY Typed DEF ClientOK, ConnectOK
<1>2. /\ UNCHANGED <<client, call, words, store>>
      /\ history' = [history EXCEPT !.lost = @ \cup {c}]
  BY DEF RequestLost
<1>3. /\ history' \in [closedAt : [Clients -> ConnectSteps], lost : SUBSET Clients]
      /\ history'.closedAt = history.closedAt /\ history.lost \subseteq history'.lost
  BY <1>2, Typed
<1>4. /\ Answer(c, TRUE) # Answer(c, FALSE)
      /\ Setup(c) # Answer(c, TRUE) /\ Setup(c) # Answer(c, FALSE)
      /\ \A d, why : Delete(d, why) # Answer(c, TRUE) /\ Delete(d, why) # Answer(c, FALSE)
  <2>1. Answer(c, TRUE).ok /\ ~Answer(c, FALSE).ok
    BY DEF Answer
  <2>2. Answer(c, TRUE) # Answer(c, FALSE)
    BY <2>1
  <2> QED BY <2>2 DEF Setup, Delete, Answer
<1>5. /\ \A m : m.client # c => (m \in network' <=> m \in network)
      /\ network' \subseteq Messages
  <2>1. Answer(c, FALSE) \in Messages
    BY MessageTypes
  <2>2. Answer(c, TRUE).client = c /\ Answer(c, FALSE).client = c
    BY DEF Answer
  <2> QED BY <2>1, <2>2, Typed
<1>6. /\ Setup(c) \notin network' /\ Answer(c, TRUE) \notin network'
      /\ \A d, why : Delete(d, why) \in network' <=> Delete(d, why) \in network
  BY <1>1, <1>4
<1> QED BY <1>1, <1>2, <1>3, <1>5, <1>6, SetupInv

\* A step of one request that posts words keeps the invariant: a request that has
\* arrived, or that nobody knows of, stays so.
LEMMA OneWord ==
    ASSUME VoiceInv, NEW c \in Clients, NEW n \in 1 .. MaxHeard, NEW word \in Word,
           SetWord(c, n, word), UNCHANGED <<panel, client, call, network, store, history>>,
           words[c][n].post # "none", word.post \notin {"none", "sent"},
           word.post = "unknown" => c \notin store,
           words[c][n].post \in {"sent", word.post} \/ word.post = "unsure"
    PROVE  VoiceInv'
<1>1. ClientOK(c)
  BY Typed
<1>2. /\ words' \in [Clients -> [1 .. MaxHeard -> Word]] /\ words'[c][n] = word
      /\ \A m \in (1 .. MaxHeard) \ {n} : words'[c][m] = words[c][m]
      /\ \A d \in Clients \ {c} : words'[d] = words[d]
  BY WordSet
<1>3. ClientTypeOK' /\ ShownIsThere'
  BY <1>2, Typed DEF ClientTypeOK, ShownIsThere, AtStep
<1>4. HeldOK(c)' /\ ConnectOK(c)' /\ ClosedOK(c)'
  BY <1>1 DEF ClientOK, HeldOK, ConnectOK, ClosedOK
<1>5. WordsOK(c)'
  BY <1>1, <1>2 DEF ClientOK, TalkOK, WordsOK
<1>6. ASSUME NEW k \in Calls PROVE CallOK(c, k)'
  <2>1. CallOK(c, k) /\ call[c][k].heard \in 0 .. MaxHeard
    BY <1>1, Typed DEF ClientOK, TalkOK, CallState
  <2>2. CASE call[c][k].heard = n
    BY <1>2, <2>1, <2>2 DEF CallOK
  <2>3. CASE call[c][k].heard # n
    <3>1. call[c][k].heard # 0 => words'[c][call[c][k].heard] = words[c][call[c][k].heard]
      BY <1>2, <2>1, <2>3, ClientAssumption
    <3> QED BY <2>1, <3>1 DEF CallOK
  <2> QED BY <2>2, <2>3
<1> QED BY <1>2, <1>3, <1>4, <1>5, <1>6, OthersUntouched, OneClient DEF ClientOK, TalkOK

\* TranscriptObserved keeps the invariant.
LEMMA TranscriptObservedInv ==
    ASSUME VoiceInv, NEW c \in Clients, NEW n \in 1 .. MaxHeard, TranscriptObserved(c, n)
    PROVE  VoiceInv'
<1> DEFINE word == [words[c][n] EXCEPT !.post =
                       IF c \in store THEN "observed" ELSE "unknown"]
<1>1. words[c][n] \in Word /\ words[c][n].post = "sent"
  BY Typed DEF TranscriptObserved
<1>2. /\ word \in Word /\ word.post = IF c \in store THEN "observed" ELSE "unknown"
  BY <1>1 DEF Word
<1>3. SetWord(c, n, word) /\ UNCHANGED <<panel, client, call, network, store, history>>
  BY DEF TranscriptObserved
<1> HIDE DEF word
<1> QED BY <1>1, <1>2, <1>3, OneWord

\* TranscriptSettles keeps the invariant.
LEMMA TranscriptSettlesInv ==
    ASSUME VoiceInv, NEW c \in Clients, NEW n \in 1 .. MaxHeard, TranscriptSettles(c, n)
    PROVE  VoiceInv'
<1>1. /\ words[c][n] \in Word /\ words[c][n].post # "none"
      /\ words[c][n].post = "unknown" => c \notin store
  BY Typed DEF TranscriptSettles, ClientOK, TalkOK, WordsOK
<1>2. UNCHANGED <<panel, client, call, network, store, history>>
  BY DEF TranscriptSettles
<1>3. CASE /\ words[c][n].post # "sent"
           /\ SetWord(c, n, [words[c][n] EXCEPT !.settled = TRUE])
  <2> DEFINE word == [words[c][n] EXCEPT !.settled = TRUE]
  <2>1. word \in Word /\ word.post = words[c][n].post
    BY <1>1 DEF Word
  <2>2. SetWord(c, n, word)
    BY <1>3
  <2> HIDE DEF word
  <2> QED BY <1>1, <1>2, <1>3, <2>1, <2>2, OneWord
<1>4. CASE SetWord(c, n, [post |-> "unsure", settled |-> TRUE])
  <2> DEFINE word == [post |-> "unsure", settled |-> TRUE]
  <2>1. word \in Word /\ word.post = "unsure"
    BY DEF Word
  <2>2. SetWord(c, n, word)
    BY <1>4
  <2> HIDE DEF word
  <2> QED BY <1>1, <1>2, <2>1, <2>2, OneWord
<1> QED BY <1>3, <1>4 DEF TranscriptSettles

\* A request to delete is answered or lost: the panel that waited for it goes on.
LEMMA DeleteInv ==
    ASSUME VoiceInv, NEW c \in Clients, NEW reason \in Reasons,
           Delete(c, reason) \in network, network' = network \ {Delete(c, reason)},
           panel' = Resume(c, panel, reason), UNCHANGED <<client, call, words>>,
           \/ store' = store \ {c} /\ UNCHANGED history
           \/ store' = store /\ history' = [history EXCEPT !.lost = @ \cup {c}]
    PROVE  VoiceInv'
<1>1. ClientOK(c) /\ client[c].closed
  BY Typed DEF ClientOK, ConnectOK
<1>2. /\ network' \subseteq network
      /\ \A m : m.client # c => (m \in network' <=> m \in network)
      /\ \A d : d # c \/ reason # "ended" =>
            (Delete(d, "ended") \in network => Delete(d, "ended") \in network')
  BY MessageClients, MessagesDiffer
<1>3. /\ panel' \in [mounted : BOOLEAN, current : Clients \cup {Nobody},
                     connected : BOOLEAN, clients : SUBSET Clients]
      /\ panel'.mounted = panel.mounted /\ panel'.clients = panel.clients
      /\ \/ panel'.current = panel.current
         \/ panel'.current = Nobody /\ panel.current = c
      /\ panel'.connected => panel' = panel
      /\ panel'.connected => c \notin panel.clients \/ reason = "unmounted"
  BY Typed, ResumedPanel
<1>4. /\ history' \in [closedAt : [Clients -> ConnectSteps], lost : SUBSET Clients]
      /\ history'.closedAt = history.closedAt /\ history.lost \subseteq history'.lost
      /\ store' \subseteq store /\ store' \ {c} = store \ {c}
      /\ c \in store' => c \in history'.lost
  BY Typed
<1>5. ClientTypeOK'
  BY <1>2, <1>3, <1>4, Typed DEF ClientTypeOK
<1>6. ClientOK(c)'
  <2>1. HeldOK(c)'
    BY <1>1, <1>3, ClientAssumption DEF ClientOK, HeldOK
  <2>2. ConnectOK(c)'
    <3>1. \A m : m \in network' => m \in network
      BY <1>2
    <3>2. Setup(c) \in network' <=> Setup(c) \in network
      BY DEF Setup, Delete
    <3> QED BY <1>1, <1>4, <3>1, <3>2 DEF ClientOK, ConnectOK
  <2>3. ClosedOK(c)'
    BY <1>1, <1>4 DEF ClientOK, ClosedOK
  <2>4. TalkOK(c)'
    BY <1>2, CallsFrame
  <2> QED BY <2>1, <2>2, <2>3, <2>4 DEF ClientOK
<1>7. ShownIsThere'
  <2>1. SUFFICES ASSUME panel'.connected
                 PROVE  \/ panel.current # Nobody /\ AtStep(panel.current, "ready")
                        \/ \E d \in panel.clients : Delete(d, "ended") \in network'
    BY <1>3 DEF ShownIsThere, AtStep
  <2>2. \A d \in panel.clients :
           Delete(d, "ended") \in network => Delete(d, "ended") \in network'
    BY <1>2, <1>3, <2>1
  <2> QED BY <1>3, <2>1, <2>2, Typed DEF ShownIsThere
<1>8. ASSUME NEW d \in Clients \ {c} PROVE Untouched(d)
  <2>1. d # Nobody /\ (panel.current = d => d \in panel.clients)
    BY Typed, ClientAssumption DEF ClientOK, HeldOK
  <2>2. d \in store' <=> d \in store
    BY <1>4
  <2> QED BY <1>2, <1>3, <1>4, <2>1, <2>2 DEF Untouched
<1> QED BY <1>5, <1>6, <1>7, <1>8, OneClient

\* RequestLost keeps the invariant.
LEMMA RequestLostInv ==
    ASSUME VoiceInv, NEW c \in Clients, RequestLost(c)
    PROVE  VoiceInv'
<1>1. UNCHANGED <<client, call, words, store>> /\ history' = [history EXCEPT !.lost = @ \cup {c}]
  BY DEF RequestLost
<1>2. ASSUME NEW reason \in Reasons, Delete(c, reason) \in network,
             network' = network \ {Delete(c, reason)},
             panel' = Resume(c, panel, reason)
      PROVE  VoiceInv'
  BY <1>1, <1>2, DeleteInv
<1> QED BY <1>2, AnswerLostInv DEF RequestLost

\* SessionForgotten keeps the invariant.
LEMMA SessionForgottenInv ==
    ASSUME VoiceInv, NEW c \in Clients, SessionForgotten(c)
    PROVE  VoiceInv'
<1>1. /\ store' = store \ {c} /\ UNCHANGED <<panel, client, call, words, network, history>>
      /\ c \notin store' /\ store' \subseteq store
  BY DEF SessionForgotten
<1>2. ClientTypeOK'
  BY <1>1, Typed DEF ClientTypeOK
<1>3. ClientOK(c)'
  <2>1. ClientOK(c)
    BY Typed
  <2>2. HeldOK(c)'
    BY <1>1, <2>1 DEF ClientOK, HeldOK
  <2>3. ConnectOK(c)'
    BY <1>1, <2>1 DEF ClientOK, ConnectOK
  <2>4. ClosedOK(c)'
    BY <1>1, <2>1 DEF ClientOK, ClosedOK
  <2>5. TalkOK(c)'
    BY <1>1, CallsFrame
  <2> QED BY <2>2, <2>3, <2>4, <2>5 DEF ClientOK
<1>4. ShownIsThere'
  BY <1>1, ShownFrame DEF AtStep
<1> QED BY <1>1, <1>2, <1>3, <1>4, OthersUntouched, OneClient

-----------------------------------------------------------------------------
(* The invariant.                                                           *)

\* The invariant holds at the start.
LEMMA VoiceInitInv ==
    ASSUME VoiceInit
    PROVE  VoiceInv
<1> USE DEF VoiceInit
<1>1. /\ NewClient \in Client /\ NewClient.step = "new" /\ ~NewClient.closed
      /\ NewClient.observation = NewClient.heard /\ NewClient.processed = {}
  <2>1. 0 \in 0 .. MaxHeard /\ {} \in SUBSET Calls
    BY ClientAssumption
  <2> QED BY <2>1 DEF NewClient, Client, ConnectSteps
<1>2. NoCall \in CallState /\ NoCall.step = "none" /\ NoCall.posts = 0
  <2>1. 0 \in 0 .. MaxHeard /\ 0 \in Nat
    BY ClientAssumption
  <2> QED BY <2>1 DEF NoCall, CallState
<1>3. /\ panel \in [mounted : BOOLEAN, current : Clients \cup {Nobody},
                    connected : BOOLEAN, clients : SUBSET Clients]
      /\ panel.current = Nobody /\ ~panel.connected /\ panel.clients = {}
  BY DEF NoPanel
<1>4. history \in [closedAt : [Clients -> ConnectSteps], lost : SUBSET Clients]
  BY DEF ConnectSteps
<1>5. ClientTypeOK
  <2>1. client \in [Clients -> Client]
    BY <1>1
  <2>2. call \in [Clients -> [Calls -> CallState]]
    BY <1>2
  <2>3. words \in [Clients -> [1 .. MaxHeard -> Word]]
    BY DEF NoWord, Word
  <2> QED BY <1>3, <1>4, <2>1, <2>2, <2>3 DEF ClientTypeOK
<1>6. ShownIsThere
  BY <1>3 DEF ShownIsThere
<1>7. ASSUME NEW c \in Clients
      PROVE  HeldOK(c) /\ ConnectOK(c) /\ ClosedOK(c) /\ TalkOK(c)
  <2>1. client[c] = NewClient /\ \A k \in Calls : call[c][k] = NoCall
    OBVIOUS
  <2>2. HeldOK(c)
    BY <1>1, <1>3, <2>1, ClientAssumption DEF HeldOK
  <2>3. ConnectOK(c)
    BY <1>1, <2>1 DEF ConnectOK
  <2>4. ClosedOK(c)
    BY <1>1, <2>1 DEF ClosedOK
  <2>5. \A k \in Calls : CallOK(c, k)
    BY <1>1, <1>2, <2>1 DEF CallOK
  <2>6. WordsOK(c)
    BY DEF WordsOK, NoWord
  <2> QED BY <2>2, <2>3, <2>4, <2>5, <2>6 DEF TalkOK
<1> QED BY <1>5, <1>6, <1>7 DEF VoiceInv

\* Every step keeps the invariant.
LEMMA VoiceStepInv ==
    ASSUME VoiceInv, [VoiceNext]_voiceVars
    PROVE  VoiceInv'
<1>1. CASE UNCHANGED voiceVars
  <2>1. \A d \in Clients : Untouched(d)
    BY <1>1, Typed DEF voiceVars, Untouched, ClientOK, HeldOK
  <2>2. ClientTypeOK' /\ ShownIsThere'
    BY <1>1, Typed DEF voiceVars, ClientTypeOK, ShownIsThere, AtStep
  <2> QED BY <2>1, <2>2, UntouchedOK DEF VoiceInv, ClientOK
<1>2. CASE OpenPanel \/ End \/ ClosePanel
  BY <1>2, OpenPanelInv, EndInv, ClosePanelInv
<1>3. ASSUME NEW c \in Clients,
             \/ Start(c) \/ MicrophoneGranted(c) \/ OfferMade(c) \/ CallAnswered(c)
             \/ AnswerApplied(c) \/ ConnectFails(c)
      PROVE  VoiceInv'
  BY <1>3, StartInv, MicrophoneGrantedInv, OfferMadeInv, CallAnsweredInv,
     AnswerAppliedInv, ConnectFailsInv
<1>4. ASSUME NEW c \in Clients,
             \/ HearWords(c)
             \/ \E k \in Calls : HearCall(c, k) \/ PostCall(c, k) \/ CallSettles(c, k)
      PROVE  VoiceInv'
  BY <1>4, HearWordsInv, HearCallInv, PostCallInv, CallSettlesInv
<1>5. ASSUME NEW c \in Clients, SessionDeleted(c)
      PROVE  VoiceInv'
  BY <1>5, DeleteInv DEF SessionDeleted
<1>6. ASSUME NEW c \in Clients,
             \/ \E n \in 1 .. MaxHeard : TranscriptObserved(c, n) \/ TranscriptSettles(c, n)
             \/ SessionCreated(c) \/ RequestLost(c) \/ SessionForgotten(c)
      PROVE  VoiceInv'
  BY <1>6, SessionCreatedInv, TranscriptObservedInv, TranscriptSettlesInv,
     RequestLostInv, SessionForgottenInv
<1> QED BY <1>1, <1>2, <1>3, <1>4, <1>5, <1>6 DEF VoiceNext

\* The invariant holds in every state of the browser's side.
THEOREM VoiceInvariance == VoiceSpec => []VoiceInv
<1>1. VoiceInit => VoiceInv
  BY VoiceInitInv
<1>2. VoiceInv /\ [VoiceNext]_voiceVars => VoiceInv'
  BY VoiceStepInv
<1> QED BY <1>1, <1>2, PTL DEF VoiceSpec

\* The panel, its clients, their calls and the requests on their way keep their
\* types, and a panel that is unmounted refers to no client.
THEOREM ClientTypeCorrect == VoiceSpec => []ClientTypeOK
<1>1. VoiceInv => ClientTypeOK
  BY DEF VoiceInv
<1> QED BY <1>1, VoiceInvariance, PTL

\* The panel shows a connection only while its client is ready, or while it waits
\* for the deletion it has asked for, whatever connects or fails meanwhile.
THEOREM ShownAlwaysThere == VoiceSpec => []ShownIsThere
<1>1. VoiceInv => ShownIsThere
  BY DEF VoiceInv
<1> QED BY <1>1, VoiceInvariance, PTL

\* A call is posted once, and only after the last transcript heard before it has
\* reached the backend or its request has failed; a session that answers the call
\* was there when this transcript arrived, if it did.
THEOREM CallsAlwaysFollowWords == VoiceSpec => []CallsFollowWords
<1>1. VoiceInv => CallsFollowWords
  BY DEF VoiceInv, TalkOK, CallOK, CallsFollowWords
<1> QED BY <1>1, VoiceInvariance, PTL

\* close gives back everything and its panel lets no other client go: only a
\* client that was closed while it waited for the microphone can hold one, or a
\* session the browser was not told of, or could not delete, outlive its client.
THEOREM OnlyInterruptedEverLeak == VoiceSpec => []OnlyInterruptedLeak
<1>1. ASSUME VoiceInv, NEW c \in Clients
      PROVE  /\ ~AtStep(c, "new") /\ ~client[c].closed => panel.current = c
             /\ client[c].closed /\ history.closedAt[c] # "microphone" =>
                   /\ ~client[c].microphone /\ client[c].channel # "live"
                   /\ c \in store =>
                         \/ \E reason \in Reasons : Delete(c, reason) \in network
                         \/ history.closedAt[c] = "call"
                         \/ c \in history.lost
  <2>1. HeldOK(c) /\ ClosedOK(c)
    BY <1>1 DEF VoiceInv
  <2> QED BY <2>1 DEF HeldOK, ClosedOK, AtStep
<1>2. VoiceInv => OnlyInterruptedLeak
  BY <1>1 DEF OnlyInterruptedLeak
<1> QED BY <1>2, VoiceInvariance, PTL
=============================================================================
