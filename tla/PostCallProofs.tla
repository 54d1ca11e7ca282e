---------------------------- MODULE PostCallProofs ----------------------------
(***************************************************************************)
(* Theorems about PostCall and its queue, for every number of calls, of     *)
(* requests, of workers, of attempts and of crashes.                        *)
(***************************************************************************)
EXTENDS PostCall, SequenceTheorems, WellFoundedInduction, TLAPS

-----------------------------------------------------------------------------
(* The inductive invariant behind the safety properties.                    *)

Ended == {c \in Calls : call[c] # NoCall /\ call[c].ended}

CallsIn(list) == {list[i].call : i \in DOMAIN list}

Listed == CallsIn(waiting) \cup CallsIn(processing) \cup CallsIn(dead)

\* A worker has a job, of a call that has ended, unless it looks for one; it
\* removes from the list what it has summarised.
WorkerOK(w) ==
    LET job == worker[w].job IN
    /\ (job = NoJob) = (worker[w].step \in {"down", "restore", "poll"})
    /\ job # NoJob => job.attempt < MaxAttempts /\ job.call \in Ended
    /\ WorkerAt(w, "ack") => job.call \in summary

\* The calls whose jobs are in no list, because a worker pushes them back.
Requeued == {worker[w].job.call : w \in {v \in Workers : WorkerAt(v, "requeue")}}

\* The call has ended, or is simulated: it is to be summarised.
Due(c) == call[c] # NoCall /\ (call[c].ended \/ c \notin CarrierCalls)

\* What is left of the calls that are due if every worker dies, those that push
\* a failed job back excepted: no job that one has in hand counts.
Saved == summary \cup Listed \cup Requeued \cup forgotten

NoneIsLost == \A c \in Calls : Due(c) => c \in Saved \/ Running(c)

\* The row is in the state the handler has read, and has a way to go if the
\* call is simulated; at the end it has the state reported.
HandlerOK(r) ==
    LET row == call[CallOf(r)]
        target == handler[r].target
        seen == handler[r].seen IN
    /\ ~HandlerAt(r, "idle") => handler[r] \in Handler
    /\ HandlerAt(r, "find") \/ HandlerAt(r, "insert") =>
          seen = "queued" /\ (~OfCarrier(r) => target = "active")
    /\ HandlerAt(r, "advance") =>
          /\ row # NoCall /\ row.status = seen
          /\ ~OfCarrier(r) =>
                \/ seen = "queued" /\ target = "active"
                \/ seen = "active" /\ target = "completed"
    /\ HandlerAt(r, "enqueue") =>
          /\ row # NoCall /\ row.status = target /\ target \in Terminal
          /\ ~OfCarrier(r) => target = "completed"
    /\ HandlerAt(r, "done") /\ handler[r].answer \in {"accepted", "ignored", "created"}
          => row # NoCall

\* No two handlers of the carrier are past their await, and no two handlers
\* advance one call.
HandlersApart ==
    \A r \in Requests : \A q \in Requests \ {r} :
        LET past == {"insert", "advance", "enqueue"} IN
        /\ handler[r].step \in past /\ handler[q].step \in past
              => ~OfCarrier(r) \/ ~OfCarrier(q)
        /\ handler[r].step \in past \ {"insert"} /\ handler[q].step \in past \ {"insert"}
              => CallOf(r) # CallOf(q)

CallInv ==
    /\ CallTypeOK
    /\ TrailIsTheStory
    /\ AnswersAreTrue
    /\ summary \cup Listed \subseteq Ended
    /\ \A w \in Workers : WorkerOK(w)
    /\ \A r \in Requests : HandlerOK(r)
    /\ HandlersApart
    /\ NoneIsLost

-----------------------------------------------------------------------------
(* The lists.                                                               *)

\* The calls of a list with one more job at its end.
LEMMA CallsInAppend ==
    ASSUME NEW S, NEW l \in Seq(S), NEW job \in S
    PROVE  /\ Append(l, job) \in Seq(S)
           /\ CallsIn(Append(l, job)) = CallsIn(l) \cup {job.call}
<1>1. /\ Append(l, job) \in Seq(S) /\ Len(Append(l, job)) = Len(l) + 1
      /\ \A i \in 1 .. Len(l) : Append(l, job)[i] = l[i]
      /\ Append(l, job)[Len(l) + 1] = job
  BY AppendProperties
<1>2. /\ Len(l) \in Nat /\ DOMAIN l = 1 .. Len(l)
      /\ DOMAIN Append(l, job) = 1 .. Len(l) + 1
  BY <1>1, LenProperties
<1>3. \A i \in 1 .. Len(l) + 1 : i \in 1 .. Len(l) \/ i = Len(l) + 1
  BY <1>2
<1>4. 1 .. Len(l) \subseteq 1 .. Len(l) + 1 /\ Len(l) + 1 \in 1 .. Len(l) + 1
  BY <1>2
<1> QED BY <1>1, <1>2, <1>3, <1>4 DEF CallsIn

\* The calls of a list with one more job in front.
LEMMA CallsInPush ==
    ASSUME NEW S, NEW l \in Seq(S), NEW job \in S
    PROVE  /\ <<job>> \o l \in Seq(S)
           /\ CallsIn(<<job>> \o l) = CallsIn(l) \cup {job.call}
<1>1. <<job>> \in Seq(S) /\ Len(<<job>>) = 1 /\ <<job>>[1] = job
  OBVIOUS
<1>2. /\ <<job>> \o l \in Seq(S) /\ Len(<<job>> \o l) = 1 + Len(l)
      /\ \A i \in 1 .. 1 + Len(l) :
            (<<job>> \o l)[i] = IF i <= 1 THEN <<job>>[i] ELSE l[i - 1]
  BY <1>1, ConcatProperties
<1>3. /\ Len(l) \in Nat /\ DOMAIN l = 1 .. Len(l)
      /\ DOMAIN (<<job>> \o l) = 1 .. 1 + Len(l)
  BY <1>2, LenProperties
<1>4. /\ (<<job>> \o l)[1] = job /\ 1 \in 1 .. 1 + Len(l)
      /\ \A i \in 1 .. Len(l) :
            i + 1 \in 1 .. 1 + Len(l) /\ (<<job>> \o l)[i + 1] = l[i]
      /\ \A i \in 1 .. 1 + Len(l) : i = 1 \/ i - 1 \in 1 .. Len(l)
  BY <1>1, <1>2, <1>3
<1>5. \A i \in 1 .. 1 + Len(l) : i # 1 => (<<job>> \o l)[i] = l[i - 1]
  BY <1>2, <1>3
<1>6. CallsIn(<<job>> \o l) \subseteq CallsIn(l) \cup {job.call}
  BY <1>3, <1>4, <1>5 DEF CallsIn
<1>7. CallsIn(l) \cup {job.call} \subseteq CallsIn(<<job>> \o l)
  <2>1. job.call \in CallsIn(<<job>> \o l)
    BY <1>3, <1>4 DEF CallsIn
  <2>2. ASSUME NEW i \in 1 .. Len(l) PROVE l[i].call \in CallsIn(<<job>> \o l)
    <3>1. i + 1 \in DOMAIN (<<job>> \o l) /\ (<<job>> \o l)[i + 1] = l[i]
      BY <1>3, <1>4
    <3> QED BY <3>1 DEF CallsIn
  <2> QED BY <1>3, <2>1, <2>2 DEF CallsIn
<1> QED BY <1>2, <1>6, <1>7

\* The calls of a list are those of its last job and of the others.
LEMMA CallsInPop ==
    ASSUME NEW S, NEW l \in Seq(S), l # <<>>
    PROVE  /\ Front(l) \in Seq(S) /\ Last(l) \in S
           /\ CallsIn(l) = CallsIn(Front(l)) \cup {Last(l).call}
<1>1. Len(l) \in Nat \ {0} /\ DOMAIN l = 1 .. Len(l) /\ \A i \in 1 .. Len(l) : l[i] \in S
  BY EmptySeq, LenProperties, ElementOfSeq
<1>2. /\ Front(l) \in Seq(S) /\ Len(Front(l)) = Len(l) - 1
      /\ \A i \in 1 .. Len(l) - 1 : Front(l)[i] = l[i]
  <2>1. \A i \in 1 .. Len(l) - 1 : l[i] \in S
    BY <1>1
  <2>2. /\ SubSeq(l, 1, Len(l) - 1) \in Seq(S)
        /\ Len(SubSeq(l, 1, Len(l) - 1)) =
              IF 1 <= Len(l) - 1 THEN (Len(l) - 1) - 1 + 1 ELSE 0
        /\ \A i \in 1 .. (Len(l) - 1) - 1 + 1 :
              SubSeq(l, 1, Len(l) - 1)[i] = l[1 + i - 1]
    BY <1>1, <2>1, SubSeqProperties
  <2> QED BY <1>1, <2>2 DEF Front
<1>3. DOMAIN Front(l) = 1 .. Len(l) - 1 /\ Last(l) = l[Len(l)]
  BY <1>2, LenProperties DEF Last
<1>4. \A i \in 1 .. Len(l) : i \in 1 .. Len(l) - 1 \/ i = Len(l)
  <2>1. \A k \in Nat : \A i \in 1 .. k : i \in 1 .. k - 1 \/ i = k
    OBVIOUS
  <2> QED BY <1>1, <2>1
<1>5. 1 .. Len(l) - 1 \subseteq 1 .. Len(l) /\ Len(l) \in 1 .. Len(l)
  BY <1>1
<1> QED BY <1>1, <1>2, <1>3, <1>4, <1>5 DEF CallsIn

\* LREM removes no job but one that is equal to the one it is given.
LEMMA CallsInRemove ==
    ASSUME NEW S, NEW l \in Seq(S), NEW job
    PROVE  /\ RemoveFirst(l, job) \in Seq(S)
           /\ CallsIn(RemoveFirst(l, job)) \subseteq CallsIn(l)
           /\ CallsIn(l) \subseteq CallsIn(RemoveFirst(l, job)) \cup {job.call}
<1>1. Len(l) \in Nat /\ DOMAIN l = 1 .. Len(l) /\ \A i \in 1 .. Len(l) : l[i] \in S
  BY LenProperties, ElementOfSeq
<1>2. CASE ~\E i \in 1 .. Len(l) : l[i] = job
  BY <1>2 DEF RemoveFirst
<1>3. CASE \E i \in 1 .. Len(l) : l[i] = job
  <2> DEFINE I == {i \in 1 .. Len(l) : l[i] = job}
             n == Min(I)
             left == SubSeq(l, 1, n - 1)
             right == SubSeq(l, n + 1, Len(l))
  <2>1. RemoveFirst(l, job) = left \o right
    BY <1>3 DEF RemoveFirst, RemoveAt, SelectInSeq
  <2>2. n \in I
    <3>1. \E m \in I : \A i \in I : m <= i
      <4>1. I \subseteq Nat /\ I # {}
        BY <1>1, <1>3
      <4> HIDE DEF I
      <4> DEFINE R == OpToRel(<, Nat)
      <4>2. \A x, y \in Nat : <<y, x>> \notin R => x <= y
        BY DEF OpToRel
      <4>3. IsWellFoundedOn(R, Nat)
        BY NatLessThanWellFounded
      <4> HIDE DEF R
      <4>4. PICK m \in I : \A i \in I : <<i, m>> \notin R
        BY <4>1, <4>3, WFMin
      <4> QED BY <4>1, <4>2, <4>4
    <3> HIDE DEF I
    <3> QED BY <3>1 DEF Min
  <2>3. n \in 1 .. Len(l) /\ l[n] = job
    BY <2>2
  <2> HIDE DEF I, n
  <2>4. /\ left \in Seq(S) /\ Len(left) = n - 1
        /\ \A i \in 1 .. n - 1 : left[i] = l[i]
    <3>1. \A i \in 1 .. n - 1 : l[i] \in S
      BY <1>1, <2>3
    <3>2. /\ left \in Seq(S)
          /\ Len(left) = IF 1 <= n - 1 THEN (n - 1) - 1 + 1 ELSE 0
          /\ \A i \in 1 .. (n - 1) - 1 + 1 : left[i] = l[1 + i - 1]
      BY <1>1, <2>3, <3>1, SubSeqProperties
    <3> HIDE DEF left
    <3> QED BY <1>1, <2>3, <3>2
  <2>5. /\ right \in Seq(S) /\ Len(right) = Len(l) - n
        /\ \A i \in 1 .. Len(l) - n : right[i] = l[n + i]
    <3>1. \A i \in n + 1 .. Len(l) : l[i] \in S
      BY <1>1, <2>3
    <3>2. /\ right \in Seq(S)
          /\ Len(right) = IF n + 1 <= Len(l) THEN Len(l) - (n + 1) + 1 ELSE 0
          /\ \A i \in 1 .. Len(l) - (n + 1) + 1 : right[i] = l[(n + 1) + i - 1]
      BY <1>1, <2>3, <3>1, SubSeqProperties
    <3> HIDE DEF right
    <3>5. \A k \in Nat : \A m \in 1 .. k :
              /\ k - (m + 1) + 1 = k - m
              /\ (IF m + 1 <= k THEN k - (m + 1) + 1 ELSE 0) = k - m
              /\ \A i \in 1 .. k - m : (m + 1) + i - 1 = m + i
      OBVIOUS
    <3>3. Len(right) = Len(l) - n /\ Len(l) - (n + 1) + 1 = Len(l) - n
      BY <1>1, <2>3, <3>2, <3>5
    <3>4. ASSUME NEW i \in 1 .. Len(l) - n PROVE right[i] = l[n + i]
      <4>1. right[i] = l[(n + 1) + i - 1] /\ (n + 1) + i - 1 = n + i
        BY <1>1, <2>3, <3>2, <3>3, <3>5
      <4> QED BY <4>1
    <3> QED BY <3>2, <3>3, <3>4
  <2> HIDE DEF left, right
  <2> DEFINE rest == left \o right
  <2>6. /\ rest \in Seq(S) /\ Len(rest) = Len(l) - 1
        /\ \A i \in 1 .. Len(l) - 1 :
              rest[i] = IF i <= n - 1 THEN left[i] ELSE right[i - (n - 1)]
    <3>1. /\ rest \in Seq(S) /\ Len(rest) = Len(left) + Len(right)
          /\ \A i \in 1 .. Len(left) + Len(right) :
                rest[i] = IF i <= Len(left) THEN left[i] ELSE right[i - Len(left)]
      BY <2>4, <2>5, ConcatProperties
    <3>2. Len(left) = n - 1 /\ Len(left) + Len(right) = Len(l) - 1
      BY <1>1, <2>3, <2>4, <2>5
    <3> HIDE DEF rest
    <3> QED BY <3>1, <3>2
  <2>7. DOMAIN rest = 1 .. Len(l) - 1
    BY <2>6, LenProperties
  <2> HIDE DEF rest
  <2>8. \A i \in 1 .. Len(l) - 1 :
            rest[i] = IF i <= n - 1 THEN l[i] ELSE l[i + 1]
    <3> TAKE i \in 1 .. Len(l) - 1
    <3>1. CASE i <= n - 1
      <4>1. i \in 1 .. n - 1 /\ rest[i] = left[i]
        BY <1>1, <2>3, <2>6, <3>1
      <4> QED BY <2>4, <3>1, <4>1
    <3>2. CASE ~(i <= n - 1)
      <4>1. /\ i - (n - 1) \in 1 .. Len(l) - n /\ n + (i - (n - 1)) = i + 1
            /\ rest[i] = right[i - (n - 1)]
        BY <1>1, <2>3, <2>6, <3>2
      <4>2. right[i - (n - 1)] = l[n + (i - (n - 1))]
        BY <2>5, <4>1
      <4> QED BY <3>2, <4>1, <4>2
    <3> QED BY <3>1, <3>2
  <2>9. \A i \in 1 .. Len(l) - 1 :
            \E k \in 1 .. Len(l) : rest[i] = l[k]
    BY <1>1, <2>3, <2>8
  <2>10. \A i \in 1 .. Len(l) :
             i = n \/ \E k \in 1 .. Len(l) - 1 : rest[k] = l[i]
    <3> TAKE i \in 1 .. Len(l)
    <3>1. CASE i < n
      <4>1. i \in 1 .. Len(l) - 1 /\ rest[i] = l[i]
        BY <1>1, <2>3, <2>8, <3>1
      <4> QED BY <4>1
    <3>2. CASE i > n
      <4>1. i - 1 \in 1 .. Len(l) - 1 /\ rest[i - 1] = l[i]
        BY <1>1, <2>3, <2>8, <3>2
      <4> QED BY <4>1
    <3> QED BY <1>1, <2>3, <3>1, <3>2
  <2>11. CallsIn(rest) \subseteq CallsIn(l)
    BY <1>1, <2>7, <2>9 DEF CallsIn
  <2>12. CallsIn(l) \subseteq CallsIn(rest) \cup {job.call}
    BY <1>1, <2>3, <2>7, <2>10 DEF CallsIn
  <2> QED BY <2>1, <2>6, <2>11, <2>12 DEF rest
<1> QED BY <1>2, <1>3

-----------------------------------------------------------------------------
(* The routes.                                                              *)

\* The states a call can be in.
LEMMA StatesAre ==
    States = {"queued", "ringing", "active", "transferred", "completed", "failed"}
<1>1. DOMAIN StatusOrder = {1, 2, 3, 4, 5, 6}
  BY DEF StatusOrder
<1> QED BY <1>1 DEF States, StatusOrder, Range

\* A walk along the allowed transitions goes through no terminal state.
LEMMA WalksAre ==
    ASSUME NEW walk \in Walks
    PROVE  /\ walk \in Seq(States) /\ Len(walk) \in Nat \ {0}
           /\ \A i \in 1 .. Len(walk) - 1 : walk[i] \notin Terminal
<1>1. PICK n \in 1 .. Cardinality(States) :
         /\ walk \in [1 .. n -> States]
         /\ \A i \in 1 .. n - 1 : walk[i + 1] \in AllowedTransitions[walk[i]]
  BY DEF Walks
<1>2. n \in Nat \ {0} /\ Len(walk) = n /\ walk \in Seq(States)
  <2>1. n \in Nat \ {0}
    BY <1>1
  <2>2. walk \in Seq(States)
    BY <1>1, <2>1, SeqDef
  <2> QED BY <1>1, <2>1, <2>2, LenProperties
<1>3. \A s \in Terminal : AllowedTransitions[s] = {}
  BY DEF Terminal, AllowedTransitions
<1> QED BY <1>1, <1>2, <1>3

\* Of a route that leads elsewhere: what is reported and what is inferred are
\* together the route, and no state on the way is terminal.
LEMMA RouteTold ==
    ASSUME NEW a \in States, NEW b \in States, a # b, Routes[a][b] # NoRoute,
           NEW inferred, inferred = Front(Tail(Routes[a][b]))
    PROVE  /\ inferred \in Seq(States)
           /\ Last(Routes[a][b]) = b
           /\ TellsShortest([from |-> a, inferred |-> inferred, to |-> b])
           /\ Range(Tail(Routes[a][b])) = Range(inferred) \cup {b}
           /\ Range(inferred) \cap Terminal = {}
<1> DEFINE route == Routes[a][b]
           n == Len(route)
<1>1. /\ route \in Walks /\ Head(route) = a /\ Last(route) = b
      /\ \A walk \in Walks :
            Head(walk) = a /\ Last(walk) = b => Len(route) <= Len(walk)
  BY RoutesAreShortest
<1>2. /\ route \in Seq(States) /\ n \in Nat \ {0}
      /\ \A i \in 1 .. n - 1 : route[i] \notin Terminal
  BY <1>1, WalksAre
<1>3. inferred = Front(Tail(route))
  OBVIOUS
<1> HIDE DEF route
<1>4. route # <<>> /\ route[1] = a /\ route[n] = b /\ n > 1
  <2>1. route # <<>> /\ route[1] = a /\ route[n] = b
    BY <1>1, <1>2, EmptySeq DEF Last
  <2> QED BY <1>2, <2>1
<1>5. /\ Tail(route) \in Seq(States) /\ Len(Tail(route)) = n - 1
      /\ \A i \in 1 .. n - 1 : Tail(route)[i] = route[i + 1]
  BY <1>2, <1>4, HeadTailProperties
<1>6. /\ inferred \in Seq(States) /\ Len(inferred) = n - 2
      /\ \A i \in 1 .. n - 2 : inferred[i] = route[i + 1]
  <2>1. \A i \in 1 .. n - 2 : Tail(route)[i] \in States
    <3>1. \A i \in 1 .. Len(Tail(route)) : Tail(route)[i] \in States
      BY <1>5, ElementOfSeq
    <3>2. \A i \in 1 .. n - 2 : i \in 1 .. n - 1
      BY <1>2
    <3> QED BY <1>5, <3>1, <3>2
  <2>2. Len(Tail(route)) - 1 = n - 2 /\ n - 2 \in Int /\ (n - 2) - 1 + 1 = n - 2
    BY <1>2, <1>5
  <2> DEFINE cut == SubSeq(Tail(route), 1, n - 2)
  <2>3. /\ cut \in Seq(States)
        /\ Len(cut) = IF 1 <= n - 2 THEN (n - 2) - 1 + 1 ELSE 0
        /\ \A i \in 1 .. (n - 2) - 1 + 1 : cut[i] = Tail(route)[1 + i - 1]
    BY <2>1, <2>2, SubSeqProperties
  <2>4. inferred = cut
    BY <1>3, <2>2 DEF Front
  <2> HIDE DEF cut
  <2>5. Len(cut) = n - 2
    <3>1. \A k \in Nat : k > 1 => (IF 1 <= k - 2 THEN (k - 2) - 1 + 1 ELSE 0) = k - 2
      OBVIOUS
    <3>2. (IF 1 <= n - 2 THEN (n - 2) - 1 + 1 ELSE 0) = n - 2
      BY <1>2, <1>4, <3>1
    <3> QED BY <2>3, <3>2
  <2>6. ASSUME NEW i \in 1 .. n - 2 PROVE cut[i] = route[i + 1]
    <3>1. i \in 1 .. n - 1 /\ 1 + i - 1 = i
      BY <1>2
    <3> QED BY <1>5, <2>2, <2>3, <3>1
  <2> QED BY <2>3, <2>4, <2>5, <2>6
<1>7. <<a>> \o inferred \o <<b>> = route
  <2>1. <<a>> \in Seq(States) /\ <<b>> \in Seq(States)
    OBVIOUS
  <2>2. Len(<<a>>) = 1 /\ Len(<<b>>) = 1 /\ <<a>>[1] = a /\ <<b>>[1] = b
    OBVIOUS
  <2> DEFINE first == <<a>> \o inferred
  <2>3. /\ first \in Seq(States) /\ Len(first) = n - 1
        /\ \A i \in 1 .. n - 1 :
              first[i] = IF i <= 1 THEN <<a>>[i] ELSE inferred[i - 1]
    <3>1. /\ first \in Seq(States) /\ Len(first) = Len(<<a>>) + Len(inferred)
          /\ \A i \in 1 .. Len(<<a>>) + Len(inferred) :
                first[i] = IF i <= Len(<<a>>) THEN <<a>>[i]
                                              ELSE inferred[i - Len(<<a>>)]
      BY <1>6, <2>1, ConcatProperties
    <3>2. Len(<<a>>) + Len(inferred) = n - 1
      BY <1>2, <1>6, <2>2
    <3> HIDE DEF first
    <3> QED BY <2>2, <3>1, <3>2
  <2> HIDE DEF first
  <2>4. \A i \in 1 .. n - 1 : first[i] = route[i]
    <3> TAKE i \in 1 .. n - 1
    <3>1. CASE i = 1
      BY <1>4, <2>2, <2>3, <3>1
    <3>2. CASE i # 1
      <4>1. i - 1 \in 1 .. n - 2 /\ (i - 1) + 1 = i /\ ~(i <= 1)
        BY <1>2, <3>2
      <4> QED BY <1>6, <2>3, <4>1
    <3> QED BY <3>1, <3>2
  <2> DEFINE told == first \o <<b>>
  <2>5. /\ told \in Seq(States) /\ Len(told) = n
        /\ \A i \in 1 .. n :
              told[i] = IF i <= n - 1 THEN first[i] ELSE <<b>>[i - (n - 1)]
    <3>1. /\ told \in Seq(States) /\ Len(told) = Len(first) + Len(<<b>>)
          /\ \A i \in 1 .. Len(first) + Len(<<b>>) :
                told[i] = IF i <= Len(first) THEN first[i]
                                             ELSE <<b>>[i - Len(first)]
      BY <2>1, <2>3, ConcatProperties
    <3>2. Len(first) + Len(<<b>>) = n
      BY <1>2, <2>2, <2>3
    <3> HIDE DEF told
    <3> QED BY <2>3, <3>1, <3>2
  <2> HIDE DEF told
  <2>6. \A i \in 1 .. n : told[i] = route[i]
    <3> TAKE i \in 1 .. n
    <3>1. CASE i <= n - 1
      <4>1. i \in 1 .. n - 1
        BY <1>2, <3>1
      <4> QED BY <2>4, <2>5, <3>1, <4>1
    <3>2. CASE ~(i <= n - 1)
      <4>1. i = n /\ i - (n - 1) = 1
        BY <1>2, <3>2
      <4> QED BY <1>4, <2>2, <2>5, <3>2, <4>1
    <3> QED BY <3>1, <3>2
  <2>7. told = route
    BY <1>2, <2>5, <2>6, SeqEqual
  <2> QED BY <2>7 DEF told, first
<1>8. TellsShortest([from |-> a, inferred |-> inferred, to |-> b])
  BY <1>1, <1>7 DEF TellsShortest
<1>9. DOMAIN inferred = 1 .. n - 2 /\ DOMAIN Tail(route) = 1 .. n - 1
  BY <1>5, <1>6, LenProperties
<1>10. Range(Tail(route)) = Range(inferred) \cup {b}
  <2>1. \A i \in 1 .. n - 2 : i \in 1 .. n - 1 /\ inferred[i] = Tail(route)[i]
    <3> TAKE i \in 1 .. n - 2
    <3>1. i \in 1 .. n - 1
      BY <1>2
    <3> QED BY <1>5, <1>6, <3>1
  <2>2. n - 1 \in 1 .. n - 1 /\ (n - 1) + 1 = n
    BY <1>2, <1>4
  <2>3. Tail(route)[n - 1] = b
    BY <1>4, <1>5, <2>2
  <2>4. \A i \in 1 .. n - 1 : i = n - 1 \/ i \in 1 .. n - 2
    BY <1>2
  <2>5. Range(Tail(route)) = {Tail(route)[i] : i \in 1 .. n - 1}
    BY <1>9 DEF Range
  <2>6. Range(inferred) = {inferred[i] : i \in 1 .. n - 2}
    BY <1>9 DEF Range
  <2>7. \A i \in 1 .. n - 1 : Tail(route)[i] \in Range(inferred) \cup {b}
    BY <2>1, <2>3, <2>4, <2>6
  <2>8. \A i \in 1 .. n - 2 : inferred[i] \in Range(Tail(route))
    BY <2>1, <2>5
  <2>9. b \in Range(Tail(route))
    BY <2>2, <2>3, <2>5
  <2> QED BY <2>5, <2>6, <2>7, <2>8, <2>9
<1>11. Range(inferred) \cap Terminal = {}
  <2>1. ASSUME NEW i \in 1 .. n - 2 PROVE inferred[i] \notin Terminal
    <3>1. i + 1 \in 1 .. n - 1
      BY <1>2
    <3> QED BY <1>2, <1>6, <3>1
  <2> QED BY <1>9, <2>1 DEF Range
<1> QED BY <1>1, <1>6, <1>8, <1>10, <1>11 DEF route

-----------------------------------------------------------------------------
(* The queue.                                                               *)

\* What the invariant says of the queue and of its workers.
QueueInv ==
    /\ QueueTypeOK
    /\ summary \cup Listed \subseteq Ended
    /\ \A w \in Workers : WorkerOK(w)

\* A job that has an attempt left.
Waitable == [call : Calls, attempt : 0 .. MaxAttempts - 1]

\* A job that has none.
Spent == [call : Calls, attempt : {MaxAttempts}]

\* Worker w alone moves.
Moves(w) ==
    /\ worker' \in [Workers -> [step : WorkerSteps, job : Job \cup {NoJob}]]
    /\ \A v \in Workers \ {w} : worker'[v] = worker[v]

\* What a worker leaves of the other workers when it moves.
LEMMA WorkersFrame ==
    ASSUME QueueInv, NEW w \in Workers, Moves(w), WorkerOK(w)',
           summary \subseteq summary', Ended \subseteq Ended'
    PROVE  /\ \A v \in Workers : WorkerOK(v)'
           /\ WorkerAt(w, "requeue") \/ Requeued \subseteq Requeued'
           /\ Requeued \subseteq Requeued' \cup {worker[w].job.call}
<1>1. ASSUME NEW v \in Workers PROVE WorkerOK(v)'
  <2>1. CASE v = w
    BY <2>1
  <2>2. CASE v # w
    <3>1. worker'[v] = worker[v] /\ WorkerOK(v)
      BY <2>2 DEF Moves, QueueInv
    <3> QED BY <3>1 DEF WorkerOK, WorkerAt
  <2> QED BY <2>1, <2>2
<1>2. ASSUME NEW c \in Requeued
      PROVE  c \in Requeued' \/ (c = worker[w].job.call /\ WorkerAt(w, "requeue"))
  <2>1. PICK v \in Workers : WorkerAt(v, "requeue") /\ c = worker[v].job.call
    BY DEF Requeued
  <2>2. CASE v = w
    BY <2>1, <2>2
  <2>3. CASE v # w
    <3>1. worker'[v] = worker[v]
      BY <2>3 DEF Moves
    <3>2. worker'[v].step = "requeue" /\ c = worker'[v].job.call
      BY <2>1, <3>1 DEF WorkerAt
    <3> QED BY <3>2 DEF Requeued, WorkerAt
  <2> QED BY <2>2, <2>3
<1> QED BY <1>1, <1>2

\* What a worker that has a job has.
LEMMA JobInHand ==
    ASSUME QueueInv, NEW w \in Workers,
           worker[w].step \in {"work", "ack", "drop", "requeue"}
    PROVE  /\ worker[w].job \in Waitable /\ worker[w].job # NoJob
           /\ worker[w].job.call \in Ended
           /\ WorkerAt(w, "ack") => worker[w].job.call \in summary
<1>1. WorkerOK(w) /\ worker[w] \in [step : WorkerSteps, job : Job \cup {NoJob}]
  BY DEF QueueInv, QueueTypeOK
<1>2. worker[w].job # NoJob
  BY <1>1 DEF WorkerOK
<1>3. worker[w].job \in Job /\ worker[w].job.attempt < MaxAttempts
  BY <1>1, <1>2 DEF WorkerOK
<1>4. worker[w].job.call \in Calls
  BY <1>3 DEF Job
<1>5. worker[w].job.attempt \in 0 .. MaxAttempts - 1
  BY <1>3, QueueAssumption DEF Job
<1>6. worker[w].job = [call |-> worker[w].job.call, attempt |-> worker[w].job.attempt]
  BY <1>3 DEF Job
<1>7. worker[w].job \in Waitable
  BY <1>4, <1>5, <1>6 DEF Waitable
<1> QED BY <1>1, <1>2, <1>7 DEF WorkerOK

\* A job that may be tried again has an attempt left.
LEMMA WaitableIsJob ==
    /\ Waitable \subseteq Job /\ NoJob \notin Waitable
    /\ \A job \in Waitable : job.attempt < MaxAttempts /\ job.call \in Calls
<1>1. 0 .. MaxAttempts - 1 \subseteq 0 .. MaxAttempts
  BY QueueAssumption
<1>2. \A i \in 0 .. MaxAttempts - 1 : i < MaxAttempts
  BY QueueAssumption
<1> QED BY <1>1, <1>2, QueueAssumption DEF Waitable, Job

\* A step in which worker w goes from one step to another without its job, or
\* keeps it, and no list is touched.
LEMMA WorkerTurns ==
    ASSUME QueueInv, NEW w \in Workers, NEW step \in WorkerSteps,
           NEW job \in Waitable \cup {NoJob}, Become(w, step, job),
           ~WorkerAt(w, "requeue"),
           (job = NoJob) = (step \in {"down", "restore", "poll"}),
           job = NoJob \/ job.call \in Ended,
           step = "ack" => job.call \in summary',
           summary \subseteq summary', summary' \subseteq Ended,
           UNCHANGED <<lists, forgotten, call>>, crashes' \in 0 .. MaxCrashes
    PROVE  QueueInv' /\ Saved \subseteq Saved'
<1>1. /\ QueueTypeOK /\ worker \in [Workers -> [step : WorkerSteps, job : Job \cup {NoJob}]]
      /\ summary \cup Listed \subseteq Ended
  BY DEF QueueInv, QueueTypeOK
<1>2. worker'[w].step = step /\ worker'[w].job = job /\ Moves(w)
  BY <1>1, WaitableIsJob DEF Become, Moves
<1>3. Ended' = Ended
  BY DEF Ended
<1>4. WorkerOK(w)'
  BY <1>2, <1>3, WaitableIsJob DEF WorkerOK, WorkerAt
<1>5. /\ \A v \in Workers : WorkerOK(v)'
      /\ Requeued \subseteq Requeued'
  BY <1>2, <1>3, <1>4, WorkersFrame
<1>6. Listed' = Listed
  BY DEF lists, Listed, CallsIn
<1>7. QueueTypeOK'
  <2>1. Ended \subseteq Calls
    BY DEF Ended
  <2> QED BY <1>1, <1>2, <2>1 DEF QueueTypeOK, Moves, lists
<1> QED BY <1>1, <1>3, <1>5, <1>6, <1>7 DEF QueueInv, Saved

\* Start keeps the invariant.
LEMMA StartInv ==
    ASSUME QueueInv, NEW w \in Workers, Start(w), UNCHANGED call
    PROVE  QueueInv' /\ Saved \subseteq Saved'
<1>1. Become(w, "restore", NoJob) /\ WorkerAt(w, "down")
  BY DEF Start
<1>2. crashes' \in 0 .. MaxCrashes /\ summary \subseteq Ended
  BY DEF Start, QueueInv, QueueTypeOK
<1>3. ~WorkerAt(w, "requeue")
  BY <1>1 DEF WorkerAt
<1> QED BY <1>1, <1>2, <1>3, WorkerTurns DEF Start, WorkerSteps

\* Summarize keeps the invariant, and so does what fails and removes nothing.
LEMMA SummarizeInv ==
    ASSUME QueueInv, NEW w \in Workers, UNCHANGED call,
           \/ Summarize(w) \/ SummarizeFails(w)
           \/ AckFails(w) /\ UNCHANGED processing
    PROVE  QueueInv' /\ Saved \subseteq Saved'
<1>1. PICK job : job = worker[w].job
  OBVIOUS
<1>2. crashes' \in 0 .. MaxCrashes /\ summary \subseteq Ended
  BY DEF Summarize, SummarizeFails, AckFails, QueueInv, QueueTypeOK
<1>3. worker[w].step \in {"work", "ack"} /\ ~WorkerAt(w, "requeue")
  BY DEF Summarize, SummarizeFails, AckFails, WorkerAt
<1>4. job \in Waitable /\ job # NoJob /\ job.call \in Ended
  BY <1>1, <1>3, JobInHand
<1>5. UNCHANGED <<lists, forgotten, call>>
  BY DEF Summarize, SummarizeFails, AckFails, lists
<1>6. CASE Summarize(w)
  <2>1. Become(w, "ack", job) /\ summary' = summary \cup {job.call}
    BY <1>1, <1>6 DEF Summarize
  <2> QED BY <1>2, <1>3, <1>4, <1>5, <2>1, WorkerTurns DEF WorkerSteps
<1>7. CASE SummarizeFails(w) \/ AckFails(w)
  <2>1. Become(w, "drop", job) /\ summary' = summary
    BY <1>1, <1>7 DEF SummarizeFails, AckFails
  <2> QED BY <1>2, <1>3, <1>4, <1>5, <2>1, WorkerTurns DEF WorkerSteps
<1> QED BY <1>6, <1>7

\* CrashWorker keeps the invariant.
LEMMA CrashWorkerInv ==
    ASSUME QueueInv, NEW w \in Workers, CrashWorker(w), UNCHANGED call
    PROVE  QueueInv' /\ Saved \subseteq Saved'
<1>1. /\ QueueTypeOK /\ worker \in [Workers -> [step : WorkerSteps, job : Job \cup {NoJob}]]
      /\ summary \cup Listed \subseteq Ended
  BY DEF QueueInv, QueueTypeOK
<1>2. worker'[w].step = "down" /\ worker'[w].job = NoJob /\ Moves(w)
  BY <1>1 DEF CrashWorker, Become, Moves, WorkerSteps
<1>3. Ended' = Ended /\ summary' = summary /\ Listed' = Listed
  BY DEF Ended, CrashWorker, lists, Listed, CallsIn
<1>4. WorkerOK(w)'
  BY <1>2 DEF WorkerOK, WorkerAt
<1>5. /\ \A v \in Workers : WorkerOK(v)'
      /\ WorkerAt(w, "requeue") \/ Requeued \subseteq Requeued'
      /\ Requeued \subseteq Requeued' \cup {worker[w].job.call}
  BY <1>2, <1>3, <1>4, WorkersFrame
<1>6. Requeued \subseteq Requeued' \cup forgotten' /\ forgotten \subseteq forgotten'
  BY <1>5 DEF CrashWorker
<1>7. QueueTypeOK'
  <2>1. crashes' \in 0 .. MaxCrashes
    BY <1>1, QueueAssumption DEF CrashWorker, QueueTypeOK
  <2>2. forgotten' \subseteq Calls
    <3>1. WorkerAt(w, "requeue") => worker[w].job.call \in Calls
      BY JobInHand DEF WorkerAt, Ended
    <3> QED BY <1>1, <3>1 DEF CrashWorker, QueueTypeOK
  <2> QED BY <1>1, <1>2, <2>1, <2>2 DEF QueueTypeOK, Moves, CrashWorker, lists
<1> QED BY <1>1, <1>3, <1>5, <1>6, <1>7 DEF QueueInv, Saved

\* A step of worker w that moves jobs between the lists.
LEMMA ListsMove ==
    ASSUME QueueInv, NEW w \in Workers, UNCHANGED <<call, summary, forgotten, crashes>>,
           Moves(w), WorkerOK(w)', Listed' \subseteq Ended,
           waiting' \in Seq(Waitable), processing' \in Seq(Waitable),
           dead' \in Seq(Spent),
           Listed \subseteq Listed' \cup Requeued' \cup summary,
           WorkerAt(w, "requeue") => worker[w].job.call \in Listed'
    PROVE  QueueInv' /\ Saved \subseteq Saved'
<1>1. Ended' = Ended /\ QueueTypeOK /\ summary \subseteq Ended
  BY DEF Ended, QueueInv
<1>2. /\ \A v \in Workers : WorkerOK(v)'
      /\ WorkerAt(w, "requeue") \/ Requeued \subseteq Requeued'
      /\ Requeued \subseteq Requeued' \cup {worker[w].job.call}
  BY <1>1, WorkersFrame
<1>3. QueueTypeOK'
  BY <1>1 DEF QueueTypeOK, Moves, Waitable, Spent
<1> QED BY <1>1, <1>2, <1>3 DEF QueueInv, Saved

\* Restore keeps the invariant.
LEMMA RestoreInv ==
    ASSUME QueueInv, NEW w \in Workers, Restore(w), UNCHANGED call
    PROVE  QueueInv' /\ Saved \subseteq Saved'
<1>1. /\ waiting \in Seq(Waitable) /\ processing \in Seq(Waitable)
      /\ dead \in Seq(Spent)
      /\ worker \in [Workers -> [step : WorkerSteps, job : Job \cup {NoJob}]]
      /\ crashes \in 0 .. MaxCrashes /\ summary \subseteq Ended /\ Listed \subseteq Ended
  BY DEF QueueInv, QueueTypeOK, Waitable, Spent
<1>2. WorkerAt(w, "restore") /\ UNCHANGED <<summary, forgotten, crashes>>
  BY DEF Restore
<1>3. CASE processing # <<>> /\ waiting' = <<Last(processing)>> \o waiting
           /\ processing' = Front(processing) /\ UNCHANGED <<dead, worker>>
  <2>1. /\ Front(processing) \in Seq(Waitable) /\ Last(processing) \in Waitable
        /\ CallsIn(processing) = CallsIn(Front(processing)) \cup {Last(processing).call}
    BY <1>1, <1>3, CallsInPop
  <2>2. /\ <<Last(processing)>> \o waiting \in Seq(Waitable)
        /\ CallsIn(<<Last(processing)>> \o waiting)
              = CallsIn(waiting) \cup {Last(processing).call}
    BY <1>1, <2>1, CallsInPush
  <2>3. Listed' = Listed
    <3>1. /\ CallsIn(waiting)' = CallsIn(waiting) \cup {Last(processing).call}
          /\ CallsIn(processing)' = CallsIn(Front(processing))
          /\ CallsIn(dead)' = CallsIn(dead)
      BY <1>3, <2>2 DEF CallsIn
    <3> QED BY <2>1, <3>1 DEF Listed
  <2>4. Moves(w) /\ WorkerOK(w)'
    <3>1. WorkerOK(w) /\ Ended' = Ended
      BY DEF QueueInv, Ended
    <3> QED BY <1>1, <1>2, <1>3, <3>1 DEF Moves, WorkerOK, WorkerAt
  <2>5. ~WorkerAt(w, "requeue")
    BY <1>2 DEF WorkerAt
  <2> QED BY <1>1, <1>2, <1>3, <2>1, <2>2, <2>3, <2>4, <2>5, ListsMove
<1>4. CASE Become(w, "poll", NoJob) /\ UNCHANGED lists
  <2>1. ~WorkerAt(w, "requeue")
    BY <1>2 DEF WorkerAt
  <2> QED BY <1>1, <1>2, <1>4, <2>1, WorkerTurns DEF WorkerSteps
<1> QED BY <1>3, <1>4 DEF Restore

\* Take keeps the invariant.
LEMMA TakeInv ==
    ASSUME QueueInv, NEW w \in Workers, Take(w), UNCHANGED call
    PROVE  QueueInv' /\ Saved \subseteq Saved'
<1>1. /\ waiting \in Seq(Waitable) /\ processing \in Seq(Waitable)
      /\ dead \in Seq(Spent)
      /\ worker \in [Workers -> [step : WorkerSteps, job : Job \cup {NoJob}]]
      /\ summary \subseteq Ended /\ Listed \subseteq Ended
  BY DEF QueueInv, QueueTypeOK, Waitable, Spent
<1>2. /\ WorkerAt(w, "poll") /\ waiting # <<>> /\ waiting' = Front(waiting)
      /\ processing' = <<Last(waiting)>> \o processing
      /\ Become(w, "work", Last(waiting))
      /\ UNCHANGED <<dead, summary, forgotten, crashes>>
  BY DEF Take
<1>3. /\ Front(waiting) \in Seq(Waitable) /\ Last(waiting) \in Waitable
      /\ CallsIn(waiting) = CallsIn(Front(waiting)) \cup {Last(waiting).call}
  BY <1>1, <1>2, CallsInPop
<1>4. /\ <<Last(waiting)>> \o processing \in Seq(Waitable)
      /\ CallsIn(<<Last(waiting)>> \o processing)
            = CallsIn(processing) \cup {Last(waiting).call}
  BY <1>1, <1>3, CallsInPush
<1>5. Listed' = Listed
  <2>1. /\ CallsIn(waiting)' = CallsIn(Front(waiting))
        /\ CallsIn(processing)' = CallsIn(processing) \cup {Last(waiting).call}
        /\ CallsIn(dead)' = CallsIn(dead)
    BY <1>2, <1>4 DEF CallsIn
  <2> QED BY <1>3, <2>1 DEF Listed
<1>6. /\ worker'[w].step = "work" /\ worker'[w].job = Last(waiting) /\ Moves(w)
  BY <1>1, <1>2, <1>3, WaitableIsJob DEF Become, Moves, WorkerSteps
<1>7. WorkerOK(w)'
  <2>1. Ended' = Ended /\ Last(waiting).call \in Ended
    BY <1>1, <1>3 DEF Ended, Listed
  <2> QED BY <1>3, <1>6, <2>1, WaitableIsJob DEF WorkerOK, WorkerAt
<1>8. ~WorkerAt(w, "requeue")
  BY <1>2 DEF WorkerAt
<1> QED BY <1>1, <1>2, <1>3, <1>4, <1>5, <1>6, <1>7, <1>8, ListsMove

\* Whoever removes a job keeps the invariant, told so or not.
LEMMA AckInv ==
    ASSUME QueueInv, NEW w \in Workers, UNCHANGED call,
           Ack(w) \/ Drop(w) \/ (AckFails(w) /\ Acknowledge(worker[w].job))
    PROVE  QueueInv' /\ Saved \subseteq Saved'
<1>1. /\ waiting \in Seq(Waitable) /\ processing \in Seq(Waitable)
      /\ dead \in Seq(Spent)
      /\ worker \in [Workers -> [step : WorkerSteps, job : Job \cup {NoJob}]]
      /\ summary \subseteq Ended /\ Listed \subseteq Ended
  BY DEF QueueInv, QueueTypeOK, Waitable, Spent
<1>2. /\ worker[w].step \in {"ack", "drop"}
      /\ processing' = RemoveFirst(processing, worker[w].job)
      /\ UNCHANGED <<waiting, dead, summary, forgotten, crashes>>
  BY DEF Ack, Drop, AckFails, Acknowledge, WorkerAt
<1>3. /\ worker[w].job \in Waitable /\ worker[w].job # NoJob
      /\ worker[w].job.call \in Ended
      /\ WorkerAt(w, "ack") => worker[w].job.call \in summary
  BY <1>2, JobInHand
<1>4. /\ RemoveFirst(processing, worker[w].job) \in Seq(Waitable)
      /\ CallsIn(RemoveFirst(processing, worker[w].job)) \subseteq CallsIn(processing)
      /\ CallsIn(processing) \subseteq
            CallsIn(RemoveFirst(processing, worker[w].job)) \cup {worker[w].job.call}
  BY <1>1, CallsInRemove
<1>5. Listed' \subseteq Listed /\ Listed \subseteq Listed' \cup {worker[w].job.call}
  <2>1. /\ CallsIn(waiting)' = CallsIn(waiting)
        /\ CallsIn(processing)' = CallsIn(RemoveFirst(processing, worker[w].job))
        /\ CallsIn(dead)' = CallsIn(dead)
    BY <1>2 DEF CallsIn
  <2> QED BY <1>4, <2>1 DEF Listed
<1>6. CASE Ack(w)
  <2>1. worker'[w].step = "poll" /\ worker'[w].job = NoJob /\ Moves(w)
    BY <1>1, <1>6 DEF Ack, Become, Moves, WorkerSteps
  <2>2. WorkerOK(w)'
    BY <2>1 DEF WorkerOK, WorkerAt
  <2>3. ~WorkerAt(w, "requeue") /\ worker[w].job.call \in summary
    BY <1>3, <1>6 DEF Ack, WorkerAt
  <2> QED BY <1>1, <1>2, <1>4, <1>5, <2>1, <2>2, <2>3, ListsMove
<1>7. CASE Drop(w)
  <2>1. worker'[w].step = "requeue" /\ worker'[w].job = worker[w].job /\ Moves(w)
    BY <1>1, <1>7 DEF Drop, Become, Moves, WorkerSteps
  <2>2. WorkerOK(w)'
    <3>1. Ended' = Ended
      BY DEF Ended
    <3> QED BY <1>3, <2>1, <3>1, WaitableIsJob DEF WorkerOK, WorkerAt
  <2>3. ~WorkerAt(w, "requeue") /\ worker[w].job.call \in Requeued'
    <3>1. ~WorkerAt(w, "requeue") /\ WorkerAt(w, "requeue")'
      BY <1>7, <2>1 DEF Drop, WorkerAt
    <3> QED BY <2>1, <3>1 DEF Requeued
  <2> QED BY <1>1, <1>2, <1>4, <1>5, <2>1, <2>2, <2>3, ListsMove
<1>8. CASE AckFails(w)
  <2>1. worker'[w].step = "drop" /\ worker'[w].job = worker[w].job /\ Moves(w)
    BY <1>1, <1>8 DEF AckFails, Become, Moves, WorkerSteps
  <2>2. WorkerOK(w)'
    <3>1. Ended' = Ended
      BY DEF Ended
    <3> QED BY <1>3, <2>1, <3>1, WaitableIsJob DEF WorkerOK, WorkerAt
  <2>3. ~WorkerAt(w, "requeue") /\ worker[w].job.call \in summary
    BY <1>3, <1>8 DEF AckFails, WorkerAt
  <2> QED BY <1>1, <1>2, <1>4, <1>5, <2>1, <2>2, <2>3, ListsMove
<1> QED BY <1>6, <1>7, <1>8

\* Requeue keeps the invariant.
LEMMA RequeueInv ==
    ASSUME QueueInv, NEW w \in Workers, Requeue(w), UNCHANGED call
    PROVE  QueueInv' /\ Saved \subseteq Saved'
<1>1. /\ waiting \in Seq(Waitable) /\ processing \in Seq(Waitable)
      /\ dead \in Seq(Spent)
      /\ worker \in [Workers -> [step : WorkerSteps, job : Job \cup {NoJob}]]
      /\ summary \subseteq Ended /\ Listed \subseteq Ended
  BY DEF QueueInv, QueueTypeOK, Waitable, Spent
<1> DEFINE job == NextAttempt(worker[w].job)
<1>2. /\ WorkerAt(w, "requeue") /\ Become(w, "poll", NoJob)
      /\ UNCHANGED <<processing, summary, forgotten, crashes>>
      /\ \/ /\ job.attempt < MaxAttempts
            /\ waiting' = Append(waiting, job) /\ dead' = dead
         \/ /\ job.attempt >= MaxAttempts
            /\ dead' = Append(dead, job) /\ waiting' = waiting
  BY DEF Requeue
<1>3. worker[w].job \in Waitable /\ worker[w].job.call \in Ended
  BY <1>2, JobInHand DEF WorkerAt
<1>4. /\ job.call = worker[w].job.call
      /\ job = [call |-> worker[w].job.call, attempt |-> worker[w].job.attempt + 1]
  BY <1>3 DEF NextAttempt, Waitable
<1>5. worker[w].job.call \in Calls /\ worker[w].job.attempt \in 0 .. MaxAttempts - 1
  BY <1>3 DEF Waitable
<1>6. worker'[w].step = "poll" /\ worker'[w].job = NoJob /\ Moves(w)
  BY <1>1, <1>2 DEF Become, Moves, WorkerSteps
<1>7. WorkerOK(w)'
  BY <1>6 DEF WorkerOK, WorkerAt
<1> HIDE DEF job
<1>8. CASE job.attempt < MaxAttempts /\ waiting' = Append(waiting, job) /\ dead' = dead
  <2>1. job \in Waitable
    <3>1. worker[w].job.attempt + 1 \in 0 .. MaxAttempts - 1
      BY <1>4, <1>5, <1>8, QueueAssumption
    <3> QED BY <1>4, <1>5, <3>1 DEF Waitable
  <2>2. /\ Append(waiting, job) \in Seq(Waitable)
        /\ CallsIn(Append(waiting, job)) = CallsIn(waiting) \cup {job.call}
    BY <1>1, <2>1, CallsInAppend
  <2>3. Listed' = Listed \cup {worker[w].job.call}
    <3>1. /\ CallsIn(waiting)' = CallsIn(waiting) \cup {job.call}
          /\ CallsIn(processing)' = CallsIn(processing) /\ CallsIn(dead)' = CallsIn(dead)
      BY <1>2, <1>8, <2>2 DEF CallsIn
    <3> QED BY <1>4, <3>1 DEF Listed
  <2> QED BY <1>1, <1>2, <1>3, <1>6, <1>7, <1>8, <2>2, <2>3, ListsMove
<1>9. CASE job.attempt >= MaxAttempts /\ dead' = Append(dead, job) /\ waiting' = waiting
  <2>1. job \in Spent
    <3>1. worker[w].job.attempt + 1 = MaxAttempts
      BY <1>4, <1>5, <1>9, QueueAssumption
    <3> QED BY <1>4, <1>5, <3>1 DEF Spent
  <2>2. /\ Append(dead, job) \in Seq(Spent)
        /\ CallsIn(Append(dead, job)) = CallsIn(dead) \cup {job.call}
    BY <1>1, <2>1, CallsInAppend
  <2>3. Listed' = Listed \cup {worker[w].job.call}
    <3>1. /\ CallsIn(dead)' = CallsIn(dead) \cup {job.call}
          /\ CallsIn(processing)' = CallsIn(processing)
          /\ CallsIn(waiting)' = CallsIn(waiting)
      BY <1>2, <1>9, <2>2 DEF CallsIn
    <3> QED BY <1>4, <3>1 DEF Listed
  <2> QED BY <1>1, <1>2, <1>3, <1>6, <1>7, <1>9, <2>2, <2>3, ListsMove
<1> QED BY <1>2, <1>8, <1>9

\* Every step of a worker keeps the invariant of the queue, and no job that was saved is lost.
LEMMA WorkerStepKeeps ==
    ASSUME QueueInv, NEW w \in Workers, WorkerStep(w) \/ CrashWorker(w), UNCHANGED call
    PROVE  QueueInv' /\ Saved \subseteq Saved'
<1>1. CASE Start(w)
  BY <1>1, StartInv
<1>2. CASE Restore(w)
  BY <1>2, RestoreInv
<1>3. CASE Take(w)
  BY <1>3, TakeInv
<1>4. CASE Summarize(w) \/ SummarizeFails(w) \/ AckFails(w)
  BY <1>4, SummarizeInv, AckInv DEF AckFails
<1>5. CASE Ack(w) \/ Drop(w)
  BY <1>5, AckInv
<1>6. CASE Requeue(w)
  BY <1>6, RequeueInv
<1>7. CASE CrashWorker(w)
  BY <1>7, CrashWorkerInv
<1> QED BY <1>1, <1>2, <1>3, <1>4, <1>5, <1>6, <1>7 DEF WorkerStep

-----------------------------------------------------------------------------
(* The handlers.                                                            *)

\* From a terminal state no route leads to another state.
LEMMA TerminalStays ==
    ASSUME NEW a \in States \cap Terminal, NEW b \in States, Routes[a][b] # NoRoute
    PROVE  b = a
<1> DEFINE route == Routes[a][b]
<1>1. route \in Walks /\ Head(route) = a /\ Last(route) = b
  BY RoutesAreShortest
<1>2. /\ route \in Seq(States) /\ Len(route) \in Nat \ {0}
      /\ \A i \in 1 .. Len(route) - 1 : route[i] \notin Terminal
  BY <1>1, WalksAre
<1> HIDE DEF route
<1>3. route[1] = a /\ route[Len(route)] = b
  BY <1>1, <1>2, EmptySeq DEF Last
<1>4. 1 \notin 1 .. Len(route) - 1
  BY <1>2, <1>3
<1>5. Len(route) = 1
  <2>1. \A k \in Nat \ {0} : 1 \notin 1 .. k - 1 => k = 1
    OBVIOUS
  <2> QED BY <1>2, <1>4, <2>1
<1> QED BY <1>3, <1>5

\* What AnswersAreTrue says of one request.
TrueAnswer(r) ==
    HandlerAt(r, "done") =>
        LET c == CallOf(r) target == handler[r].target IN
        /\ handler[r].answer = "accepted" => Routes[target][call[c].status] # NoRoute
        /\ handler[r].answer = "ignored" => Routes[call[c].status][target] = NoRoute
        /\ handler[r].answer = "created" =>
              call[c].status = "completed" /\ call[c].ended

\* What TrailIsTheStory says of one call.
StoryOf(c) ==
    /\ \A i \in DOMAIN trail[c] :
          /\ TellsShortest(trail[c][i])
          /\ trail[c][i].from =
                IF i = 1 THEN "queued" ELSE trail[c][i - 1].to
    /\ call[c] = NoCall => trail[c] = <<>>
    /\ call[c] # NoCall =>
          /\ call[c].status =
                IF trail[c] = <<>> THEN "queued" ELSE Last(trail[c]).to
          /\ call[c].ended = (call[c].status \in Terminal)
          /\ call[c].started =
                \E i \in DOMAIN trail[c] :
                    "active" \in Range(trail[c][i].inferred) \cup {trail[c][i].to}

\* What HandlersApart says of one request.
ApartFrom(r) ==
    \A q \in Requests \ {r} :
        /\ handler[r].step \in {"insert", "advance", "enqueue"}
              /\ handler[q].step \in {"insert", "advance", "enqueue"}
              => ~OfCarrier(r) \/ ~OfCarrier(q)
        /\ handler[r].step \in {"advance", "enqueue"}
              /\ handler[q].step \in {"advance", "enqueue"}
              => CallOf(r) # CallOf(q)

\* A row stays, and moves only along a route.
RowMoves(c) ==
    call[c] # NoCall =>
        /\ call'[c] # NoCall
        /\ Routes[call[c].status][call'[c].status] # NoRoute
        /\ call[c].ended => call'[c].ended

\* The handler of request r alone moves.
Serves(r) ==
    /\ handler' \in [Requests -> Handler \cup {Idle}]
    /\ \A q \in Requests \ {r} : handler'[q] = handler[q]

\* The invariant, part by part.
LEMMA CallInvParts ==
    CallInv <=>
        /\ CallTypeOK /\ summary \cup Listed \subseteq Ended
        /\ \A w \in Workers : WorkerOK(w)
        /\ \A c \in Calls : StoryOf(c)
        /\ \A r \in Requests : HandlerOK(r) /\ TrueAnswer(r) /\ ApartFrom(r)
        /\ NoneIsLost
<1>1. {"insert", "advance", "enqueue"} \ {"insert"} = {"advance", "enqueue"}
  OBVIOUS
<1>2. HandlersApart <=> \A r \in Requests : ApartFrom(r)
  BY <1>1 DEF HandlersApart, ApartFrom
<1>3. AnswersAreTrue <=> \A r \in Requests : TrueAnswer(r)
  BY DEF AnswersAreTrue, TrueAnswer
<1>4. TrailIsTheStory <=> \A c \in Calls : StoryOf(c)
  BY DEF TrailIsTheStory, StoryOf
<1> QED BY <1>2, <1>3, <1>4 DEF CallInv

\* A row that is left alone has moved along a route, the empty one.
LEMMA RowStays ==
    ASSUME CallTypeOK, NEW c \in Calls, call'[c] = call[c]
    PROVE  RowMoves(c)
<1>1. call[c] # NoCall => call[c].status \in States
  BY DEF CallTypeOK, Row
<1> QED BY <1>1, RoutesCompose DEF RowMoves

\* A request whose handler stays, while rows move.
LEMMA OtherHandler ==
    ASSUME CallInv, NEW q \in Requests, handler'[q] = handler[q],
           call' \in [Calls -> Row \cup {NoCall}], \A c \in Calls : RowMoves(c),
           handler[q].step \in {"advance", "enqueue"} =>
               call'[CallOf(q)] = call[CallOf(q)]
    PROVE  HandlerOK(q)' /\ TrueAnswer(q)'
<1>1. HandlerOK(q) /\ TrueAnswer(q) /\ call \in [Calls -> Row \cup {NoCall}]
  BY CallInvParts DEF CallTypeOK
<1>2. CASE HandlerAt(q, "idle")
  BY <1>2 DEF HandlerOK, TrueAnswer, HandlerAt
<1>3. CASE ~HandlerAt(q, "idle")
  <2> DEFINE c == CallOf(q)
             target == handler[q].target
  <2>1. handler[q] \in Handler
    BY <1>1, <1>3 DEF HandlerOK
  <2>2. c \in Calls /\ target \in States
    BY <2>1 DEF CallOf, Handler
  <2>3. CallOf(q)' = c /\ OfCarrier(q)' = OfCarrier(q) /\ handler'[q].target = target
    BY DEF CallOf, OfCarrier
  <2>4. \A step : HandlerAt(q, step)' = HandlerAt(q, step)
    BY DEF HandlerAt
  <2>5. HandlerAt(q, "advance") \/ HandlerAt(q, "enqueue") => call'[c] = call[c]
    BY DEF HandlerAt
  <2>6. RowMoves(c)
    BY <2>2
  <2>7. HandlerOK(q)'
    BY <1>1, <2>3, <2>4, <2>5, <2>6 DEF HandlerOK, RowMoves, CallOf
  <2>8. TrueAnswer(q)'
    <3> DEFINE answer == handler[q].answer
    <3>1. ASSUME HandlerAt(q, "done")
          PROVE  /\ answer = "accepted" => Routes[target][call'[c].status] # NoRoute
                 /\ answer = "ignored" => Routes[call'[c].status][target] = NoRoute
                 /\ answer = "created" =>
                       call'[c].status = "completed" /\ call'[c].ended
      <4>1. CASE answer \notin {"accepted", "ignored", "created"}
        BY <4>1
      <4>2. CASE answer \in {"accepted", "ignored", "created"}
        <5>1. call[c] # NoCall
          BY <1>1, <3>1, <4>2 DEF HandlerOK
        <5>2. /\ call'[c] # NoCall /\ Routes[call[c].status][call'[c].status] # NoRoute
              /\ call[c].ended => call'[c].ended
          BY <2>6, <5>1 DEF RowMoves
        <5>3. call[c].status \in States /\ call'[c].status \in States
          BY <1>1, <2>2, <5>1, <5>2 DEF Row
        <5>4. answer = "accepted" => Routes[target][call'[c].status] # NoRoute
          <6>1. answer = "accepted" => Routes[target][call[c].status] # NoRoute
            BY <1>1, <3>1 DEF TrueAnswer
          <6> QED BY <2>2, <5>2, <5>3, <6>1, RoutesCompose
        <5>5. answer = "ignored" => Routes[call'[c].status][target] = NoRoute
          <6>1. answer = "ignored" => Routes[call[c].status][target] = NoRoute
            BY <1>1, <3>1 DEF TrueAnswer
          <6> QED BY <2>2, <5>2, <5>3, <6>1, RoutesCompose
        <5>6. answer = "created" => call'[c].status = "completed" /\ call'[c].ended
          <6> HAVE answer = "created"
          <6>1. call[c].status = "completed" /\ call[c].ended
            BY <1>1, <3>1 DEF TrueAnswer
          <6>2. call'[c].status = call[c].status
            BY <5>2, <5>3, <6>1, TerminalStays DEF Terminal
          <6> QED BY <5>2, <6>1, <6>2
        <5> QED BY <5>4, <5>5, <5>6
      <4> QED BY <4>1, <4>2
    <3>2. handler'[q].answer = answer
      OBVIOUS
    <3> QED BY <2>3, <2>4, <3>1, <3>2 DEF TrueAnswer
  <2> QED BY <2>7, <2>8
<1> QED BY <1>2, <1>3

\* A call that is due when a handler has moved was so before, or the handler
\* sees to it; what it saw to is saved, or it still sees to it.
LEMMA NoneIsLostStays ==
    ASSUME NoneIsLost, NEW r \in Requests,
           \A q \in Requests \ {r} : handler'[q] = handler[q],
           Saved \subseteq Saved', Owed(r) \subseteq Owed(r)' \cup Saved',
           \A c \in Calls : Due(c)' => Due(c) \/ c \in Owed(r)'
    PROVE  NoneIsLost'
<1> SUFFICES ASSUME NEW c \in Calls, Due(c)' PROVE c \in Saved' \/ Running(c)'
  BY DEF NoneIsLost
<1>1. CASE c \in Owed(r)'
  <2>1. Owed(r)' = {c}
    BY <1>1 DEF Owed
  <2> QED BY <2>1 DEF Running
<1>2. CASE c \notin Owed(r)'
  <2>1. c \in Saved \/ Running(c)
    BY <1>2 DEF NoneIsLost
  <2>2. CASE c \in Saved
    BY <2>2
  <2>3. CASE Running(c)
    <3>1. PICK q \in Requests : Owed(q) = {c}
      BY <2>3 DEF Running
    <3>2. CASE q = r
      BY <1>2, <3>1, <3>2
    <3>3. CASE q # r
      <4>1. handler'[q] = handler[q]
        BY <3>3
      <4>2. Owed(q)' = Owed(q)
        BY <4>1 DEF Owed, HandlerAt, OfCarrier, CallOf
      <4> QED BY <3>1, <4>2 DEF Running
    <3> QED BY <3>2, <3>3
  <2> QED BY <2>1, <2>2, <2>3
<1> QED BY <1>1, <1>2

\* Handlers that were apart stay so if one moves and stays apart from the rest.
LEMMA ApartStays ==
    ASSUME \A q \in Requests : ApartFrom(q), NEW r \in Requests,
           \A q \in Requests \ {r} : handler'[q] = handler[q],
           ApartFrom(r)'
    PROVE  \A q \in Requests : ApartFrom(q)'
<1> SUFFICES ASSUME NEW q \in Requests, q # r PROVE ApartFrom(q)'
  OBVIOUS
<1>1. ASSUME NEW p \in Requests \ {q}
      PROVE  /\ handler'[q].step \in {"insert", "advance", "enqueue"}
                   /\ handler'[p].step \in {"insert", "advance", "enqueue"}
                   => handler'[q].call \notin CarrierCalls
                      \/ handler'[p].call \notin CarrierCalls
             /\ handler'[q].step \in {"advance", "enqueue"}
                   /\ handler'[p].step \in {"advance", "enqueue"}
                   => handler'[q].call # handler'[p].call
  <2>1. CASE p = r
    BY <2>1 DEF ApartFrom, OfCarrier, CallOf
  <2>2. CASE p # r
    <3>1. handler'[q] = handler[q] /\ handler'[p] = handler[p]
      BY <2>2
    <3> QED BY <3>1 DEF ApartFrom, OfCarrier, CallOf
  <2> QED BY <2>1, <2>2
<1> QED BY <1>1 DEF ApartFrom, OfCarrier, CallOf

\* One request moves: what is left to show of it.
LEMMA ServeInv ==
    ASSUME CallInv, NEW r \in Requests, Serves(r),
           call' \in [Calls -> Row \cup {NoCall}], \A c \in Calls : RowMoves(c),
           \A q \in Requests \ {r} :
               handler[q].step \in {"advance", "enqueue"} =>
                   call'[CallOf(q)] = call[CallOf(q)],
           HandlerOK(r)', TrueAnswer(r)', ApartFrom(r)',
           trail' \in [Calls -> Seq(Event)], \A c \in Calls : StoryOf(c)',
           arrived' \in 0 .. MaxRequests,
           QueueTypeOK', (summary \cup Listed)' \subseteq Ended',
           worker' = worker, summary \subseteq summary',
           Saved \subseteq Saved', Owed(r) \subseteq Owed(r)' \cup Saved',
           \A c \in Calls : Due(c)' => Due(c) \/ c \in Owed(r)'
    PROVE  CallInv'
<1>1. /\ CallTypeOK /\ NoneIsLost /\ \A w \in Workers : WorkerOK(w)
      /\ \A q \in Requests : HandlerOK(q) /\ TrueAnswer(q) /\ ApartFrom(q)
  BY CallInvParts
<1>2. CallTypeOK'
  BY DEF CallTypeOK, Serves
<1>3. \A q \in Requests : HandlerOK(q)' /\ TrueAnswer(q)'
  <2> TAKE q \in Requests
  <2>1. CASE q = r
    BY <2>1
  <2>2. CASE q # r
    <3>1. handler'[q] = handler[q]
      BY <2>2 DEF Serves
    <3> QED BY <2>2, <3>1, OtherHandler
  <2> QED BY <2>1, <2>2
<1>4. \A q \in Requests : ApartFrom(q)'
  BY <1>1, ApartStays DEF Serves
<1>5. NoneIsLost'
  BY <1>1, NoneIsLostStays DEF Serves
<1>6. \A w \in Workers : WorkerOK(w)'
  <2> TAKE w \in Workers
  <2>1. Ended \subseteq Ended'
    BY DEF Ended, RowMoves
  <2>2. WorkerOK(w) /\ worker'[w] = worker[w]
    BY <1>1
  <2> QED BY <2>1, <2>2 DEF WorkerOK, WorkerAt
<1>7. TrailIsTheStory' /\ AnswersAreTrue'
  BY <1>3 DEF TrailIsTheStory, StoryOf, AnswersAreTrue, TrueAnswer
<1>8. HandlersApart'
  <2>1. {"insert", "advance", "enqueue"} \ {"insert"} = {"advance", "enqueue"}
    OBVIOUS
  <2> QED BY <1>4, <2>1 DEF HandlersApart, ApartFrom
<1> QED BY <1>2, <1>3, <1>5, <1>6, <1>7, <1>8 DEF CallInv

\* The parts of the state that a step leaves alone.
LEMMA QueueStays ==
    ASSUME CallInv, UNCHANGED queueVars
    PROVE  /\ QueueTypeOK' /\ Listed' = Listed /\ Saved' = Saved
           /\ summary' = summary /\ worker' = worker
<1>1. QueueTypeOK
  BY DEF CallInv, CallTypeOK
<1> QED BY <1>1 DEF QueueTypeOK, queueVars, lists, Listed, CallsIn, Saved, Requeued, WorkerAt

\* What holds of the rows and the trail when no step writes them.
LEMMA RowsStay ==
    ASSUME CallInv, UNCHANGED <<call, trail>>
    PROVE  /\ call' \in [Calls -> Row \cup {NoCall}] /\ trail' \in [Calls -> Seq(Event)]
           /\ \A c \in Calls : RowMoves(c) /\ StoryOf(c)' /\ Due(c)' = Due(c)
           /\ Ended' = Ended
<1>1. CallTypeOK /\ \A c \in Calls : StoryOf(c)
  BY CallInvParts
<1>2. \A c \in Calls : RowMoves(c)
  BY <1>1, RowStays
<1>3. \A c \in Calls : StoryOf(c)'
  BY <1>1 DEF StoryOf
<1>4. \A c \in Calls : Due(c)' = Due(c)
  BY DEF Due
<1> QED BY <1>1, <1>2, <1>3, <1>4 DEF CallTypeOK, Ended

\* A request that is not idle.
LEMMA AtWork ==
    ASSUME CallInv, NEW r \in Requests, ~HandlerAt(r, "idle")
    PROVE  /\ handler[r] \in Handler /\ CallOf(r) \in Calls
           /\ HandlerOK(r) /\ ApartFrom(r)
           /\ handler \in [Requests -> Handler \cup {Idle}]
<1>1. HandlerOK(r) /\ ApartFrom(r) /\ CallTypeOK
  BY CallInvParts
<1>2. handler[r] \in Handler
  BY <1>1 DEF HandlerOK
<1> QED BY <1>1, <1>2 DEF Handler, CallOf, CallTypeOK

\* What a handler is after it awaits its next statement.
LEMMA Awaits ==
    ASSUME NEW r \in Requests, handler \in [Requests -> Handler \cup {Idle}],
           handler[r] \in Handler, NEW step \in HandlerSteps, NEW seen \in States,
           Await(r, step, seen)
    PROVE  /\ Serves(r) /\ handler'[r] \in Handler
           /\ handler'[r].step = step /\ handler'[r].seen = seen
           /\ handler'[r].call = handler[r].call
           /\ handler'[r].target = handler[r].target
           /\ handler'[r].answer = handler[r].answer
BY DEF Await, Handle, Serves, Handler

\* What a handler is after it has answered.
LEMMA Responds ==
    ASSUME NEW r \in Requests, handler \in [Requests -> Handler \cup {Idle}],
           handler[r] \in Handler, NEW answer \in Answers, Respond(r, answer)
    PROVE  /\ Serves(r) /\ handler'[r] \in Handler
           /\ handler'[r].step = "done" /\ handler'[r].seen = handler[r].seen
           /\ handler'[r].call = handler[r].call
           /\ handler'[r].target = handler[r].target
           /\ handler'[r].answer = answer
           /\ ApartFrom(r)' /\ Owed(r)' = {}
<1>1. /\ Serves(r) /\ handler'[r] \in Handler
      /\ handler'[r].step = "done" /\ handler'[r].seen = handler[r].seen
      /\ handler'[r].call = handler[r].call
      /\ handler'[r].target = handler[r].target
      /\ handler'[r].answer = answer
  BY DEF Respond, Handle, Serves, Handler, HandlerSteps
<1>2. ApartFrom(r)' /\ Owed(r)' = {}
  BY <1>1 DEF ApartFrom, Owed, HandlerAt
<1> QED BY <1>1, <1>2

-----------------------------------------------------------------------------
(* The steps of a request.                                                  *)

\* Arrive keeps the invariant.
LEMMA ArriveInv ==
    ASSUME CallInv, NEW r \in Requests, NEW c \in Calls, NEW s \in States,
           c \notin CarrierCalls => s = "active", Arrive(r, c, s)
    PROVE  CallInv'
<1> DEFINE fields == [step |-> "find", call |-> c, target |-> s, seen |-> "queued",
                      answer |-> "none"]
<1>1. /\ CallTypeOK /\ summary \cup Listed \subseteq Ended
      /\ handler \in [Requests -> Handler \cup {Idle}] /\ arrived \in 0 .. MaxRequests
  BY DEF CallInv, CallTypeOK
<1>2. fields \in Handler /\ fields.step = "find" /\ fields.call = c
      /\ fields.target = s /\ fields.seen = "queued"
  BY StatesAre DEF Handler, HandlerSteps, Answers
<1>3. handler' = [handler EXCEPT ![r] = fields]
  BY DEF Arrive, Handle
<1> HIDE DEF fields
<1>4. Serves(r) /\ handler'[r] = fields
  BY <1>1, <1>2, <1>3 DEF Serves
<1>5. HandlerOK(r)' /\ TrueAnswer(r)' /\ ApartFrom(r)' /\ Owed(r)' = {}
  BY <1>2, <1>4 DEF HandlerOK, TrueAnswer, ApartFrom, Owed, HandlerAt, CallOf, OfCarrier
<1>6. Owed(r) = {}
  BY DEF Arrive, HandlerAt, Owed
<1>7. /\ QueueTypeOK' /\ Listed' = Listed /\ Saved' = Saved
      /\ summary' = summary /\ worker' = worker
  BY QueueStays DEF Arrive
<1>8. /\ call' \in [Calls -> Row \cup {NoCall}] /\ trail' \in [Calls -> Seq(Event)]
      /\ \A k \in Calls : RowMoves(k) /\ StoryOf(k)' /\ Due(k)' = Due(k)
      /\ Ended' = Ended
  BY RowsStay DEF Arrive
<1>9. call' = call /\ arrived' \in 0 .. MaxRequests
  BY <1>1, CallAssumption DEF Arrive
<1> QED BY <1>1, <1>4, <1>5, <1>6, <1>7, <1>8, <1>9, ServeInv

\* Find keeps the invariant.
LEMMA FindInv ==
    ASSUME CallInv, NEW r \in Requests, Find(r)
    PROVE  CallInv'
<1> DEFINE row == call[CallOf(r)]
<1>1. /\ CallTypeOK /\ summary \cup Listed \subseteq Ended /\ arrived \in 0 .. MaxRequests
  BY DEF CallInv, CallTypeOK
<1>2. /\ HandlerAt(r, "find") /\ ~HandlerAt(r, "idle")
      /\ OfCarrier(r) => HasEventLoop(r)
      /\ UNCHANGED <<queueVars, call, trail, arrived>>
  BY DEF Find, HandlerAt
<1>3. /\ handler[r] \in Handler /\ CallOf(r) \in Calls
      /\ HandlerOK(r) /\ ApartFrom(r)
      /\ handler \in [Requests -> Handler \cup {Idle}]
  BY <1>2, AtWork
<1>4. /\ QueueTypeOK' /\ Listed' = Listed /\ Saved' = Saved
      /\ summary' = summary /\ worker' = worker
  BY <1>2, QueueStays
<1>5. /\ call' \in [Calls -> Row \cup {NoCall}] /\ trail' \in [Calls -> Seq(Event)]
      /\ \A k \in Calls : RowMoves(k) /\ StoryOf(k)' /\ Due(k)' = Due(k)
      /\ Ended' = Ended
  BY <1>2, RowsStay
<1>6. Owed(r) = {}
  BY <1>2 DEF HandlerAt, Owed
<1>7. SUFFICES Serves(r) /\ HandlerOK(r)' /\ TrueAnswer(r)' /\ ApartFrom(r)'
  BY <1>1, <1>2, <1>4, <1>5, <1>6, ServeInv
\* The handlers of the carrier leave one another alone.
<1>8. ASSUME OfCarrier(r), NEW q \in Requests \ {r},
             handler[q].step \in {"insert", "advance", "enqueue"}
      PROVE  ~OfCarrier(q) /\ CallOf(q) # CallOf(r)
  <2>1. ~OfCarrier(q)
    BY <1>2, <1>8 DEF HasEventLoop
  <2> QED BY <1>8, <2>1 DEF OfCarrier
<1>9. CASE row = NoCall /\ Await(r, "insert", "queued")
  <2>1. /\ Serves(r) /\ handler'[r] \in Handler
        /\ handler'[r].step = "insert" /\ handler'[r].seen = "queued"
        /\ handler'[r].call = handler[r].call
        /\ handler'[r].target = handler[r].target
    <3>1. "insert" \in HandlerSteps /\ "queued" \in States
      BY StatesAre DEF HandlerSteps
    <3> QED BY <1>3, <1>9, <3>1, Awaits
  <2>2. HandlerOK(r)' /\ TrueAnswer(r)'
    BY <1>2, <1>3, <2>1 DEF HandlerOK, TrueAnswer, HandlerAt, CallOf, OfCarrier
  <2>3. ApartFrom(r)'
    <3>1. ASSUME NEW q \in Requests \ {r}
          PROVE  /\ handler'[q] = handler[q]
                 /\ handler'[q].step \in {"insert", "advance", "enqueue"}
                       => handler'[r].call \notin CarrierCalls
                          \/ handler'[q].call \notin CarrierCalls
      BY <1>8, <2>1 DEF Serves, OfCarrier, CallOf
    <3> QED BY <2>1, <3>1 DEF ApartFrom, OfCarrier, CallOf
  <2> QED BY <2>1, <2>2, <2>3
<1>10. CASE row # NoCall /\ OfCarrier(r) /\ Await(r, "advance", row.status)
  <2>1. PICK seen : seen = row.status
    OBVIOUS
  <2>2. seen \in States
    BY <1>1, <1>3, <1>10, <2>1 DEF CallTypeOK, Row
  <2>3. /\ Serves(r) /\ handler'[r] \in Handler
        /\ handler'[r].step = "advance" /\ handler'[r].seen = seen
        /\ handler'[r].call = handler[r].call
        /\ handler'[r].target = handler[r].target
    <3>1. "advance" \in HandlerSteps /\ Await(r, "advance", seen)
      BY <1>10, <2>1 DEF HandlerSteps
    <3> QED BY <1>3, <2>2, <3>1, Awaits
  <2>4. HandlerOK(r)' /\ TrueAnswer(r)'
    BY <1>2, <1>10, <2>1, <2>3 DEF HandlerOK, TrueAnswer, HandlerAt, CallOf, OfCarrier
  <2>5. ApartFrom(r)'
    <3>1. ASSUME NEW q \in Requests \ {r}
          PROVE  /\ handler'[q] = handler[q]
                 /\ handler'[q].step \in {"insert", "advance", "enqueue"}
                       => handler'[q].call \notin CarrierCalls
                          /\ handler'[q].call # handler'[r].call
      BY <1>8, <1>10, <2>3 DEF Serves, OfCarrier, CallOf
    <3> QED BY <2>3, <3>1 DEF ApartFrom, OfCarrier, CallOf
  <2> QED BY <2>3, <2>4, <2>5
<1>11. CASE row # NoCall /\ ~OfCarrier(r) /\ Respond(r, "replayed")
  <2>1. /\ Serves(r) /\ handler'[r] \in Handler
        /\ handler'[r].step = "done" /\ handler'[r].answer = "replayed"
        /\ ApartFrom(r)'
    <3>1. "replayed" \in Answers
      BY DEF Answers
    <3> QED BY <1>3, <1>11, <3>1, Responds
  <2> QED BY <2>1 DEF HandlerOK, TrueAnswer, HandlerAt
<1> QED BY <1>9, <1>10, <1>11 DEF Find

\* One row moves, and its trail with it.
LEMMA RowChanges ==
    ASSUME CallInv, NEW c \in Calls, RowMoves(c), StoryOf(c)', call'[c] \in Row,
           call' \in [Calls -> Row \cup {NoCall}],
           \A k \in Calls \ {c} : call'[k] = call[k] /\ trail'[k] = trail[k]
    PROVE  /\ \A k \in Calls : RowMoves(k) /\ StoryOf(k)'
           /\ \A k \in Calls \ {c} : Due(k)' = Due(k)
           /\ Ended \subseteq Ended'
<1>1. CallTypeOK /\ \A k \in Calls : StoryOf(k)
  BY CallInvParts
<1>2. \A k \in Calls : RowMoves(k)
  BY <1>1, RowStays
<1>3. ASSUME NEW k \in Calls \ {c} PROVE StoryOf(k)' /\ Due(k)' = Due(k)
  <2>1. call'[k] = call[k] /\ trail'[k] = trail[k] /\ StoryOf(k)
    BY <1>1
  <2>2. StoryOf(k)'
    BY <2>1 DEF StoryOf
  <2>3. Due(k)' = Due(k)
    BY <2>1 DEF Due
  <2> QED BY <2>2, <2>3
<1> QED BY <1>2, <1>3 DEF Ended, RowMoves

\* Insert keeps the invariant.
LEMMA InsertInv ==
    ASSUME CallInv, NEW r \in Requests, Insert(r)
    PROVE  CallInv'
<1>1. /\ CallTypeOK /\ summary \cup Listed \subseteq Ended /\ arrived \in 0 .. MaxRequests
      /\ call \in [Calls -> Row \cup {NoCall}] /\ trail \in [Calls -> Seq(Event)]
  BY DEF CallInv, CallTypeOK
<1>2. /\ HandlerAt(r, "insert") /\ ~HandlerAt(r, "idle")
      /\ UNCHANGED <<queueVars, trail, arrived>>
  BY DEF Insert, HandlerAt
<1>10. PICK c \in Calls : c = CallOf(r)
  BY <1>2, AtWork
<1>3. /\ handler[r] \in Handler /\ c \in Calls /\ c = CallOf(r)
      /\ HandlerOK(r) /\ ApartFrom(r)
      /\ handler \in [Requests -> Handler \cup {Idle}]
  BY <1>2, <1>10, AtWork
<1>4. /\ QueueTypeOK' /\ Listed' = Listed /\ Saved' = Saved
      /\ summary' = summary /\ worker' = worker
  BY <1>2, QueueStays
<1>5. Owed(r) = {}
  BY <1>2 DEF HandlerAt, Owed
<1>6. \A q \in Requests : handler[q].step \in {"advance", "enqueue"} =>
          call[CallOf(q)] # NoCall /\ CallOf(q) \in Calls
  <2> TAKE q \in Requests
  <2> HAVE handler[q].step \in {"advance", "enqueue"}
  <2>1. ~HandlerAt(q, "idle") /\ (HandlerAt(q, "advance") \/ HandlerAt(q, "enqueue"))
    BY DEF HandlerAt
  <2> QED BY <2>1, AtWork DEF HandlerOK
\* The handlers of the carrier leave one another alone.
<1>7. ASSUME OfCarrier(r), NEW q \in Requests \ {r},
             handler[q].step \in {"insert", "advance", "enqueue"}
      PROVE  ~OfCarrier(q) /\ CallOf(q) # c
  <2>1. ~OfCarrier(q)
    BY <1>2, <1>3, <1>7 DEF ApartFrom, HandlerAt
  <2> QED BY <1>3, <1>7, <2>1 DEF OfCarrier
<1>8. ASSUME call[c] = NoCall, call' = [call EXCEPT ![c] = NewCall],
             Await(r, "advance", "queued")
      PROVE  CallInv'
  <2>1. /\ Serves(r) /\ handler'[r] \in Handler
        /\ handler'[r].step = "advance" /\ handler'[r].seen = "queued"
        /\ handler'[r].call = c /\ handler'[r].target = handler[r].target
    <3>1. "advance" \in HandlerSteps /\ "queued" \in States
      BY StatesAre DEF HandlerSteps
    <3> QED BY <1>3, <1>8, <3>1, Awaits DEF CallOf
  <2>2. /\ NewCall \in Row /\ NewCall # NoCall /\ NewCall.status = "queued"
        /\ NewCall.ended = FALSE /\ NewCall.started = FALSE
    <3>1. NewCall.status = "queued" /\ NewCall.ended = FALSE /\ NewCall.started = FALSE
      BY DEF NewCall
    <3>2. NewCall \in Row
      BY StatesAre DEF NewCall, Row
    <3> QED BY <3>1, <3>2, NoCallAssumption
  <2>3. /\ call' \in [Calls -> Row \cup {NoCall}] /\ call'[c] = NewCall
        /\ \A k \in Calls \ {c} : call'[k] = call[k] /\ trail'[k] = trail[k]
    BY <1>1, <1>2, <1>3, <1>8, <2>2
  <2>4. RowMoves(c)
    BY <1>8 DEF RowMoves
  <2>5. StoryOf(c)'
    <3>1. trail[c] = <<>>
      BY <1>3, <1>8, CallInvParts DEF StoryOf
    <3>2. trail'[c] = <<>> /\ DOMAIN trail'[c] = {}
      BY <1>2, <3>1
    <3>3. "queued" \notin Terminal
      BY DEF Terminal
    <3>4. /\ call'[c] # NoCall /\ call'[c].status = "queued"
          /\ call'[c].ended = FALSE /\ call'[c].started = FALSE
      BY <2>2, <2>3
    <3>5. call'[c].started =
              \E i \in DOMAIN trail'[c] :
                  "active" \in Range(trail'[c][i].inferred) \cup {trail'[c][i].to}
      BY <3>2, <3>4
    <3>6. call'[c].ended = (call'[c].status \in Terminal)
      <4>1. (call'[c].status \in Terminal) = FALSE
        BY <3>3, <3>4
      <4> QED BY <3>4, <4>1
    <3> QED BY <3>2, <3>4, <3>5, <3>6 DEF StoryOf
  <2>6. /\ \A k \in Calls : RowMoves(k) /\ StoryOf(k)'
        /\ \A k \in Calls \ {c} : Due(k)' = Due(k)
        /\ Ended \subseteq Ended'
    BY <1>3, <2>2, <2>3, <2>4, <2>5, RowChanges
  <2>7. Due(c)' => c \in Owed(r)'
    BY <1>3, <2>1, <2>2, <2>3 DEF Due, Owed, HandlerAt, OfCarrier, CallOf
  <2>8. \A q \in Requests \ {r} : handler[q].step \in {"advance", "enqueue"} =>
            CallOf(q) # c /\ call'[CallOf(q)] = call[CallOf(q)]
    BY <1>6, <1>8, <2>3
  <2>9. HandlerOK(r)' /\ TrueAnswer(r)'
    BY <1>2, <1>3, <2>1, <2>2, <2>3
       DEF HandlerOK, TrueAnswer, HandlerAt, CallOf, OfCarrier
  <2>10. ApartFrom(r)'
    <3>1. ASSUME NEW q \in Requests \ {r}
          PROVE  /\ handler'[q] = handler[q]
                 /\ handler'[q].step \in {"insert", "advance", "enqueue"}
                       => handler'[r].call \notin CarrierCalls
                          \/ handler'[q].call \notin CarrierCalls
                 /\ handler'[q].step \in {"advance", "enqueue"}
                       => handler'[q].call # handler'[r].call
      <4>1. handler'[q] = handler[q]
        BY <2>1 DEF Serves
      <4> QED BY <1>3, <1>7, <2>1, <2>8, <4>1 DEF OfCarrier, CallOf
    <3> QED BY <3>1 DEF ApartFrom, OfCarrier, CallOf
  <2>11. \A k \in Calls : Due(k)' => Due(k) \/ k \in Owed(r)'
    <3> TAKE k \in Calls
    <3>1. CASE k = c
      BY <2>7, <3>1
    <3>2. CASE k # c
      BY <2>6, <3>2
    <3> QED BY <3>1, <3>2
  <2>12. (summary \cup Listed)' \subseteq Ended'
    BY <1>1, <1>4, <2>6
  <2>13. trail' \in [Calls -> Seq(Event)] /\ arrived' \in 0 .. MaxRequests
    BY <1>1, <1>2
  <2> QED BY <1>4, <1>5, <2>1, <2>3, <2>6, <2>8, <2>9, <2>10, <2>11, <2>12,
             <2>13, ServeInv
<1>9. ASSUME call[c] # NoCall, UNCHANGED call,
             IF OfCarrier(r) THEN Await(r, "advance", call[c].status)
                             ELSE Respond(r, "replayed")
      PROVE  CallInv'
  <2>1. /\ call' \in [Calls -> Row \cup {NoCall}] /\ trail' \in [Calls -> Seq(Event)]
        /\ \A k \in Calls : RowMoves(k) /\ StoryOf(k)' /\ Due(k)' = Due(k)
        /\ Ended' = Ended
    BY <1>2, <1>9, RowsStay
  <2>2. SUFFICES Serves(r) /\ HandlerOK(r)' /\ TrueAnswer(r)' /\ ApartFrom(r)'
    BY <1>1, <1>2, <1>4, <1>5, <1>9, <2>1, ServeInv
  <2>3. CASE OfCarrier(r)
    <3>1. PICK seen : seen = call[c].status
      OBVIOUS
    <3>2. seen \in States
      BY <1>1, <1>3, <1>9, <3>1 DEF Row
    <3>3. /\ Serves(r) /\ handler'[r] \in Handler
          /\ handler'[r].step = "advance" /\ handler'[r].seen = seen
          /\ handler'[r].call = c
      <4>1. "advance" \in HandlerSteps /\ Await(r, "advance", seen)
        BY <1>9, <2>3, <3>1 DEF HandlerSteps
      <4> QED BY <1>3, <3>2, <4>1, Awaits DEF CallOf
    <3>4. HandlerOK(r)' /\ TrueAnswer(r)'
      BY <1>3, <1>9, <2>3, <3>1, <3>3 DEF HandlerOK, TrueAnswer, HandlerAt, CallOf, OfCarrier
    <3>5. ApartFrom(r)'
      <4>1. ASSUME NEW q \in Requests \ {r}
            PROVE  /\ handler'[q] = handler[q]
                   /\ handler'[q].step \in {"insert", "advance", "enqueue"}
                         => handler'[q].call \notin CarrierCalls
                            /\ handler'[q].call # handler'[r].call
        BY <1>3, <1>7, <2>3, <3>3 DEF Serves, OfCarrier, CallOf
      <4> QED BY <3>3, <4>1 DEF ApartFrom, OfCarrier, CallOf
    <3> QED BY <3>3, <3>4, <3>5
  <2>4. CASE ~OfCarrier(r)
    <3>1. /\ Serves(r) /\ handler'[r] \in Handler
          /\ handler'[r].step = "done" /\ handler'[r].answer = "replayed"
          /\ ApartFrom(r)'
      <4>1. "replayed" \in Answers /\ Respond(r, "replayed")
        BY <1>9, <2>4 DEF Answers
      <4> QED BY <1>3, <4>1, Responds
    <3> QED BY <3>1 DEF HandlerOK, TrueAnswer, HandlerAt
  <2> QED BY <2>3, <2>4
<1> QED BY <1>10, <1>8, <1>9 DEF Insert

\* The end of advance_call: the row is in the state that was to be reached.
LEMMA ContinueServes ==
    ASSUME CallInv, NEW r \in Requests, HandlerAt(r, "advance"), Continue(r),
           call' \in [Calls -> Row \cup {NoCall}],
           call'[CallOf(r)] # NoCall, call'[CallOf(r)].status = handler[r].target
    PROVE  /\ Serves(r) /\ HandlerOK(r)' /\ TrueAnswer(r)' /\ ApartFrom(r)'
           /\ Owed(r) \subseteq Owed(r)'
           /\ handler[r].target \in Terminal => Owed(r)' = {CallOf(r)}
<1> DEFINE target == handler[r].target
<1>1. ~HandlerAt(r, "idle")
  BY DEF HandlerAt
<1>2. /\ handler[r] \in Handler /\ CallOf(r) \in Calls
      /\ HandlerOK(r) /\ ApartFrom(r)
      /\ handler \in [Requests -> Handler \cup {Idle}]
  BY <1>1, AtWork
<1>3. /\ target \in States
      /\ ~OfCarrier(r) => target \in {"active", "completed"}
  BY <1>2 DEF Handler, HandlerOK
\* A handler that has not answered stays apart from the others.
<1>4. ASSUME Serves(r), handler'[r].step \in {"advance", "enqueue"},
             handler'[r].call = handler[r].call
      PROVE  ApartFrom(r)'
  <2>1. ASSUME NEW q \in Requests \ {r}
        PROVE  /\ handler'[q] = handler[q]
               /\ handler'[q].step \in {"insert", "advance", "enqueue"}
                     => handler'[r].call \notin CarrierCalls
                        \/ handler'[q].call \notin CarrierCalls
               /\ handler'[q].step \in {"advance", "enqueue"}
                     => handler'[q].call # handler'[r].call
    <3>1. handler'[q] = handler[q]
      BY <1>4 DEF Serves
    <3>2. handler[r].step = "advance"
      BY DEF HandlerAt
    <3> QED BY <1>2, <1>4, <3>1, <3>2 DEF ApartFrom, OfCarrier, CallOf
  <2> QED BY <2>1 DEF ApartFrom, OfCarrier, CallOf
<1>5. CASE target \in Terminal
  <2>1. PICK t \in States : t = target
    BY <1>3
  <2>2. /\ Serves(r) /\ handler'[r] \in Handler
        /\ handler'[r].step = "enqueue" /\ handler'[r].call = handler[r].call
        /\ handler'[r].target = target
    <3>1. "enqueue" \in HandlerSteps /\ Await(r, "enqueue", t)
      BY <1>5, <2>1 DEF HandlerSteps, Continue
    <3> QED BY <1>2, <3>1, Awaits
  <2>3. ~OfCarrier(r) => target = "completed"
    BY <1>3, <1>5 DEF Terminal
  <2>4. HandlerOK(r)' /\ TrueAnswer(r)'
    BY <1>5, <2>2, <2>3 DEF HandlerOK, TrueAnswer, HandlerAt, CallOf, OfCarrier
  <2>5. Owed(r)' = {CallOf(r)} /\ Owed(r) \subseteq {CallOf(r)}
    BY <2>2 DEF Owed, HandlerAt, CallOf
  <2> QED BY <1>4, <2>2, <2>4, <2>5
<1>6. CASE target \notin Terminal /\ OfCarrier(r)
  <2>1. /\ Serves(r) /\ handler'[r] \in Handler
        /\ handler'[r].step = "done" /\ handler'[r].call = handler[r].call
        /\ handler'[r].target = target /\ handler'[r].answer = "accepted"
        /\ ApartFrom(r)' /\ Owed(r)' = {}
    <3>1. "accepted" \in Answers /\ Respond(r, "accepted")
      BY <1>6 DEF Answers, Continue
    <3> QED BY <1>2, <3>1, Responds
  <2>2. Routes[target][target] # NoRoute
    BY <1>3, RoutesCompose
  <2>3. HandlerOK(r)'
    BY <2>1 DEF HandlerOK, HandlerAt, CallOf
  <2>4. TrueAnswer(r)'
    BY <2>1, <2>2 DEF TrueAnswer, HandlerAt, CallOf
  <2>5. Owed(r) = {}
    BY <1>6 DEF Owed, HandlerAt
  <2> QED BY <1>6, <2>1, <2>3, <2>4, <2>5
<1>7. CASE target \notin Terminal /\ ~OfCarrier(r)
  <2>1. target = "active"
    BY <1>3, <1>7 DEF Terminal
  <2>2. Handle(r, [handler[r] EXCEPT !.target = "completed", !.seen = target])
    BY <1>7 DEF Continue
  <2>3. /\ Serves(r) /\ handler'[r] \in Handler
        /\ handler'[r].step = "advance" /\ handler'[r].call = handler[r].call
        /\ handler'[r].target = "completed" /\ handler'[r].seen = target
    <3>1. "completed" \in States /\ handler[r].step = "advance"
      BY StatesAre DEF HandlerAt
    <3> QED BY <1>2, <1>3, <2>2, <3>1 DEF Handle, Serves, Handler
  <2>4. HandlerOK(r)' /\ TrueAnswer(r)'
    BY <2>1, <2>3 DEF HandlerOK, TrueAnswer, HandlerAt, CallOf, OfCarrier
  <2>5. Owed(r)' = {CallOf(r)} /\ Owed(r) \subseteq {CallOf(r)}
    BY <1>7, <2>3 DEF Owed, HandlerAt, CallOf, OfCarrier
  <2> QED BY <1>4, <2>3, <2>4, <2>5
<1> QED BY <1>5, <1>6, <1>7

\* What a route does to a row and to its trail.
LEMMA AdvancedRow ==
    ASSUME CallInv, NEW c \in Calls, call[c] # NoCall, NEW target \in States,
           Routes[call[c].status][target] # NoRoute, call[c].status # target,
           NEW route, route = Routes[call[c].status][target],
           call' = [call EXCEPT ![c] = Advanced(@, route)],
           trail' = [trail EXCEPT ![c] = Append(@,
               [from |-> call[c].status, inferred |-> Front(Tail(route)), to |-> target])]
    PROVE  /\ call' \in [Calls -> Row \cup {NoCall}] /\ trail' \in [Calls -> Seq(Event)]
           /\ call'[c] \in Row /\ call'[c] # NoCall /\ call'[c].status = target
           /\ call'[c].ended = (target \in Terminal)
           /\ RowMoves(c) /\ StoryOf(c)'
           /\ \A k \in Calls \ {c} : call'[k] = call[k] /\ trail'[k] = trail[k]
<1>1. /\ call \in [Calls -> Row \cup {NoCall}] /\ trail \in [Calls -> Seq(Event)]
      /\ StoryOf(c)
  BY CallInvParts DEF CallTypeOK
<1>2. PICK row \in Row : row = call[c]
  BY <1>1
<1>3. row.status \in States /\ row.started \in BOOLEAN /\ row.ended \in BOOLEAN
  BY DEF Row
<1>4. PICK inferred : inferred = Front(Tail(route))
  OBVIOUS
<1>5. /\ inferred \in Seq(States) /\ Last(route) = target
      /\ TellsShortest([from |-> row.status, inferred |-> inferred, to |-> target])
      /\ Range(Tail(route)) = Range(inferred) \cup {target}
      /\ Range(inferred) \cap Terminal = {}
  BY <1>2, <1>3, <1>4, RouteTold
<1> DEFINE event == [from |-> row.status, inferred |-> inferred, to |-> target]
           after == Advanced(row, route)
<1>6. event \in Event
  BY <1>3, <1>5 DEF Event
<1>7. /\ event.from = row.status /\ event.inferred = inferred /\ event.to = target
      /\ TellsShortest(event)
  BY <1>5
<1>8. row.ended = (row.status \in Terminal)
  BY <1>1, <1>2 DEF StoryOf
<1>9. row.status \notin Terminal
  <2> SUFFICES ASSUME row.status \in Terminal PROVE FALSE
    OBVIOUS
  <2> QED BY <1>2, <1>3, TerminalStays
<1>10. /\ after.status = target
       /\ after.started = (row.started \/ "active" \in Range(inferred) \cup {target})
       /\ after.ended = (row.ended \/ (Range(inferred) \cup {target}) \cap Terminal # {})
  BY <1>5 DEF Advanced
<1>11. after \in Row
  BY <1>3, <1>5 DEF Advanced, Row
<1> HIDE DEF event, after
<1>12. after.ended = (target \in Terminal)
  <2>1. (Range(inferred) \cup {target}) \cap Terminal # {} <=> target \in Terminal
    BY <1>5
  <2>2. ~row.ended
    BY <1>8, <1>9
  <2>3. after.ended \in BOOLEAN
    BY <1>11 DEF Row
  <2> QED BY <1>10, <2>1, <2>2, <2>3
<1>13. /\ call' = [call EXCEPT ![c] = after]
       /\ trail' = [trail EXCEPT ![c] = Append(trail[c], event)]
  BY <1>2, <1>4 DEF after, event
<1>14. Append(trail[c], event) \in Seq(Event)
  BY <1>1, <1>6, AppendProperties
<1>15. /\ call' \in [Calls -> Row \cup {NoCall}] /\ call'[c] = after
       /\ trail' \in [Calls -> Seq(Event)] /\ trail'[c] = Append(trail[c], event)
       /\ \A k \in Calls \ {c} : call'[k] = call[k] /\ trail'[k] = trail[k]
  BY <1>1, <1>11, <1>13, <1>14
<1>16. after # NoCall
  BY <1>11, NoCallAssumption
<1>17. RowMoves(c)
  <2>1. row.ended => after.ended
    BY <1>8, <1>9
  <2> QED BY <1>2, <1>10, <1>15, <1>16, <2>1 DEF RowMoves
<1>18. StoryOf(c)'
  <2> DEFINE old == trail[c]
             new == Append(trail[c], event)
             n == Len(trail[c])
  <2>1. old \in Seq(Event) /\ n \in Nat /\ DOMAIN old = 1 .. n
    BY <1>1, LenProperties
  <2>2. /\ Len(new) = n + 1 /\ new # <<>> /\ DOMAIN new = 1 .. n + 1
        /\ \A i \in 1 .. n : new[i] = old[i]
        /\ new[n + 1] = event
    <3>1. /\ new \in Seq(Event) /\ new # <<>> /\ Len(new) = n + 1
          /\ \A i \in 1 .. n : new[i] = old[i]
          /\ new[n + 1] = event
      BY <1>6, <2>1, AppendProperties
    <3> HIDE DEF new
    <3> QED BY <3>1, LenProperties
  <2>3. /\ \A i \in 1 .. n :
              /\ TellsShortest(old[i])
              /\ old[i].from = IF i = 1 THEN "queued" ELSE old[i - 1].to
        /\ row.status = IF old = <<>> THEN "queued" ELSE Last(old).to
        /\ row.started =
              \E i \in 1 .. n :
                  "active" \in Range(old[i].inferred) \cup {old[i].to}
    BY <1>1, <1>2, <2>1 DEF StoryOf
  <2> HIDE DEF old, new, n
  <2>4. \A i \in 1 .. n + 1 : i \in 1 .. n \/ i = n + 1
    BY <2>1
  <2>5. ASSUME NEW i \in 1 .. n + 1
        PROVE  /\ TellsShortest(new[i])
               /\ new[i].from = IF i = 1 THEN "queued" ELSE new[i - 1].to
    <3>1. CASE i \in 1 .. n
      <4>1. i # 1 => i - 1 \in 1 .. n
        BY <2>1, <3>1
      <4> QED BY <2>2, <2>3, <3>1, <4>1
    <3>2. CASE i = n + 1
      <4>1. CASE n = 0
        <5>1. old = <<>> /\ i = 1
          BY <2>1, <3>2, <4>1, EmptySeq DEF n, old
        <5> QED BY <1>7, <2>2, <2>3, <3>2, <5>1
      <4>2. CASE n # 0
        <5>1. old # <<>> /\ i # 1 /\ i - 1 = n /\ n \in 1 .. n
          BY <2>1, <3>2, <4>2, EmptySeq DEF n, old
        <5>2. Last(old) = new[i - 1]
          BY <2>2, <5>1 DEF Last, n, old
        <5> QED BY <1>7, <2>2, <2>3, <3>2, <5>1, <5>2
      <4> QED BY <4>1, <4>2
    <3> QED BY <2>4, <3>1, <3>2
  <2>6. Last(new).to = target
    BY <1>7, <2>2 DEF Last
  <2>7. after.started =
            \E i \in 1 .. n + 1 :
                "active" \in Range(new[i].inferred) \cup {new[i].to}
    <3>1. (\E i \in 1 .. n + 1 :
              "active" \in Range(new[i].inferred) \cup {new[i].to})
          <=> \/ \E i \in 1 .. n :
                     "active" \in Range(old[i].inferred) \cup {old[i].to}
              \/ "active" \in Range(inferred) \cup {target}
      <4>1. 1 .. n \subseteq 1 .. n + 1 /\ n + 1 \in 1 .. n + 1
        BY <2>1
      <4> QED BY <1>7, <2>2, <2>4, <4>1
    <3>2. after.started \in BOOLEAN
      BY <1>11 DEF Row
    <3>3. after.started <=>
              row.started \/ "active" \in Range(inferred) \cup {target}
      BY <1>10
    <3>4. row.started <=>
              \E i \in 1 .. n : "active" \in Range(old[i].inferred) \cup {old[i].to}
      BY <2>3
    <3> QED BY <3>1, <3>2, <3>3, <3>4
  <2>8. call'[c] = after /\ trail'[c] = new
    BY <1>15 DEF new
  <2>9. /\ call'[c].status = target /\ call'[c].ended = (target \in Terminal)
        /\ DOMAIN trail'[c] = 1 .. n + 1 /\ trail'[c] # <<>>
        /\ call'[c] # NoCall
    BY <1>10, <1>12, <1>16, <2>2, <2>8
  <2>10. call'[c].ended = (call'[c].status \in Terminal)
    BY <2>9
  <2>11. \A i \in DOMAIN trail'[c] :
             /\ TellsShortest(trail'[c][i])
             /\ trail'[c][i].from =
                   IF i = 1 THEN "queued" ELSE trail'[c][i - 1].to
    <3> TAKE i \in DOMAIN trail'[c]
    <3>1. i \in 1 .. n + 1 /\ trail'[c][i] = new[i] /\ trail'[c][i - 1] = new[i - 1]
      BY <2>8, <2>9
    <3>2. /\ TellsShortest(new[i])
          /\ new[i].from = IF i = 1 THEN "queued" ELSE new[i - 1].to
      BY <2>5, <3>1
    <3> QED BY <3>1, <3>2
  <2>12. call'[c].started =
             \E i \in DOMAIN trail'[c] :
                 "active" \in Range(trail'[c][i].inferred) \cup {trail'[c][i].to}
    BY <2>7, <2>8, <2>9
  <2>13. call'[c].status = IF trail'[c] = <<>> THEN "queued" ELSE Last(trail'[c]).to
    BY <2>6, <2>8, <2>9
  <2> QED BY <2>9, <2>10, <2>11, <2>12, <2>13 DEF StoryOf
<1> QED BY <1>10, <1>11, <1>12, <1>15, <1>16, <1>17, <1>18

\* Advance keeps the invariant.
LEMMA AdvanceInv ==
    ASSUME CallInv, NEW r \in Requests, Advance(r)
    PROVE  CallInv'
<1>1. /\ CallTypeOK /\ summary \cup Listed \subseteq Ended /\ arrived \in 0 .. MaxRequests
      /\ call \in [Calls -> Row \cup {NoCall}] /\ trail \in [Calls -> Seq(Event)]
  BY DEF CallInv, CallTypeOK
<1>2. /\ HandlerAt(r, "advance") /\ ~HandlerAt(r, "idle")
      /\ UNCHANGED <<queueVars, arrived>>
  BY DEF Advance, HandlerAt
<1>3. PICK c \in Calls : c = CallOf(r)
  BY <1>2, AtWork
<1>4. /\ handler[r] \in Handler /\ HandlerOK(r) /\ ApartFrom(r)
      /\ handler \in [Requests -> Handler \cup {Idle}]
  BY <1>2, AtWork
<1>5. PICK target \in States : target = handler[r].target
  BY <1>4 DEF Handler
<1>6. PICK seen \in States : seen = handler[r].seen
  BY <1>4 DEF Handler
<1>7. /\ call[c] # NoCall /\ call[c].status = seen
      /\ ~OfCarrier(r) =>
            \/ seen = "queued" /\ target = "active"
            \/ seen = "active" /\ target = "completed"
  BY <1>2, <1>3, <1>4, <1>5, <1>6 DEF HandlerOK
<1>8. /\ QueueTypeOK' /\ Listed' = Listed /\ Saved' = Saved
      /\ summary' = summary /\ worker' = worker
  BY <1>2, QueueStays
<1>9. CASE UNCHANGED <<call, trail>>
  <2>1. /\ call' \in [Calls -> Row \cup {NoCall}] /\ trail' \in [Calls -> Seq(Event)]
        /\ \A k \in Calls : RowMoves(k) /\ StoryOf(k)' /\ Due(k)' = Due(k)
        /\ Ended' = Ended
    BY <1>9, RowsStay
  <2>2. SUFFICES /\ Serves(r) /\ HandlerOK(r)' /\ TrueAnswer(r)' /\ ApartFrom(r)'
                 /\ Owed(r) \subseteq Owed(r)'
    BY <1>1, <1>2, <1>8, <1>9, <2>1, ServeInv
  <2>3. CASE seen = target /\ Continue(r)
    <3>1. call'[CallOf(r)] # NoCall /\ call'[CallOf(r)].status = handler[r].target
      BY <1>3, <1>5, <1>7, <1>9, <2>3
    <3> QED BY <1>2, <2>1, <2>3, <3>1, ContinueServes
  <2>4. CASE Routes[seen][target] = NoRoute /\ Respond(r, "ignored")
    <3>1. OfCarrier(r)
      BY <1>7, <2>4, SimulationHasRoutes
    <3>2. Owed(r) = {}
      BY <1>2, <3>1 DEF Owed, HandlerAt
    <3>3. /\ Serves(r) /\ handler'[r] \in Handler
          /\ handler'[r].step = "done" /\ handler'[r].call = c
          /\ handler'[r].target = target /\ handler'[r].answer = "ignored"
          /\ ApartFrom(r)'
      <4>1. "ignored" \in Answers
        BY DEF Answers
      <4> QED BY <1>3, <1>4, <1>5, <2>4, <4>1, Responds DEF CallOf
    <3>4. call'[c] # NoCall /\ Routes[call'[c].status][target] = NoRoute
      BY <1>7, <1>9, <2>4
    <3>5. HandlerOK(r)'
      BY <3>3, <3>4 DEF HandlerOK, HandlerAt, CallOf
    <3>6. TrueAnswer(r)'
      BY <3>3, <3>4 DEF TrueAnswer, HandlerAt, CallOf
    <3> QED BY <3>2, <3>3, <3>5, <3>6
  <2>5. CASE call' = [call EXCEPT ![c] = Advanced(@, Routes[seen][target])]
             /\ trail' = [trail EXCEPT ![c] = Append(@,
                   [from |-> seen, inferred |-> Front(Tail(Routes[seen][target])),
                    to |-> target])]
             /\ Routes[seen][target] # NoRoute /\ seen # target
    <3>1. call'[c].status = target /\ call'[c].status = seen
      <4>1. PICK route : route = Routes[call[c].status][target]
        OBVIOUS
      <4>2. call'[c].status = target
        BY <1>7, <2>5, <4>1, AdvancedRow
      <4> QED BY <1>7, <1>9, <4>2
    <3> QED BY <2>5, <3>1
  <2> QED BY <1>3, <1>5, <1>6, <2>3, <2>4, <2>5 DEF Advance
<1>10. CASE /\ Routes[seen][target] # NoRoute /\ seen # target
            /\ call' = [call EXCEPT ![c] = Advanced(@, Routes[seen][target])]
            /\ trail' = [trail EXCEPT ![c] = Append(@,
                  [from |-> seen, inferred |-> Front(Tail(Routes[seen][target])),
                   to |-> target])]
            /\ Continue(r)
  <2>1. PICK route : route = Routes[call[c].status][target]
    OBVIOUS
  <2>2. /\ call' \in [Calls -> Row \cup {NoCall}] /\ trail' \in [Calls -> Seq(Event)]
        /\ call'[c] \in Row /\ call'[c] # NoCall /\ call'[c].status = target
        /\ call'[c].ended = (target \in Terminal)
        /\ RowMoves(c) /\ StoryOf(c)'
        /\ \A k \in Calls \ {c} : call'[k] = call[k] /\ trail'[k] = trail[k]
    BY <1>7, <1>10, <2>1, AdvancedRow
  <2>3. /\ \A k \in Calls : RowMoves(k) /\ StoryOf(k)'
        /\ \A k \in Calls \ {c} : Due(k)' = Due(k)
        /\ Ended \subseteq Ended'
    BY <2>2, RowChanges
  <2>4. /\ Serves(r) /\ HandlerOK(r)' /\ TrueAnswer(r)' /\ ApartFrom(r)'
        /\ Owed(r) \subseteq Owed(r)'
        /\ target \in Terminal => Owed(r)' = {c}
    BY <1>2, <1>3, <1>5, <1>10, <2>2, ContinueServes
  <2>5. \A q \in Requests \ {r} : handler[q].step \in {"advance", "enqueue"} =>
            call'[CallOf(q)] = call[CallOf(q)]
    <3> TAKE q \in Requests \ {r}
    <3> HAVE handler[q].step \in {"advance", "enqueue"}
    <3>1. CallOf(q) # c
      BY <1>2, <1>3, <1>4 DEF ApartFrom, HandlerAt
    <3>2. CallOf(q) \in Calls
      <4>1. ~HandlerAt(q, "idle")
        BY DEF HandlerAt
      <4> QED BY <4>1, AtWork
    <3> QED BY <2>2, <3>1, <3>2
  <2>6. \A k \in Calls : Due(k)' => Due(k) \/ k \in Owed(r)'
    <3> TAKE k \in Calls
    <3>1. CASE k # c
      BY <2>3, <3>1
    <3>2. CASE k = c
      <4>1. CASE target \in Terminal
        BY <2>4, <3>2, <4>1
      <4>2. CASE target \notin Terminal
        <5>1. ~call'[c].ended
          BY <2>2, <4>2
        <5> QED BY <1>7, <3>2, <5>1 DEF Due
      <4> QED BY <4>1, <4>2
    <3> QED BY <3>1, <3>2
  <2>7. (summary \cup Listed)' \subseteq Ended' /\ arrived' \in 0 .. MaxRequests
    BY <1>1, <1>2, <1>8, <2>3
  <2> QED BY <1>8, <2>2, <2>3, <2>4, <2>5, <2>6, <2>7, ServeInv
<1> QED BY <1>3, <1>5, <1>6, <1>9, <1>10 DEF Advance

\* Enqueue keeps the invariant.
LEMMA EnqueueInv ==
    ASSUME CallInv, NEW r \in Requests, Enqueue(r)
    PROVE  CallInv'
<1>1. /\ CallTypeOK /\ summary \cup Listed \subseteq Ended /\ arrived \in 0 .. MaxRequests
      /\ waiting \in Seq(Waitable) /\ call \in [Calls -> Row \cup {NoCall}]
      /\ QueueTypeOK /\ \A c \in Calls : StoryOf(c)
  BY CallInvParts DEF CallTypeOK, QueueTypeOK, Waitable
<1>2. /\ HandlerAt(r, "enqueue") /\ ~HandlerAt(r, "idle") /\ Respond(r, Final(r))
      /\ UNCHANGED <<worker, forgotten, crashes, call, trail, arrived, processing, dead>>
  BY DEF Enqueue, HandlerAt, lists
<1>3. PICK c \in Calls : c = CallOf(r)
  BY <1>2, AtWork
<1>4. /\ handler[r] \in Handler /\ HandlerOK(r)
      /\ handler \in [Requests -> Handler \cup {Idle}]
  BY <1>2, AtWork
<1>5. PICK target \in States : target = handler[r].target
  BY <1>4 DEF Handler
<1>6. /\ call[c] # NoCall /\ call[c].status = target /\ target \in Terminal
      /\ ~OfCarrier(r) => target = "completed"
  BY <1>2, <1>3, <1>4, <1>5 DEF HandlerOK
<1>7. c \in Ended /\ call[c].ended
  <2>1. call[c].ended = (call[c].status \in Terminal)
    BY <1>1, <1>6 DEF StoryOf
  <2>2. (call[c].status \in Terminal) = TRUE
    BY <1>6
  <2> QED BY <1>6, <2>1, <2>2 DEF Ended
<1>8. /\ waiting' \in Seq(Waitable)
      /\ CallsIn(waiting)' = CallsIn(waiting) \/ CallsIn(waiting)' = CallsIn(waiting) \cup {c}
      /\ summary' = summary \/ summary' = summary \cup {c}
      /\ c \in CallsIn(waiting)' \/ c \in summary'
  <2>1. FirstAttempt(c) \in Waitable /\ FirstAttempt(c).call = c
    BY QueueAssumption DEF FirstAttempt, Waitable
  <2>2. /\ Append(waiting, FirstAttempt(c)) \in Seq(Waitable)
        /\ CallsIn(Append(waiting, FirstAttempt(c))) = CallsIn(waiting) \cup {c}
    BY <1>1, <2>1, CallsInAppend
  <2>3. Push(c) => CallsIn(waiting)' = CallsIn(waiting) \cup {c} /\ waiting' \in Seq(Waitable)
    BY <2>2 DEF Push, CallsIn
  <2>4. waiting' = waiting => CallsIn(waiting)' = CallsIn(waiting)
    BY DEF CallsIn
  <2>5. \/ Push(c) /\ summary' = summary
        \/ summary' = summary \cup {c} /\ waiting' = waiting
        \/ Push(c) /\ summary' = summary \cup {c}
    BY <1>3 DEF Enqueue, lists
  <2> QED BY <1>1, <2>3, <2>4, <2>5
<1>9. CallsIn(processing)' = CallsIn(processing) /\ CallsIn(dead)' = CallsIn(dead)
  BY <1>2 DEF CallsIn
<1>10. /\ (summary \cup Listed)' \subseteq Ended /\ Saved \subseteq Saved' /\ c \in Saved'
       /\ summary \subseteq summary'
  <2>1. Requeued' = Requeued /\ forgotten' = forgotten
    BY <1>2 DEF Requeued, WorkerAt
  <2> QED BY <1>1, <1>7, <1>8, <1>9, <2>1 DEF Listed, Saved
<1>11. QueueTypeOK'
  BY <1>1, <1>2, <1>3, <1>8 DEF QueueTypeOK, Waitable
<1>12. /\ call' \in [Calls -> Row \cup {NoCall}] /\ trail' \in [Calls -> Seq(Event)]
       /\ \A k \in Calls : RowMoves(k) /\ StoryOf(k)' /\ Due(k)' = Due(k)
       /\ Ended' = Ended
  BY <1>2, RowsStay
<1>13. PICK answer \in Answers : answer = Final(r) /\ answer \in {"accepted", "created"}
  BY DEF Final, Answers
<1>14. /\ Serves(r) /\ handler'[r] \in Handler
       /\ handler'[r].step = "done" /\ handler'[r].call = c
       /\ handler'[r].target = target /\ handler'[r].answer = answer
       /\ ApartFrom(r)' /\ Owed(r)' = {}
  BY <1>2, <1>3, <1>4, <1>5, <1>13, Responds DEF CallOf
<1>15. call'[c] = call[c]
  BY <1>2
<1>16. HandlerOK(r)'
  BY <1>6, <1>14, <1>15 DEF HandlerOK, HandlerAt, CallOf
<1>17. TrueAnswer(r)'
  <2>1. Routes[target][call'[c].status] # NoRoute
    BY <1>6, <1>15, RoutesCompose
  <2>2. answer = "created" => call'[c].status = "completed" /\ call'[c].ended
    BY <1>6, <1>7, <1>13, <1>15 DEF Final
  <2>3. answer # "ignored"
    BY <1>13
  <2> QED BY <1>14, <2>1, <2>2, <2>3 DEF TrueAnswer, HandlerAt, CallOf
<1>18. Owed(r) \subseteq Saved'
  BY <1>3, <1>10 DEF Owed
<1>19. arrived' \in 0 .. MaxRequests /\ call' = call
  BY <1>1, <1>2
<1>20. worker' = worker
  BY <1>2
<1> QED BY <1>10, <1>11, <1>12, <1>14, <1>16, <1>17, <1>18, <1>19, <1>20, ServeInv

\* Fault keeps the invariant.
LEMMA FaultInv ==
    ASSUME CallInv, NEW r \in Requests, Fault(r)
    PROVE  CallInv'
<1>1. /\ CallTypeOK /\ summary \cup Listed \subseteq Ended /\ arrived \in 0 .. MaxRequests
      /\ waiting \in Seq(Waitable) /\ call \in [Calls -> Row \cup {NoCall}]
      /\ QueueTypeOK /\ \A c \in Calls : StoryOf(c)
  BY CallInvParts DEF CallTypeOK, QueueTypeOK, Waitable
<1>2. /\ ~HandlerAt(r, "idle") /\ Respond(r, "raised")
      /\ UNCHANGED <<processing, dead, worker, summary, crashes, call, trail, arrived>>
      /\ forgotten' = forgotten \/ forgotten' = forgotten \cup Owed(r)
  BY DEF Fault, HandlerAt
<1>3. PICK c \in Calls : c = CallOf(r)
  BY <1>2, AtWork
<1>4. /\ handler[r] \in Handler /\ HandlerOK(r)
      /\ handler \in [Requests -> Handler \cup {Idle}]
  BY <1>2, AtWork
<1>5. HandlerAt(r, "enqueue") => c \in Ended
  <2> SUFFICES ASSUME HandlerAt(r, "enqueue") PROVE c \in Ended
    OBVIOUS
  <2>1. call[c] # NoCall /\ call[c].status \in Terminal
    BY <1>3, <1>4 DEF HandlerOK
  <2>2. call[c].ended = (call[c].status \in Terminal)
    BY <1>1, <2>1 DEF StoryOf
  <2>3. (call[c].status \in Terminal) = TRUE
    BY <2>1
  <2> QED BY <2>1, <2>2, <2>3 DEF Ended
<1>6. /\ waiting' \in Seq(Waitable)
      /\ CallsIn(waiting) \subseteq CallsIn(waiting)'
      /\ CallsIn(waiting)' \subseteq CallsIn(waiting) \cup Ended
      /\ forgotten' = forgotten \cup Owed(r) \/ c \in CallsIn(waiting)'
  <2>1. FirstAttempt(c) \in Waitable /\ FirstAttempt(c).call = c
    BY QueueAssumption DEF FirstAttempt, Waitable
  <2>2. /\ Append(waiting, FirstAttempt(c)) \in Seq(Waitable)
        /\ CallsIn(Append(waiting, FirstAttempt(c))) = CallsIn(waiting) \cup {c}
    BY <1>1, <2>1, CallsInAppend
  <2>3. Push(c) => CallsIn(waiting)' = CallsIn(waiting) \cup {c} /\ waiting' \in Seq(Waitable)
    BY <2>2 DEF Push, CallsIn
  <2>4. waiting' = waiting => CallsIn(waiting)' = CallsIn(waiting)
    BY DEF CallsIn
  <2>5. \/ waiting' = waiting /\ forgotten' = forgotten \cup Owed(r)
        \/ HandlerAt(r, "enqueue") /\ Push(c)
    BY <1>3 DEF Fault
  <2> QED BY <1>1, <1>5, <2>3, <2>4, <2>5
<1>7. CallsIn(processing)' = CallsIn(processing) /\ CallsIn(dead)' = CallsIn(dead)
  BY <1>2 DEF CallsIn
<1>8. /\ (summary \cup Listed)' \subseteq Ended /\ Saved \subseteq Saved'
      /\ Owed(r) \subseteq Saved'
  <2>1. Requeued' = Requeued
    BY <1>2 DEF Requeued, WorkerAt
  <2>2. Owed(r) \subseteq {c}
    BY <1>3 DEF Owed
  <2> QED BY <1>1, <1>2, <1>6, <1>7, <2>1, <2>2 DEF Listed, Saved
<1>9. QueueTypeOK'
  <2>1. Owed(r) \subseteq Calls
    BY <1>3 DEF Owed
  <2> QED BY <1>1, <1>2, <1>6, <2>1 DEF QueueTypeOK, Waitable
<1>10. /\ call' \in [Calls -> Row \cup {NoCall}] /\ trail' \in [Calls -> Seq(Event)]
       /\ \A k \in Calls : RowMoves(k) /\ StoryOf(k)' /\ Due(k)' = Due(k)
       /\ Ended' = Ended
  BY <1>2, RowsStay
<1>11. /\ Serves(r) /\ handler'[r] \in Handler
       /\ handler'[r].step = "done" /\ handler'[r].answer = "raised"
       /\ ApartFrom(r)'
  <2>1. "raised" \in Answers
    BY DEF Answers
  <2> QED BY <1>2, <1>4, <2>1, Responds
<1>12. HandlerOK(r)' /\ TrueAnswer(r)'
  BY <1>11 DEF HandlerOK, TrueAnswer, HandlerAt
<1>13. arrived' \in 0 .. MaxRequests /\ call' = call /\ worker' = worker
       /\ summary' = summary
  BY <1>1, <1>2
<1> QED BY <1>8, <1>9, <1>10, <1>11, <1>12, <1>13, ServeInv

\* Answer keeps the invariant.
LEMMA AnswerInv ==
    ASSUME CallInv, NEW r \in Requests, Answer(r)
    PROVE  CallInv'
<1>1. /\ CallTypeOK /\ summary \cup Listed \subseteq Ended
      /\ handler \in [Requests -> Handler \cup {Idle}] /\ arrived \in 0 .. MaxRequests
  BY DEF CallInv, CallTypeOK
<1>2. /\ HandlerAt(r, "done") /\ handler' = [handler EXCEPT ![r] = Idle]
      /\ UNCHANGED <<queueVars, call, trail, arrived>>
  BY DEF Answer, Handle
<1>3. Serves(r) /\ handler'[r] = Idle /\ Idle.step = "idle"
  BY <1>1, <1>2 DEF Serves, Idle
<1>4. HandlerOK(r)' /\ TrueAnswer(r)' /\ ApartFrom(r)'
  BY <1>3 DEF HandlerOK, TrueAnswer, ApartFrom, HandlerAt
<1>5. Owed(r) = {}
  BY <1>2 DEF Owed, HandlerAt
<1>6. /\ QueueTypeOK' /\ Listed' = Listed /\ Saved' = Saved
      /\ summary' = summary /\ worker' = worker
  BY <1>2, QueueStays
<1>7. /\ call' \in [Calls -> Row \cup {NoCall}] /\ trail' \in [Calls -> Seq(Event)]
      /\ \A k \in Calls : RowMoves(k) /\ StoryOf(k)' /\ Due(k)' = Due(k)
      /\ Ended' = Ended
  BY <1>2, RowsStay
<1> QED BY <1>1, <1>2, <1>3, <1>4, <1>5, <1>6, <1>7, ServeInv

\* CrashApi keeps the invariant.
LEMMA CrashApiInv ==
    ASSUME CallInv, CrashApi
    PROVE  CallInv'
<1>1. /\ CallTypeOK /\ QueueTypeOK /\ NoneIsLost /\ summary \cup Listed \subseteq Ended
      /\ \A w \in Workers : WorkerOK(w)
      /\ \A r \in Requests : HandlerOK(r)
  BY DEF CallInv, CallTypeOK
<1>2. /\ handler' = [r \in Requests |-> Idle]
      /\ forgotten' = forgotten \cup UNION {Owed(r) : r \in Requests}
      /\ UNCHANGED <<lists, worker, summary, call, trail, arrived>>
      /\ crashes' = crashes + 1 /\ crashes < MaxCrashes
  BY DEF CrashApi
<1>3. \A r \in Requests : handler'[r].step = "idle"
  BY <1>2 DEF Idle
<1>4. AnswersAreTrue' /\ HandlersApart' /\ \A r \in Requests : HandlerOK(r)'
  <2>1. AnswersAreTrue'
    BY <1>3 DEF AnswersAreTrue, HandlerAt
  <2>2. HandlersApart'
    BY <1>3 DEF HandlersApart
  <2>3. \A r \in Requests : HandlerOK(r)'
    BY <1>3 DEF HandlerOK, HandlerAt
  <2> QED BY <2>1, <2>2, <2>3
<1>5. CallTypeOK'
  <2>1. UNION {Owed(r) : r \in Requests} \subseteq Calls
    <3>1. ASSUME NEW r \in Requests PROVE Owed(r) \subseteq Calls
      <4>1. CASE HandlerAt(r, "idle")
        BY <4>1 DEF Owed, HandlerAt
      <4>2. CASE ~HandlerAt(r, "idle")
        <5>1. CallOf(r) \in Calls
          BY <4>2, AtWork
        <5> QED BY <5>1 DEF Owed
      <4> QED BY <4>1, <4>2
    <3> QED BY <3>1
  <2>2. crashes' \in 0 .. MaxCrashes
    BY <1>1, <1>2, QueueAssumption DEF QueueTypeOK
  <2>3. QueueTypeOK'
    BY <1>1, <1>2, <2>1, <2>2 DEF QueueTypeOK, lists
  <2>4. handler' \in [Requests -> Handler \cup {Idle}]
    BY <1>2
  <2> QED BY <1>1, <1>2, <2>3, <2>4 DEF CallTypeOK
<1>6. /\ Listed' = Listed /\ Ended' = Ended /\ Requeued' = Requeued
      /\ \A c \in Calls : Due(c)' = Due(c)
  BY <1>2 DEF lists, Listed, CallsIn, Ended, Requeued, WorkerAt, Due
<1>7. \A w \in Workers : WorkerOK(w)'
  BY <1>1, <1>2, <1>6 DEF WorkerOK, WorkerAt
<1>8. TrailIsTheStory'
  BY <1>2 DEF CallInv, TrailIsTheStory
<1>9. NoneIsLost'
  <2> SUFFICES ASSUME NEW c \in Calls, Due(c)' PROVE c \in Saved'
    BY DEF NoneIsLost
  <2>1. c \in Saved \/ Running(c)
    BY <1>1, <1>6 DEF NoneIsLost
  <2>2. Running(c) => c \in forgotten'
    BY <1>2 DEF Running
  <2> QED BY <1>2, <1>6, <2>1, <2>2 DEF Saved
<1> QED BY <1>1, <1>2, <1>4, <1>5, <1>6, <1>7, <1>8, <1>9 DEF CallInv

\* The steps of a worker keep the invariant.
LEMMA WorkerInv ==
    ASSUME CallInv, NEW w \in Workers, WorkerStep(w) \/ CrashWorker(w),
           UNCHANGED callVars
    PROVE  CallInv'
<1>1. QueueInv /\ CallTypeOK
  BY DEF CallInv, CallTypeOK, QueueInv
<1>2. UNCHANGED <<call, trail, handler, arrived>>
  BY DEF callVars
<1>3. QueueInv' /\ Saved \subseteq Saved'
  BY <1>1, <1>2, WorkerStepKeeps
<1>4. CallTypeOK'
  BY <1>1, <1>2, <1>3 DEF CallTypeOK, QueueInv
<1>5. TrailIsTheStory' /\ AnswersAreTrue' /\ HandlersApart'
  <2>1. TrailIsTheStory'
    BY <1>2 DEF CallInv, TrailIsTheStory
  <2>2. AnswersAreTrue'
    BY <1>2 DEF CallInv, AnswersAreTrue, HandlerAt, CallOf
  <2>3. HandlersApart'
    BY <1>2 DEF CallInv, HandlersApart, OfCarrier, CallOf
  <2> QED BY <2>1, <2>2, <2>3
<1>6. \A r \in Requests : HandlerOK(r)'
  BY <1>2 DEF CallInv, HandlerOK, HandlerAt, OfCarrier, CallOf
<1>7. NoneIsLost'
  <2> SUFFICES ASSUME NEW c \in Calls, Due(c)' PROVE c \in Saved' \/ Running(c)'
    BY DEF NoneIsLost
  <2>1. c \in Saved \/ Running(c)
    BY <1>2 DEF CallInv, NoneIsLost, Due
  <2>2. Running(c)' = Running(c)
    BY <1>2 DEF Running, Owed, HandlerAt, OfCarrier, CallOf
  <2> QED BY <1>3, <2>1, <2>2
<1> QED BY <1>3, <1>4, <1>5, <1>6, <1>7 DEF CallInv, QueueInv

-----------------------------------------------------------------------------
(* The theorems.                                                            *)

\* The invariant holds at the start.
LEMMA CallInitInv == CallInit => CallInv
<1> SUFFICES ASSUME CallInit PROVE CallInv
  OBVIOUS
<1>1. /\ waiting = <<>> /\ processing = <<>> /\ dead = <<>>
      /\ worker = [w \in Workers |-> Down] /\ summary = {} /\ forgotten = {}
      /\ crashes = 0 /\ call = [c \in Calls |-> NoCall]
      /\ trail = [c \in Calls |-> <<>>] /\ handler = [r \in Requests |-> Idle]
      /\ arrived = 0
  BY DEF CallInit, QueueInit
<1>2. CallTypeOK
  <2>1. worker \in [Workers -> [step : WorkerSteps, job : Job \cup {NoJob}]]
    BY <1>1 DEF Down, WorkerSteps
  <2>2. QueueTypeOK
    BY <1>1, <2>1, QueueAssumption DEF QueueTypeOK
  <2> QED BY <1>1, <2>2, CallAssumption DEF CallTypeOK
<1>3. CallsIn(waiting) = {} /\ CallsIn(processing) = {} /\ CallsIn(dead) = {}
  BY <1>1 DEF CallsIn
<1>4. \A w \in Workers : WorkerOK(w)
  BY <1>1 DEF WorkerOK, Down, WorkerAt
<1>5. \A r \in Requests : handler[r].step = "idle"
  BY <1>1 DEF Idle
<1>6. /\ AnswersAreTrue /\ HandlersApart /\ \A r \in Requests : HandlerOK(r)
  BY <1>5 DEF AnswersAreTrue, HandlersApart, HandlerOK, HandlerAt
<1>7. TrailIsTheStory /\ NoneIsLost
  BY <1>1 DEF TrailIsTheStory, NoneIsLost, Due
<1> QED BY <1>1, <1>2, <1>3, <1>4, <1>6, <1>7 DEF CallInv, Listed

\* Every step keeps the invariant.
LEMMA CallStepInv == CallInv /\ [CallNext]_allVars => CallInv'
<1> SUFFICES ASSUME CallInv, [CallNext]_allVars PROVE CallInv'
  OBVIOUS
<1>1. ASSUME NEW r \in Requests, CarrierEvent(r) PROVE CallInv'
  <2>1. PICK c \in CarrierCalls, s \in Reported : Arrive(r, c, s)
    BY <1>1 DEF CarrierEvent
  <2> QED BY <2>1, CallAssumption, ArriveInv DEF Reported
<1>2. ASSUME NEW r \in Requests, Simulate(r) PROVE CallInv'
  <2>1. PICK c \in Calls \ CarrierCalls : Arrive(r, c, "active")
    BY <1>2 DEF Simulate
  <2> QED BY <2>1, StatesAre, ArriveInv
<1>3. ASSUME NEW r \in Requests, HandlerStep(r) PROVE CallInv'
  BY <1>3, FindInv, InsertInv, AdvanceInv, EnqueueInv, FaultInv, AnswerInv
     DEF HandlerStep
<1>4. CASE CrashApi
  BY <1>4, CrashApiInv
<1>5. ASSUME NEW w \in Workers, WorkerStep(w) \/ CrashWorker(w), UNCHANGED callVars
      PROVE  CallInv'
  BY <1>5, WorkerInv
<1>6. CASE UNCHANGED allVars
  <2>1. /\ UNCHANGED <<waiting, processing, dead, worker, summary, forgotten, crashes>>
        /\ UNCHANGED <<call, trail, handler, arrived>>
    BY <1>6 DEF allVars, callVars, queueVars, lists
  <2>2. CallTypeOK'
    BY <2>1 DEF CallInv, CallTypeOK, QueueTypeOK
  <2>3. TrailIsTheStory' /\ AnswersAreTrue'
    <3>1. TrailIsTheStory'
      BY <2>1 DEF CallInv, TrailIsTheStory
    <3>2. AnswersAreTrue'
      BY <2>1 DEF CallInv, AnswersAreTrue, HandlerAt, CallOf
    <3> QED BY <3>1, <3>2
  <2>4. (summary \cup Listed)' \subseteq Ended'
    BY <2>1 DEF CallInv, Listed, CallsIn, Ended
  <2>5. \A w \in Workers : WorkerOK(w)'
    BY <2>1 DEF CallInv, WorkerOK, WorkerAt, Ended
  <2>6. (\A r \in Requests : HandlerOK(r)') /\ HandlersApart'
    BY <2>1 DEF CallInv, HandlerOK, HandlersApart, HandlerAt, OfCarrier, CallOf
  <2>7. NoneIsLost'
    <3>1. Saved' = Saved
      BY <2>1 DEF Saved, Listed, CallsIn, Requeued, WorkerAt
    <3>2. \A c \in Calls : Due(c)' = Due(c) /\ Running(c)' = Running(c)
      BY <2>1 DEF Due, Running, Owed, HandlerAt, OfCarrier, CallOf
    <3> QED BY <3>1, <3>2 DEF CallInv, NoneIsLost
  <2> QED BY <2>2, <2>3, <2>4, <2>5, <2>6, <2>7 DEF CallInv
<1> QED BY <1>1, <1>2, <1>3, <1>4, <1>5, <1>6 DEF CallNext

\* The inductive invariant of the calls and of the queue holds in every state.
THEOREM CallInvariance == CallSpec => []CallInv
BY CallInitInv, CallStepInv, PTL DEF CallSpec

\* The rows, the audit events, the requests, the jobs and the workers are of
\* their types; no job waits that has no attempt left, and none is dead that has
\* one.
THEOREM CallTypeCorrect == CallSpec => []CallTypeOK
<1>1. CallInv => CallTypeOK
  BY DEF CallInv
<1> QED BY <1>1, CallInvariance, PTL

\* advance_call writes the whole story of a call: its audit events lead from
\* "queued" to its status along shortest ways, with none missing and none out of
\* order, whatever the carrier reports and however often.
THEOREM TrailAlwaysTheStory == CallSpec => []TrailIsTheStory
<1>1. CallInv => TrailIsTheStory
  BY DEF CallInv
<1> QED BY <1>1, CallInvariance, PTL

\* The webhook answers what has become of the event: what is accepted is in the
\* past of the call, what is ignored can never be in its future, whatever other
\* requests do before the answer is sent.
THEOREM AnswersAlwaysTrue == CallSpec => []AnswersAreTrue
<1>1. CallInv => AnswersAreTrue
  BY DEF CallInv
<1> QED BY <1>1, CallInvariance, PTL

\* No call is summarised, and no summary asked for, before it has ended.
THEOREM OnlyEndedEverSummarised == CallSpec => []OnlyEndedAreSummarised
<1>1. CallInv => OnlyEndedAreSummarised
  <2> SUFFICES ASSUME CallInv, NEW c \in Calls, c \in summary \/ HasJob(c)
               PROVE  c \in Ended
    BY DEF OnlyEndedAreSummarised, Ended
  <2>1. summary \cup Listed \subseteq Ended /\ \A w \in Workers : WorkerOK(w)
    BY DEF CallInv
  <2>2. InHand(c) => c \in Ended
    BY <2>1 DEF InHand, WorkerOK
  <2>3. HasJob(c) => InHand(c) \/ c \in Listed
    BY DEF HasJob, Listed, CallsIn
  <2> QED BY <2>1, <2>2, <2>3
<1> QED BY <1>1, CallInvariance, PTL

\* No call that has ended, or is simulated, is forgotten but in the two windows
\* the code leaves open, whichever workers and API processes die and whenever.
THEOREM NoCallEverForgotten == CallSpec => []NoCallForgotten
<1>1. CallInv => NoCallForgotten
  <2> SUFFICES ASSUME CallInv, NEW c \in Calls, Due(c)
               PROVE  c \in summary \/ HasJob(c) \/ Running(c) \/ c \in forgotten
    BY DEF NoCallForgotten, Due
  <2>1. c \in Saved \/ Running(c)
    BY DEF CallInv, NoneIsLost
  <2>2. c \in Listed => HasJob(c)
    BY DEF Listed, CallsIn, HasJob
  <2>3. c \in Requeued => HasJob(c)
    <3> SUFFICES ASSUME c \in Requeued PROVE InHand(c)
      BY DEF HasJob
    <3>1. PICK w \in Workers : WorkerAt(w, "requeue") /\ c = worker[w].job.call
      BY DEF Requeued
    <3>2. WorkerOK(w)
      BY DEF CallInv
    <3>3. worker[w].job # NoJob
      BY <3>1, <3>2 DEF WorkerOK, WorkerAt
    <3> QED BY <3>1, <3>3 DEF InHand
  <2> QED BY <2>1, <2>2, <2>3 DEF Saved
<1> QED BY <1>1, CallInvariance, PTL

-----------------------------------------------------------------------------
(* The calls implement their records.                                       *)

\* What ImplementsRecord takes for the state of each call.
RecordOf == [c \in Calls |-> IF call[c] = NoCall THEN NoCall ELSE call[c].status]

\* The states that a walk reaches can come later; no state comes after an end.
LEMMA LaterStates ==
    ASSUME NEW a \in States
    PROVE  /\ \A b \in States \ {a} : Routes[a][b] # NoRoute => b \in Later[a]
           /\ a \in Terminal => Later[a] = {}
<1> DEFINE Ways == {w \in Walks : Head(w) = a /\ Len(w) > 1}
<1>1. Later[a] = {Last(walk) : walk \in Ways}
  BY DEF Later
<1>2. ASSUME NEW b \in States \ {a}, Routes[a][b] # NoRoute
      PROVE  b \in Later[a]
  <2>1. PICK route : route = Routes[a][b]
    OBVIOUS
  <2>2. route \in Walks /\ Head(route) = a /\ Last(route) = b
    BY <1>2, <2>1, RoutesAreShortest
  <2>3. route \in Seq(States) /\ Len(route) \in Nat \ {0}
    BY <2>2, WalksAre
  <2>4. route # <<>> /\ route[1] = a /\ route[Len(route)] = b
    BY <2>2, <2>3, EmptySeq DEF Last
  <2>5. Len(route) # 1
    BY <2>4
  <2>6. Len(route) > 1
    BY <2>3, <2>5
  <2> QED BY <1>1, <2>2, <2>6
<1>3. ASSUME a \in Terminal PROVE Ways = {}
  <2> SUFFICES ASSUME NEW walk \in Ways PROVE FALSE
    OBVIOUS
  <2>1. /\ walk \in Seq(States) /\ Len(walk) \in Nat \ {0} /\ Len(walk) > 1
        /\ \A i \in 1 .. Len(walk) - 1 : walk[i] \notin Terminal
    BY WalksAre
  <2>2. Head(walk) = walk[1] /\ Head(walk) = a
    BY <2>1, EmptySeq
  <2>3. 1 \in 1 .. Len(walk) - 1
    BY <2>1
  <2> QED BY <1>3, <2>1, <2>2, <2>3
<1> QED BY <1>1, <1>2, <1>3

\* A step that writes neither a row nor a summary leaves the records alone.
LEMMA RecordsStay ==
    ASSUME UNCHANGED <<call, summary>>
    PROVE  UNCHANGED Record!vars
BY DEF Record!vars

\* Insert adds the record of a call, or leaves the records alone.
LEMMA InsertAppears ==
    ASSUME CallInv, NEW r \in Requests, Insert(r)
    PROVE  Record!Next \/ UNCHANGED Record!vars
<1>1. UNCHANGED summary /\ HandlerAt(r, "insert") /\ ~HandlerAt(r, "idle")
  BY DEF Insert, queueVars, HandlerAt
<1>2. CASE UNCHANGED call
  BY <1>1, <1>2, RecordsStay
<1>3. CASE call[CallOf(r)] = NoCall /\ call' = [call EXCEPT ![CallOf(r)] = NewCall]
  <2>1. PICK c \in Calls : c = CallOf(r)
    BY <1>1, AtWork
  <2>2. call \in [Calls -> Row \cup {NoCall}]
    BY DEF CallInv, CallTypeOK
  <2>3. call[c] = NoCall /\ call'[c] = NewCall
        /\ \A k \in Calls \ {c} : call'[k] = call[k]
    BY <1>3, <2>1, <2>2
  <2>4. NewCall # NoCall /\ NewCall.status = "queued"
    <3>1. NewCall \in Row
      BY StatesAre DEF NewCall, Row
    <3> QED BY <3>1, NoCallAssumption DEF NewCall
  <2>5. RecordOf[c] = NoCall /\ RecordOf' = [RecordOf EXCEPT ![c] = "queued"]
    BY <2>3, <2>4 DEF RecordOf
  <2>6. Record!Appear(c)
    BY <1>1, <2>5 DEF Record!Appear, RecordOf
  <2> QED BY <2>6 DEF Record!Next
<1> QED BY <1>2, <1>3 DEF Insert

\* Advance moves a record to a state that can come later, or leaves the records
\* alone.
LEMMA AdvanceMoves ==
    ASSUME CallInv, NEW r \in Requests, Advance(r)
    PROVE  Record!Next \/ UNCHANGED Record!vars
<1>1. UNCHANGED summary /\ HandlerAt(r, "advance") /\ ~HandlerAt(r, "idle")
  BY DEF Advance, queueVars, HandlerAt
<1>2. CASE UNCHANGED call
  BY <1>1, <1>2, RecordsStay
<1>3. PICK c \in Calls : c = CallOf(r)
  BY <1>1, AtWork
<1>4. handler[r] \in Handler /\ HandlerOK(r)
  BY <1>1, AtWork
<1>5. PICK seen \in States, target \in States :
         seen = handler[r].seen /\ target = handler[r].target
  BY <1>4 DEF Handler
<1>6. call[c] # NoCall /\ call[c].status = seen
  BY <1>1, <1>3, <1>4, <1>5 DEF HandlerOK
<1>7. CASE /\ Routes[seen][target] # NoRoute /\ seen # target
           /\ call' = [call EXCEPT ![c] = Advanced(@, Routes[seen][target])]
           /\ trail' = [trail EXCEPT ![c] = Append(@,
                 [from |-> seen, inferred |-> Front(Tail(Routes[seen][target])),
                  to |-> target])]
  <2>1. PICK route : route = Routes[call[c].status][target]
    OBVIOUS
  <2>2. /\ call'[c] # NoCall /\ call'[c].status = target
        /\ \A k \in Calls \ {c} : call'[k] = call[k]
    BY <1>6, <1>7, <2>1, AdvancedRow
  <2>3. seen # NoCall /\ target \in Later[seen]
    BY <1>7, LaterStates, NoCallAssumption
  <2>4. RecordOf[c] = seen /\ RecordOf' = [RecordOf EXCEPT ![c] = target]
    BY <1>6, <2>2 DEF RecordOf
  <2>5. Record!Move(c)
    BY <1>1, <2>3, <2>4 DEF Record!Move, RecordOf
  <2> QED BY <2>5 DEF Record!Next
<1> QED BY <1>2, <1>3, <1>5, <1>7 DEF Advance

\* What has ended may be summarised.
LEMMA SummaryWrites ==
    ASSUME CallInv, NEW c \in Ended, summary' = summary \cup {c}, UNCHANGED call
    PROVE  Record!Next
<1>1. c \in Calls /\ call[c] # NoCall /\ call[c].ended = TRUE
  <2>1. CallTypeOK /\ call[c] # NoCall /\ c \in Calls /\ call[c].ended
    BY DEF Ended, CallInv
  <2>2. call[c].ended \in BOOLEAN
    BY <2>1 DEF CallTypeOK, Row
  <2> QED BY <2>1, <2>2
<1>2. call[c].status \in States
  BY <1>1 DEF CallInv, CallTypeOK, Row
<1>3. call[c].status \in Terminal
  <2>1. call[c].ended = (call[c].status \in Terminal)
    BY <1>1 DEF CallInv, TrailIsTheStory
  <2> QED BY <1>1, <2>1
<1>4. RecordOf[c] = call[c].status /\ RecordOf' = RecordOf
  BY <1>1 DEF RecordOf
<1>5. RecordOf[c] # NoCall /\ Later[RecordOf[c]] = {}
  BY <1>2, <1>3, <1>4, LaterStates, NoCallAssumption
<1>6. Record!Summarise(c)
  BY <1>4, <1>5 DEF Record!Summarise, RecordOf
<1> QED BY <1>1, <1>6 DEF Record!Next

\* Every step of the calls, of the requests and of the workers is a step of the
\* records or leaves them as they are.
LEMMA StepIsOfRecord ==
    ASSUME CallInv, [CallNext]_allVars
    PROVE  [Record!Next]_(Record!vars)
<1>1. ASSUME NEW r \in Requests,
             CarrierEvent(r) \/ Simulate(r) \/ Find(r) \/ Fault(r) \/ Answer(r)
      PROVE  UNCHANGED <<call, summary>>
  BY <1>1 DEF CarrierEvent, Simulate, Arrive, Find, Fault, Answer, queueVars
<1>2. ASSUME NEW r \in Requests, Enqueue(r)
      PROVE  Record!Next \/ UNCHANGED Record!vars
  <2>1. HandlerAt(r, "enqueue") /\ ~HandlerAt(r, "idle") /\ UNCHANGED call
    BY <1>2 DEF Enqueue, HandlerAt
  <2>2. PICK c \in Calls : c = CallOf(r)
    BY <2>1, AtWork
  <2>3. call[c] # NoCall /\ call[c].status \in Terminal
    BY <2>1, <2>2, AtWork DEF HandlerOK
  <2>4. c \in Ended
    <3>1. call[c].ended = (call[c].status \in Terminal)
      BY <2>3 DEF CallInv, TrailIsTheStory
    <3>2. (call[c].status \in Terminal) = TRUE
      BY <2>3
    <3> QED BY <2>3, <3>1, <3>2 DEF Ended
  <2>5. summary' = summary \/ summary' = summary \cup {c}
    BY <1>2, <2>2 DEF Enqueue
  <2> QED BY <2>1, <2>4, <2>5, RecordsStay, SummaryWrites
<1>3. ASSUME NEW w \in Workers, WorkerStep(w) \/ CrashWorker(w), UNCHANGED callVars
      PROVE  Record!Next \/ UNCHANGED Record!vars
  <2>1. UNCHANGED call
    BY <1>3 DEF callVars
  <2>2. CASE Summarize(w)
    <3>1. PICK c : c = worker[w].job.call
      OBVIOUS
    <3>2. QueueInv /\ WorkerAt(w, "work")
      BY <2>2 DEF CallInv, CallTypeOK, QueueInv, Summarize
    <3>3. c \in Ended
      BY <3>1, <3>2, JobInHand DEF WorkerAt
    <3>4. summary' = summary \cup {c}
      BY <2>2, <3>1 DEF Summarize
    <3> QED BY <2>1, <3>3, <3>4, SummaryWrites
  <2>3. CASE ~Summarize(w)
    <3>1. summary' = summary
      BY <1>3, <2>3 DEF WorkerStep, CrashWorker, Start, Restore, Take, SummarizeFails,
                        Ack, AckFails, Drop, Requeue
    <3> QED BY <2>1, <3>1, RecordsStay
  <2> QED BY <2>2, <2>3
<1>4. CASE CrashApi \/ UNCHANGED allVars
  <2>1. UNCHANGED <<call, summary>>
    BY <1>4 DEF CrashApi, allVars, callVars, queueVars
  <2> QED BY <2>1, RecordsStay
<1>5. ASSUME NEW r \in Requests, CarrierEvent(r) \/ Simulate(r) \/ HandlerStep(r)
      PROVE  Record!Next \/ UNCHANGED Record!vars
  BY <1>1, <1>2, <1>5, RecordsStay, InsertAppears, AdvanceMoves DEF HandlerStep
<1> QED BY <1>3, <1>4, <1>5 DEF CallNext

\* No call is there at the start.
LEMMA StartsAsRecord == CallInit => Record!Init
  BY DEF CallInit, QueueInit, Record!Init

\* The events, simulations, requests and workers implement the call record:
\* however they interleave, repeat or die, a call moves only to a state that can
\* come after its own and is summarised only in one it never leaves, for good.
THEOREM CallsAreRecords == CallSpec => ImplementsRecord
<1>1. CallInv /\ [CallNext]_allVars => [Record!Next]_(Record!vars)
  BY StepIsOfRecord
<1> QED BY <1>1, StartsAsRecord, CallInvariance, PTL
        DEF CallSpec, ImplementsRecord, Record!Spec
===============================================================================
