----------------------------- MODULE SummaryQueue -----------------------------
(***************************************************************************)
(* The queue of call summaries (backend/app/services/summaries.py) and its  *)
(* worker (backend/app/worker.py).  Jobs live in three Redis lists.  A      *)
(* worker moves a job to the processing list, writes the summary of its     *)
(* call and removes the job; a job that failed is pushed back, or to the    *)
(* dead letters after MaxAttempts.  Every Redis command is a step of its    *)
(* own, and a worker may die between any two.  The head of a sequence is    *)
(* the left end of its list.                                                *)
(***************************************************************************)
EXTENDS Naturals, SequencesExt

CONSTANTS
    Calls,        \* identifiers of calls
    Workers,      \* worker processes
    MaxAttempts,  \* MAX_SUMMARY_ATTEMPTS
    MaxCrashes,   \* bound: crashes of a process in a behaviour
    NoJob         \* the job of a worker that holds none

VARIABLES
    waiting,     \* the list tradevoice:call-summaries
    processing,  \* ... :processing
    dead,        \* ... :dead
    worker,      \* what each worker is doing, and the job it has in hand
    summary,     \* the calls whose summary is written
    forgotten,   \* history: the calls whose job or handler died with a process
    crashes      \* bound: the crashes so far

lists == <<waiting, processing, dead>>
queueVars == <<lists, worker, summary, forgotten, crashes>>

Job == [call : Calls, attempt : 0 .. MaxAttempts]

ASSUME QueueAssumption ==
    /\ MaxAttempts \in Nat \ {0}
    /\ MaxCrashes \in Nat
    /\ NoJob \notin Job

WorkerSteps == {"down", "restore", "poll", "work", "ack", "drop", "requeue"}

QueueTypeOK ==
    /\ waiting \in Seq([call : Calls, attempt : 0 .. MaxAttempts - 1])
    /\ processing \in Seq([call : Calls, attempt : 0 .. MaxAttempts - 1])
    /\ dead \in Seq([call : Calls, attempt : {MaxAttempts}])
    /\ worker \in [Workers -> [step : WorkerSteps, job : Job \cup {NoJob}]]
    /\ summary \subseteq Calls
    /\ forgotten \subseteq Calls
    /\ crashes \in 0 .. MaxCrashes

Down == [step |-> "down", job |-> NoJob]

QueueInit ==
    /\ waiting = <<>> /\ processing = <<>> /\ dead = <<>>
    /\ worker = [w \in Workers |-> Down]
    /\ summary = {}
    /\ forgotten = {}
    /\ crashes = 0

-----------------------------------------------------------------------------

WorkerAt(w, step) == worker[w].step = step

Become(w, step, job) ==
    worker' = [worker EXCEPT ![w] = [step |-> step, job |-> job]]

FirstAttempt(c) == [call |-> c, attempt |-> 0]

NextAttempt(job) == [job EXCEPT !.attempt = @ + 1]

\* RPUSH of a new job.
Push(c) == waiting' = Append(waiting, FirstAttempt(c))

\* LREM key 1 item: of equal items, the one nearest to the head.
Acknowledge(job) == processing' = RemoveFirst(processing, job)

-----------------------------------------------------------------------------
(* The worker.                                                              *)

Start(w) ==
    /\ WorkerAt(w, "down")
    /\ Become(w, "restore", NoJob)
    /\ UNCHANGED <<lists, summary, forgotten, crashes>>

\* Mutant: interrupted jobs stay where they are.
RestoreNothing(w) ==
    /\ WorkerAt(w, "restore")
    /\ Become(w, "poll", NoJob)
    /\ UNCHANGED <<lists, summary, forgotten, crashes>>

\* One RPOPLPUSH from the processing list, until it is empty; the jobs of
\* workers that are running are moved as well.
Restore(w) ==
    /\ WorkerAt(w, "restore")
    /\ \/ /\ processing # <<>>
          /\ waiting' = <<Last(processing)>> \o waiting
          /\ processing' = Front(processing)
          /\ UNCHANGED <<dead, worker>>
       \/ /\ processing = <<>>
          /\ Become(w, "poll", NoJob)
          /\ UNCHANGED lists
    /\ UNCHANGED <<summary, forgotten, crashes>>

\* Mutant: BRPOP, the job is in no list while the worker has it.
TakeOut(w) ==
    /\ WorkerAt(w, "poll") /\ waiting # <<>>
    /\ waiting' = Front(waiting)
    /\ Become(w, "work", Last(waiting))
    /\ UNCHANGED <<processing, dead, summary, forgotten, crashes>>

\* BRPOPLPUSH: from the end at which jobs are pushed.
Take(w) ==
    /\ WorkerAt(w, "poll") /\ waiting # <<>>
    /\ waiting' = Front(waiting)
    /\ processing' = <<Last(waiting)>> \o processing
    /\ Become(w, "work", Last(waiting))
    /\ UNCHANGED <<dead, summary, forgotten, crashes>>

Summarize(w) ==
    /\ WorkerAt(w, "work")
    /\ summary' = summary \cup {worker[w].job.call}
    /\ Become(w, "ack", worker[w].job)
    /\ UNCHANGED <<lists, forgotten, crashes>>

\* The database cannot be reached, or the write fails.
SummarizeFails(w) ==
    /\ WorkerAt(w, "work")
    /\ Become(w, "drop", worker[w].job)
    /\ UNCHANGED <<lists, summary, forgotten, crashes>>

Ack(w) ==
    /\ WorkerAt(w, "ack")
    /\ Acknowledge(worker[w].job)
    /\ Become(w, "poll", NoJob)
    /\ UNCHANGED <<waiting, dead, summary, forgotten, crashes>>

\* The removal fails, or its reply is lost, and the handler of exceptions takes
\* over: a job that was done is tried again.
AckFails(w) ==
    /\ WorkerAt(w, "ack")
    /\ Acknowledge(worker[w].job) \/ UNCHANGED processing
    /\ Become(w, "drop", worker[w].job)
    /\ UNCHANGED <<waiting, dead, summary, forgotten, crashes>>

Drop(w) ==
    /\ WorkerAt(w, "drop")
    /\ Acknowledge(worker[w].job)
    /\ Become(w, "requeue", worker[w].job)
    /\ UNCHANGED <<waiting, dead, summary, forgotten, crashes>>

\* Mutant: one attempt too many.
RequeueLate(w) ==
    LET job == NextAttempt(worker[w].job) IN
    /\ WorkerAt(w, "requeue")
    /\ \/ /\ job.attempt <= MaxAttempts
          /\ waiting' = Append(waiting, job)
          /\ UNCHANGED dead
       \/ /\ job.attempt > MaxAttempts
          /\ dead' = Append(dead, job)
          /\ UNCHANGED waiting
    /\ Become(w, "poll", NoJob)
    /\ UNCHANGED <<processing, summary, forgotten, crashes>>

Requeue(w) ==
    LET job == NextAttempt(worker[w].job) IN
    /\ WorkerAt(w, "requeue")
    /\ \/ /\ job.attempt < MaxAttempts
          /\ waiting' = Append(waiting, job)
          /\ UNCHANGED dead
       \/ /\ job.attempt >= MaxAttempts
          /\ dead' = Append(dead, job)
          /\ UNCHANGED waiting
    /\ Become(w, "poll", NoJob)
    /\ UNCHANGED <<processing, summary, forgotten, crashes>>

\* The worker dies, or loses Redis, which it does not survive.  A failed job
\* that is in no list dies with it.
CrashWorker(w) ==
    /\ ~WorkerAt(w, "down") /\ crashes < MaxCrashes
    /\ crashes' = crashes + 1
    /\ Become(w, "down", NoJob)
    /\ forgotten' = forgotten \cup
          (IF WorkerAt(w, "requeue") THEN {worker[w].job.call} ELSE {})
    /\ UNCHANGED <<lists, summary>>

WorkerStep(w) ==
    \/ Start(w) \/ Restore(w) \/ Take(w) \/ Summarize(w) \/ SummarizeFails(w)
    \/ Ack(w) \/ AckFails(w) \/ Drop(w) \/ Requeue(w)

-----------------------------------------------------------------------------

InHand(c) ==
    \E w \in Workers : worker[w].job # NoJob /\ worker[w].job.call = c

\* Some list or some worker has a job of the call.
HasJob(c) ==
    \/ \E l \in {waiting, processing, dead} :
          \E i \in DOMAIN l : l[i].call = c
    \/ InHand(c)
=============================================================================
