----------------------------- MODULE RateLimiter -----------------------------
(***************************************************************************)
(* SlidingWindowLimiter of backend/app/rate_limit.py: the instants of the   *)
(* recent requests of each key, oldest first.  Every caller asks for the    *)
(* same window, so the widest one ever used is that window.  The operators  *)
(* are the critical section of check: now was read before the lock.         *)
(***************************************************************************)
EXTENDS Integers, SequencesExt

CONSTANTS
    Keys,          \* "login:<address>", "simulate:<workspace>", "tools:<session>"
    LimitOf,       \* the limit the caller of each key gives
    Window,        \* window_seconds
    SweepInterval  \* SWEEP_INTERVAL_SECONDS

ASSUME LimiterAssumption ==
    /\ LimitOf \in [Keys -> Nat \ {0}]
    /\ Window \in Nat \ {0}
    /\ SweepInterval \in Nat \ {0}

VARIABLES
    events,    \* _events: a sequence of instants for every key it tracks
    lastSweep  \* _last_sweep

limiterVars == <<events, lastSweep>>

LimiterInit ==
    /\ events = <<>>
    /\ lastSweep = 0

\* The elements of s from the first of these positions on.
FromFirst(s, positions) ==
    IF positions = {} THEN <<>> ELSE SubSeq(s, Min(positions), Len(s))

SweepDue(now) == now - lastSweep >= SweepInterval

\* Mutant: the sweep looks for the keys without an event, and finds none.
StaleEmpty(now) == {k \in DOMAIN events : events[k] = <<>>}

\* Mutant: the sweep looks at the oldest event of a key, not at the newest.
StaleOldest(now) ==
    {k \in DOMAIN events : now - Head(events[k]) >= Window}

Stale(now) == {k \in DOMAIN events : now - Last(events[k]) >= Window}

Swept(now) ==
    IF SweepDue(now) THEN Restrict(events, DOMAIN events \ Stale(now)) ELSE events

\* The events of a key after its expired ones were taken from the front: an
\* expired event behind one that is not expired stays, unless the sweep, which
\* looks at the last event, takes them all.
Current(key, now) ==
    LET tracked == Swept(now)
        queue == IF key \in DOMAIN tracked THEN tracked[key] ELSE <<>>
    IN  FromFirst(queue, {i \in DOMAIN queue : now - queue[i] < Window})

\* Mutant: one more than the limit.
AdmitsOneMore(key, now) == Len(Current(key, now)) <= LimitOf[key]

Admits(key, now) == Len(Current(key, now)) < LimitOf[key]

Check(key, now) ==
    LET tracked == Swept(now)
        current == Current(key, now)
        left == IF Admits(key, now) THEN Append(current, now) ELSE current
    IN  /\ events' = [k \in DOMAIN tracked \cup {key} |->
                         IF k = key THEN left ELSE tracked[k]]
        /\ lastSweep' = IF SweepDue(now) THEN now ELSE lastSweep

=============================================================================
