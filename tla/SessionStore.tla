----------------------------- MODULE SessionStore -----------------------------
(***************************************************************************)
(* RealtimeSessionStore of backend/app/voice/openai_realtime.py: an ordered *)
(* dictionary of at most MaxSessions sessions, the least recently used one  *)
(* first.  The operators are critical sections of its lock; now was read    *)
(* before the lock was taken.  What a session remembers is in               *)
(* RealtimeGateway.                                                         *)
(***************************************************************************)
EXTENDS Integers, SequencesExt

CONSTANTS
    Ids,          \* the session identifiers that can be issued
    MaxSessions,  \* max_sessions
    TTL           \* ttl_seconds

ASSUME StoreAssumption ==
    /\ MaxSessions \in Nat \ {0}
    /\ TTL \in Nat

VARIABLE store  \* _sessions: identifier and last_seen_at of each

StoreInit == store = <<>>

Stored == {store[i].id : i \in DOMAIN store}

\* The entries of list but the one for this identifier: OrderedDict.pop.
Without(list, id) == RemoveFirstMatch(list, LAMBDA entry : entry.id = id)

\* The elements of list at these positions, in their order: the SelectSeq that
\* the proofs can reason about.
Keep(list, positions) ==
    [n \in 1 .. Cardinality(positions) |->
        list[CHOOSE i \in positions : Cardinality(positions \cap 1 .. i) = n]]

\* _prune_locked: the expired sessions go, then the least recently used ones
\* until there is room for one more.
Pruned(now) ==
    LET alive == Keep(store, {i \in DOMAIN store : now - store[i].seen <= TTL})
        extra == Len(alive) - (MaxSessions - 1)
    IN  IF extra > 0 THEN SubSeq(alive, extra + 1, Len(alive)) ELSE alive

Create(id, now) == store' = Append(Pruned(now), [id |-> id, seen |-> now])

HasEntry(list, id) == \E i \in DOMAIN list : list[i].id = id

Finds(id, now) == HasEntry(Pruned(now), id)

\* Mutant: a session that is found keeps its place in the order.
GetInPlace(id, now) ==
    store' = [i \in DOMAIN Pruned(now) |->
                 IF Pruned(now)[i].id = id
                 THEN [id |-> id, seen |-> now]
                 ELSE Pruned(now)[i]]

\* A session that is found moves to the end.
Get(id, now) ==
    LET kept == Pruned(now)
    IN  store' = IF HasEntry(kept, id)
                 THEN Append(Without(kept, id), [id |-> id, seen |-> now])
                 ELSE kept

Delete(id) == store' = Without(store, id)

=============================================================================
