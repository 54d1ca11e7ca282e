----------------------------- MODULE CallRecord ------------------------------
(***************************************************************************)
(* What a call record promises its readers, without events, handlers, jobs  *)
(* or processes: a call appears in the first state, moves only to states    *)
(* that can come after the one it is in, and has a summary, which it keeps, *)
(* only once it is in a state it never leaves.                              *)
(***************************************************************************)
CONSTANTS
    Calls,
    First,     \* the state of a new call
    Later,     \* the states that can come after each state
    NoState    \* a call that is not there yet

VARIABLES
    state,      \* the state of each call
    summarised  \* the calls that have a summary

vars == <<state, summarised>>

Init ==
    /\ state = [c \in Calls |-> NoState]
    /\ summarised = {}

Appear(c) ==
    /\ state[c] = NoState
    /\ state' = [state EXCEPT ![c] = First]
    /\ UNCHANGED summarised

Move(c) ==
    /\ state[c] # NoState
    /\ \E next \in Later[state[c]] : state' = [state EXCEPT ![c] = next]
    /\ UNCHANGED summarised

Summarise(c) ==
    /\ state[c] # NoState
    /\ Later[state[c]] = {}
    /\ summarised' = summarised \cup {c}
    /\ UNCHANGED state

Next == \E c \in Calls : Appear(c) \/ Move(c) \/ Summarise(c)

Spec == Init /\ [][Next]_vars
=============================================================================
