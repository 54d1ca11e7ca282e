-------------------------- MODULE MCRealtimeGateway --------------------------
(***************************************************************************)
(* Small instances of RealtimeGateway for TLC.                              *)
(***************************************************************************)
EXTENDS RealtimeGateway, TLC

CONSTANTS ana, w1, s1, s2, rice, salt, c1, c2, c3, r1, r2, k1, k2, k3, k4

OneWorkspaceOf == ana :> w1

\* Calls with the same details, or one that changes them.
TwoCalls == k1 :> rice @@ k2 :> rice
ThreeCalls == k1 :> rice @@ k2 :> rice @@ k3 :> rice
OtherDetails == k1 :> rice @@ k2 :> rice @@ k3 :> salt @@ k4 :> rice

CallsMade ==
    {handler[r].call : r \in Requests} \cup
        UNION {{completed[s][i].call : i \in DOMAIN completed[s]} : s \in Sessions}

Handlers(s) == {r \in Requests : handler[r].session = s}

\* Beside each other: two sessions that make two calls with the same details, with
\* one handler at work in each, until one of them has its second answer; or one
\* session with any handlers and three calls, or one call and one of an
\* unregistered tool.
FewCalls ==
    LET made == CallsMade \ {Nothing} IN
    \/ /\ made \subseteq {k1, k2}
       /\ \A s \in Sessions : Len(completed[s]) <= 1 /\ Cardinality(Handlers(s)) <= 1
    \/ /\ \E s \in Sessions : owner[s] = Nothing
       /\ \/ made \subseteq {k1, k2, k3}
          \/ Cardinality(made) <= 2

Symmetry == Permutations(Requests) \cup Permutations(ConfirmationIds)

\* k1 and k2 are calls with the same details.
CallSymmetry == Symmetry \cup Permutations({k1, k2})

SessionSymmetry == CallSymmetry \cup Permutations(Sessions)
=============================================================================
