--------------------------- MODULE ApprovedWrites ----------------------------
(***************************************************************************)
(* What the confirmation service promises, without rows, locks, clocks or   *)
(* requests: a buyer's proposal is written to the ledger of the buyer's     *)
(* workspace only after it was approved, at most once, exactly as it was    *)
(* proposed, and under the next number of that ledger.                      *)
(***************************************************************************)
EXTENDS Integers

CONSTANTS Buyers, Ledgers, LedgerOf, Contents, ProposalIds, First

VARIABLES
    proposals,  \* the proposals made, each with its buyer and content
    approved,   \* the identifiers of the proposals their buyers approved
    entries,    \* the entries of all ledgers
    next        \* the number the next entry of each ledger will have

vars == <<proposals, approved, entries, next>>

Init ==
    /\ proposals = {}
    /\ approved = {}
    /\ entries = {}
    /\ next = [w \in Ledgers |-> First]

Propose(p, buyer, content) ==
    /\ \A x \in proposals : x.id # p
    /\ proposals' = proposals \cup {[id |-> p, buyer |-> buyer, content |-> content]}
    /\ UNCHANGED <<approved, entries, next>>

Approve(x) ==
    /\ approved' = approved \cup {x.id}
    /\ UNCHANGED <<proposals, entries, next>>

Write(x) ==
    LET w == LedgerOf[x.buyer] IN
    /\ x.id \in approved
    /\ \A e \in entries : e.id # x.id
    /\ entries' = entries \cup
           {[id |-> x.id, ledger |-> w, buyer |-> x.buyer,
             content |-> x.content, number |-> next[w]]}
    /\ next' = [next EXCEPT ![w] = next[w] + 1]
    /\ UNCHANGED <<proposals, approved>>

Next ==
    \/ \E p \in ProposalIds, buyer \in Buyers, content \in Contents :
          Propose(p, buyer, content)
    \/ \E x \in proposals : Approve(x) \/ Write(x)

Spec == Init /\ [][Next]_vars
=============================================================================
