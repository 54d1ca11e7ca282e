---------------------- MODULE ConfirmationsLedgerProofs -----------------------
(***************************************************************************)
(* Confirmations implements ApprovedWrites: through the refinement mapping  *)
(* of Ledger, the empty database is an empty ledger, and every step of a    *)
(* request proposes, approves, writes, or leaves the ledger as it is.       *)
(***************************************************************************)
EXTENDS ConfirmationsProofs

\* The refinement mapping, component by component.
Rows == {c \in ConfirmationIds : confirmations[c] # NoRow}

Proposal(c) ==
    [id |-> c, buyer |-> confirmations[c].user,
     content |-> confirmations[c].payload]

Proposals == {Proposal(c) : c \in Rows}

Approved ==
    {c \in ConfirmationIds :
        confirmations[c] # NoRow /\ confirmations[c].confirmedAt # Never}

LedgerEntry(e) ==
    [id |-> e.confirmation, ledger |-> e.workspace,
     buyer |-> e.buyer, content |-> e.payload, number |-> e.number]

Entries == {LedgerEntry(e) : e \in enquiries}

\* The components are what Ledger substitutes for the variables it describes.
LEMMA LedgerVars ==
    /\ Ledger!vars = <<Proposals, Approved, Entries, counter>>
    /\ Ledger!vars' = <<Proposals', Approved', Entries', counter'>>
  BY DEF Ledger!vars, Proposals, Proposal, Rows, Approved, Entries, LedgerEntry

\* A step that writes no table leaves the ledger as it is.
LEMMA SameTables ==
    ASSUME UNCHANGED tables
    PROVE  UNCHANGED Ledger!vars
  BY DEF tables, Ledger!vars

\* Rewriting a row that is there leaves the proposals as they are.
LEMMA SameProposals ==
    ASSUME NEW c \in ConfirmationIds, confirmations[c] # NoRow,
           NEW row, row # NoRow,
           row.user = confirmations[c].user,
           row.payload = confirmations[c].payload,
           confirmations \in [ConfirmationIds -> Confirmation \cup {NoRow}],
           confirmations' = [confirmations EXCEPT ![c] = row]
    PROVE  Proposals' = Proposals
<1>1. Rows' = Rows
  BY DEF Rows
<1>2. \A d \in Rows : Proposal(d)' = Proposal(d)
  BY DEF Rows, Proposal
<1> QED BY <1>1, <1>2 DEF Proposals

\* Giving a row the status expired or cancelled leaves the ledger as it is.
LEMMA StatusLedger ==
    ASSUME Inv, NEW c \in ConfirmationIds, confirmations[c] # NoRow,
           NEW status \in {"expired", "cancelled"}, SetStatus(c, status),
           UNCHANGED <<enquiries, counter>>
    PROVE  UNCHANGED Ledger!vars
<1> DEFINE old == confirmations[c]
           row == [old EXCEPT !.status = status]
<1>1. old \in Confirmation
  BY DEF Inv, TypeOK
<1>2. /\ row \in Confirmation /\ row.status = status
      /\ row.user = old.user /\ row.payload = old.payload
      /\ row.confirmedAt = old.confirmedAt
  BY <1>1 DEF Confirmation, Status
<1>3. row # NoRow
  BY <1>2 DEF NoRow
<1>4. confirmations' = [confirmations EXCEPT ![c] = row]
  BY DEF SetStatus, SetRow
<1> HIDE DEF row
<1>5. Proposals' = Proposals
  BY <1>2, <1>3, <1>4, SameProposals DEF Inv, TypeOK
<1>6. Approved' = Approved
  BY <1>2, <1>3, <1>4 DEF Approved, Inv, TypeOK
<1>7. Entries' = Entries
  BY DEF Entries
<1> QED BY <1>5, <1>6, <1>7, LedgerVars

\* prepare_confirmation's insert is a proposal.
LEMMA InsertProposes ==
    ASSUME Inv, NEW r \in Requests, PrepareInsert(r)
    PROVE  Ledger!Next
<1> USE DEF Inv
<1>1. request[r] \in Request /\ request[r].step = "prepare_insert" /\ RequestOK(r)
  BY DEF TypeOK, PrepareInsert
<1>2. PICK c \in ConfirmationIds, u \in Users, p \in Payloads, s \in Sessions :
         /\ c = request[r].id /\ u = request[r].user
         /\ p = request[r].payload /\ s = request[r].session
         /\ confirmations[c] = NoRow
  BY <1>1 DEF RequestOK
<1> DEFINE row == [user |-> u, session |-> s, payload |-> p,
                   status |-> "pending", expires |-> request[r].stamp + TTL,
                   confirmedAt |-> Never, consumedAt |-> Never]
           x == [id |-> c, buyer |-> u, content |-> p]
<1>3. row.status # "absent" /\ row.user = u /\ row.payload = p
      /\ row.confirmedAt = Never
  OBVIOUS
<1>4. row # NoRow
  BY <1>3 DEF NoRow
<1>5. /\ confirmations' = [confirmations EXCEPT ![c] = row]
      /\ UNCHANGED <<enquiries, counter>>
  BY <1>2 DEF PrepareInsert, NewRow, SetRow
<1>6. \A y \in Proposals : y.id # c
  BY <1>2 DEF Proposals, Proposal, Rows
<1> HIDE DEF row
<1>7. Proposals' = Proposals \cup {x}
  <2>1. Rows' = Rows \cup {c}
    BY <1>2, <1>4, <1>5 DEF Rows, TypeOK
  <2>2. \A d \in Rows : Proposal(d)' = Proposal(d)
    BY <1>2, <1>5 DEF Rows, Proposal, TypeOK
  <2>3. Proposal(c)' = x
    <3>1. confirmations'[c] = row
      BY <1>5 DEF TypeOK
    <3> QED BY <1>3, <3>1 DEF Proposal
  <2> QED BY <2>1, <2>2, <2>3 DEF Proposals
<1>8. Approved' = Approved
  BY <1>2, <1>3, <1>5 DEF Approved, TypeOK
<1>9. Entries' = Entries
  BY <1>5 DEF Entries
<1>10. Ledger!Propose(c, u, p)
  BY <1>5, <1>6, <1>7, <1>8, <1>9
     DEF Ledger!Propose, Proposals, Proposal, Rows, Approved, Entries, LedgerEntry
<1> QED BY <1>10 DEF Ledger!Next

\* confirm_confirmation's write is an approval; a second one changes nothing.
LEMMA ConfirmApproves ==
    ASSUME Inv, NEW r \in Requests, ConfirmWrite(r)
    PROVE  Ledger!Next
<1> USE DEF Inv
<1>1. request[r] \in Request /\ request[r].step = "confirm_write" /\ RequestOK(r)
  BY DEF TypeOK, ConfirmWrite
<1>2. PICK c \in ConfirmationIds : c = request[r].id /\ confirmations[c] # NoRow
  BY <1>1 DEF RequestOK
<1> DEFINE old == confirmations[c]
           row == [old EXCEPT !.status = "confirmed",
                              !.confirmedAt = request[r].stamp]
<1>3. old \in Confirmation /\ request[r].stamp \in Nat /\ request[r].stamp # Never
  BY <1>1, <1>2 DEF TypeOK, Request, RequestOK
<1>4. /\ row \in Confirmation /\ row.user = old.user
      /\ row.payload = old.payload /\ row.confirmedAt = request[r].stamp
  BY <1>3 DEF Confirmation, Status
<1>5. row # NoRow
  BY <1>4 DEF NoRow, Confirmation, Status
<1>6. /\ confirmations' = [confirmations EXCEPT ![c] = row]
      /\ UNCHANGED <<enquiries, counter>>
  BY <1>2 DEF ConfirmWrite, SetRow
<1> HIDE DEF row
<1>7. Proposals' = Proposals
  BY <1>2, <1>4, <1>5, <1>6, SameProposals DEF TypeOK
<1>8. Approved' = Approved \cup {c}
  <2>1. confirmations'[c] = row /\ row.confirmedAt # Never
    BY <1>3, <1>4, <1>6 DEF TypeOK
  <2>2. \A d \in ConfirmationIds \ {c} : confirmations'[d] = confirmations[d]
    BY <1>6 DEF TypeOK
  <2>3. c \in Approved'
    BY <2>1, <1>5 DEF Approved
  <2>4. \A d \in ConfirmationIds \ {c} : d \in Approved' <=> d \in Approved
    BY <2>2 DEF Approved
  <2>5. Approved \subseteq ConfirmationIds /\ Approved' \subseteq ConfirmationIds
    BY DEF Approved
  <2> HIDE DEF Inv
  <2> QED BY <2>3, <2>4, <2>5
<1>9. Entries' = Entries
  BY <1>6 DEF Entries
<1>10. PICK x \in Proposals : x.id = c
  <2>1. Proposal(c) \in Proposals
    BY <1>2 DEF Proposals, Rows
  <2>2. Proposal(c).id = c
    BY DEF Proposal
  <2> QED BY <2>1, <2>2
<1>11. Ledger!Approve(x)
  BY <1>6, <1>7, <1>8, <1>9, <1>10
     DEF Ledger!Approve, Proposals, Proposal, Rows, Approved, Entries, LedgerEntry
<1> QED BY <1>10, <1>11 DEF Ledger!Next, Proposals, Proposal, Rows

\* consume_confirmation's commit writes the next entry of the ledger.
LEMMA CommitWrites ==
    ASSUME Inv, NEW r \in Requests, ConsumeCommit(r)
    PROVE  Ledger!Next
<1> USE DEF Inv
<1>1. PICK c \in ConfirmationIds, u \in Users, p \in Payloads, w \in Workspaces :
         /\ c = request[r].id /\ u = request[r].user
         /\ p = request[r].payload /\ w = WorkspaceOf[u]
  BY CommitFacts
<1> DEFINE old == confirmations[c]
           row == [old EXCEPT !.status = "consumed",
                              !.consumedAt = request[r].stamp]
           e == [workspace |-> w, buyer |-> u, number |-> counter[w],
                 payload |-> p, confirmation |-> c]
<1>2. /\ old \in Confirmation /\ old # NoRow
      /\ old.user = u /\ old.payload = p /\ old.confirmedAt # Never
      /\ request[r].stamp \in Nat
      /\ confirmations' = [confirmations EXCEPT ![c] = row]
      /\ e \in Enquiry
      /\ enquiries' = enquiries \cup {e}
      /\ \A d \in enquiries : d.confirmation # c
      /\ counter' = [counter EXCEPT ![w] = counter[w] + 1]
  BY <1>1, CommitFacts
<1>3. /\ row \in Confirmation /\ row.user = u /\ row.payload = p
      /\ row.confirmedAt = old.confirmedAt
  BY <1>2 DEF Confirmation, Status
<1>4. row # NoRow
  BY <1>3 DEF NoRow, Confirmation, Status
<1> HIDE DEF row
<1>5. Proposals' = Proposals
  BY <1>2, <1>3, <1>4, SameProposals DEF TypeOK
<1>6. Approved' = Approved
  BY <1>2, <1>3, <1>4 DEF Approved, TypeOK
<1> DEFINE x == [id |-> c, buyer |-> u, content |-> p]
           y == [id |-> c, ledger |-> w, buyer |-> u, content |-> p,
                 number |-> counter[w]]
<1>7. Entries' = Entries \cup {y}
  BY <1>2 DEF Entries, LedgerEntry
<1>8. x \in Proposals /\ x.id = c /\ c \in Approved
  BY <1>2 DEF Proposals, Proposal, Rows, Approved
<1>9. \A z \in Entries : z.id # c
  BY <1>2 DEF Entries, LedgerEntry
<1>10. Ledger!Write(x)
  BY <1>1, <1>2, <1>5, <1>6, <1>7, <1>8, <1>9
     DEF Ledger!Write, Proposals, Proposal, Rows, Approved, Entries, LedgerEntry
<1> QED BY <1>8, <1>10 DEF Ledger!Next, Proposals, Proposal, Rows

-----------------------------------------------------------------------------

\* Every step of the service is a step of the ledger or leaves it as it is.
LEMMA StepImplements ==
    ASSUME Inv, [Next]_vars
    PROVE  [Ledger!Next]_(Ledger!vars)
<1>1. CASE Tick \/ UNCHANGED vars
  BY <1>1, SameTables DEF Tick, vars
<1>2. ASSUME NEW r \in Requests, Arrive(r) \/ Return(r) \/ Abort(r)
      PROVE  UNCHANGED Ledger!vars
  <2>1. UNCHANGED tables
    BY <1>2 DEF Arrive, PrepareReuse, PrepareMiss, ConfirmRead, CancelRead,
                ConsumeBegin, Return, Abort
  <2> QED BY <2>1, SameTables
<1>3. ASSUME NEW r \in Requests, Advance(r)
      PROVE  Ledger!Next \/ UNCHANGED Ledger!vars
  <2>1. CASE \/ ConfirmCheck(r) \/ ConsumeLock(r) \/ ConsumeExamine(r)
             \/ ConsumeNumber(r) \/ ConsumeRollback(r) \/ ConsumeLookup(r)
    <3>1. UNCHANGED tables
      BY <2>1 DEF ConfirmCheck, ConsumeLock, ConsumeExamine, ConsumeNumber,
                  ConsumeRollback, ConsumeLookup
    <3> QED BY <3>1, SameTables
  <2>2. CASE ConfirmExpire(r) \/ CancelWrite(r) \/ ConsumeExpire(r)
    <3>1. PICK c \in ConfirmationIds :
             c = request[r].id /\ confirmations[c] # NoRow
      BY <2>2 DEF ConfirmExpire, CancelWrite, ConsumeExpire, Inv, RequestOK
    <3>2. /\ SetStatus(c, "expired") \/ SetStatus(c, "cancelled")
          /\ UNCHANGED <<enquiries, counter>>
      BY <2>2, <3>1 DEF ConfirmExpire, CancelWrite, ConsumeExpire
    <3> QED BY <3>1, <3>2, StatusLedger
  <2> QED BY <1>2, <1>3, <2>1, <2>2, InsertProposes, ConfirmApproves,
             CommitWrites DEF Advance
<1> QED BY <1>1, <1>2, <1>3 DEF Next

\* The empty database is the empty ledger.
LEMMA InitImplements == Init => Ledger!Init
  BY DEF Init, Ledger!Init

\* The four functions implement the ledger of approved writes, on both databases
\* and however their steps interleave: nothing is written that was not proposed
\* and approved, nothing twice, nothing changed, and no number is skipped.
THEOREM Implements == Spec => ImplementsLedger
<1>1. Inv /\ [Next]_vars => [Ledger!Next]_(Ledger!vars)
  BY StepImplements
<1> QED BY <1>1, InitImplements, Invariance, PTL
        DEF Spec, ImplementsLedger, Ledger!Spec

-----------------------------------------------------------------------------

\* The audit event of an enquiry.
AuditOf(e) ==
    [workspace |-> e.workspace, actor |-> e.buyer, number |-> e.number,
     confirmation |-> e.confirmation]

\* The commit is the only step that writes either table, and it writes both.
LEMMA AuditStep ==
    ASSUME Inv, AuditTrailMatches, [Next]_vars
    PROVE  AuditTrailMatches'
<1>1. CASE UNCHANGED <<enquiries, audits>>
  BY <1>1 DEF AuditTrailMatches
<1>2. ASSUME NEW r \in Requests, ConsumeCommit(r)
      PROVE  AuditTrailMatches'
  <2>1. PICK x \in Enquiry :
           /\ enquiries' = enquiries \cup {x}
           /\ audits' = audits \cup {AuditOf(x)}
    <3>1. PICK c \in ConfirmationIds, u \in Users, p \in Payloads, w \in Workspaces :
             /\ c = request[r].id /\ u = request[r].user
             /\ p = request[r].payload /\ w = WorkspaceOf[u]
      BY <1>2, CommitFacts
    <3> DEFINE e == [workspace |-> w, buyer |-> u, number |-> counter[w],
                     payload |-> p, confirmation |-> c]
    <3>2. /\ e \in Enquiry
          /\ enquiries' = enquiries \cup {e}
          /\ audits' = audits \cup {AuditOf(e)}
      BY <1>2, <3>1, CommitFacts DEF AuditOf
    <3> QED BY <3>2
  <2>2. audits = {AuditOf(e) : e \in enquiries}
    BY DEF AuditTrailMatches, AuditOf
  <2>3. audits' = {AuditOf(d) : d \in enquiries'}
    BY <2>1, <2>2
  <2> QED BY <2>3 DEF AuditTrailMatches, AuditOf
<1>3. UNCHANGED <<enquiries, audits>>
      \/ \E r \in Requests : ConsumeCommit(r)
  <2>1. CASE Tick \/ UNCHANGED vars
    BY <2>1 DEF Tick, vars, tables
  <2>2. ASSUME NEW r \in Requests, Arrive(r) \/ Abort(r)
        PROVE  UNCHANGED <<enquiries, audits>>
    BY <2>2 DEF Arrive, PrepareReuse, PrepareMiss, ConfirmRead, CancelRead,
                ConsumeBegin, Abort, tables
  <2>3. ASSUME NEW r \in Requests, Advance(r)
        PROVE  UNCHANGED <<enquiries, audits>> \/ ConsumeCommit(r)
    BY <2>3 DEF Advance, PrepareInsert, ConfirmCheck, ConfirmExpire,
                ConfirmWrite, CancelWrite, ConsumeLock, ConsumeExamine,
                ConsumeExpire, ConsumeNumber, ConsumeRollback, ConsumeLookup,
                Return, tables
  <2> QED BY <2>1, <2>2, <2>3 DEF Next
<1> QED BY <1>1, <1>2, <1>3

\* An enquiry and its audit event are committed together or not at all.
THEOREM AuditTrailComplete == Spec => []AuditTrailMatches
<1>1. Init => AuditTrailMatches
  BY DEF Init, AuditTrailMatches
<1>2. Inv /\ AuditTrailMatches /\ [Next]_vars => AuditTrailMatches'
  BY AuditStep
<1> QED BY <1>1, <1>2, Invariance, PTL DEF Spec
=============================================================================
