------------------------------ MODULE ReadBack -------------------------------
(***************************************************************************)
(* What the buyer can have heard: the details that the gateway has returned *)
(* to the browser, asking for them to be read back and confirmed.           *)
(***************************************************************************)
EXTENDS RealtimeGateway

VARIABLE readBack  \* the details returned for reading back, by session

ReadBackInit == GatewayInit /\ readBack = [s \in Sessions |-> {}]

\* The response of r leaves the server in this step.
Delivered(r) == handler[r].step = "done" /\ handler'[r] = NoHandler

ReadBackNext ==
    /\ GatewayNext
    /\ readBack' = [s \in Sessions |->
          readBack[s] \cup
              {PayloadOf(r) : r \in {q \in Requests :
                  /\ Delivered(q) /\ SessionOf(q) = s
                  /\ handler[q].answer = "confirmation_required"}}]

ReadBackSpec == ReadBackInit /\ [][ReadBackNext]_<<allVars, readBack>>

\* "No enquiry is created until the exact action is read back": the details of
\* every enquiry were returned to the browser of its session before.
CreatedWasReadBack ==
    \A e \in enquiries :
        e.payload \in readBack[confirmations[e.confirmation].session]
=============================================================================
