--------------------------- MODULE MCConfirmations ---------------------------
(***************************************************************************)
(* Small instances of Confirmations for TLC.                                *)
(***************************************************************************)
EXTENDS Confirmations, TLC

CONSTANTS ana, ben, w1, s1, rice, salt, c1, c2, r1, r2, r3

\* One buyer.
OneWorkspaceOf == ana :> w1

\* Two buyers of one workspace, who share its counter.
TwoWorkspaceOf == ana :> w1 @@ ben :> w1

Symmetry == Permutations(Requests) \cup Permutations(ConfirmationIds)
=============================================================================
