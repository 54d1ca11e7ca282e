----------------------------- MODULE MCAdmission -----------------------------
(* Instances of Admission for TLC: limits that the requests of a few ticks     *)
(* reach, for three sessions and one address that logs in.                     *)
EXTENDS Admission

CONSTANTS s1, s2, s3, address, q1, q2

MCKeys == Ids \cup Callers

MCLimitOf == [k \in MCKeys |-> 2]

Symmetry == Permutations(Ids) \cup Permutations(Requests)

=============================================================================
