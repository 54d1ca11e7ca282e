------------------------------ MODULE MCPostCall ------------------------------
(***************************************************************************)
(* A small instance of PostCall for TLC: one call of a carrier, one that is *)
(* simulated.                                                               *)
(***************************************************************************)
EXTENDS PostCall

CONSTANTS carried, simulated, r1, r2, v1
=============================================================================
