----------------------------- MODULE MCReadBack ------------------------------
(***************************************************************************)
(* A small instance of ReadBack for TLC, with the constants of              *)
(* MCRealtimeGateway.                                                       *)
(***************************************************************************)
EXTENDS ReadBack, MCRealtimeGateway
=============================================================================
