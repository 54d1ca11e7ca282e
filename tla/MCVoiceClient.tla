---------------------------- MODULE MCVoiceClient ----------------------------
(* Instances of VoiceClient for TLC.                                           *)
EXTENDS VoiceClient, TLC

CONSTANTS a, b, k1, k2

Symmetry == Permutations(Clients) \cup Permutations(Calls)
=============================================================================
