------------------------------- MODULE MCMfa -------------------------------
(* Mfa with two requests at once and batches of two codes.                 *)
EXTENDS Mfa, TLC

Symmetry == Permutations(Workers) \cup Permutations(Devices) \cup Permutations(Codes)
=============================================================================
