----------------------------- MODULE MCAccounts ----------------------------
(* Accounts with two requests at once and three sessions.                  *)
EXTENDS Accounts, TLC

Symmetry == Permutations(Workers) \cup Permutations(Sessions)
=============================================================================
