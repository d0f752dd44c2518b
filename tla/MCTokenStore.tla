---------------------------- MODULE MCTokenStore ---------------------------
(* TokenStore with short lives: the email link lives for a tick, the other *)
(* two expire within one, and a worker is killed after one tick.           *)
EXTENDS TokenStore, TLC

MCTTL == [k \in Kinds |-> IF k = "email" THEN 1 ELSE 0]

Symmetry == Permutations(Tokens) \cup Permutations(Workers)
=============================================================================
