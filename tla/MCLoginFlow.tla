---------------------------- MODULE MCLoginFlow ----------------------------
(* LoginFlow with two users, two tabs of one browser and two session       *)
(* keys.  The sets are interchangeable model values and no property is a   *)
(* liveness property, so states are taken up to a permutation of each.     *)
EXTENDS LoginFlow, TLC

Symmetry == Permutations(Users) \cup Permutations(Workers) \cup Permutations(Keys)
=============================================================================
