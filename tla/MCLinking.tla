----------------------------- MODULE MCLinking -----------------------------
(* One identity and two addresses, one of them with two spellings.         *)
EXTENDS Linking, TLC

MCSpellings == {"ann", "Ann", "bob"}
MCLower == [s \in MCSpellings |-> IF s = "Ann" THEN "ann" ELSE s]

Symmetry == Permutations(Workers) \cup Permutations(Users) \cup Permutations(Identities)
=============================================================================
