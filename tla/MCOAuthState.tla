---------------------------- MODULE MCOAuthState ----------------------------
(* OAuthState with two browsers and two requests at once.  All sets are    *)
(* interchangeable and no property is a liveness property.                 *)
EXTENDS OAuthState, TLC

Symmetry ==
    Permutations(Browsers) \cup Permutations(Workers) \cup Permutations(Keys)
      \cup Permutations(States) \cup Permutations(Providers)
=============================================================================
