---------------------------- MODULE OneTimeLink ----------------------------
(***************************************************************************)
(* What an emailed link promises, with no table, worker or statement: it   *)
(* is honoured at most MaxGrants times, never later than Grace after its   *)
(* time to live, and an address is verified only by honouring a link that  *)
(* proves it, or by an administrator.                                      *)
(***************************************************************************)
EXTENDS Integers

CONSTANTS Tokens, Kinds, ProvingKinds, TTL, Grace, MaxGrants, NoKind

VARIABLES
    kind,       \* per token: its kind, or NoKind before it is issued
    age,        \* per token: ticks since it was issued
    grants,     \* per token: how often it was honoured
    verified    \* is the address verified

vars == <<kind, age, grants, verified>>

Init ==
    /\ kind = [t \in Tokens |-> NoKind]
    /\ age = [t \in Tokens |-> 0]
    /\ grants = [t \in Tokens |-> 0]
    /\ verified \in BOOLEAN

Issue(t, k) ==
    /\ kind[t] = NoKind
    /\ kind' = [kind EXCEPT ![t] = k]
    /\ UNCHANGED <<age, grants, verified>>

Grant(t) ==
    /\ kind[t] # NoKind
    /\ grants[t] < MaxGrants
    /\ age[t] <= TTL[kind[t]] + Grace
    /\ grants' = [grants EXCEPT ![t] = @ + 1]
    /\ verified' \in {verified, verified \/ kind[t] \in ProvingKinds}
    /\ UNCHANGED <<kind, age>>

(* The administrator says whether the address is verified.                 *)
Edit ==
    /\ verified' \in BOOLEAN
    /\ UNCHANGED <<kind, age, grants>>

(* Links grow older; how old a link past its deadline is does not matter.  *)
Tick ==
    /\ age' \in [Tokens -> Nat]
    /\ \A t \in Tokens :
         \/ age'[t] = age[t] + 1
         \/ age'[t] = age[t] /\ (kind[t] = NoKind \/ age[t] > TTL[kind[t]] + Grace)
    /\ UNCHANGED <<kind, grants, verified>>

Next ==
    \/ \E t \in Tokens : Grant(t) \/ \E k \in Kinds : Issue(t, k)
    \/ Edit
    \/ Tick

Spec == Init /\ [][Next]_vars
=============================================================================
