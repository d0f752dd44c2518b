---------------------------- MODULE SecondFactor ----------------------------
(***************************************************************************)
(* What the second factor of a user promises, with no rows, requests or    *)
(* statements.  At most one device gates sign-in, only after a code of its *)
(* own secret, and never again once it was removed.  A backup code counts  *)
(* from when it is handed out until all codes are withdrawn, for at most   *)
(* MaxUses sign-ins, and at most MaxCodes count at a time.                 *)
(***************************************************************************)
EXTENDS Integers, FiniteSets

CONSTANTS Devices, Codes, MaxUses, MaxCodes

VARIABLES
    gate,       \* the device that gates sign-in: empty or a singleton
    proven,     \* the devices for whose secret a valid code was entered
    removed,    \* the devices that were removed
    offered,    \* the codes ever handed out
    valid,      \* those that count
    uses        \* per code that counts: how often it was accepted

vars == <<gate, proven, removed, offered, valid, uses>>

deviceVars == <<gate, proven, removed>>
codeVars == <<offered, valid, uses>>

Init ==
    /\ gate = {} /\ proven = {} /\ removed = {}
    /\ offered = {} /\ valid = {}
    /\ uses = [c \in Codes |-> 0]

(* A code of the device's secret enrols it, or finds it enrolled.          *)
Enrol(d) ==
    /\ d \notin removed
    /\ gate \subseteq {d}
    /\ gate' = {d}
    /\ proven' = proven \cup {d}
    /\ UNCHANGED <<removed, codeVars>>

Remove(d) ==
    /\ gate' = gate \ {d}
    /\ removed' = removed \cup {d}
    /\ UNCHANGED <<proven, codeVars>>

Offer(c) ==
    /\ c \notin offered
    /\ Cardinality(valid) < MaxCodes
    /\ offered' = offered \cup {c}
    /\ valid' = valid \cup {c}
    /\ UNCHANGED <<uses, deviceVars>>

Accept(c) ==
    /\ c \in valid
    /\ uses[c] < MaxUses
    /\ uses' = [uses EXCEPT ![c] = @ + 1]
    /\ UNCHANGED <<offered, valid, deviceVars>>

Withdraw ==
    /\ valid' = {}
    /\ uses' = [c \in Codes |-> 0]
    /\ UNCHANGED <<offered, deviceVars>>

Next ==
    \/ \E d \in Devices : Enrol(d) \/ Remove(d)
    \/ \E c \in Codes : Offer(c) \/ Accept(c)
    \/ Withdraw

Spec == Init /\ [][Next]_vars
=============================================================================
