------------------------------ MODULE Directory -----------------------------
(***************************************************************************)
(* What the accounts and their links to identities promise, with no rows,  *)
(* requests or spellings.  Of its own accord the application gives an      *)
(* address to one account at a time, for as long as the account exists,    *)
(* and links an identity to an account only if the account once had an     *)
(* address that the identity's provider had reported.  An administrator    *)
(* may give any account any address and link it to any identity.           *)
(***************************************************************************)
CONSTANTS Accounts, Identities, Addresses, None

VARIABLES
    holds,      \* per account: its address, empty or a singleton
    linked,     \* per identity: the account it signs in, or None
    reported,   \* per identity: the addresses its provider ever reported
    matched,    \* the pairs of an identity and an account that once had one
                \* of these addresses
    edited,     \* the accounts an administrator added or changed
    assigned    \* per identity: the account an administrator linked it to

vars == <<holds, linked, reported, matched, edited, assigned>>

Init ==
    /\ holds = [u \in Accounts |-> {}]
    /\ linked = [i \in Identities |-> None]
    /\ reported = [i \in Identities |-> {}]
    /\ matched = {}
    /\ edited = {}
    /\ assigned = [i \in Identities |-> None]

Watch ==
    matched' = matched \cup
      {p \in Identities \X Accounts : (holds'[p[2]] \cap reported'[p[1]]) # {}}

(* Only accounts that an administrator has edited lose their address or    *)
(* share it.                                                               *)
Open(u, a) ==
    /\ holds[u] = {} \/ u \in edited
    /\ \A v \in Accounts \ (edited \cup {u}) : a \notin holds[v]
    /\ holds' = [holds EXCEPT ![u] = {a}]
    /\ UNCHANGED <<linked, reported, edited, assigned>>
    /\ Watch

(* An account goes with its links.                                         *)
Close(u) ==
    LET Forget(f) == [i \in Identities |-> IF linked[i] = u THEN None ELSE f[i]] IN
    /\ holds[u] # {}
    /\ holds' = [holds EXCEPT ![u] = {}]
    /\ linked' = Forget(linked)
    /\ assigned' = Forget(assigned)
    /\ UNCHANGED <<reported, matched, edited>>

Report(i, a) ==
    /\ reported' = [reported EXCEPT ![i] = @ \cup {a}]
    /\ UNCHANGED <<holds, linked, edited, assigned>>
    /\ Watch

Connect(i, u) ==
    /\ holds[u] # {}
    /\ <<i, u>> \in matched
    /\ linked' = [linked EXCEPT ![i] = u]
    /\ UNCHANGED <<holds, reported, matched, edited, assigned>>

(* The administrator.                                                      *)
Edit(u, a) ==
    /\ holds' = [holds EXCEPT ![u] = {a}]
    /\ edited' = edited \cup {u}
    /\ UNCHANGED <<linked, reported, assigned>>
    /\ Watch

Assign(i, u) ==
    /\ holds[u] # {}
    /\ linked' = [linked EXCEPT ![i] = u]
    /\ assigned' = [assigned EXCEPT ![i] = u]
    /\ UNCHANGED <<holds, reported, matched, edited>>

Dismiss(i) ==
    /\ linked' = [linked EXCEPT ![i] = None]
    /\ assigned' = [assigned EXCEPT ![i] = None]
    /\ UNCHANGED <<holds, reported, matched, edited>>

Change ==
    \/ \E u \in Accounts : Close(u) \/ \E a \in Addresses : Open(u, a) \/ Edit(u, a)
    \/ \E i \in Identities :
         \/ \E a \in Addresses : Report(i, a)
         \/ \E u \in Accounts : Connect(i, u) \/ Assign(i, u)
         \/ Dismiss(i)

(* Most steps of an implementation change none of this: TLC sees that      *)
(* before it tries the actions.                                            *)
Next == vars' # vars /\ Change

Spec == Init /\ [][Next]_vars
=============================================================================
