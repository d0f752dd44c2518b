---------------------------- MODULE OwnedSession ----------------------------
(***************************************************************************)
(* What a session key promises to the browser it is sent to, with no       *)
(* copies, requests or second factors: when the browser first gets a key   *)
(* it is settled whose session it opens, somebody's or nobody's; it never  *)
(* becomes anybody else's, and a session that ended does not come back.    *)
(***************************************************************************)
CONSTANTS Users, Keys, None

VARIABLES
    known,      \* the keys a browser was ever sent
    live,       \* those whose session has not ended
    owner       \* per key: the user its session is signed in as, or None

vars == <<known, live, owner>>

Init ==
    /\ known = {}
    /\ live = {}
    /\ owner = [k \in Keys |-> None]

Start(k, u) ==
    /\ k \notin known
    /\ known' = known \cup {k}
    /\ live' = live \cup {k}
    /\ owner' = [owner EXCEPT ![k] = u]

End(k) ==
    /\ k \in live
    /\ live' = live \ {k}
    /\ owner' = [owner EXCEPT ![k] = None]
    /\ UNCHANGED known

Next == \E k \in Keys : End(k) \/ \E u \in Users \cup {None} : Start(k, u)

Spec == Init /\ [][Next]_vars
=============================================================================
