-------------------------- MODULE TokenStoreProofs --------------------------
(***************************************************************************)
(* Theorems about the emailed links: their type, how often and how late a  *)
(* link is honoured, what verifying an address leaves behind, and that the *)
(* store implements OneTimeLink.                                           *)
(***************************************************************************)
EXTENDS TokenStore, FiniteSetTheorems, TLAPS

Inserting == [at : {"insert"}, kind : Kinds, mails : BOOLEAN, since : Clock]
Sending == [at : {"send"}, token : Tokens, since : Clock]
Consuming == [at : {"mark", "verify"}, token : Tokens, saw : BOOLEAN, since : Clock]

ConsumesAt(w) == At(w, "mark") \/ At(w, "verify")

(* Every action of a worker, in one line.                                  *)
Step(w) ==
    \/ ResendVerification(w) \/ RequestReset(w) \/ RequestMagicLink(w)
    \/ Issue(w) \/ Send(w)
    \/ \E t \in Tokens : Lookup(w, t)
    \/ Mark(w) \/ Verify(w) \/ Abort(w)

(* The constants' consequences that every proof below needs.               *)
LEMMA Bounds ==
    /\ Timeout \in Nat
    /\ LongestTTL \in Nat
    /\ MaxAge = LongestTTL + Timeout + 1 /\ MaxAge \in Nat
    /\ \A k \in Kinds : TTL[k] \in Nat /\ TTL[k] <= LongestTTL
    /\ NoKind \notin Kinds
<1>1. TTL["email"] \in Nat /\ TTL["reset"] \in Nat /\ TTL["magic"] \in Nat /\ Timeout \in Nat
  BY TokenAssumption DEF Kinds
<1>2. LongestTTL \in Nat /\ TTL["email"] <= LongestTTL /\ TTL["reset"] <= LongestTTL
        /\ TTL["magic"] <= LongestTTL
  BY <1>1 DEF LongestTTL
<1>3. \A k \in Kinds : TTL[k] \in Nat /\ TTL[k] <= LongestTTL
  BY <1>1, <1>2 DEF Kinds
<1>4. NoKind \notin Kinds
  BY DEF NoKind, Kinds
<1> HIDE DEF LongestTTL, Kinds, NoKind
<1>5. QED
  BY <1>1, <1>2, <1>3, <1>4 DEF MaxAge

(* What a request can be, by the step it is at.                            *)
LEMMA RequestCases ==
    ASSUME TypeOK, NEW w \in Workers
    PROVE  /\ At(w, "idle") => req[w] = Idle
           /\ At(w, "insert") => req[w] \in Inserting
           /\ At(w, "send") => req[w] \in Sending
           /\ ConsumesAt(w) => req[w] \in Consuming
           /\ At(w, "idle") \/ At(w, "insert") \/ At(w, "send") \/ ConsumesAt(w)
BY DEF TypeOK, Busy, Idle, At, Inserting, Sending, Consuming, ConsumesAt

-----------------------------------------------------------------------------
(* Type correctness.                                                       *)

LEMMA TypeInit == Init => TypeOK
BY Bounds DEF Init, TypeOK, Idle

LEMMA TypeTick == ASSUME TypeOK, Tick PROVE TypeOK'
<1>1. age' \in [Tokens -> 0..MaxAge]
  <2>1. \A t \in Tokens : age[t] \in 0..MaxAge /\ MaxAge \in Nat
    BY Bounds DEF TypeOK
  <2> HIDE DEF MaxAge
  <2>2. \A t \in Tokens :
          (IF kind[t] # NoKind /\ age[t] < MaxAge THEN age[t] + 1 ELSE age[t]) \in 0..MaxAge
    BY <2>1
  <2>3. QED
    BY <2>2 DEF Tick
<1>2. req' \in [Workers -> {Idle} \cup Busy]
  <2>1. SUFFICES ASSUME NEW w \in Workers
                 PROVE  (IF At(w, "idle") THEN Idle ELSE [req[w] EXCEPT !.since = @ + 1])
                           \in {Idle} \cup Busy
    BY DEF Tick
  <2>2. ASSUME ~At(w, "idle")
        PROVE  req[w].since < Timeout /\ Timeout \in Nat
    BY <2>2, Bounds DEF Tick
  <2>3. CASE At(w, "insert")
    BY <2>2, <2>3, RequestCases DEF At, Inserting, Busy, Clock
  <2>4. CASE At(w, "send")
    BY <2>2, <2>4, RequestCases DEF At, Sending, Busy, Clock
  <2>5. CASE ConsumesAt(w)
    BY <2>2, <2>5, RequestCases DEF At, ConsumesAt, Consuming, Busy, Clock
  <2>6. QED
    BY <2>3, <2>4, <2>5, RequestCases
<1>3. QED
  BY <1>1, <1>2 DEF Tick, TypeOK

LEMMA TypeStep ==
    ASSUME TypeOK, NEW w \in Workers, Step(w)
    PROVE  TypeOK'
<1>1. CASE ResendVerification(w) \/ RequestReset(w) \/ RequestMagicLink(w)
  <2>1. PICK k \in Kinds, m \in BOOLEAN : Begin(w, k, m)
    BY <1>1 DEF ResendVerification, RequestReset, RequestMagicLink, Kinds, TypeOK
  <2>2. [at |-> "insert", kind |-> k, mails |-> m, since |-> 0] \in Busy
    BY Bounds DEF Busy, Clock
  <2>3. QED
    BY <2>1, <2>2 DEF Begin, Goto, TypeOK
<1>2. CASE Issue(w)
  <2>1. PICK t \in Tokens :
          /\ kind' = [kind EXCEPT ![t] = req[w].kind]
          /\ Goto(w, IF req[w].mails
                       THEN [at |-> "send", token |-> t, since |-> req[w].since]
                       ELSE Idle)
    BY <1>2 DEF Issue
  <2>2. req[w].kind \in Kinds /\ req[w].since \in Clock
    BY <1>2, RequestCases DEF Issue, Inserting
  <2>3. [at |-> "send", token |-> t, since |-> req[w].since] \in Busy
    BY <2>2 DEF Busy
  <2>4. QED
    BY <1>2, <2>1, <2>2, <2>3 DEF Issue, Goto, TypeOK
<1>3. CASE Send(w)
  <2>1. req[w].token \in Tokens
    BY <1>3, RequestCases DEF Send, Sending
  <2>2. QED
    BY <1>3, <2>1 DEF Send, Goto, TypeOK
<1>4. CASE \E t \in Tokens : Lookup(w, t)
  <2>1. PICK t \in Tokens : Lookup(w, t)
    BY <1>4
  <2>2. [at |-> "mark", token |-> t, saw |-> verified, since |-> 0] \in Busy
    BY Bounds DEF Busy, Clock, TypeOK
  <2>3. QED
    BY <2>1, <2>2 DEF Lookup, Goto, TypeOK
<1>5. CASE Mark(w)
  <2>1. req[w] \in Consuming
    BY <1>5, RequestCases DEF Mark, ConsumesAt
  <2>2. [req[w] EXCEPT !.at = "verify"] \in Busy /\ req[w].token \in Tokens
    BY <2>1 DEF Consuming, Busy
  <2>3. CASE Return(w)
    BY <1>5, <2>2, <2>3 DEF Mark, Return, Goto, TypeOK
  <2>4. CASE req' = [req EXCEPT ![w].at = "verify"] /\ UNCHANGED grants
    BY <1>5, <2>2, <2>4 DEF Mark, TypeOK
  <2>5. QED
    BY <1>5, <2>3, <2>4 DEF Mark
<1>6. CASE Verify(w)
  <2>1. req[w].token \in Tokens
    BY <1>6, RequestCases DEF Verify, ConsumesAt, Consuming
  <2>2. QED
    BY <1>6, <2>1 DEF Verify, Return, Goto, TypeOK
<1>7. CASE Abort(w)
  BY <1>7 DEF Abort, Goto, TypeOK
<1>8. QED
  BY <1>1, <1>2, <1>3, <1>4, <1>5, <1>6, <1>7 DEF Step

LEMMA NextCases == Next <=> (\E w \in Workers : Step(w)) \/ AdminEdit \/ Tick
BY DEF Next, Step

(* The rows, the flags and every request in flight have their types.       *)
THEOREM TypeCorrect == Spec => []TypeOK
<1>1. ASSUME TypeOK, [Next]_vars PROVE TypeOK'
  <2>1. CASE \E w \in Workers : Step(w)
    BY <1>1, <2>1, TypeStep
  <2>2. CASE AdminEdit
    BY <1>1, <2>2 DEF AdminEdit, TypeOK
  <2>3. CASE Tick
    BY <1>1, <2>3, TypeTick
  <2>4. CASE UNCHANGED vars
    BY <1>1, <2>4 DEF vars, TypeOK
  <2>5. QED
    BY <1>1, <2>1, <2>2, <2>3, <2>4, NextCases
<1>2. QED
  BY TypeInit, <1>1, PTL DEF Spec

-----------------------------------------------------------------------------
(* The life of a link, as an inductive invariant: only a link whose row    *)
(* exists is mailed or consumed; a consuming request has been busy since   *)
(* before the link's expiry; and before it verifies the address it has     *)
(* spent the link.                                                         *)
Lives ==
    /\ \A t \in mailed : kind[t] \in Kinds
    /\ \A w \in Workers :
         /\ At(w, "send") => kind[req[w].token] \in Kinds
         /\ ConsumesAt(w) =>
              /\ req[w].token \in mailed
              /\ age[req[w].token] <= TTL[kind[req[w].token]] + req[w].since
         /\ At(w, "verify") =>
              /\ req[w].token \in used
              /\ kind[req[w].token] \in ProvingKinds

LEMMA LivesInit == Init => Lives
BY DEF Init, Lives, At, ConsumesAt, Idle

(* A row keeps its kind, and a mailed link stays mailed, used and old.     *)
LEMMA Rows ==
    ASSUME TypeOK, [Next]_vars
    PROVE  /\ \A t \in Tokens : kind[t] \in Kinds => kind'[t] = kind[t]
           /\ used \subseteq used'
           /\ mailed \subseteq mailed'
<1>1. ASSUME NEW w \in Workers, Step(w)
      PROVE  /\ \A t \in Tokens : kind[t] \in Kinds => kind'[t] = kind[t]
             /\ used \subseteq used'
             /\ mailed \subseteq mailed'
  <2>1. CASE Issue(w)
    BY <2>1, Bounds DEF Issue, TypeOK
  <2>2. CASE ~Issue(w)
    BY <1>1, <2>2 DEF Step, ResendVerification, RequestReset, RequestMagicLink, Begin,
         Send, Lookup, Mark, Verify, Abort
  <2>3. QED
    BY <2>1, <2>2
<1>2. QED
  BY <1>1, NextCases DEF AdminEdit, Tick, vars

(* A worker's step leaves the clock and the other workers alone.           *)
LEMMA OtherWorkers ==
    ASSUME TypeOK, NEW w \in Workers, Step(w)
    PROVE  /\ age' = age
           /\ \A v \in Workers \ {w} : req'[v] = req[v]
BY DEF Step, ResendVerification, RequestReset, RequestMagicLink, Begin, Issue, Send,
       Lookup, Mark, Verify, Abort, Return, Goto, TypeOK

(* What the worker itself holds after its step, if it consumes a link.     *)
LEMMA OwnStep ==
    ASSUME TypeOK, Lives, NEW w \in Workers, Step(w)
    PROVE  /\ At(w, "send")' => kind'[req'[w].token] \in Kinds
           /\ ConsumesAt(w)' =>
                /\ req'[w].token \in mailed
                /\ age[req'[w].token] <= TTL[kind[req'[w].token]] + req'[w].since
           /\ At(w, "verify")' =>
                /\ req'[w].token \in used'
                /\ kind[req'[w].token] \in ProvingKinds
<1>1. CASE ResendVerification(w) \/ RequestReset(w) \/ RequestMagicLink(w)
  BY <1>1 DEF ResendVerification, RequestReset, RequestMagicLink, Begin, Goto, At,
       ConsumesAt, TypeOK
<1>2. CASE Issue(w)
  <2>1. PICK t \in Tokens :
          /\ kind' = [kind EXCEPT ![t] = req[w].kind]
          /\ Goto(w, IF req[w].mails
                       THEN [at |-> "send", token |-> t, since |-> req[w].since]
                       ELSE Idle)
    BY <1>2 DEF Issue
  <2>2. req[w].kind \in Kinds
    BY <1>2, RequestCases DEF Issue, Inserting
  <2>3. QED
    BY <2>1, <2>2 DEF Goto, At, ConsumesAt, Idle, TypeOK
<1>3. CASE Send(w) \/ Verify(w) \/ Abort(w)
  BY <1>3 DEF Send, Verify, Abort, Return, Goto, At, ConsumesAt, Idle, TypeOK
<1>4. CASE \E t \in Tokens : Lookup(w, t)
  <2>1. PICK t \in Tokens : Lookup(w, t)
    BY <1>4
  <2>2. /\ req'[w] = [at |-> "mark", token |-> t, saw |-> verified, since |-> 0]
        /\ t \in mailed /\ age[t] <= TTL[kind[t]]
        /\ TTL[kind[t]] \in Nat
    BY <2>1, Bounds DEF Lookup, Goto, Consumable, Lives, TypeOK
  <2>3. QED
    BY <2>2 DEF At, ConsumesAt
<1>5. CASE Mark(w)
  <2>1. req[w] \in Consuming /\ req[w].token \in used'
    BY <1>5, RequestCases DEF Mark, ConsumesAt
  <2>2. CASE Return(w)
    BY <2>2 DEF Return, Goto, At, ConsumesAt, Idle, TypeOK
  <2>3. CASE ~Return(w)
    <3>1. kind[req[w].token] \in ProvingKinds /\ req' = [req EXCEPT ![w].at = "verify"]
      BY <1>5, <2>3 DEF Mark
    <3>2. req'[w].token = req[w].token /\ req'[w].since = req[w].since
      BY <2>1, <3>1 DEF TypeOK, Consuming
    <3>3. QED
      BY <1>5, <2>1, <3>1, <3>2 DEF Mark, Lives, At, ConsumesAt, TypeOK
  <2>4. QED
    BY <2>2, <2>3
<1>6. QED
  BY <1>1, <1>2, <1>3, <1>4, <1>5 DEF Step

LEMMA LivesStep == ASSUME TypeOK, Lives, [Next]_vars PROVE Lives'
<1>1. /\ \A t \in Tokens : kind[t] \in Kinds => kind'[t] = kind[t]
      /\ used \subseteq used' /\ mailed \subseteq mailed'
  BY Rows
<1>2. ASSUME NEW w \in Workers, Step(w) PROVE Lives'
  <2>1. \A t \in mailed' : kind'[t] \in Kinds
    <3>1. mailed' \subseteq mailed \cup {req[w].token} /\ (mailed' = mailed \/ At(w, "send"))
      BY <1>2 DEF Step, ResendVerification, RequestReset, RequestMagicLink, Begin,
           Issue,
           Send, Lookup, Mark, Verify, Abort
    <3>2. At(w, "send") => req[w].token \in Tokens
      BY RequestCases DEF Sending
    <3>3. QED
      BY <1>1, <3>1, <3>2 DEF Lives, TypeOK
  <2>2. ASSUME NEW v \in Workers \ {w}
        PROVE  /\ At(v, "send")' => kind'[req'[v].token] \in Kinds
               /\ ConsumesAt(v)' =>
                    /\ req'[v].token \in mailed'
                    /\ age'[req'[v].token] <= TTL[kind'[req'[v].token]] + req'[v].since
               /\ At(v, "verify")' =>
                    /\ req'[v].token \in used'
                    /\ kind'[req'[v].token] \in ProvingKinds
    <3>1. req'[v] = req[v] /\ age' = age
      BY <1>2, OtherWorkers
    <3>2. At(v, "send") \/ ConsumesAt(v) => req[v].token \in Tokens
      BY RequestCases DEF Sending, Consuming
    <3>3. ConsumesAt(v) => kind[req[v].token] \in Kinds
      BY DEF Lives
    <3>4. QED
      BY <1>1, <3>1, <3>2, <3>3 DEF Lives, At, ConsumesAt
  <2>3. /\ At(w, "send")' => kind'[req'[w].token] \in Kinds
        /\ ConsumesAt(w)' =>
             /\ req'[w].token \in mailed'
             /\ age'[req'[w].token] <= TTL[kind'[req'[w].token]] + req'[w].since
        /\ At(w, "verify")' =>
             /\ req'[w].token \in used'
             /\ kind'[req'[w].token] \in ProvingKinds
    <3>1. age' = age
      BY <1>2, OtherWorkers
    <3>2. ConsumesAt(w)' => /\ req'[w].token \in mailed /\ kind[req'[w].token] \in Kinds
                            /\ req'[w].token \in Tokens
      BY <1>2, OwnStep DEF Lives, TypeOK
    <3>3. At(w, "verify")' => ConsumesAt(w)'
      BY DEF ConsumesAt
    <3>4. QED
      BY <1>1, <1>2, OwnStep, <3>1, <3>2, <3>3
  <2>4. QED
    BY <2>1, <2>2, <2>3 DEF Lives
<1>3. CASE Tick
  <2>1. ASSUME NEW w \in Workers, ~At(w, "idle")
        PROVE  /\ req'[w].at = req[w].at
               /\ At(w, "send") \/ ConsumesAt(w) =>
                    /\ req'[w].token = req[w].token
                    /\ req'[w].since = req[w].since + 1
                    /\ req[w].since \in Nat
    <3>1. req'[w] = [req[w] EXCEPT !.since = @ + 1]
      BY <1>3, <2>1 DEF Tick
    <3>2. CASE At(w, "insert")
      BY <3>1, <3>2, RequestCases DEF Inserting, At, ConsumesAt
    <3>3. CASE At(w, "send")
      BY <3>1, <3>3, RequestCases, Bounds DEF Sending, Clock, At, ConsumesAt
    <3>4. CASE ConsumesAt(w)
      BY <3>1, <3>4, RequestCases, Bounds DEF Consuming, Clock, At, ConsumesAt
    <3>5. QED
      BY <2>1, <3>2, <3>3, <3>4, RequestCases
  <2>2. ASSUME NEW w \in Workers, At(w, "idle") PROVE At(w, "idle")'
    BY <1>3, <2>2 DEF Tick, At, Idle
  <2>3. \A t \in Tokens : age[t] \in Nat /\ age'[t] \in Nat /\ age'[t] <= age[t] + 1
    BY <1>3, Bounds DEF Tick, TypeOK
  <2>4. kind' = kind /\ used' = used /\ mailed' = mailed
    BY <1>3 DEF Tick
  <2>5. ASSUME NEW w \in Workers, ConsumesAt(w)
        PROVE  age'[req'[w].token] <= TTL[kind'[req'[w].token]] + req'[w].since
    <3>1. req'[w].token = req[w].token /\ req'[w].since = req[w].since + 1 /\ req[w].since \in Nat
      BY <2>1, <2>5 DEF At, ConsumesAt
    <3>2. req[w].token \in Tokens /\ kind[req[w].token] \in Kinds
      BY <2>5 DEF Lives, TypeOK
    <3>3. TTL[kind[req[w].token]] \in Nat
      BY <3>2, Bounds
    <3>4. age[req[w].token] <= TTL[kind[req[w].token]] + req[w].since
      BY <2>5 DEF Lives
    <3>5. QED
      BY <2>3, <2>4, <3>1, <3>2, <3>3, <3>4
  <2>6. ASSUME NEW w \in Workers
        PROVE  /\ At(w, "send")' => At(w, "send")
               /\ ConsumesAt(w)' => ConsumesAt(w)
               /\ At(w, "verify")' => At(w, "verify")
    BY <2>1, <2>2 DEF At, ConsumesAt
  <2>7. ASSUME NEW w \in Workers, At(w, "send") \/ ConsumesAt(w)
        PROVE  req'[w].token = req[w].token
    BY <2>1, <2>7 DEF At, ConsumesAt
  <2>8. QED
    BY <2>4, <2>5, <2>6, <2>7 DEF Lives, ConsumesAt
<1>4. CASE AdminEdit \/ UNCHANGED vars
  BY <1>4 DEF AdminEdit, vars, Lives, At, ConsumesAt
<1>5. QED
  BY <1>2, <1>3, <1>4, NextCases

LEMMA LivesInvariant == Spec => []Lives
<1>1. TypeOK /\ Lives /\ [Next]_vars => Lives'
  BY LivesStep
<1>2. QED
  BY <1>1, LivesInit, TypeCorrect, PTL DEF Spec

(* The step that grants a link, and by whom.                               *)
LEMMA Grants ==
    ASSUME TypeOK, [Next]_vars, NEW t \in Tokens, grants'[t] # grants[t]
    PROVE  \E w \in Workers :
             /\ ConsumesAt(w) /\ req[w].token = t
             /\ Mark(w) \/ Verify(w)
             /\ Return(w)
<1>1. PICK w \in Workers : Step(w)
  BY NextCases DEF AdminEdit, Tick, vars
<1>2. (Mark(w) \/ Verify(w)) /\ Return(w)
  BY <1>1 DEF Step, ResendVerification, RequestReset, RequestMagicLink, Begin, Issue,
       Send, Lookup, Mark, Verify, Abort
<1>3. ConsumesAt(w)
  BY <1>2 DEF Mark, Verify, ConsumesAt
<1>4. req[w].token = t
  BY <1>2 DEF Return, TypeOK
<1>5. QED
  BY <1>2, <1>3, <1>4

(* No link is honoured later than its time to live and one worker timeout. *)
THEOREM InTime == Spec => GrantsInTime
<1>1. TypeOK /\ Lives /\ [Next]_vars
        => [\A t \in Tokens : grants'[t] > grants[t] => age[t] <= TTL[kind[t]] + Timeout]_vars
  <2> SUFFICES ASSUME TypeOK, Lives, [Next]_vars, NEW t \in Tokens, grants'[t] > grants[t]
               PROVE  age[t] <= TTL[kind[t]] + Timeout
    OBVIOUS
  <2>1. grants[t] \in Nat
    BY DEF TypeOK
  <2>2. PICK w \in Workers : ConsumesAt(w) /\ req[w].token = t
    BY <2>1, Grants
  <2>3. /\ t \in mailed /\ kind[t] \in Kinds
        /\ age[t] <= TTL[kind[t]] + req[w].since
    BY <2>2 DEF Lives
  <2>4. req[w].since \in 0..Timeout /\ TTL[kind[t]] \in Nat /\ Timeout \in Nat /\ age[t] \in Nat
    BY <2>2, <2>3, RequestCases, Bounds DEF Consuming, Clock, TypeOK
  <2>5. QED
    BY <2>3, <2>4
<1>2. QED
  BY <1>1, TypeCorrect, LivesInvariant, PTL DEF Spec, GrantsInTime

(* An address becomes verified only after a link that proves it is spent,  *)
(* unless an administrator says so.                                        *)
THEOREM VerifiedSpends == Spec => VerifiedSpendsLink
<1>1. TypeOK /\ Lives /\ [Next]_vars
        => [verified' /\ ~verified =>
              AdminEdit \/ \E t \in used \cap mailed : kind[t] \in ProvingKinds]_vars
  <2> SUFFICES ASSUME TypeOK, Lives, [Next]_vars, verified', ~verified, ~AdminEdit
               PROVE  \E t \in used \cap mailed : kind[t] \in ProvingKinds
    OBVIOUS
  <2>1. PICK w \in Workers : Verify(w)
    BY NextCases DEF Step, ResendVerification, RequestReset, RequestMagicLink, Begin,
         Issue, Send, Lookup, Mark, Abort, Tick, vars
  <2>2. At(w, "verify") /\ ConsumesAt(w)
    BY <2>1 DEF Verify, ConsumesAt
  <2>3. QED
    BY <2>2 DEF Lives
<1>2. QED
  BY <1>1, TypeCorrect, LivesInvariant, PTL DEF Spec, VerifiedSpendsLink

-----------------------------------------------------------------------------
(* How often a link is honoured.                                           *)

LEMMA Counts ==
    ASSUME NEW t \in Tokens
    PROVE  /\ IsFiniteSet(InFlight(t))
           /\ Cardinality(InFlight(t)) \in Nat
           /\ Cardinality(InFlight(t)) <= Cardinality(Workers)
           /\ Cardinality(Workers) \in Nat
<1>1. InFlight(t) \subseteq Workers
  BY DEF InFlight
<1>2. IsFiniteSet(Workers)
  BY TokenAssumption
<1>3. IsFiniteSet(InFlight(t)) /\ Cardinality(InFlight(t)) <= Cardinality(Workers)
  BY <1>1, <1>2, FS_Subset
<1>4. QED
  BY <1>2, <1>3, FS_CardinalityType

LEMMA CountsNext ==
    ASSUME NEW t \in Tokens
    PROVE  /\ IsFiniteSet(InFlight(t)')
           /\ Cardinality(InFlight(t)') \in Nat
           /\ Cardinality(InFlight(t)') <= Cardinality(Workers)
<1>1. InFlight(t)' \subseteq Workers
  BY DEF InFlight
<1>2. IsFiniteSet(Workers)
  BY TokenAssumption
<1>3. IsFiniteSet(InFlight(t)') /\ Cardinality(InFlight(t)') <= Cardinality(Workers)
  BY <1>1, <1>2, FS_Subset
<1>4. QED
  BY <1>2, <1>3, FS_CardinalityType

(* A link's requests in flight grow by a lookup only, which found it       *)
(* unspent.                                                                *)
LEMMA InFlightGrowth ==
    ASSUME TypeOK, [Next]_vars, NEW t \in Tokens
    PROVE  \/ InFlight(t)' \subseteq InFlight(t)
           \/ t \notin used /\ used' = used /\ grants' = grants
<1>1. ASSUME NEW w \in Workers, Step(w)
      PROVE  \/ InFlight(t)' \subseteq InFlight(t)
             \/ t \notin used /\ used' = used /\ grants' = grants
  <2>1. InFlight(t)' \ {w} \subseteq InFlight(t)
    BY <1>1, OtherWorkers DEF InFlight
  <2>2. ASSUME w \in InFlight(t)', w \notin InFlight(t)
        PROVE  t \notin used /\ used' = used /\ grants' = grants
    <3>1. ConsumesAt(w)' /\ req'[w].token = t
      BY <2>2 DEF InFlight, ConsumesAt, At
    <3>2. CASE \E u \in Tokens : Lookup(w, u)
      BY <3>1, <3>2 DEF Lookup, Consumable, Goto, TypeOK
    <3>3. CASE Mark(w)
      <4>1. req[w] \in Consuming /\ w \in Workers
        BY <3>3, RequestCases DEF Mark, ConsumesAt
      <4>2. req' = [req EXCEPT ![w].at = "verify"]
        BY <3>1, <3>3 DEF Mark, Return, Goto, At, ConsumesAt, Idle, TypeOK
      <4>3. req'[w].token = req[w].token
        BY <4>1, <4>2 DEF TypeOK, Consuming
      <4>4. QED
        BY <2>2, <3>1, <3>3, <4>3 DEF Mark, At, InFlight
    <3>4. CASE ~Mark(w) /\ ~\E u \in Tokens : Lookup(w, u)
      <4>1. ~ConsumesAt(w)'
        BY <1>1, <3>4 DEF Step, ResendVerification, RequestReset, RequestMagicLink,
             Begin,
             Issue, Send, Verify, Abort, Return, Goto, At, ConsumesAt, Idle, TypeOK
      <4>2. QED
        BY <3>1, <4>1
    <3>5. QED
      BY <3>2, <3>3, <3>4
  <2>3. QED
    BY <2>1, <2>2
<1>2. CASE Tick
  <2>1. ASSUME NEW w \in Workers, w \in InFlight(t)' PROVE w \in InFlight(t)
    <3>1. ~At(w, "idle")
      BY <1>2, <2>1 DEF Tick, InFlight, At, Idle
    <3>2. req'[w] = [req[w] EXCEPT !.since = @ + 1]
      BY <1>2, <3>1 DEF Tick
    <3>3. CASE At(w, "insert")
      BY <2>1, <3>2, <3>3, RequestCases DEF Inserting, InFlight, At
    <3>4. CASE At(w, "send")
      BY <2>1, <3>2, <3>4, RequestCases DEF Sending, InFlight, At
    <3>5. CASE ConsumesAt(w)
      BY <2>1, <3>2, <3>5, RequestCases DEF Consuming, InFlight, At, ConsumesAt
    <3>6. QED
      BY <3>1, <3>3, <3>4, <3>5, RequestCases
  <2>2. QED
    BY <2>1 DEF InFlight
<1>3. CASE AdminEdit \/ UNCHANGED vars
  BY <1>3 DEF AdminEdit, vars, InFlight
<1>4. QED
  BY <1>1, <1>2, <1>3, NextCases

(* A grant ends a request in flight.                                       *)
LEMMA GrantStep ==
    ASSUME TypeOK, [Next]_vars, NEW t \in Tokens, grants'[t] # grants[t]
    PROVE  \E w \in InFlight(t) :
             /\ grants' = [grants EXCEPT ![t] = @ + 1]
             /\ InFlight(t)' = InFlight(t) \ {w}
             /\ At(w, "verify") \/ t \in used'
<1>1. PICK w \in Workers :
        ConsumesAt(w) /\ req[w].token = t /\ (Mark(w) \/ Verify(w)) /\ Return(w)
  BY Grants
<1>2. w \in InFlight(t) /\ grants' = [grants EXCEPT ![t] = @ + 1]
        /\ (At(w, "verify") \/ t \in used')
  BY <1>1 DEF InFlight, ConsumesAt, At, Return, Mark, Verify
<1>3. req'[w] = Idle /\ \A v \in Workers \ {w} : req'[v] = req[v]
  BY <1>1 DEF Return, Goto, TypeOK
<1>4. InFlight(t)' = InFlight(t) \ {w}
  BY <1>3 DEF InFlight, Idle
<1>5. QED
  BY <1>2, <1>4

LEMMA GrantsInit == Init => GrantsBounded
<1>1. SUFFICES ASSUME Init, NEW t \in Tokens
               PROVE  /\ grants[t] = 0
                      /\ grants[t] + Cardinality(InFlight(t)) <= Cardinality(Workers)
  BY DEF GrantsBounded
<1>2. grants[t] = 0
  BY <1>1 DEF Init
<1>3. QED
  BY <1>2, Counts

LEMMA GrantsStep ==
    ASSUME TypeOK, Lives, GrantsBounded, [Next]_vars
    PROVE  GrantsBounded'
<1> SUFFICES ASSUME NEW t \in Tokens
             PROVE  /\ t \notin used' => grants'[t] = 0
                    /\ grants'[t] + Cardinality(InFlight(t)') <= Cardinality(Workers)
  BY DEF GrantsBounded
<1>1. /\ t \notin used => grants[t] = 0
      /\ grants[t] + Cardinality(InFlight(t)) <= Cardinality(Workers)
      /\ grants[t] \in Nat
  BY DEF GrantsBounded, TypeOK
<1>2. CASE grants'[t] # grants[t]
  <2>1. PICK w \in InFlight(t) :
          /\ grants' = [grants EXCEPT ![t] = @ + 1]
          /\ InFlight(t)' = InFlight(t) \ {w}
          /\ At(w, "verify") \/ t \in used'
    BY <1>2, GrantStep
  <2>2. t \in used'
    BY <2>1, Rows DEF Lives, InFlight
  <2>3. Cardinality(InFlight(t)') = Cardinality(InFlight(t)) - 1
    BY <2>1, Counts, FS_RemoveElement
  <2>4. grants'[t] = grants[t] + 1
    BY <2>1 DEF TypeOK
  <2>5. QED
    BY <1>1, <2>2, <2>3, <2>4, Counts
<1>3. CASE grants'[t] = grants[t] /\ InFlight(t)' \subseteq InFlight(t)
  <2>1. Cardinality(InFlight(t)') <= Cardinality(InFlight(t))
    BY <1>3, Counts, FS_Subset
  <2>2. QED
    BY <1>1, <1>3, <2>1, Rows, Counts, CountsNext
<1>4. CASE t \notin used /\ used' = used /\ grants' = grants
  BY <1>1, <1>4, CountsNext, Counts
<1>5. QED
  BY <1>2, <1>3, <1>4, InFlightGrowth

(* However many workers there are, the requests that a link ever grants    *)
(* all overlap the first one.                                              *)
THEOREM GrantsBound == Spec => []GrantsBounded
<1>1. TypeOK /\ Lives /\ GrantsBounded /\ [Next]_vars => GrantsBounded'
  BY GrantsStep
<1>2. QED
  BY <1>1, GrantsInit, TypeCorrect, LivesInvariant, PTL DEF Spec

(* The docstrings are right about a single worker: its links are single-   *)
(* use, for nothing comes between the SELECT and the UPDATE.               *)
THEOREM OneWorkerSingleUse ==
    ASSUME Cardinality(Workers) = 1
    PROVE  Spec => []SingleUse
<1>1. ASSUME TypeOK, GrantsBounded
      PROVE  SingleUse
  <2>1. ASSUME NEW t \in Tokens PROVE grants[t] <= 1
    <3>1. grants[t] \in Nat /\ grants[t] + Cardinality(InFlight(t)) <= 1
      BY <1>1 DEF TypeOK, GrantsBounded
    <3>2. QED
      BY <3>1, Counts
  <2>2. QED
    BY <2>1 DEF SingleUse
<1>2. QED
  BY <1>1, TypeCorrect, GrantsBound, PTL

-----------------------------------------------------------------------------
(* Refinement.                                                             *)

LEMMA PromiseInit == Init => Promise!Init
BY DEF Init, Promise!Init

LEMMA PromiseStep ==
    ASSUME TypeOK, Lives, GrantsBounded, [Next]_vars
    PROVE  [Promise!Next]_(Promise!vars)
<1>1. ASSUME NEW t \in Tokens, grants'[t] # grants[t]
      PROVE  Promise!Grant(t)
  <2>1. PICK w \in Workers :
          ConsumesAt(w) /\ req[w].token = t /\ (Mark(w) \/ Verify(w)) /\ Return(w)
    BY <1>1, Grants
  <2>2. kind[t] \in Kinds /\ age[t] <= TTL[kind[t]] + req[w].since
    BY <2>1 DEF Lives
  <2>3. age[t] <= TTL[kind[t]] + Timeout
    <3>1. req[w].since \in 0..Timeout /\ TTL[kind[t]] \in Nat /\ Timeout \in Nat /\ age[t] \in Nat
      BY <2>1, <2>2, RequestCases, Bounds DEF Consuming, Clock, TypeOK
    <3>2. QED
      BY <2>2, <3>1
  <2>4. grants[t] < Cardinality(Workers)
    <3>1. PICK v \in InFlight(t) : InFlight(t)' = InFlight(t) \ {v}
      BY <1>1, GrantStep
    <3>2. Cardinality(InFlight(t)') = Cardinality(InFlight(t)) - 1
      BY <3>1, Counts, FS_RemoveElement
    <3>3. Cardinality(InFlight(t)) >= 1
      BY <3>2, Counts, CountsNext
    <3>4. QED
      BY <3>3, Counts DEF GrantsBounded, TypeOK
  <2>5. grants' = [grants EXCEPT ![t] = @ + 1] /\ kind' = kind /\ age' = age
    BY <2>1 DEF Return, Mark, Verify
  <2>6. verified' \in {verified, verified \/ kind[t] \in ProvingKinds}
    <3>1. CASE Mark(w)
      BY <3>1 DEF Mark
    <3>2. CASE Verify(w)
      BY <2>1, <3>2 DEF Verify, Lives
    <3>3. QED
      BY <2>1, <3>1, <3>2
  <2>7. kind[t] # NoKind
    BY <2>2, Bounds
  <2>8. QED
    BY <2>3, <2>4, <2>5, <2>6, <2>7 DEF Promise!Grant
<1>2. ASSUME NEW w \in Workers, Issue(w)
      PROVE  \E t \in Tokens, k \in Kinds : Promise!Issue(t, k)
  <2>1. PICK t \in Tokens : kind[t] = NoKind /\ kind' = [kind EXCEPT ![t] = req[w].kind]
    BY <1>2 DEF Issue
  <2>2. req[w].kind \in Kinds
    BY <1>2, RequestCases DEF Issue, Inserting
  <2>3. QED
    BY <1>2, <2>1, <2>2 DEF Issue, Promise!Issue
<1>3. ASSUME NEW w \in Workers, Step(w), ~Issue(w), grants' = grants
      PROVE  UNCHANGED <<kind, age, grants, verified>>
  <2>1. ~Verify(w)
    <3>1. ~At(w, "verify") \/ (req[w].token \in Tokens /\ grants[req[w].token] \in Nat)
      BY RequestCases DEF Consuming, ConsumesAt, TypeOK
    <3>2. QED
      BY <1>3, <3>1 DEF Verify, Return, TypeOK
  <2>2. QED
    BY <1>3, <2>1 DEF Step, ResendVerification, RequestReset, RequestMagicLink, Begin,
         Send,
         Lookup, Mark, Abort
<1>4. ASSUME Tick PROVE Promise!Tick
  <2>1. ASSUME NEW t \in Tokens
        PROVE  /\ age'[t] \in Nat
               /\ \/ age'[t] = age[t] + 1
                  \/ age'[t] = age[t] /\ (kind[t] = NoKind \/ age[t] > TTL[kind[t]] + Timeout)
    <3>1. age'[t] = IF kind[t] # NoKind /\ age[t] < MaxAge THEN age[t] + 1 ELSE age[t]
      BY <1>4 DEF Tick
    <3>2. age[t] \in Nat /\ kind[t] \in Kinds \cup {NoKind}
      BY Bounds DEF TypeOK
    <3>3. kind[t] # NoKind => TTL[kind[t]] + Timeout < MaxAge /\ TTL[kind[t]] \in Nat
      <4> HIDE DEF MaxAge, LongestTTL
      <4>1. QED
        BY <3>2, Bounds
    <3>4. QED
      <4> HIDE DEF MaxAge
      <4>1. QED
        BY <3>1, <3>2, <3>3, Bounds
  <2>2. DOMAIN age' = Tokens /\ age' = [t \in Tokens |-> age'[t]]
    BY <1>4 DEF Tick
  <2>3. age' \in [Tokens -> Nat]
    BY <2>1, <2>2
  <2>4. QED
    BY <1>4, <2>1, <2>3 DEF Tick, Promise!Tick
<1>5. CASE \E w \in Workers : Step(w)
  <2>1. PICK w \in Workers : Step(w)
    BY <1>5
  <2>2. CASE Issue(w)
    BY <1>2, <2>2 DEF Promise!Next
  <2>3. CASE ~Issue(w) /\ grants' = grants
    BY <1>3, <2>1, <2>3 DEF Promise!vars
  <2>4. CASE grants' # grants
    <3>1. grants \in [Tokens -> Nat] /\ grants' \in [Tokens -> Nat]
      BY <2>1, TypeStep DEF TypeOK
    <3>2. \E t \in Tokens : grants'[t] # grants[t]
      BY <2>4, <3>1
    <3>3. QED
      BY <1>1, <3>2 DEF Promise!Next
  <2>5. QED
    BY <2>2, <2>3, <2>4
<1>6. CASE AdminEdit \/ UNCHANGED vars
  BY <1>6 DEF AdminEdit, vars, Promise!vars, Promise!Edit, Promise!Next
<1>7. CASE Tick
  BY <1>4, <1>7 DEF Promise!Next
<1>8. QED
  BY <1>5, <1>6, <1>7, NextCases

(* The token tables and the statements on them implement OneTimeLink.      *)
THEOREM Refinement == Spec => KeepsPromise
<1>1. TypeOK /\ Lives /\ GrantsBounded /\ [Next]_vars => [Promise!Next]_(Promise!vars)
  BY PromiseStep
<1>2. QED
  BY <1>1, PromiseInit, TypeCorrect, LivesInvariant, GrantsBound, PTL
     DEF Spec, KeepsPromise, Promise!Spec
=============================================================================
