-------------------------- MODULE LoginFlowProofs --------------------------
(***************************************************************************)
(* Theorems about sign-in: its type, what every opened session rests on,   *)
(* and what becomes of the keys and rows of sessions.                      *)
(***************************************************************************)
EXTENDS LoginFlow, TLAPS

(* Every action of a worker, in one line.                                  *)
Step(w) ==
    \/ \E u \in Users : LoginView(w, u) \/ ConsumeLink(w, u) \/ OAuthCallback(w, u)
    \/ Challenge(w) \/ DeviceBranch(w) \/ ValidCode(w)
    \/ Record(w) \/ Save(w) \/ EndUnsaved(w)

Admin == \E u \in Users : ConfirmDevice(u) \/ DisableDevice(u) \/ Deactivate(u) \/ Reactivate(u)

LEMMA NextCases == Next <=> (\E w \in Workers : Step(w)) \/ Logout \/ Admin
BY DEF Next, Step, Admin

-----------------------------------------------------------------------------
(* The three ways in which a worker's request moves.                       *)

(* It begins, with what the session middleware loads.                      *)
Start(w) ==
    \E step \in {"device", "code", "save"}, u \in Users, data \in Session, tags \in SUBSET Tags :
        /\ Begin(w, step, u, data, tags)
        /\ data.user = Loaded.data.user
        /\ step # "save" => active[u] \/ "oauth" \in tags

(* It logs its user in.                                                    *)
LogIn(w) ==
    /\ \E pre \in Users \cup {None}, tags \in SUBSET Tags :
         /\ login(w, pre, tags)
         /\ ~confirmed[req[w].user] \/ "second_factor" \in tags
    /\ req[w].at \in {"device", "code"}
    /\ UNCHANGED <<users, sent, cookie>>

(* It remembers the first factor only.                                     *)
PassOn(w) ==
    /\ req[w].at = "device"
    /\ PassFirst(w)
    /\ UNCHANGED <<users, sent, cookie>>

LEMMA LoadedType ==
    ASSUME TypeOK
    PROVE  /\ Loaded.key \in Keys \cup {None} /\ Loaded.data \in Session
           /\ Loaded.data.user \in Users \cup {None} /\ Loaded.data.pre \in Users \cup {None}
           /\ \/ Loaded.key = None /\ Loaded.data.user = None
              \/ /\ Loaded.key \in sent /\ store[Loaded.key] # None
                 /\ Loaded.data = store[Loaded.key]
<1>1. CASE cookie # None /\ store[cookie] # None
  <2>1. cookie \in sent /\ cookie \in Keys /\ store[cookie] \in Session
    BY <1>1 DEF TypeOK
  <2>2. Loaded.key = cookie /\ Loaded.data = store[cookie]
    BY <1>1 DEF Loaded
  <2>3. QED
    BY <1>1, <2>1, <2>2 DEF Session
<1>2. CASE ~(cookie # None /\ store[cookie] # None)
  <2>1. Loaded.key = None /\ Loaded.data = Anonymous
    BY <1>2 DEF Loaded
  <2>2. QED
    BY <2>1 DEF Anonymous, Session
<1>3. QED
  BY <1>1, <1>2

LEMMA RequestType ==
    ASSUME TypeOK, NEW w \in Workers
    PROVE  /\ req[w] \in Request
           /\ req[w].at \in Steps /\ req[w].user \in Users \cup {None}
           /\ req[w].key \in Keys \cup {None} /\ req[w].data \in Session
           /\ req[w].how \in SUBSET Tags
           /\ req[w].data.user \in Users \cup {None} /\ req[w].data.pre \in Users \cup {None}
<1>1. req[w] \in Request
  BY DEF TypeOK
<1>2. QED
  BY <1>1 DEF Request, Session

LEMMA StepCases ==
    ASSUME TypeOK, NEW w \in Workers, Step(w)
    PROVE  Start(w) \/ LogIn(w) \/ PassOn(w) \/ Record(w) \/ Save(w) \/ EndUnsaved(w)
<1>1. ASSUME NEW u \in Users, LoginView(w, u) \/ ConsumeLink(w, u) \/ OAuthCallback(w, u)
      PROVE  Start(w)
  <2>1. {} \in SUBSET Tags /\ {"oauth"} \in SUBSET Tags /\ Loaded.data \in Session
    BY LoadedType DEF Tags
  <2>2. CASE OAuthCallback(w, u)
    <3>1. Begin(w, "device", u, Loaded.data, {"oauth"}) /\ "oauth" \in {"oauth"}
      BY <2>2 DEF OAuthCallback
    <3>2. QED
      BY <2>1, <3>1 DEF Start
  <2>3. CASE ~OAuthCallback(w, u)
    <3>1. Begin(w, "device", u, Loaded.data, {}) /\ active[u]
      BY <1>1, <2>3 DEF LoginView, ConsumeLink
    <3>2. QED
      BY <2>1, <3>1 DEF Start
  <2>4. QED
    BY <2>2, <2>3
<1>2. CASE Challenge(w)
  <2> DEFINE u == Loaded.data.pre
  <2>1. u \in Users /\ {} \in SUBSET Tags /\ Loaded.data \in Session
    BY <1>2, LoadedType DEF Challenge
  <2>2. [Loaded.data EXCEPT !.pre = None] \in Session
    BY <2>1 DEF Session
  <2>3. [Loaded.data EXCEPT !.pre = None].user = Loaded.data.user
    BY <2>1 DEF Session
  <2>4. \/ active[u] /\ Begin(w, "code", u, Loaded.data, {})
        \/ Begin(w, "save", u, [Loaded.data EXCEPT !.pre = None], {})
    BY <1>2 DEF Challenge
  <2> HIDE DEF u
  <2>5. QED
    BY <2>1, <2>2, <2>3, <2>4 DEF Start
<1>3. CASE DeviceBranch(w)
  <2>1. CASE confirmed[req[w].user]
    BY <1>3, <2>1 DEF DeviceBranch, Branch, PassOn
  <2>2. CASE ~confirmed[req[w].user]
    <3>1. login(w, req[w].data.pre, {})
      BY <1>3, <2>2 DEF DeviceBranch, Branch
    <3>2. QED
      BY <1>3, <2>2, <3>1, RequestType DEF DeviceBranch, Branch, LogIn
  <2>3. QED
    BY <2>1, <2>2
<1>4. CASE ValidCode(w)
  <2>1. login(w, None, {"second_factor"}) /\ {"second_factor"} \in SUBSET Tags
    BY <1>4 DEF ValidCode, Tags
  <2>2. QED
    BY <1>4, <2>1 DEF ValidCode, LogIn
<1>5. QED
  BY <1>1, <1>2, <1>3, <1>4 DEF Step

(* What each leaves in the worker's request.                               *)
Others(w) == \A v \in Workers \ {w} : req'[v] = req[v]

LEMMA StartFacts ==
    ASSUME TypeOK, NEW w \in Workers, Start(w)
    PROVE  /\ req' \in [Workers -> Request] /\ Others(w)
           /\ req'[w].at \in {"device", "code", "save"} /\ req'[w].user \in Users
           /\ req'[w].key = Loaded.key /\ req'[w].data.user = Loaded.data.user
           /\ ~confirmed[req'[w].user] => "no_device" \in req'[w].how
           /\ req'[w].at # "save" => req'[w].how \cap {"active", "oauth"} # {}
           /\ UNCHANGED <<users, sessions>>
<1>1. PICK step \in {"device", "code", "save"}, u \in Users, data \in Session,
           tags \in SUBSET Tags :
        /\ Begin(w, step, u, data, tags)
        /\ data.user = Loaded.data.user
        /\ step # "save" => active[u] \/ "oauth" \in tags
  BY DEF Start
<1> DEFINE how == tags \cup (IF active[u] THEN {"active"} ELSE {})
                       \cup (IF confirmed[u] THEN {} ELSE {"no_device"})
           r == [at |-> step, user |-> u, key |-> Loaded.key, data |-> data, how |-> how]
<1>2. req' = [req EXCEPT ![w] = r] /\ UNCHANGED <<users, sessions>>
  BY <1>1 DEF Begin
<1>3. how \in SUBSET Tags
  BY DEF Tags
<1>4. /\ ~confirmed[u] => "no_device" \in how
      /\ step # "save" => how \cap {"active", "oauth"} # {}
  BY <1>1
<1> HIDE DEF how
<1>5. r \in Request
  BY <1>3, LoadedType DEF Request, Steps
<1>6. /\ r.at = step /\ r.user = u /\ r.key = Loaded.key /\ r.data = data /\ r.how = how
  OBVIOUS
<1> HIDE DEF r
<1>7. req'[w] = r /\ Others(w) /\ req' \in [Workers -> Request]
  BY <1>2, <1>5 DEF TypeOK, Others
<1>8. QED
  BY <1>1, <1>2, <1>4, <1>6, <1>7

LEMMA LogInFacts ==
    ASSUME TypeOK, NEW w \in Workers, LogIn(w)
    PROVE  /\ req' \in [Workers -> Request] /\ Others(w)
           /\ req'[w].at = "audit" /\ req'[w].user = req[w].user
           /\ req'[w].data.user = req[w].user
           /\ req[w].how \subseteq req'[w].how
           /\ ~confirmed[req[w].user] \/ "second_factor" \in req'[w].how
           /\ \/ /\ req[w].data.user = None
                 /\ req'[w].key \in Keys \ drawn
                 /\ drawn' = drawn \cup {req'[w].key}
                 /\ \E pre \in Users \cup {None} :
                      store' = [Without(req[w].key) EXCEPT
                                  ![req'[w].key] = [user |-> None, pre |-> pre]]
              \/ /\ req[w].data.user = req[w].user /\ req'[w].key = req[w].key
                 /\ UNCHANGED <<store, drawn>>
              \/ /\ req'[w].key = None
                 /\ store' = Without(req[w].key) /\ UNCHANGED drawn
<1>1. PICK pre \in Users \cup {None}, tags \in SUBSET Tags :
        /\ login(w, pre, tags)
        /\ ~confirmed[req[w].user] \/ "second_factor" \in tags
  BY DEF LogIn
<1>2. ASSUME NEW key \in Keys \cup {None}, NEW p \in Users \cup {None},
             req' = [req EXCEPT ![w].at = "audit", ![w].key = key, ![w].how = @ \cup tags,
                                ![w].data = [user |-> req[w].user, pre |-> p]]
      PROVE  /\ req' \in [Workers -> Request] /\ Others(w)
             /\ req'[w].at = "audit" /\ req'[w].user = req[w].user
             /\ req'[w].data.user = req[w].user
             /\ req[w].how \subseteq req'[w].how
             /\ ~confirmed[req[w].user] \/ "second_factor" \in req'[w].how
             /\ req'[w].key = key
  <2> DEFINE r == [req[w] EXCEPT !.at = "audit", !.key = key, !.how = @ \cup tags,
                                 !.data = [user |-> req[w].user, pre |-> p]]
  <2>1. req' = [req EXCEPT ![w] = r]
    BY <1>2
  <2>2. req[w] \in Request /\ [user |-> req[w].user, pre |-> p] \in Session
    BY RequestType DEF Session
  <2>3. /\ r \in Request
        /\ r.at = "audit" /\ r.user = req[w].user /\ r.key = key
        /\ r.data = [user |-> req[w].user, pre |-> p] /\ r.how = req[w].how \cup tags
    BY <2>2 DEF Request, Steps
  <2> HIDE DEF r
  <2>4. req'[w] = r /\ Others(w) /\ req' \in [Workers -> Request]
    BY <2>1, <2>3 DEF TypeOK, Others
  <2>5. QED
    BY <1>1, <2>3, <2>4
<1>3. CASE CycleKey(w, pre, tags)
  <2>1. PICK k \in Keys \ drawn :
          /\ store' = [Without(req[w].key) EXCEPT ![k] = [user |-> None, pre |-> pre]]
          /\ drawn' = drawn \cup {k}
          /\ SignedIn(w, k, pre, tags)
    BY <1>3 DEF CycleKey
  <2>2. req'[w].key = k
    BY <1>2, <2>1 DEF SignedIn
  <2>3. QED
    BY <1>2, <1>3, <2>1, <2>2 DEF SignedIn, CycleKey
<1>4. CASE req[w].data.user = req[w].user /\ KeepKey(w, pre, tags)
  <2>1. req[w].key \in Keys \cup {None}
    BY RequestType
  <2>2. QED
    BY <1>2, <1>4, <2>1 DEF KeepKey, SignedIn
<1>5. CASE /\ store' = Without(req[w].key)
           /\ SignedIn(w, None, None, tags)
           /\ UNCHANGED drawn
  BY <1>2, <1>5 DEF SignedIn
<1>6. QED
  BY <1>1, <1>3, <1>4, <1>5 DEF login

LEMMA PassOnFacts ==
    ASSUME TypeOK, NEW w \in Workers, PassOn(w)
    PROVE  /\ req' \in [Workers -> Request] /\ Others(w)
           /\ req[w].at = "device" /\ req'[w].at = "save"
           /\ req'[w].user = req[w].user /\ req'[w].key = req[w].key
           /\ req'[w].data.user = req[w].data.user /\ req'[w].how = req[w].how
           /\ UNCHANGED <<users, sessions>>
<1> DEFINE r == [req[w] EXCEPT !.at = "save", !.data.pre = req[w].user]
<1>1. req' = [req EXCEPT ![w] = r]
  BY DEF PassOn, PassFirst, Remember
<1>2. req[w] \in Request /\ req[w].user \in Users \cup {None}
  BY RequestType
<1>3. /\ r \in Request
      /\ r.at = "save" /\ r.user = req[w].user /\ r.key = req[w].key /\ r.how = req[w].how
      /\ r.data.user = req[w].data.user
  BY <1>2 DEF Request, Session, Steps
<1> HIDE DEF r
<1>4. req'[w] = r /\ Others(w) /\ req' \in [Workers -> Request]
  BY <1>1, <1>3 DEF TypeOK, Others
<1>5. QED
  BY <1>3, <1>4 DEF PassOn, PassFirst, Remember, sessions

LEMMA RecordFacts ==
    ASSUME TypeOK, NEW w \in Workers, Record(w)
    PROVE  /\ req' \in [Workers -> Request] /\ Others(w)
           /\ req[w].at = "audit" /\ req'[w].at = "save"
           /\ req'[w].user = req[w].user /\ req'[w].key = req[w].key
           /\ req'[w].data = req[w].data
           /\ req[w].how \subseteq req'[w].how /\ "audited" \in req'[w].how
           /\ UNCHANGED <<users, sessions>>
<1> DEFINE r == [req[w] EXCEPT !.at = "save", !.how = @ \cup {"audited"}]
<1>1. req' = [req EXCEPT ![w] = r]
  BY DEF Record
<1>2. req[w] \in Request
  BY RequestType
<1>3. /\ r \in Request
      /\ r.at = "save" /\ r.user = req[w].user /\ r.key = req[w].key /\ r.data = req[w].data
      /\ r.how = req[w].how \cup {"audited"}
  BY <1>2 DEF Request, Steps, Tags
<1> HIDE DEF r
<1>4. req'[w] = r /\ Others(w) /\ req' \in [Workers -> Request]
  BY <1>1, <1>3 DEF TypeOK, Others
<1>5. QED
  BY <1>3, <1>4 DEF Record

LEMMA IdleFacts ==
    /\ Idle \in Request
    /\ Idle.at = "idle" /\ Idle.user = None /\ Idle.key = None /\ Idle.data.user = None
BY DEF Idle, Request, Session, Anonymous, Steps, Tags

(* A request ends; if it responds, it writes its copy to its row.          *)
LEMMA EndFacts ==
    ASSUME TypeOK, NEW w \in Workers, Save(w) \/ EndUnsaved(w)
    PROVE  /\ req' \in [Workers -> Request] /\ Others(w) /\ req'[w] = Idle
           /\ UNCHANGED users
           /\ \/ UNCHANGED sessions
              \/ \E k \in Keys :
                   /\ req[w].at = "save"
                   /\ \/ req[w].key = None /\ k \notin drawn /\ drawn' = drawn \cup {k}
                      \/ req[w].key = k /\ store[k] # None /\ drawn' = drawn
                   /\ Respond(w, k)
<1>1. req' = [req EXCEPT ![w] = Idle] /\ UNCHANGED users
  BY DEF Save, EndUnsaved
<1>2. req' \in [Workers -> Request] /\ Others(w) /\ req'[w] = Idle
  BY <1>1, IdleFacts DEF TypeOK, Others
<1>3. req[w].key \in Keys \cup {None}
  BY RequestType
<1>4. CASE EndUnsaved(w)
  BY <1>1, <1>2, <1>4 DEF EndUnsaved
<1>5. CASE Save(w)
  BY <1>1, <1>2, <1>3, <1>5 DEF Save
<1>6. QED
  BY <1>4, <1>5

-----------------------------------------------------------------------------
(* Type correctness.                                                       *)

LEMMA TypeInit == Init => TypeOK
BY IdleFacts DEF Init, TypeOK

LEMMA WithoutType ==
    ASSUME TypeOK, NEW key \in Keys \cup {None}
    PROVE  /\ Without(key) \in [Keys -> Session \cup {None}]
           /\ \A k \in Keys : Without(key)[k] = IF k = key THEN None ELSE store[k]
BY NoneAssumption DEF TypeOK, Without

LEMMA TypeStep == ASSUME TypeOK, NEW w \in Workers, Step(w) PROVE TypeOK'
<1>1. CASE Start(w)
  BY <1>1, StartFacts DEF users, sessions, TypeOK
<1>2. CASE LogIn(w)
  <2>1. req[w].key \in Keys \cup {None}
    BY RequestType
  <2>2. Without(req[w].key) \in [Keys -> Session \cup {None}]
    BY <2>1, WithoutType
  <2>3. \A k \in Keys : Without(req[w].key)[k] # None => store[k] # None
    BY <2>1, WithoutType
  <2>4. /\ store' \in [Keys -> Session \cup {None}]
        /\ drawn' \subseteq Keys /\ drawn \subseteq drawn'
        /\ \A k \in Keys : store'[k] # None => k \in drawn'
    <3>1. CASE /\ req'[w].key \in Keys \ drawn
               /\ drawn' = drawn \cup {req'[w].key}
               /\ \E pre \in Users \cup {None} :
                    store' = [Without(req[w].key) EXCEPT
                                ![req'[w].key] = [user |-> None, pre |-> pre]]
      <4>1. \A pre \in Users \cup {None} : [user |-> None, pre |-> pre] \in Session
        BY DEF Session
      <4>2. QED
        BY <2>2, <2>3, <3>1, <4>1 DEF TypeOK
    <3>2. CASE UNCHANGED <<store, drawn>>
      BY <3>2 DEF TypeOK
    <3>3. CASE store' = Without(req[w].key) /\ UNCHANGED drawn
      BY <2>2, <2>3, <3>3 DEF TypeOK
    <3>4. QED
      BY <1>2, <3>1, <3>2, <3>3, LogInFacts
  <2>5. UNCHANGED <<users, sent, cookie>> /\ req' \in [Workers -> Request]
    BY <1>2, LogInFacts DEF LogIn
  <2>6. QED
    BY <2>4, <2>5 DEF TypeOK, users
<1>3. CASE PassOn(w)
  BY <1>3, PassOnFacts DEF users, sessions, TypeOK
<1>4. CASE Record(w)
  BY <1>4, RecordFacts DEF users, sessions, TypeOK
<1>5. CASE Save(w) \/ EndUnsaved(w)
  <2>1. req' \in [Workers -> Request] /\ UNCHANGED users /\ req[w].data \in Session
    BY <1>5, EndFacts, RequestType
  <2>2. CASE UNCHANGED sessions
    BY <2>1, <2>2 DEF users, sessions, TypeOK
  <2>3. CASE \E k \in Keys :
               /\ (k \notin drawn /\ drawn' = drawn \cup {k}) \/ (store[k] # None /\ drawn' = drawn)
               /\ Respond(w, k)
    <3>1. PICK k \in Keys :
             /\ (k \notin drawn /\ drawn' = drawn \cup {k}) \/ (store[k] # None /\ drawn' = drawn)
             /\ Respond(w, k)
      BY <2>3
    <3>2. k \in drawn' /\ drawn \subseteq drawn' /\ drawn' \subseteq Keys
      BY <3>1 DEF TypeOK
    <3>3. /\ store' = [store EXCEPT ![k] = req[w].data]
          /\ cookie' = k /\ sent' = sent \cup {k}
      BY <3>1 DEF Respond
    <3>4. store' \in [Keys -> Session \cup {None}]
      BY <2>1, <3>3 DEF TypeOK
    <3>5. \A j \in Keys : store'[j] # None => j \in drawn'
      BY <3>2, <3>3 DEF TypeOK
    <3>6. QED
      BY <2>1, <3>2, <3>3, <3>4, <3>5 DEF users, TypeOK
  <2>4. QED
    BY <1>5, <2>2, <2>3, EndFacts
<1>6. QED
  BY <1>1, <1>2, <1>3, <1>4, <1>5, StepCases

(* What other browsers and the admin site do leaves requests as they are,  *)
(* but for what they note.                                                 *)
LEMMA AdminFacts ==
    ASSUME TypeOK, Admin
    PROVE  /\ UNCHANGED sessions /\ req' \in [Workers -> Request]
           /\ \A w \in Workers :
                /\ req'[w].at = req[w].at /\ req'[w].user = req[w].user
                /\ req'[w].key = req[w].key /\ req'[w].data = req[w].data
                /\ req[w].how \subseteq req'[w].how
                /\ (req[w].user \in Users /\ ~confirmed[req[w].user] => "no_device" \in req[w].how)
                     => (req[w].user \in Users /\ ~confirmed'[req[w].user]
                           => "no_device" \in req'[w].how)
<1>1. PICK u \in Users : ConfirmDevice(u) \/ DisableDevice(u) \/ Deactivate(u) \/ Reactivate(u)
  BY DEF Admin
<1>2. CASE ConfirmDevice(u) \/ Deactivate(u)
  BY <1>2 DEF ConfirmDevice, Deactivate, TypeOK
<1>3. CASE DisableDevice(u)
  <2>1. /\ UNCHANGED sessions
        /\ confirmed' = [confirmed EXCEPT ![u] = FALSE]
        /\ req' = [w \in Workers |-> IF req[w].user = u
                                       THEN [req[w] EXCEPT !.how = @ \cup {"no_device"}]
                                       ELSE req[w]]
    BY <1>3 DEF DisableDevice, Witness
  <2>2. ASSUME NEW w \in Workers
        PROVE  LET r == [req[w] EXCEPT !.how = @ \cup {"no_device"}]
               IN  /\ r \in Request /\ r.at = req[w].at /\ r.user = req[w].user
                   /\ r.key = req[w].key /\ r.data = req[w].data
                   /\ r.how = req[w].how \cup {"no_device"}
    <3>1. req[w] \in Request
      BY RequestType
    <3>2. QED
      BY <3>1 DEF Request, Tags
  <2>3. req' \in [Workers -> Request]
    BY <2>1, <2>2 DEF TypeOK
  <2>4. ASSUME NEW w \in Workers
        PROVE  /\ req'[w].at = req[w].at /\ req'[w].user = req[w].user
               /\ req'[w].key = req[w].key /\ req'[w].data = req[w].data
               /\ req[w].how \subseteq req'[w].how
               /\ req[w].user = u => "no_device" \in req'[w].how
    BY <2>1, <2>2
  <2>5. \A v \in Users : v # u => confirmed'[v] = confirmed[v]
    BY <2>1 DEF TypeOK
  <2>6. QED
    BY <2>1, <2>3, <2>4, <2>5
<1>4. CASE Reactivate(u)
  <2>1. /\ UNCHANGED <<confirmed, sessions>>
        /\ req' = [w \in Workers |-> IF req[w].user = u
                                       THEN [req[w] EXCEPT !.how = @ \cup {"active"}]
                                       ELSE req[w]]
    BY <1>4 DEF Reactivate, Witness
  <2>2. ASSUME NEW w \in Workers
        PROVE  LET r == [req[w] EXCEPT !.how = @ \cup {"active"}]
               IN  /\ r \in Request /\ r.at = req[w].at /\ r.user = req[w].user
                   /\ r.key = req[w].key /\ r.data = req[w].data
                   /\ r.how = req[w].how \cup {"active"}
    <3>1. req[w] \in Request
      BY RequestType
    <3>2. QED
      BY <3>1 DEF Request, Tags
  <2>3. req' \in [Workers -> Request]
    BY <2>1, <2>2 DEF TypeOK
  <2>4. ASSUME NEW w \in Workers
        PROVE  /\ req'[w].at = req[w].at /\ req'[w].user = req[w].user
               /\ req'[w].key = req[w].key /\ req'[w].data = req[w].data
               /\ req[w].how \subseteq req'[w].how
    BY <2>1, <2>2
  <2>5. QED
    BY <2>1, <2>3, <2>4
<1>5. QED
  BY <1>1, <1>2, <1>3, <1>4

(* The session table, the browser's cookie, the users and every request in *)
(* flight have their types: a row exists only under a key that was drawn,  *)
(* and the browser holds only keys that were sent.                         *)
THEOREM TypeCorrect == Spec => []TypeOK
<1>1. ASSUME TypeOK, [Next]_vars PROVE TypeOK'
  <2>1. CASE \E w \in Workers : Step(w)
    BY <1>1, <2>1, TypeStep
  <2>2. CASE Logout
    BY <1>1, <2>2 DEF Logout, users, TypeOK
  <2>3. CASE Admin
    <3>1. req' \in [Workers -> Request] /\ UNCHANGED sessions
      BY <1>1, <2>3, AdminFacts
    <3>2. confirmed' \in [Users -> BOOLEAN] /\ active' \in [Users -> BOOLEAN]
      BY <1>1, <2>3 DEF Admin, ConfirmDevice, DisableDevice, Deactivate, Reactivate, TypeOK
    <3>3. QED
      BY <1>1, <3>1, <3>2 DEF sessions, TypeOK
  <2>4. CASE UNCHANGED vars
    BY <1>1, <2>4 DEF vars, TypeOK
  <2>5. QED
    BY <1>1, <2>1, <2>2, <2>3, <2>4, NextCases
<1>2. QED
  BY TypeInit, <1>1, PTL DEF Spec

-----------------------------------------------------------------------------
(* What holds of every request in flight.  A key that was not sent yet is  *)
(* held by the request that drew it alone, which has logged in; a key that *)
(* was sent is held by requests whose copies carry the user of the row,    *)
(* while there is a row.                                                   *)

Logged(w) == req[w].data.user # None

Known ==
    \A w \in Workers :
        /\ req[w].at = "idle" => req[w] = Idle
        /\ req[w].at # "idle" => req[w].user \in Users
        /\ req[w].key # None => req[w].key \in drawn

Holders ==
    \A w \in Workers : LET k == req[w].key IN k # None =>
        /\ k \in sent /\ store[k] # None => req[w].data.user = store[k].user
        /\ k \notin sent =>
             /\ Logged(w) /\ req[w].at \in {"audit", "save"}
             /\ \A v \in Workers \ {w} : req[v].key # k

SentRows == \A k \in Keys : Authenticated(k) => k \in sent

Inv == TypeOK /\ Known /\ Holders /\ SentRows

LEMMA InvInit == Init => Inv
BY TypeInit, IdleFacts DEF Init, Inv, Known, Holders, SentRows, Authenticated

LEMMA KnownStep == ASSUME Inv, NEW w \in Workers, Step(w) PROVE Known'
<1>1. TypeOK /\ Known /\ Others(w)
  BY StepCases, StartFacts, LogInFacts, PassOnFacts, RecordFacts, EndFacts DEF Inv
<1>2. drawn \subseteq drawn' /\ (req'[w].key # None => req'[w].key \in drawn')
  <2>1. CASE Start(w)
    BY <1>1, <2>1, StartFacts, LoadedType DEF sessions, TypeOK
  <2>2. CASE LogIn(w)
    BY <1>1, <2>2, LogInFacts DEF Known
  <2>3. CASE PassOn(w) \/ Record(w)
    BY <1>1, <2>3, PassOnFacts, RecordFacts DEF Known, sessions
  <2>4. CASE Save(w) \/ EndUnsaved(w)
    BY <1>1, <2>4, EndFacts, IdleFacts DEF sessions
  <2>5. QED
    BY <1>1, <2>1, <2>2, <2>3, <2>4, StepCases
<1>3. /\ req'[w].at = "idle" => req'[w] = Idle
      /\ req'[w].at # "idle" => req'[w].user \in Users
  <2>1. CASE Start(w)
    BY <1>1, <2>1, StartFacts
  <2>2. CASE LogIn(w)
    BY <1>1, <2>2, LogInFacts DEF LogIn, Known
  <2>3. CASE PassOn(w) \/ Record(w)
    BY <1>1, <2>3, PassOnFacts, RecordFacts DEF Known
  <2>4. CASE Save(w) \/ EndUnsaved(w)
    BY <1>1, <2>4, EndFacts, IdleFacts
  <2>5. QED
    BY <1>1, <2>1, <2>2, <2>3, <2>4, StepCases
<1>4. QED
  BY <1>1, <1>2, <1>3 DEF Known, Others

(* A response writes a row that carries the user it did before, or a row   *)
(* that nobody else holds.                                                 *)
LEMMA ResponseFacts ==
    ASSUME Inv, NEW w \in Workers, NEW k \in Keys, req[w].at = "save", Respond(w, k),
           (req[w].key = None /\ k \notin drawn) \/ (req[w].key = k /\ store[k] # None)
    PROVE  /\ store'[k] = req[w].data /\ sent' = sent \cup {k}
           /\ \A j \in Keys \ {k} : store'[j] = store[j]
           /\ k \in sent => /\ req[w].key = k /\ store[k] # None
                            /\ store'[k].user = store[k].user
           /\ k \notin sent => \A v \in Workers \ {w} : req[v].key # k
<1>1. store' = [store EXCEPT ![k] = req[w].data] /\ sent' = sent \cup {k}
  BY DEF Respond
<1>2. store \in [Keys -> Session \cup {None}] /\ sent \subseteq drawn /\ k # None
  BY NoneAssumption DEF Inv, TypeOK
<1>3. \A v \in Workers : req[v].key # None => req[v].key \in drawn
  BY DEF Inv, Known
<1>4. k \in sent => req[w].key = k /\ store[k] # None /\ req[w].data.user = store[k].user
  BY <1>2 DEF Inv, Holders
<1>5. k \notin sent => \A v \in Workers \ {w} : req[v].key # k
  BY <1>2, <1>3 DEF Inv, Holders
<1>6. QED
  BY <1>1, <1>2, <1>4, <1>5 DEF Logged

LEMMA SentRowsStep == ASSUME Inv, NEW w \in Workers, Step(w) PROVE SentRows'
<1> USE DEF SentRows
<1>1. TypeOK /\ SentRows
  BY DEF Inv
<1>2. CASE UNCHANGED sessions
  BY <1>1, <1>2 DEF Authenticated, sessions
<1>3. CASE LogIn(w)
  <2>1. req[w].key \in Keys \cup {None}
    BY <1>1, RequestType
  <2>2. sent' = sent
    BY <1>3 DEF LogIn
  <2>3. ASSUME NEW k \in Keys, Authenticated(k)' PROVE Authenticated(k)
    <3>1. \A j \in Keys : Without(req[w].key)[j] = IF j = req[w].key THEN None ELSE store[j]
      BY <1>1, <2>1, WithoutType
    <3>2. Without(req[w].key) \in [Keys -> Session \cup {None}]
      BY <1>1, <2>1, WithoutType
    <3>3. CASE /\ req'[w].key \in Keys \ drawn
               /\ \E pre \in Users \cup {None} :
                    store' = [Without(req[w].key) EXCEPT
                                ![req'[w].key] = [user |-> None, pre |-> pre]]
      BY <2>3, <3>1, <3>2, <3>3 DEF Authenticated
    <3>4. CASE UNCHANGED <<store, drawn>> \/ store' = Without(req[w].key)
      BY <2>3, <3>1, <3>4 DEF Authenticated
    <3>5. QED
      BY <1>1, <1>3, <3>3, <3>4, LogInFacts
  <2>4. QED
    BY <1>1, <2>2, <2>3
<1>4. CASE (Save(w) \/ EndUnsaved(w)) /\ ~UNCHANGED sessions
  <2>1. PICK k \in Keys :
          /\ req[w].at = "save"
          /\ (req[w].key = None /\ k \notin drawn) \/ (req[w].key = k /\ store[k] # None)
          /\ Respond(w, k)
    BY <1>1, <1>4, EndFacts
  <2>2. sent' = sent \cup {k} /\ \A j \in Keys \ {k} : store'[j] = store[j]
    BY <2>1, ResponseFacts
  <2>3. QED
    BY <1>1, <2>2 DEF Authenticated
<1>5. QED
  BY <1>1, <1>2, <1>3, <1>4, StepCases, StartFacts, PassOnFacts, RecordFacts

(* What a worker's step leaves another worker, who holds key k.            *)
LEMMA HoldersOther ==
    ASSUME Inv, NEW w \in Workers, Step(w), NEW v \in Workers \ {w}, req[v].key # None
    PROVE  LET k == req[v].key IN
           /\ k \in sent' /\ store'[k] # None => req[v].data.user = store'[k].user
           /\ k \notin sent' => k \notin sent /\ req'[w].key # k
<1> DEFINE k == req[v].key
<1>1. TypeOK /\ k \in Keys /\ k \in drawn /\ k # None /\ cookie \in sent \cup {None}
  BY RequestType DEF Inv, Known, TypeOK
<1>2. /\ k \in sent /\ store[k] # None => req[v].data.user = store[k].user
      /\ k \notin sent => req[w].key # k
  BY <1>1 DEF Inv, Holders
<1>3. CASE Start(w)
  BY <1>1, <1>2, <1>3, StartFacts, LoadedType DEF sessions
<1>4. CASE LogIn(w)
  <2>1. req[w].key \in Keys \cup {None}
    BY <1>1, RequestType
  <2>2. Without(req[w].key)[k] = IF k = req[w].key THEN None ELSE store[k]
    BY <1>1, <2>1, WithoutType
  <2>3. Without(req[w].key) \in [Keys -> Session \cup {None}] /\ sent' = sent
    BY <1>1, <1>4, <2>1, WithoutType DEF LogIn
  <2>4. (store'[k] = store[k] \/ store'[k] = None) /\ (k \notin sent => req'[w].key # k)
    <3>1. CASE /\ req'[w].key \in Keys \ drawn
               /\ \E pre \in Users \cup {None} :
                    store' = [Without(req[w].key) EXCEPT
                                ![req'[w].key] = [user |-> None, pre |-> pre]]
      BY <1>1, <2>2, <2>3, <3>1
    <3>2. CASE UNCHANGED <<store, drawn>> /\ req'[w].key = req[w].key
      BY <1>2, <3>2
    <3>3. CASE req'[w].key = None /\ store' = Without(req[w].key)
      BY <1>1, <2>2, <3>3
    <3>4. QED
      BY <1>1, <1>4, <3>1, <3>2, <3>3, LogInFacts
  <2>5. QED
    BY <1>2, <2>3, <2>4
<1>5. CASE PassOn(w) \/ Record(w)
  BY <1>1, <1>2, <1>5, PassOnFacts, RecordFacts DEF sessions
<1>6. CASE (Save(w) \/ EndUnsaved(w)) /\ UNCHANGED sessions
  BY <1>1, <1>2, <1>6, EndFacts, IdleFacts DEF sessions
<1>7. CASE (Save(w) \/ EndUnsaved(w)) /\ ~UNCHANGED sessions
  <2>1. PICK j \in Keys :
          /\ req[w].at = "save"
          /\ (req[w].key = None /\ j \notin drawn) \/ (req[w].key = j /\ store[j] # None)
          /\ Respond(w, j)
    BY <1>1, <1>7, EndFacts
  <2>2. req'[w].key = None
    BY <1>1, <1>7, EndFacts, IdleFacts
  <2>3. /\ sent' = sent \cup {j} /\ \A i \in Keys \ {j} : store'[i] = store[i]
        /\ j \in sent => store[j] # None /\ store'[j].user = store[j].user
        /\ j \notin sent => req[v].key # j
    BY <2>1, ResponseFacts
  <2>4. CASE j = k
    BY <1>2, <2>2, <2>3, <2>4
  <2>5. CASE j # k
    BY <1>1, <1>2, <2>2, <2>3, <2>5
  <2>6. QED
    BY <2>4, <2>5
<1>8. QED
  BY <1>1, <1>3, <1>4, <1>5, <1>6, <1>7, StepCases

(* And what it leaves the worker itself.                                   *)
LEMMA HoldersOwn ==
    ASSUME Inv, NEW w \in Workers, Step(w), req'[w].key # None
    PROVE  LET k == req'[w].key IN
           /\ k \in sent' /\ store'[k] # None => req'[w].data.user = store'[k].user
           /\ k \notin sent' =>
                /\ Logged(w)' /\ req'[w].at \in {"audit", "save"}
                /\ \A v \in Workers \ {w} : req[v].key # k
<1>1. /\ TypeOK /\ sent \subseteq drawn
      /\ \A v \in Workers : req[v].key # None => req[v].key \in drawn
      /\ req[w].at # "idle" => req[w].user \in Users
  BY DEF Inv, Known, TypeOK
<1>2. LET k == req[w].key IN k # None =>
        /\ k \in sent /\ store[k] # None => req[w].data.user = store[k].user
        /\ k \notin sent => /\ Logged(w) /\ req[w].at \in {"audit", "save"}
                            /\ \A v \in Workers \ {w} : req[v].key # k
  BY DEF Inv, Holders
<1>3. CASE Start(w)
  BY <1>1, <1>3, StartFacts, LoadedType DEF sessions, Logged
<1>4. CASE LogIn(w)
  <2>1. /\ Logged(w)' /\ req'[w].at = "audit" /\ sent' = sent
        /\ req'[w].data.user = req[w].user
    BY <1>1, <1>4, LogInFacts, NoneAssumption DEF LogIn, Logged
  <2>2. CASE req'[w].key \in Keys \ drawn
    BY <1>1, <2>1, <2>2
  <2>3. CASE req[w].data.user = req[w].user /\ req'[w].key = req[w].key /\ store' = store
    BY <1>1, <1>2, <1>4, <2>1, <2>3, NoneAssumption DEF LogIn, Logged
  <2>4. QED
    BY <1>1, <1>4, <2>2, <2>3, LogInFacts
<1>5. CASE PassOn(w) \/ Record(w)
  BY <1>1, <1>2, <1>5, PassOnFacts, RecordFacts DEF sessions, Logged
<1>6. CASE Save(w) \/ EndUnsaved(w)
  BY <1>1, <1>6, EndFacts, IdleFacts
<1>7. QED
  BY <1>1, <1>3, <1>4, <1>5, <1>6, StepCases

LEMMA HoldersStep == ASSUME Inv, NEW w \in Workers, Step(w) PROVE Holders'
<1>1. Others(w) /\ Holders
  BY StepCases, StartFacts, LogInFacts, PassOnFacts, RecordFacts, EndFacts DEF Inv
<1>2. SUFFICES ASSUME NEW v \in Workers, req'[v].key # None
               PROVE  LET k == req'[v].key IN
                      /\ k \in sent' /\ store'[k] # None =>
                           req'[v].data.user = store'[k].user
                      /\ k \notin sent' =>
                           /\ Logged(v)' /\ req'[v].at \in {"audit", "save"}
                           /\ \A u \in Workers \ {v} : req'[u].key # k
  BY DEF Holders
<1>3. CASE v = w
  BY <1>1, <1>2, <1>3, HoldersOwn DEF Others
<1>4. CASE v # w
  <2>1. req'[v] = req[v]
    BY <1>1, <1>4 DEF Others
  <2>2. \A u \in Workers \ {w} : req'[u] = req[u]
    BY <1>1 DEF Others
  <2> DEFINE k == req[v].key
  <2>3. /\ k \in sent' /\ store'[k] # None => req[v].data.user = store'[k].user
        /\ k \notin sent' => k \notin sent /\ req'[w].key # k
    BY <1>2, <1>4, <2>1, HoldersOther
  <2>4. k \notin sent => /\ Logged(v) /\ req[v].at \in {"audit", "save"}
                         /\ \A u \in Workers \ {v} : req[u].key # k
    BY <1>1, <1>2, <2>1 DEF Holders
  <2>5. k \notin sent' => \A u \in Workers \ {v} : req'[u].key # k
    BY <2>2, <2>3, <2>4
  <2>6. QED
    BY <2>1, <2>3, <2>4, <2>5 DEF Logged
<1>5. QED
  BY <1>3, <1>4

LEMMA InvNext == ASSUME Inv, [Next]_vars PROVE Inv'
<1>1. CASE \E w \in Workers : Step(w)
  BY <1>1, TypeStep, KnownStep, HoldersStep, SentRowsStep DEF Inv
<1>2. CASE Logout
  <2>1. /\ UNCHANGED <<users, drawn, sent, req>> /\ cookie' = None
        /\ store' = [store EXCEPT ![cookie] = None] /\ cookie \in Keys
    BY <1>2 DEF Logout, Inv, TypeOK
  <2>2. TypeOK'
    BY <2>1 DEF Inv, TypeOK, users
  <2>3. \A k \in Keys : store'[k] = store[k] \/ store'[k] = None
    BY <2>1 DEF Inv, TypeOK
  <2>4. \A w \in Workers : req[w].key \in Keys \cup {None}
    BY RequestType DEF Inv
  <2>5. QED
    BY <2>1, <2>2, <2>3, <2>4 DEF Inv, Known, Holders, SentRows, Authenticated, Logged
<1>3. CASE Admin
  <2>1. TypeOK'
    <3>1. confirmed' \in [Users -> BOOLEAN] /\ active' \in [Users -> BOOLEAN]
      BY <1>3 DEF Inv, Admin, ConfirmDevice, DisableDevice, Deactivate, Reactivate, TypeOK
    <3>2. QED
      BY <1>3, <3>1, AdminFacts DEF Inv, sessions, TypeOK
  <2>2. /\ UNCHANGED sessions
        /\ \A w \in Workers :
             /\ req'[w].at = req[w].at /\ req'[w].user = req[w].user
             /\ req'[w].key = req[w].key /\ req'[w].data = req[w].data
    BY <1>3, AdminFacts DEF Inv
  <2>3. \A w \in Workers : req[w].at = "idle" => req'[w] = Idle
    <3>1. ASSUME NEW w \in Workers, req[w].at = "idle" PROVE req'[w] = req[w]
      <4>1. req[w].user = None
        BY <3>1, IdleFacts DEF Inv, Known
      <4>2. QED
        BY <1>3, <4>1, NoneAssumption
           DEF Admin, ConfirmDevice, DisableDevice, Deactivate, Reactivate, Witness
    <3>2. QED
      BY <3>1 DEF Inv, Known
  <2>4. QED
    BY <2>1, <2>2, <2>3
       DEF Inv, Known, Holders, SentRows, Authenticated, Logged, sessions
<1>4. CASE UNCHANGED vars
  BY <1>4 DEF vars, Inv, TypeOK, Known, Holders, SentRows, Authenticated, Logged
<1>5. QED
  BY <1>1, <1>2, <1>3, <1>4, NextCases

-----------------------------------------------------------------------------
(* What a request's login rests on.  A copy that carries a user was loaded *)
(* from a row that did, whose key was sent, or this request has logged in, *)
(* with the reasons that the gates ask for.                                *)

Good(how) ==
    /\ how \cap {"second_factor", "no_device"} # {}
    /\ how \cap {"active", "oauth"} # {}

Reasons ==
    \A w \in Workers : LET r == req[w] IN
        /\ r.user \in Users /\ ~confirmed[r.user] => "no_device" \in r.how
        /\ r.at \in {"device", "code"} => r.how \cap {"active", "oauth"} # {}
        /\ Logged(w) =>
             \/ r.key \in sent
             \/ r.at = "audit" /\ Good(r.how)
             \/ r.at = "save" /\ Good(r.how) /\ "audited" \in r.how

LEMMA ReasonsInit == Init => Reasons
BY IdleFacts, NoneAssumption DEF Init, Reasons, Logged

LEMMA SentGrows == ASSUME TypeOK, NEW w \in Workers, Step(w) PROVE sent \subseteq sent'
<1>1. UNCHANGED sessions => sent \subseteq sent'
  BY DEF sessions
<1>2. LogIn(w) => sent \subseteq sent'
  BY DEF LogIn
<1>3. ASSUME NEW k \in Keys, Respond(w, k) PROVE sent \subseteq sent'
  BY <1>3 DEF Respond
<1>4. QED
  BY <1>1, <1>2, <1>3, StepCases, StartFacts, PassOnFacts, RecordFacts, EndFacts

LEMMA ReasonsStep ==
    ASSUME Inv, Reasons, NEW w \in Workers, Step(w)
    PROVE  Reasons'
<1>1. TypeOK /\ sent \subseteq sent' /\ Others(w)
  BY SentGrows, StepCases, StartFacts, LogInFacts, PassOnFacts, RecordFacts,
       EndFacts DEF Inv
<1>2. confirmed' = confirmed
  BY <1>1, StepCases, StartFacts, PassOnFacts, RecordFacts, EndFacts DEF LogIn, users
<1>3. ASSUME NEW v \in Workers \ {w}
      PROVE  LET r == req'[v] IN
             /\ r.user \in Users /\ ~confirmed'[r.user] => "no_device" \in r.how
             /\ r.at \in {"device", "code"} => r.how \cap {"active", "oauth"} # {}
             /\ Logged(v)' => \/ r.key \in sent'
                              \/ r.at = "audit" /\ Good(r.how)
                              \/ r.at = "save" /\ Good(r.how) /\ "audited" \in r.how
  BY <1>1, <1>2 DEF Others, Reasons, Logged
<1>4. LET r == req'[w] IN
      /\ r.user \in Users /\ ~confirmed'[r.user] => "no_device" \in r.how
      /\ r.at \in {"device", "code"} => r.how \cap {"active", "oauth"} # {}
      /\ Logged(w)' => \/ r.key \in sent'
                       \/ r.at = "audit" /\ Good(r.how)
                       \/ r.at = "save" /\ Good(r.how) /\ "audited" \in r.how
  <2>0. /\ req[w].user \in Users /\ ~confirmed[req[w].user] => "no_device" \in req[w].how
        /\ req[w].at \in {"device", "code"} => req[w].how \cap {"active", "oauth"} # {}
        /\ Logged(w) => \/ req[w].key \in sent
                        \/ req[w].at = "audit" /\ Good(req[w].how)
                        \/ req[w].at = "save" /\ Good(req[w].how) /\ "audited" \in req[w].how
    BY DEF Reasons
  <2>1. CASE Start(w)
    BY <1>1, <1>2, <2>1, StartFacts, LoadedType DEF Logged
  <2>2. CASE LogIn(w)
    <3>1. /\ req[w].user \in Users /\ req[w].at \in {"device", "code"}
          /\ req[w].how \subseteq req'[w].how /\ req'[w].at = "audit"
          /\ req'[w].user = req[w].user
          /\ ~confirmed[req[w].user] \/ "second_factor" \in req'[w].how
      BY <1>1, <2>2, LogInFacts DEF LogIn, Inv, Known
    <3>2. Good(req'[w].how)
      BY <2>0, <3>1 DEF Good
    <3>3. QED
      BY <1>2, <2>0, <3>1, <3>2
  <2>3. CASE PassOn(w)
    BY <1>1, <1>2, <2>0, <2>3, PassOnFacts DEF Logged
  <2>4. CASE Record(w)
    BY <1>1, <1>2, <2>0, <2>4, RecordFacts DEF Logged, Good
  <2>5. CASE Save(w) \/ EndUnsaved(w)
    BY <1>1, <2>5, EndFacts, IdleFacts, NoneAssumption DEF Logged
  <2>6. QED
    BY <1>1, <2>1, <2>2, <2>3, <2>4, <2>5, StepCases
<1>5. QED
  BY <1>3, <1>4 DEF Reasons

LEMMA ReasonsNext == ASSUME Inv, Reasons, [Next]_vars PROVE Reasons'
<1>1. CASE \E w \in Workers : Step(w)
  BY <1>1, ReasonsStep
<1>2. CASE Logout
  BY <1>2 DEF Logout, users, Reasons, Logged
<1>3. CASE Admin
  <2>1. sent' = sent
    BY <1>3, AdminFacts DEF Inv, sessions
  <2>2. ASSUME NEW w \in Workers
        PROVE  /\ req'[w].at = req[w].at /\ req'[w].user = req[w].user
               /\ req'[w].key = req[w].key /\ req'[w].data = req[w].data
               /\ req[w].how \subseteq req'[w].how
               /\ req[w].user \in Users /\ ~confirmed'[req[w].user] => "no_device" \in req'[w].how
    BY <1>3, AdminFacts DEF Inv, Reasons
  <2>3. \A w \in Workers : Good(req[w].how) => Good(req'[w].how)
    BY <2>2 DEF Good
  <2>4. QED
    BY <2>1, <2>2, <2>3 DEF Reasons, Logged
<1>4. CASE UNCHANGED vars
  BY <1>4 DEF vars, Reasons, Logged
<1>5. QED
  BY <1>1, <1>2, <1>3, <1>4, NextCases

(* A row that starts to carry a user gets it from a response whose request *)
(* has logged in.                                                          *)
LEMMA OpensFacts ==
    ASSUME Inv, Reasons, Next, NEW k \in Keys, Opens(k)
    PROVE  \E w \in Workers :
             OpenedBy(w) /\ Good(req[w].how) /\ "audited" \in req[w].how
<1>1. store'[k] # None /\ store'[k].user # None /\ ~Authenticated(k) /\ TypeOK
  BY DEF Opens, Inv
<1>2. CASE UNCHANGED sessions \/ Logout \/ Admin
  <2>1. store'[k] = store[k] \/ store'[k] = None
    BY <1>1, <1>2, AdminFacts DEF sessions, Logout, TypeOK
  <2>2. QED
    BY <1>1, <2>1 DEF Authenticated
<1>3. ASSUME NEW w \in Workers, Step(w), ~UNCHANGED sessions
      PROVE  OpenedBy(w) /\ Good(req[w].how) /\ "audited" \in req[w].how
  <2>1. CASE LogIn(w)
    <3>1. req[w].key \in Keys \cup {None}
      BY <1>1, RequestType
    <3>2. /\ Without(req[w].key) \in [Keys -> Session \cup {None}]
          /\ Without(req[w].key)[k] = None \/ Without(req[w].key)[k] = store[k]
      BY <1>1, <3>1, WithoutType
    <3>3. CASE \E pre \in Users \cup {None} :
                 store' = [Without(req[w].key) EXCEPT
                             ![req'[w].key] = [user |-> None, pre |-> pre]]
      BY <1>1, <3>2, <3>3 DEF Authenticated
    <3>4. CASE store' = store \/ store' = Without(req[w].key)
      BY <1>1, <3>2, <3>4 DEF Authenticated
    <3>5. QED
      BY <1>1, <2>1, <3>3, <3>4, LogInFacts
  <2>2. CASE Save(w) \/ EndUnsaved(w)
    <3>1. PICK j \in Keys :
            /\ req[w].at = "save"
            /\ (req[w].key = None /\ j \notin drawn) \/ (req[w].key = j /\ store[j] # None)
            /\ Respond(w, j)
      BY <1>1, <1>3, <2>2, EndFacts
    <3>2. /\ store'[j] = req[w].data /\ \A i \in Keys \ {j} : store'[i] = store[i]
          /\ j \in sent => store[j] # None /\ store'[j].user = store[j].user
      BY <3>1, ResponseFacts
    <3>3. j = k
      BY <1>1, <3>2 DEF Authenticated
    <3>4. Logged(w) /\ k \notin sent
      BY <1>1, <3>2, <3>3 DEF Authenticated, Logged
    <3>5. req[w].key \notin sent
      BY <1>1, <3>1, <3>3, <3>4, NoneAssumption DEF TypeOK
    <3>6. Good(req[w].how) /\ "audited" \in req[w].how
      BY <3>1, <3>4, <3>5 DEF Reasons
    <3>7. OpenedBy(w)
      BY <1>1, <2>2, <3>1, EndFacts, IdleFacts DEF OpenedBy
    <3>8. QED
      BY <3>6, <3>7
  <2>3. QED
    BY <1>1, <1>3, <2>1, <2>2, StepCases, StartFacts, PassOnFacts, RecordFacts
<1>4. QED
  BY <1>2, <1>3, NextCases

LEMMA AlwaysInv == Spec => [](Inv /\ Reasons)
BY InvInit, InvNext, ReasonsInit, ReasonsNext, PTL DEF Spec

(* No session opens without a second factor for a user whose device was    *)
(* confirmed ever since the request knew the user: for any number of       *)
(* users, tabs and requests, whatever other browsers do meanwhile.         *)
THEOREM GateHolds == Spec => MfaGate
<1>1. ASSUME Inv, Reasons, [Next]_vars
      PROVE  [\A k \in Keys : Opens(k) =>
                \E w \in Workers :
                  OpenedBy(w) /\ req[w].how \cap {"second_factor", "no_device"} # {}]_vars
  BY <1>1, OpensFacts DEF Good
<1>2. QED
  BY AlwaysInv, <1>1, PTL DEF Spec, MfaGate

(* No session opens before its SUCCESS row is written.                     *)
THEOREM OpenIsAudited == Spec => AuditedBeforeOpen
<1>1. ASSUME Inv, Reasons, [Next]_vars
      PROVE  [\A k \in Keys : Opens(k) =>
                \E w \in Workers : OpenedBy(w) /\ "audited" \in req[w].how]_vars
  BY <1>1, OpensFacts
<1>2. QED
  BY AlwaysInv, <1>1, PTL DEF Spec, AuditedBeforeOpen

(* Only an OAuth callback opens a session for a user who was inactive all  *)
(* along.                                                                  *)
THEOREM InactiveKeptOut == Spec => ActiveGate
<1>1. ASSUME Inv, Reasons, [Next]_vars
      PROVE  [\A k \in Keys : Opens(k) =>
                \E w \in Workers :
                  OpenedBy(w) /\ req[w].how \cap {"active", "oauth"} # {}]_vars
  BY <1>1, OpensFacts DEF Good
<1>2. QED
  BY AlwaysInv, <1>1, PTL DEF Spec, ActiveGate

-----------------------------------------------------------------------------
(* Keys and rows.                                                          *)

LEMMA RowsFacts ==
    ASSUME Inv, Next, NEW k \in drawn
    PROVE  /\ store[k] = None => store'[k] = None
           /\ k \in sent /\ store[k] # None /\ ~Authenticated(k) => ~Authenticated(k)'
<1>1. TypeOK /\ k \in Keys
  BY DEF Inv, TypeOK
<1>2. CASE UNCHANGED sessions \/ Logout \/ Admin
  <2>1. store'[k] = store[k] \/ store'[k] = None
    BY <1>1, <1>2, AdminFacts DEF sessions, Logout, TypeOK
  <2>2. QED
    BY <2>1 DEF Authenticated
<1>3. ASSUME NEW w \in Workers, Step(w), ~UNCHANGED sessions
      PROVE  /\ store[k] = None => store'[k] = None
             /\ k \in sent /\ store[k] # None /\ ~Authenticated(k) => ~Authenticated(k)'
  <2>1. CASE LogIn(w)
    <3>1. req[w].key \in Keys \cup {None}
      BY <1>1, RequestType
    <3>2. /\ Without(req[w].key) \in [Keys -> Session \cup {None}]
          /\ Without(req[w].key)[k] = None \/ Without(req[w].key)[k] = store[k]
      BY <1>1, <3>1, WithoutType
    <3>3. store'[k] = store[k] \/ store'[k] = None
      BY <1>1, <2>1, <3>2, LogInFacts
    <3>4. QED
      BY <3>3 DEF Authenticated
  <2>2. CASE Save(w) \/ EndUnsaved(w)
    <3>1. PICK j \in Keys :
            /\ req[w].at = "save"
            /\ (req[w].key = None /\ j \notin drawn) \/ (req[w].key = j /\ store[j] # None)
            /\ Respond(w, j)
      BY <1>1, <1>3, <2>2, EndFacts
    <3>2. /\ \A i \in Keys \ {j} : store'[i] = store[i]
          /\ j \in sent => store[j] # None /\ store'[j].user = store[j].user
      BY <3>1, ResponseFacts
    <3>3. QED
      BY <1>1, <3>1, <3>2 DEF Authenticated
  <2>3. QED
    BY <1>1, <1>3, <2>1, <2>2, StepCases, StartFacts, PassOnFacts, RecordFacts
<1>4. QED
  BY <1>2, <1>3, NextCases

(* A key that the browser held before a login never becomes the key of a   *)
(* signed-in session, whatever requests still respond under it.            *)
THEOREM KeysAreRotated == Spec => KeysRotate
<1>1. ASSUME Inv, [Next]_vars
      PROVE  [\A k \in sent : store[k] # None /\ ~Authenticated(k) => ~Authenticated(k)']_vars
  BY <1>1, RowsFacts DEF Inv, TypeOK
<1>2. QED
  BY AlwaysInv, <1>1, PTL DEF Spec, KeysRotate

(* A session that was deleted is never written again.                      *)
THEOREM DeletedForGood == Spec => DeletedStayDeleted
<1>1. ASSUME Inv, [Next]_vars
      PROVE  [\A k \in drawn : store[k] = None => store'[k] = None]_vars
  BY <1>1, RowsFacts
<1>2. QED
  BY AlwaysInv, <1>1, PTL DEF Spec, DeletedStayDeleted

-----------------------------------------------------------------------------
(* Refinement: sessions belong to whom they belonged to when their key was *)
(* first sent.                                                             *)

LEMMA PromiseInit == Init => Promise!Init
BY DEF Init, Promise!Init, Live, Owner

(* A step that deletes at most the row of one key the browser was sent.    *)
LEMMA PromiseEnds ==
    ASSUME TypeOK, sent' = sent, NEW j,
           \A k \in sent : store'[k] = IF k = j THEN None ELSE store[k]
    PROVE  [Promise!Next]_(Promise!vars)
<1>1. sent \subseteq Keys
  BY DEF TypeOK
<1>2. Live' = Live \ {j}
  BY DEF Live
<1>3. Owner' = [k \in Keys |-> IF k = j THEN None ELSE Owner[k]]
  <2>1. ASSUME NEW k \in Keys PROVE Owner'[k] = IF k = j THEN None ELSE Owner[k]
    BY <1>2 DEF Owner, Live
  <2>2. QED
    BY <2>1 DEF Owner
<1>4. CASE j \in Live
  <2>1. j \in Keys /\ Owner \in [Keys -> {Owner[k] : k \in Keys}]
    BY <1>1, <1>4 DEF Live, Owner
  <2>2. Promise!End(j)
    BY <1>2, <1>3, <1>4, <2>1 DEF Promise!End, Owner
  <2>3. QED
    BY <2>1, <2>2 DEF Promise!Next
<1>5. CASE j \notin Live
  <2>1. Live' = Live
    BY <1>2, <1>5
  <2>2. Owner' = Owner
    BY <2>1, <1>3, <1>5 DEF Owner
  <2>3. QED
    BY <2>1, <2>2 DEF Promise!vars
<1>6. QED
  BY <1>4, <1>5

(* A response starts the session of its key, or leaves it to its owner.    *)
LEMMA PromiseStarts ==
    ASSUME Inv, NEW w \in Workers, NEW k \in Keys, req[w].at = "save", Respond(w, k),
           (req[w].key = None /\ k \notin drawn) \/ (req[w].key = k /\ store[k] # None)
    PROVE  [Promise!Next]_(Promise!vars)
<1> DEFINE u == req[w].data.user
<1>1. /\ req[w].data \in Session /\ u \in Users \cup {None} /\ req[w].data # None
      /\ store \in [Keys -> Session \cup {None}] /\ sent \subseteq Keys
  BY RequestType, RowAssumption DEF Inv, TypeOK
<1>2. /\ store'[k] = req[w].data /\ sent' = sent \cup {k}
      /\ \A j \in Keys \ {k} : store'[j] = store[j]
      /\ k \in sent => store[k] # None /\ store'[k].user = store[k].user
  BY ResponseFacts
<1> HIDE DEF u
<1>3. Live' = Live \cup {k}
  BY <1>1, <1>2 DEF Live
<1>4. ASSUME NEW j \in Keys PROVE Owner'[j] = IF j = k THEN u ELSE Owner[j]
  BY <1>2, <1>3 DEF Owner, u
<1>5. CASE k \in sent
  <2>1. k \in Live /\ Live' = Live /\ sent' = sent
    BY <1>2, <1>3, <1>5 DEF Live
  <2>2. \A j \in Keys : Owner'[j] = Owner[j]
    BY <1>2, <1>5, <2>1 DEF Owner
  <2>3. Owner' = Owner
    BY <2>2 DEF Owner
  <2>4. QED
    BY <2>1, <2>3 DEF Promise!vars
<1>6. CASE k \notin sent
  <2>1. Owner' = [Owner EXCEPT ![k] = u]
    BY <1>4 DEF Owner
  <2>2. Promise!Start(k, u)
    BY <1>2, <1>3, <1>6, <2>1 DEF Promise!Start
  <2>3. QED
    BY <1>1, <2>2 DEF Promise!Next
<1>7. QED
  BY <1>5, <1>6

LEMMA PromiseStep == ASSUME Inv, [Next]_vars PROVE [Promise!Next]_(Promise!vars)
<1>1. TypeOK /\ sent \subseteq Keys /\ sent \subseteq drawn
  BY DEF Inv, TypeOK
<1>2. CASE UNCHANGED sessions
  BY <1>2 DEF sessions, Promise!vars, Live, Owner
<1>3. CASE Logout
  <2>1. sent' = sent /\ store' = [store EXCEPT ![cookie] = None]
    BY <1>3 DEF Logout
  <2>2. \A k \in sent : store'[k] = IF k = cookie THEN None ELSE store[k]
    BY <1>1, <2>1 DEF TypeOK
  <2>3. QED
    BY <1>1, <2>1, <2>2, PromiseEnds
<1>4. ASSUME NEW w \in Workers, LogIn(w) PROVE [Promise!Next]_(Promise!vars)
  <2>1. req[w].key \in Keys \cup {None} /\ sent' = sent
    BY <1>1, <1>4, RequestType DEF LogIn
  <2>2. /\ Without(req[w].key) \in [Keys -> Session \cup {None}]
        /\ \A k \in Keys : Without(req[w].key)[k] = IF k = req[w].key THEN None ELSE store[k]
    BY <1>1, <2>1, WithoutType
  <2>3. \/ \A k \in sent : store'[k] = Without(req[w].key)[k]
        \/ store' = store
    <3>1. CASE /\ req'[w].key \in Keys \ drawn
               /\ \E pre \in Users \cup {None} :
                    store' = [Without(req[w].key) EXCEPT
                                ![req'[w].key] = [user |-> None, pre |-> pre]]
      BY <1>1, <2>2, <3>1
    <3>2. CASE store' = store \/ store' = Without(req[w].key)
      BY <3>2
    <3>3. QED
      BY <1>1, <1>4, <3>1, <3>2, LogInFacts
  <2>4. CASE store' = store
    BY <2>1, <2>4 DEF Promise!vars, Live, Owner
  <2>5. CASE \A k \in sent : store'[k] = Without(req[w].key)[k]
    <3>1. \A k \in sent : store'[k] = IF k = req[w].key THEN None ELSE store[k]
      BY <1>1, <2>2, <2>5
    <3>2. QED
      BY <1>1, <2>1, <3>1, PromiseEnds
  <2>6. QED
    BY <2>3, <2>4, <2>5
<1>5. ASSUME NEW w \in Workers, Save(w) \/ EndUnsaved(w), ~UNCHANGED sessions
      PROVE  [Promise!Next]_(Promise!vars)
  <2>1. PICK k \in Keys :
          /\ req[w].at = "save"
          /\ (req[w].key = None /\ k \notin drawn) \/ (req[w].key = k /\ store[k] # None)
          /\ Respond(w, k)
    BY <1>1, <1>5, EndFacts
  <2>2. QED
    BY <2>1, PromiseStarts
<1>6. CASE Admin
  BY <1>1, <1>2, <1>6, AdminFacts
<1>7. CASE \E w \in Workers : Step(w)
  BY <1>1, <1>2, <1>4, <1>5, <1>7, StepCases, StartFacts, PassOnFacts, RecordFacts
<1>8. CASE UNCHANGED vars
  BY <1>2, <1>8 DEF vars, sessions
<1>9. QED
  BY <1>3, <1>6, <1>7, <1>8, NextCases

(* Under a key that a browser was sent, the session table never signs in   *)
(* anybody but the user it was first sent for, and nobody after it ended:  *)
(* for any number of users, keys and requests in flight.                   *)
THEOREM Refinement == Spec => KeepsPromise
<1>1. Inv /\ [Next]_vars => [Promise!Next]_(Promise!vars)
  BY PromiseStep
<1>2. QED
  BY <1>1, PromiseInit, AlwaysInv, PTL DEF Spec, KeepsPromise, Promise!Spec
=============================================================================
