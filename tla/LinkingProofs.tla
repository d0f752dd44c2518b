---------------------------- MODULE LinkingProofs ---------------------------
(***************************************************************************)
(* Theorems about account linking: which accounts can share an address,    *)
(* that an identity is linked only to an account that once had an address  *)
(* its provider reported, and when its link can move.                      *)
(***************************************************************************)
EXTENDS Linking, FiniteSetTheorems, TLAPS

(* Every action of a worker, and every one of the others, in one line.     *)
Step(w) ==
    \/ \E s \in Spellings : Register(w, s)
    \/ Insert(w)
    \/ \E i \in Identities, s \in Spellings : FetchUser(w, i, s)
    \/ FindLink(w) \/ FindUser(w) \/ Complete(w) \/ Link(w)
    \/ Abort(w)
Outside ==
    \/ \E s \in Spellings, verified \in BOOLEAN :
         \/ AdminAdd(s, verified)
         \/ \E u \in Users, oauth \in BOOLEAN : AdminEdit(u, s, verified, oauth)
    \/ \E u \in Users : VerifyAddress(u) \/ Delete(u)
    \/ \E i \in Identities, u \in Users \cup {NoUser} : AdminLink(i, u)

(* The steps at which a request carries an address, and those at which it  *)
(* carries the address of a profile.                                       *)
Carries(w) == At(w, "find_link") \/ At(w, "find_user") \/ At(w, "insert") \/ At(w, "complete")
OfProfile(w) == Carries(w) /\ (At(w, "insert") => req[w].identity # NoIdentity)

(* Every address is stored, or about to be stored, in lower case, but for  *)
(* what an administrator typed, and spellings are unique.                  *)
Stored ==
    /\ \A u \in Users \ edited : Exists(u) => ~Capitals(u)
    /\ \A u, v \in Users :
         Exists(u) /\ Exists(v) /\ account[u].email = account[v].email => u = v
Addresses ==
    /\ Stored
    /\ \A w \in Workers : Carries(w) => Lower[req[w].email] = req[w].email

(* An account that a callback is still creating is its own, and has its    *)
(* address if no administrator gave it another.                            *)
Creators ==
    /\ \A w \in Workers : At(w, "complete") \/ At(w, "link") => req[w].user \in drawn
    /\ \A w \in Workers :
         At(w, "complete") /\ Exists(req[w].user) /\ req[w].user \notin edited =>
           account[req[w].user].email = req[w].email
    /\ \A v, w \in Workers :
         At(v, "complete") /\ At(w, "complete") /\ req[v].user = req[w].user => v = w

(* An account is matched at the latest when an identity has its address,   *)
(* and before a callback of the identity comes to link it.                 *)
MatchedNow ==
    \A i \in Identities, u \in Users :
        Exists(u) /\ Lower[account[u].email] \in vouched[i] => <<i, u>> \in matched
Vouched ==
    /\ LinkVouched
    /\ MatchedNow
    /\ \A p \in matched : p[2] \in drawn
    /\ \A w \in Workers : OfProfile(w) => req[w].email \in vouched[req[w].identity]
    /\ \A w \in Workers :
         At(w, "complete") \/ At(w, "link") => <<req[w].identity, req[w].user>> \in matched

(* It stays so while no administrator edits it, even if it is deleted and  *)
(* then created again by the callback that made it.                        *)
MatchedStays ==
    \A i \in Identities, u \in Users \ edited :
        <<i, u>> \in matched =>
          /\ Exists(u) => Lower[account[u].email] \in vouched[i]
          /\ \A v \in Workers :
               At(v, "complete") /\ req[v].user = u => req[v].email \in vouched[i]

Inv == TypeOK /\ Addresses /\ Creators /\ Vouched /\ MatchedStays

-----------------------------------------------------------------------------

LEMMA NextCases == Next <=> (\E w \in Workers : Step(w)) \/ Outside
BY DEF Next, Step, Outside

Finding == [at : {"find_link", "find_user"}, identity : Identities, email : Spellings]
Inserting == [at : {"insert"}, identity : Identities \cup {NoIdentity}, email : Spellings]
Completing == [at : {"complete"}, identity : Identities, email : Spellings, user : Users]
LinkingUp == [at : {"link"}, identity : Identities, user : Users]

LEMMA Kinds == Busy = Finding \cup Inserting \cup Completing \cup LinkingUp
BY DEF Busy, Finding, Inserting, Completing, LinkingUp

(* What a request can be, by the step it is at.                            *)
LEMMA RequestCases ==
    ASSUME TypeOK, NEW w \in Workers
    PROVE  /\ At(w, "idle") => req[w] = Idle
           /\ At(w, "find_link") \/ At(w, "find_user") => req[w] \in Finding
           /\ At(w, "insert") => req[w] \in Inserting
           /\ At(w, "complete") => req[w] \in Completing
           /\ At(w, "link") => req[w] \in LinkingUp
<1>1. req[w] = Idle \/ req[w] \in Busy
  BY DEF TypeOK
<1>2. /\ Idle.at = "idle"
      /\ \A r \in Finding : r.at \in {"find_link", "find_user"}
      /\ \A r \in Inserting : r.at = "insert"
      /\ \A r \in Completing : r.at = "complete"
      /\ \A r \in LinkingUp : r.at = "link"
  BY DEF Idle, Finding, Inserting, Completing, LinkingUp
<1>3. QED
  BY <1>1, <1>2, Kinds DEF At

(* A worker's step is no other worker's.                                   *)
LEMMA OtherWorkers ==
    ASSUME TypeOK, NEW w \in Workers, Step(w)
    PROVE  \A v \in Workers \ {w} : req'[v] = req[v]
BY DEF TypeOK, Step, Register, Insert, InsertRow, FetchUser, Report,
     FindLink, FindUser, FindAmong, Complete, SaveRow, Link, Abort, Goto

-----------------------------------------------------------------------------
(* What the steps do to the tables.                                        *)

(* The row of u is written, with an address that no other row has.         *)
Puts(u, a) ==
    /\ a \in Account
    /\ account' = [account EXCEPT ![u] = a]
    /\ \A v \in Users \ {u} : Exists(v) => account[v].email # a.email
    /\ Watch
    /\ UNCHANGED <<link, vouched, moves, assigned>>

(* By an INSERT, by the user.save() of a callback, by an administrator.    *)
Creates(w, u, a) ==
    /\ Puts(u, a)
    /\ At(w, "insert")
    /\ a.email = req[w].email
    /\ u \notin drawn
    /\ drawn' = drawn \cup {u}
    /\ edited' = edited
    /\ req' = [req EXCEPT ![w] =
                 IF req[w].identity = NoIdentity THEN Idle
                   ELSE [at |-> "complete", identity |-> req[w].identity,
                         email |-> req[w].email, user |-> u]]
Saves(w, u, a) ==
    /\ Puts(u, a)
    /\ At(w, "complete")
    /\ u = req[w].user
    /\ a.email = req[w].email
    /\ UNCHANGED <<drawn, edited>>
    /\ req' = [req EXCEPT ![w] = [at |-> "link", identity |-> req[w].identity, user |-> u]]
Edits(u, a) ==
    /\ Puts(u, a)
    /\ drawn' = drawn \cup {u}
    /\ edited' = edited \cup {u}
    /\ req' = req

(* Or none of it matters here.                                             *)
Quiet ==
    /\ account' \in [Users -> Account \cup {NoAccount}]
    /\ \A u \in Users : /\ Exists(u)' <=> Exists(u)
                        /\ Exists(u) => account'[u].email = account[u].email
    /\ UNCHANGED <<drawn, link, seen, marks>>

LEMMA InsertCreates ==
    ASSUME TypeOK, NEW w \in Workers, Insert(w)
    PROVE  \E u \in Users, a \in Account : Creates(w, u, a)
<1>1. PICK u \in Users \ drawn :
        LET a == [email |-> req[w].email, verified |-> FALSE,
                  oauth |-> req[w].identity # NoIdentity]
        IN  /\ account' = [account EXCEPT ![u] = a]
            /\ drawn' = drawn \cup {u}
            /\ Goto(w, IF req[w].identity = NoIdentity THEN Idle
                         ELSE [at |-> "complete", identity |-> req[w].identity,
                               email |-> req[w].email, user |-> u])
            /\ Watch
            /\ UNCHANGED <<link, vouched, marks>>
  BY DEF Insert, InsertRow
<1> DEFINE a == [email |-> req[w].email, verified |-> FALSE,
                 oauth |-> req[w].identity # NoIdentity]
<1>2. At(w, "insert") /\ ~Taken(req[w].email)
  BY DEF Insert, InsertRow
<1>3. req[w] \in Inserting
  BY <1>2, RequestCases
<1>4. a \in Account /\ a.email = req[w].email
  BY <1>3 DEF Inserting, Account
<1>5. account' = [account EXCEPT ![u] = a]
  BY <1>1
<1>6. \A v \in Users : Exists(v) => account[v].email # a.email
  BY <1>2, <1>4 DEF Taken
<1> HIDE DEF a
<1>7. Puts(u, a)
  BY <1>1, <1>4, <1>5, <1>6 DEF Puts, marks
<1>8. Creates(w, u, a)
  BY <1>1, <1>2, <1>4, <1>7 DEF Creates, Goto, marks
<1>9. QED
  BY <1>4, <1>8

LEMMA CompleteSaves ==
    ASSUME TypeOK, NEW w \in Workers, Complete(w)
    PROVE  \E u \in Users, a \in Account : Saves(w, u, a)
<1> DEFINE u == req[w].user
           a == [email |-> req[w].email, verified |-> TRUE, oauth |-> TRUE]
<1>1. At(w, "complete") /\ req[w] \in Completing
  BY RequestCases DEF Complete
<1>2. u \in Users /\ a \in Account /\ a.email = req[w].email
  BY <1>1 DEF Completing, Account
<1>3. /\ SaveRow(u, a)
      /\ Goto(w, [at |-> "link", identity |-> req[w].identity, user |-> u])
      /\ UNCHANGED <<drawn, link, vouched, marks>>
      /\ Watch
  BY DEF Complete
<1>4. u = req[w].user
  OBVIOUS
<1> HIDE DEF a, u
<1>5. Puts(u, a)
  BY <1>2, <1>3 DEF Puts, SaveRow, marks
<1>6. Saves(w, u, a)
  BY <1>1, <1>2, <1>3, <1>4, <1>5 DEF Saves, Goto, marks
<1>7. QED
  BY <1>2, <1>6

LEMMA AdminEdits ==
    ASSUME TypeOK, NEW s \in Spellings, NEW verified \in BOOLEAN,
           \/ AdminAdd(s, verified)
           \/ \E u \in Users, oauth \in BOOLEAN : AdminEdit(u, s, verified, oauth)
    PROVE  \E u \in Users, a \in Account : Edits(u, a)
<1>1. CASE AdminAdd(s, verified)
  <2> DEFINE a == [email |-> s, verified |-> verified, oauth |-> FALSE]
  <2>1. PICK u \in Users \ drawn :
          /\ drawn' = drawn \cup {u}
          /\ account' = [account EXCEPT ![u] = a]
          /\ edited' = edited \cup {u}
    BY <1>1 DEF AdminAdd
  <2>2. a \in Account /\ a.email = s
    BY DEF Account
  <2> HIDE DEF a
  <2>3. Puts(u, a)
    BY <1>1, <2>1, <2>2 DEF AdminAdd, Puts, Taken
  <2>4. Edits(u, a)
    BY <1>1, <2>1, <2>3 DEF AdminAdd, Edits
  <2>5. QED
    BY <2>2, <2>4
<1>2. CASE \E u \in Users, oauth \in BOOLEAN : AdminEdit(u, s, verified, oauth)
  <2>1. PICK u \in Users, oauth \in BOOLEAN : AdminEdit(u, s, verified, oauth)
    BY <1>2
  <2> DEFINE a == [email |-> s, verified |-> verified, oauth |-> oauth]
  <2>2. a \in Account
    BY DEF Account
  <2>3. SaveRow(u, a)
    BY <2>1 DEF AdminEdit
  <2> HIDE DEF a
  <2>4. Puts(u, a)
    BY <2>1, <2>2, <2>3 DEF AdminEdit, Puts, SaveRow
  <2>5. u \in drawn
    BY <2>1 DEF AdminEdit
  <2>6. drawn' = drawn \cup {u}
    BY <2>1, <2>5 DEF AdminEdit
  <2>7. Edits(u, a)
    BY <2>1, <2>4, <2>6 DEF AdminEdit, Edits
  <2>8. QED
    BY <2>2, <2>7
<1>3. QED
  BY <1>1, <1>2

LEMMA VerifyQuiet ==
    ASSUME TypeOK, NEW u \in Users, VerifyAddress(u)
    PROVE  Quiet
<1>1. account[u] \in Account
  BY DEF VerifyAddress, Exists, TypeOK
<1> DEFINE a == [account[u] EXCEPT !.verified = TRUE]
<1>2. a \in Account /\ a.email = account[u].email
  BY <1>1 DEF Account
<1>3. account' = [account EXCEPT ![u] = a]
  BY DEF VerifyAddress
<1>4. a # NoAccount
  BY <1>2 DEF Account, NoAccount
<1> HIDE DEF a
<1>5. QED
  BY <1>2, <1>3, <1>4 DEF VerifyAddress, Quiet, Exists, TypeOK

(* Every step is one of these, a Report, or one that changes links.        *)
LEMMA Effects ==
    ASSUME TypeOK, [Next]_vars
    PROVE  \/ Quiet
           \/ \E w \in Workers, u \in Users, a \in Account : Creates(w, u, a)
           \/ \E w \in Workers, u \in Users, a \in Account : Saves(w, u, a)
           \/ \E u \in Users, a \in Account : Edits(u, a)
           \/ \E w \in Workers, i \in Identities, s \in Spellings : FetchUser(w, i, s)
           \/ \E w \in Workers : Link(w)
           \/ \E u \in Users : Delete(u)
           \/ \E i \in Identities, u \in Users \cup {NoUser} : AdminLink(i, u)
<1>1. CASE UNCHANGED <<tables, seen, marks>>
  BY <1>1 DEF Quiet, tables, seen, marks, Exists, TypeOK
<1>2. ASSUME NEW w \in Workers, \/ \E s \in Spellings : Register(w, s)
                                \/ FindLink(w) \/ FindUser(w) \/ Abort(w)
      PROVE  UNCHANGED <<tables, seen, marks>>
  BY <1>2 DEF Register, FindLink, FindUser, FindAmong, Abort
<1>3. CASE UNCHANGED vars
  BY <1>1, <1>3 DEF vars
<1>4. CASE \E w \in Workers : Step(w)
  BY <1>1, <1>2, <1>4, InsertCreates, CompleteSaves DEF Step
<1>5. CASE Outside
  BY <1>5, AdminEdits, VerifyQuiet DEF Outside
<1>6. QED
  BY <1>3, <1>4, <1>5, NextCases

(* The rows after one of them is written.                                  *)
LEMMA Rows ==
    ASSUME TypeOK, NEW u \in Users, NEW a \in Account, Puts(u, a)
    PROVE  /\ account' \in [Users -> Account \cup {NoAccount}]
           /\ Exists(u)' /\ account'[u] = a
           /\ \A v \in Users \ {u} : /\ account'[v] = account[v]
                                     /\ Exists(v)' <=> Exists(v)
<1>1. a # NoAccount
  BY DEF Account, NoAccount
<1>2. QED
  BY <1>1 DEF Puts, Exists, TypeOK

(* Which pairs a Watch adds.                                               *)
LEMMA Watched ==
    ASSUME Watch
    PROVE  /\ matched \subseteq matched'
           /\ \A i \in Identities, u \in Users :
                Exists(u)' /\ Lower[account'[u].email] \in vouched'[i] => <<i, u>> \in matched'
           /\ \A p \in matched' \ matched :
                /\ p \in Identities \X Users
                /\ Exists(p[2])' /\ Lower[account'[p[2]].email] \in vouched'[p[1]]
<1>1. \A u \in Users : Holds'[u] = IF Exists(u)' THEN {Lower[account'[u].email]} ELSE {}
  BY DEF Holds, Exists
<1>2. \A p \in Identities \X Users : p[1] \in Identities /\ p[2] \in Users
  OBVIOUS
<1>3. \A i \in Identities, u \in Users :
        (Holds'[u] \cap vouched'[i]) # {} <=>
          Exists(u)' /\ Lower[account'[u].email] \in vouched'[i]
  <2> SUFFICES ASSUME NEW i \in Identities, NEW u \in Users
               PROVE  (Holds'[u] \cap vouched'[i]) # {} <=>
                        Exists(u)' /\ Lower[account'[u].email] \in vouched'[i]
    OBVIOUS
  <2>1. CASE Exists(u)'
    BY <1>1, <2>1, Zenon
  <2>2. CASE ~Exists(u)'
    BY <1>1, <2>2, Zenon
  <2>3. QED
    BY <2>1, <2>2
<1> DEFINE New == {p \in Identities \X Users : (Holds'[p[2]] \cap vouched'[p[1]]) # {}}
<1>4. \A p : p \in New <=> /\ p \in Identities \X Users
                           /\ Exists(p[2])' /\ Lower[account'[p[2]].email] \in vouched'[p[1]]
  BY <1>2, <1>3
<1>5. matched' = matched \cup New
  BY DEF Watch
<1> HIDE DEF New
<1>6. ASSUME NEW i \in Identities, NEW u \in Users,
             Exists(u)', Lower[account'[u].email] \in vouched'[i]
      PROVE  <<i, u>> \in New
  <2> DEFINE p == <<i, u>>
  <2>1. p \in Identities \X Users /\ p[1] = i /\ p[2] = u
    OBVIOUS
  <2> HIDE DEF p
  <2>2. p \in New
    BY <1>4, <1>6, <2>1
  <2>3. QED
    BY <2>2 DEF p
<1>7. QED
  BY <1>4, <1>5, <1>6

-----------------------------------------------------------------------------
(* Type correctness.                                                       *)

LEMMA TypeInit == Init => TypeOK
BY DEF Init, TypeOK

LEMMA RequestsNext ==
    ASSUME TypeOK, [Next]_vars
    PROVE  req' \in [Workers -> {Idle} \cup Busy]
<1>1. ASSUME NEW w \in Workers, NEW s \in Spellings, Register(w, s)
      PROVE  req' \in [Workers -> {Idle} \cup Busy]
  <2>1. [at |-> "insert", identity |-> NoIdentity, email |-> Lower[s]] \in Busy
    BY LinkingAssumption DEF Busy
  <2>2. QED
    BY <1>1, <2>1 DEF Register, Goto, TypeOK
<1>2. ASSUME NEW w \in Workers, Insert(w)
      PROVE  req' \in [Workers -> {Idle} \cup Busy]
  <2>1. PICK u \in Users, a \in Account : Creates(w, u, a)
    BY <1>2, InsertCreates
  <2>2. req[w] \in Inserting
    BY <2>1, RequestCases DEF Creates
  <2>3. (IF req[w].identity = NoIdentity THEN Idle
           ELSE [at |-> "complete", identity |-> req[w].identity,
                 email |-> req[w].email, user |-> u]) \in {Idle} \cup Busy
    BY <2>2 DEF Inserting, Busy
  <2>4. QED
    BY <2>1, <2>3 DEF Creates, TypeOK
<1>3. ASSUME NEW w \in Workers, NEW i \in Identities, NEW s \in Spellings, FetchUser(w, i, s)
      PROVE  req' \in [Workers -> {Idle} \cup Busy]
  <2>1. [at |-> "find_link", identity |-> i, email |-> Lower[s]] \in Busy
    BY LinkingAssumption DEF Busy
  <2>2. QED
    BY <1>3, <2>1 DEF FetchUser, Report, Goto, TypeOK
<1>4. ASSUME NEW w \in Workers, FindLink(w) \/ FindUser(w)
      PROVE  req' \in [Workers -> {Idle} \cup Busy]
  <2>1. req[w] \in Finding
    BY <1>4, RequestCases DEF FindLink, FindUser, FindAmong
  <2>2. /\ [req[w] EXCEPT !.at = "find_user"] \in Busy
        /\ [req[w] EXCEPT !.at = "insert"] \in Busy
        /\ \A u \in Users : [at |-> "link", identity |-> req[w].identity, user |-> u] \in Busy
    BY <2>1 DEF Finding, Busy
  <2>3. QED
    BY <1>4, <2>2 DEF FindLink, FindUser, FindAmong, Matching, Goto, TypeOK
<1>5. ASSUME NEW w \in Workers, Complete(w)
      PROVE  req' \in [Workers -> {Idle} \cup Busy]
  <2>1. req[w] \in Completing
    BY <1>5, RequestCases DEF Complete
  <2>2. [at |-> "link", identity |-> req[w].identity, user |-> req[w].user] \in Busy
    BY <2>1 DEF Completing, Busy
  <2>3. QED
    BY <1>5, <2>2 DEF Complete, Goto, TypeOK
<1>6. ASSUME NEW w \in Workers, Link(w) \/ Abort(w)
      PROVE  req' \in [Workers -> {Idle} \cup Busy]
  BY <1>6 DEF Link, Abort, Goto, TypeOK
<1>7. CASE Outside \/ UNCHANGED vars
  BY <1>7 DEF Outside, AdminAdd, AdminEdit, VerifyAddress, Delete, AdminLink, vars, TypeOK
<1>8. QED
  BY <1>1, <1>2, <1>3, <1>4, <1>5, <1>6, <1>7, NextCases DEF Step

LEMMA TypeNext ==
    ASSUME TypeOK, Creators, [Next]_vars
    PROVE  TypeOK'
<1>1. req' \in [Workers -> {Idle} \cup Busy]
  BY RequestsNext
<1>2. ASSUME Watch PROVE matched' \subseteq Identities \X Users
  BY <1>2 DEF Watch, TypeOK
<1>3. CASE Quiet
  <2>1. \A u \in Users : account'[u] # NoAccount <=> account[u] # NoAccount
    BY <1>3 DEF Quiet, Exists
  <2>2. QED
    BY <1>1, <1>3, <2>1 DEF Quiet, seen, marks, TypeOK
<1>4. ASSUME NEW u \in Users, NEW a \in Account, Puts(u, a),
             drawn' = drawn \cup {u}, edited' \in {edited, edited \cup {u}}
      PROVE  TypeOK'
  <2>1. /\ account' \in [Users -> Account \cup {NoAccount}]
        /\ account'[u] # NoAccount
        /\ \A v \in Users \ {u} : account'[v] = account[v]
    BY <1>4, Rows DEF Exists
  <2>2. matched' \subseteq Identities \X Users
    BY <1>2, <1>4 DEF Puts
  <2>3. UNCHANGED <<link, vouched, moves, assigned>>
    BY <1>4 DEF Puts
  <2>4. \A i \in Identities : link'[i] # NoUser => account'[link'[i]] # NoAccount
    BY <2>1, <2>3 DEF TypeOK
  <2>5. \A v \in Users : account'[v] # NoAccount => v \in drawn'
    BY <1>4, <2>1 DEF TypeOK
  <2>6. edited' \subseteq drawn' /\ drawn' \subseteq Users
    BY <1>4 DEF TypeOK
  <2>7. QED
    BY <1>1, <2>1, <2>2, <2>3, <2>4, <2>5, <2>6 DEF TypeOK
<1>5. ASSUME NEW w \in Workers, NEW u \in Users, NEW a \in Account, Creates(w, u, a)
      PROVE  TypeOK'
  BY <1>4, <1>5 DEF Creates
<1>6. ASSUME NEW w \in Workers, NEW u \in Users, NEW a \in Account, Saves(w, u, a)
      PROVE  TypeOK'
  <2>1. u \in drawn
    BY <1>6 DEF Saves, Creators
  <2>2. drawn' = drawn \cup {u}
    BY <1>6, <2>1 DEF Saves
  <2>3. QED
    BY <1>4, <1>6, <2>2 DEF Saves
<1>7. ASSUME NEW u \in Users, NEW a \in Account, Edits(u, a)
      PROVE  TypeOK'
  BY <1>4, <1>7 DEF Edits
<1>8. ASSUME NEW w \in Workers, NEW i \in Identities, NEW s \in Spellings, FetchUser(w, i, s)
      PROVE  TypeOK'
  <2>1. vouched' \in [Identities -> SUBSET Spellings]
    BY <1>8, LinkingAssumption DEF FetchUser, Report, TypeOK
  <2>2. matched' \subseteq Identities \X Users
    BY <1>2, <1>8 DEF FetchUser, Report
  <2>3. QED
    BY <1>1, <1>8, <2>1, <2>2 DEF FetchUser, Report, tables, marks, TypeOK
<1>9. ASSUME NEW w \in Workers, Link(w)
      PROVE  TypeOK'
  <2>1. req[w] \in LinkingUp
    BY <1>9, RequestCases DEF Link
  <2>2. req[w].user \in Users /\ req[w].identity \in Identities
    BY <2>1 DEF LinkingUp
  <2>3. moves' \in [Identities -> Nat] /\ link' \in [Identities -> Users \cup {NoUser}]
    BY <1>9, <2>2 DEF Link, TypeOK
  <2>4. \A i \in Identities : link'[i] # NoUser => account[link'[i]] # NoAccount
    BY <1>9, <2>2 DEF Link, Exists, TypeOK
  <2>5. QED
    BY <1>1, <1>9, <2>3, <2>4 DEF Link, seen, TypeOK
<1>10. ASSUME NEW u \in Users, Delete(u)
       PROVE  TypeOK'
  BY <1>1, <1>10 DEF Delete, seen, TypeOK
<1>11. ASSUME NEW i \in Identities, NEW u \in Users \cup {NoUser}, AdminLink(i, u)
       PROVE  TypeOK'
  BY <1>1, <1>11 DEF AdminLink, Exists, seen, TypeOK
<1>12. QED
  BY <1>3, <1>5, <1>6, <1>7, <1>8, <1>9, <1>10, <1>11, Effects

-----------------------------------------------------------------------------
(* How requests move.                                                      *)

(* Only its own step changes a request.                                    *)
LEMMA Mover ==
    ASSUME TypeOK, [Next]_vars, NEW w \in Workers, req'[w] # req[w]
    PROVE  Step(w)
<1>1. ~Outside /\ ~UNCHANGED vars
  BY DEF Outside, AdminAdd, AdminEdit, VerifyAddress, Delete, AdminLink, vars
<1>2. PICK v \in Workers : Step(v)
  BY <1>1, NextCases
<1>3. QED
  BY <1>2, OtherWorkers

(* A request carries what it carried, unless it has only begun.            *)
LEMMA Carried ==
    ASSUME TypeOK, NEW w \in Workers, Step(w), Carries(w)'
    PROVE  \/ /\ Carries(w) /\ req'[w].email = req[w].email
              /\ req'[w].identity = req[w].identity
              /\ At(w, "insert") \/ At(w, "insert")' => req[w].identity # NoIdentity
           \/ \E s \in Spellings :
                req'[w] = [at |-> "insert", identity |-> NoIdentity, email |-> Lower[s]]
           \/ \E i \in Identities, s \in Spellings :
                /\ FetchUser(w, i, s)
                /\ req'[w] = [at |-> "find_link", identity |-> i, email |-> Lower[s]]
<1>1. CASE \E s \in Spellings : Register(w, s)
  BY <1>1 DEF Register, Goto, TypeOK
<1>2. CASE Insert(w)
  <2>1. PICK u \in Users, a \in Account : Creates(w, u, a)
    BY <1>2, InsertCreates
  <2>2. req'[w] = IF req[w].identity = NoIdentity THEN Idle
                    ELSE [at |-> "complete", identity |-> req[w].identity,
                          email |-> req[w].email, user |-> u]
    BY <2>1 DEF Creates, TypeOK
  <2>3. QED
    BY <2>1, <2>2 DEF Creates, Carries, Idle, At
<1>3. CASE \E i \in Identities, s \in Spellings : FetchUser(w, i, s)
  BY <1>3 DEF FetchUser, Report, Goto, TypeOK
<1>4. CASE FindLink(w)
  <2>1. req[w] \in Finding
    BY <1>4, RequestCases DEF FindLink
  <2>2. req'[w] = Idle \/ req'[w] = [req[w] EXCEPT !.at = "find_user"]
    BY <1>4 DEF FindLink, Goto, TypeOK
  <2>3. QED
    BY <2>1, <2>2 DEF Finding, Carries, Idle, At
<1>5. CASE FindUser(w)
  <2>1. req[w] \in Finding
    BY <1>5, RequestCases DEF FindUser, FindAmong
  <2>2. req'[w] = [req[w] EXCEPT !.at = "insert"] \/ req'[w].at = "link"
    BY <1>5 DEF FindUser, FindAmong, Matching, Goto, TypeOK
  <2>3. CASE req'[w] = [req[w] EXCEPT !.at = "insert"]
    <3>1. Carries(w) /\ req'[w].email = req[w].email /\ req'[w].identity = req[w].identity
      BY <2>1, <2>3 DEF Finding, Carries, At
    <3>2. req[w].identity # NoIdentity
      BY <2>1, LinkingAssumption DEF Finding
    <3>3. QED
      BY <3>1, <3>2
  <2>4. CASE req'[w].at = "link"
    BY <2>4 DEF Carries, At
  <2>5. QED
    BY <2>2, <2>3, <2>4
<1>6. CASE Complete(w) \/ Link(w) \/ Abort(w)
  BY <1>6 DEF Complete, Link, Abort, Goto, Carries, At, Idle, TypeOK
<1>7. QED
  BY <1>1, <1>2, <1>3, <1>4, <1>5, <1>6 DEF Step

(* Only an INSERT brings a callback to where its account is completed.     *)
LEMMA ToComplete ==
    ASSUME TypeOK, NEW w \in Workers, Step(w), At(w, "complete")'
    PROVE  \E u \in Users, a \in Account :
             /\ Creates(w, u, a)
             /\ req[w].identity \in Identities
             /\ req'[w].identity = req[w].identity
             /\ req'[w].email = req[w].email
             /\ req'[w].user = u
<1>1. req'[w].at = "complete"
  BY DEF At
<1>2. ASSUME ~Insert(w) PROVE FALSE
  <2>1. CASE FindLink(w) \/ FindUser(w)
    <3>1. req[w] \in Finding
      BY <2>1, RequestCases DEF FindLink, FindUser, FindAmong
    <3>2. req'[w] = Idle \/ req'[w] \in {[req[w] EXCEPT !.at = "find_user"],
                                          [req[w] EXCEPT !.at = "insert"]}
            \/ req'[w].at = "link"
      BY <2>1 DEF FindLink, FindUser, FindAmong, Goto, TypeOK
    <3>3. QED
      BY <1>1, <3>1, <3>2 DEF Finding, Idle
  <2>2. CASE ~FindLink(w) /\ ~FindUser(w)
    BY <1>1, <1>2, <2>2 DEF Step, Register, FetchUser, Report, Complete,
         Link, Abort, Goto, Idle, TypeOK
  <2>3. QED
    BY <2>1, <2>2
<1>3. PICK u \in Users, a \in Account : Creates(w, u, a)
  BY <1>2, InsertCreates
<1>4. req'[w] = IF req[w].identity = NoIdentity THEN Idle
                  ELSE [at |-> "complete", identity |-> req[w].identity,
                        email |-> req[w].email, user |-> u]
  BY <1>3 DEF Creates, TypeOK
<1>5. req[w] \in Inserting
  BY <1>3, RequestCases DEF Creates
<1>6. QED
  BY <1>1, <1>3, <1>4, <1>5 DEF Idle, Inserting

(* A callback comes to link an account that it has completed or found.     *)
LEMMA ToLink ==
    ASSUME TypeOK, NEW w \in Workers, Step(w), At(w, "link")'
    PROVE  /\ req'[w].identity = req[w].identity
           /\ req[w].identity \in Identities
           /\ \/ At(w, "complete") /\ req'[w].user = req[w].user
              \/ /\ At(w, "find_user") /\ req'[w].user \in Matching(req[w].email)
                 /\ UNCHANGED <<tables, seen>>
<1>1. req'[w].at = "link"
  BY DEF At
<1>2. CASE Insert(w)
  <2>1. PICK u \in Users, a \in Account : Creates(w, u, a)
    BY <1>2, InsertCreates
  <2>2. req'[w].at \in {"idle", "complete"}
    BY <2>1 DEF Creates, Idle, TypeOK
  <2>3. QED
    BY <1>1, <2>2
<1>3. CASE FindLink(w)
  <2>1. req[w] \in Finding
    BY <1>3, RequestCases DEF FindLink
  <2>2. req'[w] = Idle \/ req'[w] = [req[w] EXCEPT !.at = "find_user"]
    BY <1>3 DEF FindLink, Goto, TypeOK
  <2>3. QED
    BY <1>1, <2>1, <2>2 DEF Finding, Idle
<1>4. CASE FindUser(w)
  <2>1. req[w] \in Finding
    BY <1>4, RequestCases DEF FindUser, FindAmong
  <2>2. \/ req'[w] = [req[w] EXCEPT !.at = "insert"]
        \/ \E u \in Matching(req[w].email) :
             req'[w] = [at |-> "link", identity |-> req[w].identity, user |-> u]
    BY <1>4 DEF FindUser, FindAmong, Goto, TypeOK
  <2>3. req'[w] # [req[w] EXCEPT !.at = "insert"]
    BY <1>1, <2>1 DEF Finding
  <2>4. PICK u \in Matching(req[w].email) :
          req'[w] = [at |-> "link", identity |-> req[w].identity, user |-> u]
    BY <2>2, <2>3
  <2>5. req'[w].identity = req[w].identity /\ req'[w].user = u
    BY <2>4
  <2>6. At(w, "find_user") /\ req[w].identity \in Identities /\ UNCHANGED <<tables, seen>>
    BY <1>4, <2>1 DEF FindUser, FindAmong, Finding
  <2>7. QED
    BY <2>5, <2>6
<1>5. CASE Complete(w)
  <2>1. req[w] \in Completing
    BY <1>5, RequestCases DEF Complete
  <2>2. QED
    BY <1>5, <2>1 DEF Complete, Completing, Goto, TypeOK
<1>6. CASE ~Insert(w) /\ ~FindLink(w) /\ ~FindUser(w) /\ ~Complete(w)
  BY <1>1, <1>6 DEF Step, Register, FetchUser, Report, Link, Abort, Goto, Idle, TypeOK
<1>7. QED
  BY <1>2, <1>3, <1>4, <1>5, <1>6

(* Ids are drawn once and for all, and what was once reported, matched or  *)
(* edited stays so.                                                        *)
LEMMA Grows ==
    ASSUME TypeOK, [Next]_vars
    PROVE  /\ drawn \subseteq drawn' /\ matched \subseteq matched' /\ edited \subseteq edited'
           /\ \A i \in Identities : vouched[i] \subseteq vouched'[i]
<1>1. ASSUME NEW u \in Users, NEW a \in Account, Puts(u, a)
      PROVE  matched \subseteq matched' /\ vouched' = vouched
  BY <1>1 DEF Puts, Watch
<1>2. ASSUME NEW w \in Workers, NEW i \in Identities, NEW s \in Spellings, FetchUser(w, i, s)
      PROVE  /\ drawn' = drawn /\ matched \subseteq matched' /\ edited' = edited
             /\ \A j \in Identities : vouched[j] \subseteq vouched'[j]
  BY <1>2 DEF FetchUser, Report, Watch, tables, marks, TypeOK
<1>3. QED
  BY <1>1, <1>2, Effects
     DEF Quiet, Creates, Saves, Edits, Link, Delete, AdminLink, seen, marks

(* Nobody but an administrator changes the address of an account.          *)
LEMMA SameAddress ==
    ASSUME TypeOK, Creators, [Next]_vars, NEW u \in Users \ edited',
           Exists(u), Exists(u)'
    PROVE  account'[u].email = account[u].email
<1>1. u \notin edited
  BY Grows
<1>2. ASSUME NEW w \in Workers, NEW v \in Users, NEW a \in Account, Creates(w, v, a)
      PROVE  account'[u] = account[u]
  <2>1. v # u
    BY <1>2 DEF Creates, Exists, TypeOK
  <2>2. QED
    BY <1>2, <2>1, Rows DEF Creates
<1>3. ASSUME NEW w \in Workers, NEW v \in Users, NEW a \in Account, Saves(w, v, a)
      PROVE  account'[u].email = account[u].email
  <2>1. CASE v = u
    <3>1. account[u].email = req[w].email
      BY <1>1, <1>3, <2>1 DEF Saves, Creators
    <3>2. account'[v] = a
      BY <1>3, Rows DEF Saves
    <3>3. QED
      BY <1>3, <2>1, <3>1, <3>2 DEF Saves
  <2>2. CASE v # u
    BY <1>3, <2>2, Rows DEF Saves
  <2>3. QED
    BY <2>1, <2>2
<1>4. ASSUME NEW v \in Users, NEW a \in Account, Edits(v, a)
      PROVE  account'[u] = account[u]
  <2>1. v # u
    BY <1>4 DEF Edits
  <2>2. QED
    BY <1>4, <2>1, Rows DEF Edits
<1>5. ASSUME NEW v \in Users, Delete(v) PROVE account'[u] = account[u]
  BY <1>5 DEF Delete, Exists, TypeOK
<1>6. QED
  BY <1>2, <1>3, <1>4, <1>5, Effects
     DEF Quiet, FetchUser, Report, Link, AdminLink, tables

(* An account appears when its id is drawn, or again when the callback     *)
(* that created it completes it, or by an administrator's hand.            *)
LEMMA Appears ==
    ASSUME TypeOK, [Next]_vars, NEW u \in Users \ edited',
           u \in drawn, ~Exists(u), Exists(u)'
    PROVE  \E w \in Workers, a \in Account : Saves(w, u, a)
<1>1. ASSUME NEW w \in Workers, NEW v \in Users, NEW a \in Account, Creates(w, v, a)
      PROVE  FALSE
  <2>1. v # u
    BY <1>1 DEF Creates
  <2>2. QED
    BY <1>1, <2>1, Rows DEF Creates
<1>2. ASSUME NEW v \in Users, NEW a \in Account, Edits(v, a)
      PROVE  FALSE
  <2>1. v # u
    BY <1>2 DEF Edits
  <2>2. QED
    BY <1>2, <2>1, Rows DEF Edits
<1>3. ASSUME NEW w \in Workers, NEW v \in Users, NEW a \in Account, Saves(w, v, a), v # u
      PROVE  FALSE
  BY <1>3, Rows DEF Saves
<1>4. ASSUME NEW v \in Users, Delete(v) PROVE FALSE
  BY <1>4 DEF Delete, Exists, TypeOK
<1>5. CASE account' = account
  BY <1>5 DEF Exists
<1>6. QED
  BY <1>1, <1>2, <1>3, <1>4, <1>5, Effects
     DEF Quiet, FetchUser, Report, Link, AdminLink, tables

-----------------------------------------------------------------------------
(* Addresses.                                                              *)

LEMMA AddressesInit == Init => Addresses
BY DEF Init, Addresses, Stored, Exists, Carries, At, Idle

(* One row is written, in lower case or by an administrator.               *)
LEMMA StoredWritten ==
    ASSUME TypeOK, Stored, NEW u \in Users, NEW a \in Account, Puts(u, a),
           edited \subseteq edited', u \in edited' \/ Lower[a.email] = a.email
    PROVE  Stored'
<1>1. /\ Exists(u)' /\ account'[u] = a
      /\ \A v \in Users \ {u} : account'[v] = account[v] /\ (Exists(v)' <=> Exists(v))
  BY Rows
<1>2. \A v \in Users \ edited' : Exists(v)' => Lower[account'[v].email] = account'[v].email
  BY <1>1 DEF Stored, Capitals
<1>3. \A v, x \in Users : Exists(v)' /\ Exists(x)' /\ account'[v].email = account'[x].email
                            => v = x
  BY <1>1 DEF Stored, Puts
<1>4. QED
  BY <1>2, <1>3 DEF Stored, Capitals

LEMMA AddressesStep ==
    ASSUME TypeOK, Addresses, [Next]_vars
    PROVE  Addresses'
<1>1. ASSUME NEW w \in Workers, NEW u \in Users, NEW a \in Account,
             Creates(w, u, a) \/ Saves(w, u, a)
      PROVE Stored'
  <2>1. Lower[a.email] = a.email
    BY <1>1 DEF Creates, Saves, Addresses, Carries
  <2>2. QED
    BY <1>1, <2>1, StoredWritten DEF Creates, Saves, Addresses
<1>2. ASSUME NEW u \in Users, NEW a \in Account, Edits(u, a)
      PROVE  Stored'
  BY <1>2, StoredWritten DEF Edits, Addresses
<1>3. ASSUME edited' = edited,
             \A u \in Users : Exists(u)' => Exists(u) /\ account'[u].email = account[u].email
      PROVE  Stored'
  <2>1. Stored
    BY DEF Addresses
  <2>2. \A u \in Users \ edited' :
          Exists(u)' => Lower[account'[u].email] = account'[u].email
    BY <1>3, <2>1 DEF Stored, Capitals
  <2>3. \A u, v \in Users :
          Exists(u)' /\ Exists(v)' /\ account'[u].email = account'[v].email => u = v
    BY <1>3, <2>1 DEF Stored
  <2>4. QED
    BY <2>2, <2>3 DEF Stored, Capitals
<1>4. ASSUME Quiet PROVE Stored'
  BY <1>3, <1>4 DEF Quiet, marks
<1>5. ASSUME NEW u \in Users, Delete(u) PROVE Stored'
  <2>1. \A v \in Users : Exists(v)' => Exists(v) /\ account'[v] = account[v]
    BY <1>5 DEF Delete, Exists, TypeOK
  <2>2. QED
    BY <1>3, <1>5, <2>1 DEF Delete
<1>6. ASSUME UNCHANGED <<account, edited>> PROVE Stored'
  BY <1>3, <1>6 DEF Exists
<1>7. Stored'
  BY <1>1, <1>2, <1>4, <1>5, <1>6, Effects
     DEF FetchUser, Report, Link, AdminLink, tables, marks
<1>8. ASSUME NEW w \in Workers, Carries(w)'
      PROVE  Lower[req'[w].email] = req'[w].email
  <2>1. CASE req'[w] = req[w]
    BY <1>8, <2>1 DEF Addresses, Carries, At
  <2>2. CASE Step(w)
    <3>1. CASE Carries(w) /\ req'[w].email = req[w].email
      BY <3>1 DEF Addresses
    <3>2. CASE \E s \in Spellings : req'[w].email = Lower[s]
      BY <3>2, LinkingAssumption
    <3>3. CASE \E s \in Spellings :
                 req'[w] = [at |-> "insert", identity |-> NoIdentity, email |-> Lower[s]]
      BY <3>2, <3>3
    <3>4. CASE \E i \in Identities, s \in Spellings :
                 req'[w] = [at |-> "find_link", identity |-> i, email |-> Lower[s]]
      BY <3>2, <3>4
    <3>5. QED
      BY <1>8, <2>2, <3>1, <3>3, <3>4, Carried DEF Carries, At
  <2>3. QED
    BY <2>1, <2>2, Mover
<1>9. QED
  BY <1>7, <1>8 DEF Addresses

-----------------------------------------------------------------------------
(* The account a callback is creating.                                     *)

LEMMA CreatorsInit == Init => Creators
BY DEF Init, Creators, At, Idle

LEMMA CreatorsStep ==
    ASSUME TypeOK, Creators, [Next]_vars
    PROVE  Creators'
<1>1. ASSUME NEW w \in Workers, At(w, "complete")' \/ At(w, "link")'
      PROVE  req'[w].user \in drawn'
  <2>1. CASE req'[w] = req[w]
    BY <1>1, <2>1, Grows DEF Creators, At
  <2>2. CASE Step(w) /\ At(w, "complete")'
    <3>1. PICK u \in Users, a \in Account : Creates(w, u, a) /\ req'[w].user = u
      BY <2>2, ToComplete
    <3>2. QED
      BY <3>1 DEF Creates
  <2>3. CASE Step(w) /\ At(w, "link")'
    <3>1. CASE At(w, "complete") /\ req'[w].user = req[w].user
      BY <3>1, Grows DEF Creators
    <3>2. CASE req'[w].user \in Matching(req[w].email)
      BY <3>2, Grows DEF Matching, Exists, TypeOK
    <3>3. QED
      BY <2>3, <3>1, <3>2, ToLink
  <2>4. QED
    BY <1>1, <2>1, <2>2, <2>3, Mover
<1>2. ASSUME NEW w \in Workers, NEW u \in Users \ edited',
             At(w, "complete")', req'[w].user = u, Exists(u)'
      PROVE  account'[u].email = req'[w].email
  <2>1. CASE req'[w] = req[w]
    <3>1. At(w, "complete") /\ u \in drawn /\ req[w].user = u /\ u \notin edited
      BY <1>2, <2>1, Grows DEF At, Creators
    <3>2. CASE Exists(u)
      <4>1. account'[u].email = account[u].email
        BY <1>2, <3>2, SameAddress
      <4>2. QED
        BY <2>1, <3>1, <3>2, <4>1 DEF Creators
    <3>3. CASE ~Exists(u)
      <4>1. PICK v \in Workers, a \in Account : Saves(v, u, a)
        BY <1>2, <3>1, <3>3, Appears
      <4>2. v = w
        BY <3>1, <4>1 DEF Saves, Creators
      <4>3. req'[w].at = "link"
        BY <4>1, <4>2 DEF Saves, TypeOK
      <4>4. QED
        BY <1>2, <4>3 DEF At
    <3>4. QED
      BY <3>2, <3>3
  <2>2. CASE Step(w)
    <3>1. PICK x \in Users, a \in Account :
            Creates(w, x, a) /\ req'[w].user = x /\ req'[w].email = req[w].email
      BY <1>2, <2>2, ToComplete
    <3>2. QED
      BY <1>2, <3>1, Rows DEF Creates
  <2>3. QED
    BY <2>1, <2>2, Mover
<1>3. ASSUME NEW v \in Workers, NEW w \in Workers, v # w,
             At(v, "complete")', At(w, "complete")', req'[v].user = req'[w].user
      PROVE  FALSE
  <2>1. ASSUME NEW x \in Workers, NEW y \in Workers, x # y, Step(x),
               At(x, "complete")', At(y, "complete")', req'[x].user = req'[y].user
        PROVE  FALSE
    <3>1. req'[y] = req[y] /\ At(y, "complete")
      BY <2>1, OtherWorkers DEF At
    <3>2. req[y].user \in drawn
      BY <3>1 DEF Creators
    <3>3. PICK u \in Users, a \in Account : Creates(x, u, a) /\ req'[x].user = u
      BY <2>1, ToComplete
    <3>4. QED
      BY <2>1, <3>1, <3>2, <3>3 DEF Creates
  <2>2. CASE req'[v] = req[v] /\ req'[w] = req[w]
    BY <1>3, <2>2 DEF At, Creators
  <2>3. QED
    BY <1>3, <2>1, <2>2, Mover
<1>4. \A w \in Workers : At(w, "complete")' => req'[w].user \in Users
  BY <1>1, TypeNext DEF TypeOK
<1>5. QED
  BY <1>1, <1>2, <1>3, <1>4 DEF Creators, Exists, At

-----------------------------------------------------------------------------
(* What providers have vouched for.                                        *)

LEMMA VouchedInit == Init => Vouched /\ MatchedStays
BY DEF Init, Vouched, LinkVouched, MatchedNow, MatchedStays, OfProfile, Carries, Exists,
     At, Idle

(* Callbacks and administrators change links; deletions drop them.         *)
LEMMA Relinks ==
    ASSUME TypeOK, [Next]_vars, NEW i \in Identities,
           link'[i] # link[i] \/ assigned'[i] # assigned[i],
           link'[i] \notin {NoUser, assigned'[i]}
    PROVE  /\ assigned'[i] = assigned[i]
           /\ \E w \in Workers : Link(w) /\ req[w].identity = i /\ link'[i] = req[w].user
<1>1. ASSUME NEW u \in Users, Delete(u) PROVE FALSE
  BY <1>1 DEF Delete, TypeOK
<1>2. ASSUME NEW j \in Identities, NEW u \in Users \cup {NoUser}, AdminLink(j, u) PROVE FALSE
  BY <1>2 DEF AdminLink, TypeOK
<1>3. PICK w \in Workers : Link(w)
  BY <1>1, <1>2, Effects
     DEF Quiet, Creates, Saves, Edits, Puts, FetchUser, Report, tables, marks
<1>4. QED
  BY <1>3 DEF Link, TypeOK

LEMMA VouchedStep ==
    ASSUME TypeOK, Addresses, Creators, Vouched, [Next]_vars
    PROVE  Vouched'
<1>1. ASSUME NEW i \in Identities, link'[i] \notin {NoUser, assigned'[i]}
      PROVE  <<i, link'[i]>> \in matched'
  <2>1. CASE link'[i] = link[i] /\ assigned'[i] = assigned[i]
    BY <1>1, <2>1, Grows DEF Vouched, LinkVouched
  <2>2. ASSUME NEW w \in Workers, Link(w), req[w].identity = i, link'[i] = req[w].user
        PROVE  <<i, link'[i]>> \in matched'
    BY <2>2, Grows DEF Link, Vouched
  <2>3. QED
    BY <1>1, <2>1, <2>2, Relinks
<1>2. ASSUME NEW i \in Identities, NEW u \in Users,
             Exists(u)', Lower[account'[u].email] \in vouched'[i]
      PROVE  <<i, u>> \in matched'
  <2>1. ASSUME NEW v \in Users, NEW a \in Account, Puts(v, a)
        PROVE  <<i, u>> \in matched'
    BY <1>2, <2>1, Watched DEF Puts
  <2>2. ASSUME NEW w \in Workers, NEW j \in Identities, NEW s \in Spellings, FetchUser(w, j, s)
        PROVE  <<i, u>> \in matched'
    BY <1>2, <2>2, Watched DEF FetchUser, Report
  <2>3. CASE /\ Exists(u) /\ account'[u].email = account[u].email
             /\ UNCHANGED <<vouched, matched>>
    BY <1>2, <2>3 DEF Vouched, MatchedNow
  <2>4. ASSUME NEW v \in Users, Delete(v)
        PROVE  Exists(u) /\ account'[u] = account[u]
    BY <1>2, <2>4 DEF Delete, Exists, TypeOK
  <2>5. account' = account => Exists(u) /\ account'[u] = account[u]
    BY <1>2 DEF Exists
  <2>6. QED
    BY <1>2, <2>1, <2>2, <2>3, <2>4, <2>5, Effects
       DEF Quiet, Creates, Saves, Edits, Link, Delete, AdminLink, Exists, seen
<1>3. ASSUME NEW p \in matched', p \notin matched
      PROVE  p[2] \in drawn'
  <2>1. CASE Watch
    BY <1>3, <2>1, Watched, TypeNext DEF Exists, TypeOK
  <2>2. QED
    BY <1>3, <2>1, Effects
       DEF Quiet, Creates, Saves, Edits, Puts, FetchUser, Report, Link, Delete, AdminLink, seen
<1>4. ASSUME NEW w \in Workers, OfProfile(w)'
      PROVE  req'[w].email \in vouched'[req'[w].identity]
  <2>1. req'[w].identity \in Identities
    <3>1. /\ \A r \in Finding : r.identity \in Identities
          /\ \A r \in Completing : r.identity \in Identities
          /\ \A r \in Inserting : r.identity # NoIdentity => r.identity \in Identities
      BY DEF Finding, Completing, Inserting
    <3>2. /\ At(w, "find_link")' \/ At(w, "find_user")' => req'[w] \in Finding
          /\ At(w, "insert")' => req'[w] \in Inserting
          /\ At(w, "complete")' => req'[w] \in Completing
      <4>1. TypeOK'
        BY TypeNext
      <4>2. req'[w] = Idle \/ req'[w] \in Busy
        BY <4>1 DEF TypeOK
      <4>3. /\ Idle.at = "idle"
            /\ \A r \in Finding : r.at \in {"find_link", "find_user"}
            /\ \A r \in Inserting : r.at = "insert"
            /\ \A r \in Completing : r.at = "complete"
            /\ \A r \in LinkingUp : r.at = "link"
        BY DEF Idle, Finding, Inserting, Completing, LinkingUp
      <4>4. QED
        BY <4>2, <4>3, Kinds DEF At
    <3>3. QED
      BY <1>4, <3>1, <3>2 DEF OfProfile, Carries, At
  <2>2. CASE req'[w] = req[w]
    <3>1. OfProfile(w)
      BY <1>4, <2>2 DEF OfProfile, Carries, At
    <3>2. QED
      BY <2>1, <2>2, <3>1, Grows DEF Vouched
  <2>3. CASE Step(w)
    <3>1. CASE /\ Carries(w) /\ req'[w].email = req[w].email
               /\ req'[w].identity = req[w].identity
               /\ At(w, "insert") \/ At(w, "insert")' => req[w].identity # NoIdentity
      <4>1. OfProfile(w)
        BY <3>1 DEF OfProfile
      <4>2. QED
        BY <2>1, <3>1, <4>1, Grows DEF Vouched
    <3>2. CASE \E s \in Spellings :
                 req'[w] = [at |-> "insert", identity |-> NoIdentity, email |-> Lower[s]]
      BY <1>4, <3>2 DEF OfProfile, At
    <3>3. CASE \E i \in Identities, s \in Spellings :
                 /\ FetchUser(w, i, s)
                 /\ req'[w] = [at |-> "find_link", identity |-> i, email |-> Lower[s]]
      BY <3>3 DEF FetchUser, Report, TypeOK
    <3>4. QED
      BY <1>4, <2>3, <3>1, <3>2, <3>3, Carried DEF OfProfile, Carries, At
  <2>4. QED
    BY <2>2, <2>3, Mover
<1>5. ASSUME NEW w \in Workers, At(w, "complete")' \/ At(w, "link")'
      PROVE  <<req'[w].identity, req'[w].user>> \in matched'
  <2>1. CASE req'[w] = req[w]
    BY <1>5, <2>1, Grows DEF At, Vouched
  <2>2. CASE Step(w) /\ At(w, "complete")'
    <3>1. PICK u \in Users, a \in Account :
            /\ Creates(w, u, a)
            /\ req[w].identity \in Identities
            /\ req'[w].identity = req[w].identity
            /\ req'[w].user = u
      BY <2>2, ToComplete
    <3>2. /\ Exists(u)' /\ account'[u] = a /\ a.email = req[w].email
          /\ Watch /\ vouched' = vouched
      BY <3>1, Rows DEF Creates, Puts
    <3>3. OfProfile(w) /\ Lower[req[w].email] = req[w].email
      BY <3>1, LinkingAssumption DEF Creates, OfProfile, Carries, Addresses
    <3>4. Lower[account'[u].email] \in vouched'[req[w].identity]
      BY <3>2, <3>3 DEF Vouched
    <3>5. <<req[w].identity, u>> \in matched'
      BY <3>1, <3>2, <3>4, Watched
    <3>6. QED
      BY <3>1, <3>5
  <2>3. CASE Step(w) /\ At(w, "link")'
    <3>1. CASE /\ At(w, "complete")
               /\ req'[w].identity = req[w].identity /\ req'[w].user = req[w].user
      BY <3>1, Grows DEF Vouched
    <3>2. CASE /\ At(w, "find_user") /\ req'[w].user \in Matching(req[w].email)
               /\ req'[w].identity = req[w].identity /\ req[w].identity \in Identities
      <4>1. OfProfile(w) /\ Lower[req[w].email] = req[w].email
        BY <3>2 DEF At, OfProfile, Carries, Addresses
      <4>2. /\ req'[w].user \in Users /\ Exists(req'[w].user)
            /\ Lower[account[req'[w].user].email] \in vouched[req[w].identity]
        BY <3>2, <4>1 DEF Matching, Vouched
      <4>3. QED
        BY <3>2, <4>2, Grows DEF Vouched, MatchedNow
    <3>3. QED
      BY <2>3, <3>1, <3>2, ToLink
  <2>4. QED
    BY <1>5, <2>1, <2>2, <2>3, Mover
<1>6. \A p \in matched' : p[2] \in drawn'
  BY <1>3, Grows DEF Vouched
<1>7. LinkVouched'
  BY <1>1 DEF LinkVouched
<1>8. MatchedNow'
  BY <1>2 DEF MatchedNow, Exists
<1>9. QED
  BY <1>4, <1>5, <1>6, <1>7, <1>8 DEF Vouched, At

LEMMA StaysStep ==
    ASSUME TypeOK, Addresses, Creators, Vouched, MatchedStays,
           Addresses', Creators', [Next]_vars
    PROVE  MatchedStays'
<1> SUFFICES ASSUME NEW i \in Identities, NEW u \in Users \ edited', <<i, u>> \in matched'
             PROVE  /\ Exists(u)' => Lower[account'[u].email] \in vouched'[i]
                    /\ \A v \in Workers :
                         At(v, "complete")' /\ req'[v].user = u => req'[v].email \in vouched'[i]
  BY DEF MatchedStays, Exists, At
<1>1. u \notin edited /\ vouched[i] \subseteq vouched'[i]
  BY Grows
<1>2. CASE <<i, u>> \in matched
  <2>1. u \in drawn
    BY <1>2 DEF Vouched
  <2>2. ASSUME Exists(u)'
        PROVE  Lower[account'[u].email] \in vouched'[i]
    <3>1. CASE Exists(u)
      BY <1>1, <1>2, <2>2, <3>1, SameAddress DEF MatchedStays
    <3>2. CASE ~Exists(u)
      <4>1. PICK w \in Workers, a \in Account : Saves(w, u, a)
        BY <2>1, <2>2, <3>2, Appears
      <4>2. req[w].email \in vouched[i] /\ Lower[req[w].email] = req[w].email
        BY <1>1, <1>2, <4>1 DEF Saves, MatchedStays, Addresses, Carries
      <4>3. account'[u].email = req[w].email
        BY <4>1, Rows DEF Saves
      <4>4. QED
        BY <1>1, <4>2, <4>3
    <3>3. QED
      BY <3>1, <3>2
  <2>3. ASSUME NEW v \in Workers, At(v, "complete")', req'[v].user = u
        PROVE  req'[v].email \in vouched'[i]
    <3>1. CASE req'[v] = req[v]
      BY <1>1, <1>2, <2>3, <3>1 DEF MatchedStays, At
    <3>2. CASE Step(v)
      <4>1. PICK x \in Users, a \in Account : Creates(v, x, a) /\ req'[v].user = x
        BY <2>3, <3>2, ToComplete
      <4>2. QED
        BY <2>1, <2>3, <4>1 DEF Creates
    <3>3. QED
      BY <3>1, <3>2, Mover
  <2>4. QED
    BY <2>2, <2>3
<1>3. CASE <<i, u>> \notin matched
  <2>1. Watch
    BY <1>3, Effects
       DEF Quiet, Creates, Saves, Edits, Puts, FetchUser, Report, Link, Delete, AdminLink, seen
  <2>2. Exists(u)' /\ Lower[account'[u].email] \in vouched'[i]
    BY <1>3, <2>1, Watched
  <2>3. ASSUME NEW v \in Workers, At(v, "complete")', req'[v].user = u
        PROVE  req'[v].email \in vouched'[i]
    <3>1. account'[u].email = req'[v].email
      BY <2>2, <2>3 DEF Creators
    <3>2. Lower[req'[v].email] = req'[v].email
      BY <2>3 DEF Addresses, Carries
    <3>3. QED
      BY <2>2, <3>1, <3>2
  <2>4. QED
    BY <2>2, <2>3
<1>4. QED
  BY <1>2, <1>3

-----------------------------------------------------------------------------
(* The theorems.                                                           *)

LEMMA Invariant == Spec => []Inv
<1>1. Init => Inv
  BY TypeInit, AddressesInit, CreatorsInit, VouchedInit DEF Inv
<1>2. Inv /\ [Next]_vars => Inv'
  BY TypeNext, AddressesStep, CreatorsStep, VouchedStep, StaysStep DEF Inv
<1>3. QED
  BY <1>1, <1>2, PTL DEF Spec

(* Rows, links and requests have their types, and no link outlives the     *)
(* account it names.                                                       *)
THEOREM TypeCorrect == Spec => []TypeOK
<1>1. Inv => TypeOK
  BY DEF Inv
<1>2. QED
  BY <1>1, Invariant, PTL

(* However many registrations and callbacks overlap, and whatever is       *)
(* deleted and created again under them, the query that signs people in    *)
(* finds two accounts only if an administrator typed capitals into one.    *)
THEOREM OneAddress == Spec => []OneAccountPerAddress
<1>1. ASSUME Inv, NEW u \in Users, NEW v \in Users, Exists(u), Exists(v), u # v,
             Holds[u] = Holds[v]
      PROVE  \E x \in edited \cap {u, v} : Capitals(x)
  <2>1. Stored
    BY <1>1 DEF Inv, Addresses
  <2>2. Lower[account[u].email] = Lower[account[v].email]
    BY <1>1 DEF Holds
  <2>3. Capitals(u) \/ Capitals(v)
    BY <1>1, <2>1, <2>2 DEF Stored, Capitals
  <2>4. QED
    BY <1>1, <2>1, <2>3 DEF Stored
<1>2. Inv => OneAccountPerAddress
  BY <1>1 DEF OneAccountPerAddress
<1>3. QED
  BY <1>2, Invariant, PTL

(* A callback links its identity to no account but one that at some moment *)
(* had an address of the identity's provider; administrators may edit and  *)
(* delete both meanwhile.                                                  *)
THEOREM Vouching == Spec => []LinkVouched
<1>1. Inv => LinkVouched
  BY DEF Inv, Vouched
<1>2. QED
  BY <1>1, Invariant, PTL

(* A callback moves a link to another account only if the provider         *)
(* reported another address in the meantime or an administrator edited one *)
(* of the two.                                                             *)
THEOREM MovesNeedAddress == Spec => MovesNeedNewAddress
<1> DEFINE Explained(i) ==
      link[i] # NoUser /\ link'[i] \notin {NoUser, link[i]} =>
        \/ \E s \in vouched[i] : s # account[link[i]].email
        \/ {link[i], link'[i]} \cap edited # {}
        \/ link'[i] = assigned'[i]
<1>1. ASSUME Inv, [Next]_vars PROVE [\A i \in Identities : Explained(i)]_vars
  <2>1. ASSUME NEW i \in Identities, link[i] # NoUser, link'[i] \notin {NoUser, link[i]},
               link[i] \notin edited, link'[i] \notin edited, link'[i] # assigned'[i]
        PROVE  \E s \in vouched[i] : s # account[link[i]].email
    <3>1. TypeOK /\ Stored /\ Vouched /\ MatchedStays
      BY <1>1 DEF Inv, Addresses
    <3>2. PICK w \in Workers : Link(w) /\ req[w].identity = i /\ link'[i] = req[w].user
      BY <1>1, <2>1, <3>1, Relinks
    <3> DEFINE u == req[w].user
    <3>3. u \in Users /\ Exists(u) /\ u \notin edited
      BY <2>1, <3>1, <3>2, RequestCases DEF Link, LinkingUp
    <3>4. <<i, u>> \in matched
      BY <3>1, <3>2 DEF Link, Vouched
    <3>5. Lower[account[u].email] \in vouched[i]
      BY <3>1, <3>3, <3>4 DEF MatchedStays
    <3>6. account[u].email \in vouched[i]
      BY <3>1, <3>3, <3>5 DEF Stored, Capitals
    <3>7. link[i] \in Users /\ Exists(link[i])
      BY <2>1, <3>1 DEF TypeOK, Exists
    <3>8. account[u].email # account[link[i]].email
      BY <2>1, <3>1, <3>2, <3>3, <3>7 DEF Stored
    <3>9. QED
      BY <3>6, <3>8
  <2>2. QED
    BY <2>1
<1>2. QED
  BY <1>1, Invariant, PTL DEF Spec, MovesNeedNewAddress

-----------------------------------------------------------------------------
(* How often a link moves.                                                 *)

LEMMA Counts ==
    ASSUME NEW i \in Identities
    PROVE  /\ Linking(i) \subseteq Workers /\ IsFiniteSet(Linking(i))
           /\ Cardinality(Linking(i)) \in Nat
           /\ Cardinality(Linking(i)) <= Cardinality(Workers)
           /\ Cardinality(Workers) \in Nat
<1>1. Linking(i) \subseteq Workers /\ IsFiniteSet(Workers)
  BY LinkingAssumption DEF Linking
<1>2. IsFiniteSet(Linking(i)) /\ Cardinality(Linking(i)) <= Cardinality(Workers)
  BY <1>1, FS_Subset
<1>3. QED
  BY <1>1, <1>2, FS_CardinalityType

LEMMA CountsNext ==
    ASSUME NEW i \in Identities
    PROVE  /\ IsFiniteSet(Linking(i)')
           /\ Cardinality(Linking(i)') \in Nat
           /\ Cardinality(Linking(i)') <= Cardinality(Workers)
<1>1. Linking(i)' \subseteq Workers /\ IsFiniteSet(Workers)
  BY LinkingAssumption DEF Linking
<1>2. IsFiniteSet(Linking(i)') /\ Cardinality(Linking(i)') <= Cardinality(Workers)
  BY <1>1, FS_Subset
<1>3. QED
  BY <1>2, FS_CardinalityType

(* A callback gets past strategy 1 only while its identity has no link.    *)
LEMMA LinkingGrowth ==
    ASSUME TypeOK, [Next]_vars, NEW i \in Identities
    PROVE  Linking(i)' \subseteq Linking(i) \/ link'[i] = NoUser
<1>1. ASSUME NEW w \in Workers, w \in Linking(i)', w \notin Linking(i)
      PROVE  link'[i] = NoUser
  <2>1. Step(w)
    BY <1>1, Mover DEF Linking
  <2>2. req'[w].at \in {"find_user", "insert", "complete", "link"} /\ req'[w].identity = i
    BY <1>1 DEF Linking
  <2>3. CASE At(w, "link")'
    <3>1. req[w].identity = i /\ req[w].at \in {"complete", "find_user"}
      BY <2>1, <2>2, <2>3, ToLink DEF At
    <3>2. QED
      BY <1>1, <3>1 DEF Linking
  <2>4. CASE Carries(w)'
    <3>1. CASE \E s \in Spellings :
                 req'[w] = [at |-> "insert", identity |-> NoIdentity, email |-> Lower[s]]
      BY <2>2, <3>1, LinkingAssumption
    <3>2. CASE \E j \in Identities, s \in Spellings :
                 req'[w] = [at |-> "find_link", identity |-> j, email |-> Lower[s]]
      BY <2>2, <3>2
    <3>3. CASE Carries(w) /\ req'[w].identity = req[w].identity
      <4>1. At(w, "find_link")
        BY <1>1, <2>2, <3>3 DEF Carries, Linking, At
      <4>2. FindLink(w) \/ Abort(w)
        BY <2>1, <4>1 DEF Step, Register, Insert, InsertRow, FetchUser,
             Report, FindUser, FindAmong, Complete, Link, At
      <4>3. ~Abort(w)
        BY <2>2 DEF Abort, Goto, Idle, TypeOK
      <4>4. link[req[w].identity] = NoUser
        BY <2>2, <4>2, <4>3 DEF FindLink, Goto, Idle, TypeOK
      <4>5. QED
        BY <2>2, <3>3, <4>2, <4>3, <4>4 DEF FindLink, tables
    <3>4. QED
      BY <2>1, <2>4, <3>1, <3>2, <3>3, Carried
  <2>5. QED
    BY <2>2, <2>3, <2>4 DEF Carries, At
<1>2. QED
  BY <1>1 DEF Linking

LEMMA MovesInit == Init => MovesBounded
BY DEF Init, MovesBounded

Slack(i) == IF assigned[i] = NoUser THEN 0 ELSE 1

LEMMA MovesStep ==
    ASSUME TypeOK, MovesBounded, [Next]_vars
    PROVE  MovesBounded'
<1> SUFFICES ASSUME NEW i \in Identities
             PROVE  /\ link'[i] = NoUser => moves'[i] = 0
                    /\ link'[i] # NoUser =>
                         moves'[i] + Cardinality(Linking(i)') < Cardinality(Workers) + Slack(i)'
  BY DEF MovesBounded, Slack
<1>1. /\ link[i] = NoUser => moves[i] = 0
      /\ link[i] # NoUser =>
           moves[i] + Cardinality(Linking(i)) < Cardinality(Workers) + Slack(i)
      /\ moves[i] \in Nat
  BY DEF MovesBounded, Slack, TypeOK
<1>2. Slack(i) \in {0, 1} /\ Slack(i)' \in {0, 1}
  BY DEF Slack
<1>3. ASSUME NEW w \in Workers, Link(w), req[w].identity = i
      PROVE  /\ link'[i] = NoUser => moves'[i] = 0
             /\ link'[i] # NoUser =>
                  moves'[i] + Cardinality(Linking(i)') < Cardinality(Workers) + Slack(i)'
  <2>1. req[w] \in LinkingUp
    BY <1>3, RequestCases DEF Link
  <2>2. link'[i] = req[w].user /\ link'[i] # NoUser
    BY <1>3, <2>1, LinkingAssumption DEF Link, LinkingUp, TypeOK
  <2>3. moves'[i] = IF link[i] \in {NoUser, req[w].user} THEN moves[i] ELSE moves[i] + 1
    BY <1>3 DEF Link, TypeOK
  <2>4. w \in Linking(i)
    BY <1>3 DEF Link, Linking, At
  <2>5. req'[w] = Idle /\ \A v \in Workers \ {w} : req'[v] = req[v]
    BY <1>3 DEF Link, Goto, TypeOK
  <2>6. Linking(i)' = Linking(i) \ {w}
    BY <2>5 DEF Linking, Idle
  <2>7. Cardinality(Linking(i)') = Cardinality(Linking(i)) - 1
    BY <2>4, <2>6, Counts, FS_RemoveElement
  <2>8. Slack(i)' = Slack(i)
    BY <1>3 DEF Link, Slack
  <2>9. CASE link[i] = NoUser
    BY <1>1, <1>2, <2>3, <2>7, <2>9, Counts
  <2>10. CASE link[i] # NoUser
    <3>1. moves'[i] <= moves[i] + 1 /\ moves'[i] \in Nat
      BY <1>1, <2>3
    <3>2. QED
      BY <1>1, <1>2, <2>2, <2>7, <2>8, <2>10, <3>1, Counts
  <2>11. QED
    BY <2>2, <2>9, <2>10
<1>4. ASSUME NEW u \in Users \cup {NoUser}, AdminLink(i, u)
      PROVE  /\ link'[i] = NoUser => moves'[i] = 0
             /\ link'[i] # NoUser =>
                  moves'[i] + Cardinality(Linking(i)') < Cardinality(Workers) + Slack(i)'
  <2>1. moves'[i] = 0 /\ link'[i] = u /\ assigned'[i] = u
    BY <1>4 DEF AdminLink, TypeOK
  <2>2. link'[i] # NoUser => Slack(i)' = 1
    BY <2>1 DEF Slack
  <2>3. QED
    BY <2>1, <2>2, Counts, CountsNext
<1>5. ASSUME \A w \in Workers : ~(Link(w) /\ req[w].identity = i),
             \A u \in Users \cup {NoUser} : ~AdminLink(i, u)
      PROVE  \/ link'[i] = NoUser /\ moves'[i] = 0
             \/ link'[i] = link[i] /\ moves'[i] = moves[i] /\ Slack(i)' = Slack(i)
  <2>1. ASSUME NEW w \in Workers, Link(w)
        PROVE  link'[i] = link[i] /\ moves'[i] = moves[i] /\ assigned'[i] = assigned[i]
    BY <1>5, <2>1 DEF Link, TypeOK
  <2>2. ASSUME NEW j \in Identities, NEW u \in Users \cup {NoUser}, AdminLink(j, u)
        PROVE  link'[i] = link[i] /\ moves'[i] = moves[i] /\ assigned'[i] = assigned[i]
    BY <1>5, <2>2 DEF AdminLink, TypeOK
  <2>3. ASSUME NEW u \in Users, Delete(u)
        PROVE  \/ link'[i] = NoUser /\ moves'[i] = 0
               \/ link'[i] = link[i] /\ moves'[i] = moves[i] /\ assigned'[i] = assigned[i]
    BY <2>3 DEF Delete, TypeOK
  <2>4. QED
    BY <2>1, <2>2, <2>3, Effects
       DEF Quiet, Creates, Saves, Edits, Puts, FetchUser, Report, tables, marks, Slack
<1>6. CASE link'[i] = link[i] /\ moves'[i] = moves[i] /\ Slack(i)' = Slack(i)
  <2>1. CASE Linking(i)' \subseteq Linking(i)
    <3>1. Cardinality(Linking(i)') <= Cardinality(Linking(i))
      BY <2>1, Counts, FS_Subset
    <3>2. QED
      BY <1>1, <1>2, <1>6, <3>1, Counts, CountsNext
  <2>2. CASE link'[i] = NoUser
    BY <1>1, <1>6, <2>2
  <2>3. QED
    BY <2>1, <2>2, LinkingGrowth
<1>7. QED
  BY <1>3, <1>4, <1>5, <1>6

(* However many workers there are, a link never moves oftener than there   *)
(* were callbacks to overlap the one, or the administrator, who made it.   *)
THEOREM MovesBound == Spec => []MovesBounded
<1>1. TypeOK /\ MovesBounded /\ [Next]_vars => MovesBounded'
  BY MovesStep
<1>2. QED
  BY <1>1, MovesInit, TypeCorrect, PTL DEF Spec

-----------------------------------------------------------------------------
(* The tables implement Directory.                                         *)

LEMMA HoldsOf ==
    ASSUME NEW u \in Users
    PROVE  /\ Holds[u] = IF Exists(u) THEN {Lower[account[u].email]} ELSE {}
           /\ Holds'[u] = IF Exists(u)' THEN {Lower[account'[u].email]} ELSE {}
BY DEF Holds, Exists

LEMMA PromiseInit == Init => Promise!Init
BY DEF Init, Promise!Init, Holds, Exists

LEMMA HoldsPut ==
    ASSUME TypeOK, NEW u \in Users, NEW a \in Account, Puts(u, a)
    PROVE  /\ Holds' = [Holds EXCEPT ![u] = {Lower[a.email]}]
           /\ Lower[a.email] \in Spellings
<1>1. /\ Exists(u)' /\ account'[u] = a
      /\ \A v \in Users \ {u} : account'[v] = account[v] /\ (Exists(v)' <=> Exists(v))
  BY Rows
<1>2. Holds'[u] = {Lower[a.email]} /\ \A v \in Users \ {u} : Holds'[v] = Holds[v]
  BY <1>1, HoldsOf
<1>3. Holds' = [Holds EXCEPT ![u] = {Lower[a.email]}]
  BY <1>2 DEF Holds
<1>4. QED
  BY <1>3, LinkingAssumption DEF Account

LEMMA WatchSame == Watch <=> Promise!Watch
BY DEF Watch, Promise!Watch

(* A row that a registration or a callback writes opens its account, or    *)
(* holds what it held.                                                     *)
LEMMA PromiseWrites ==
    ASSUME Inv, [Next]_vars, NEW u \in Users, NEW a \in Account, Puts(u, a),
           edited' = edited, Lower[a.email] = a.email
    PROVE  [Promise!Change]_Promise!vars
<1> USE DEF Inv
<1>1. Holds' = [Holds EXCEPT ![u] = {a.email}] /\ a.email \in Spellings
  BY HoldsPut
<1>2. UNCHANGED <<link, vouched, assigned>> /\ Watch
  BY DEF Puts
<1>3. CASE Exists(u) /\ u \notin edited
  <2>1. account'[u] = a /\ Exists(u)'
    BY Rows
  <2>2. account[u].email = a.email
    BY <1>3, <2>1, SameAddress
  <2>3. Holds' = Holds
    <3>1. Lower[account[u].email] = a.email
      BY <2>2
    <3>2. Holds[u] = {a.email}
      BY <1>3, <3>1, HoldsOf
    <3>3. QED
      BY <1>1, <3>2 DEF Holds
  <2>4. matched' = matched
    <3>1. ASSUME NEW p \in matched', p \notin matched PROVE FALSE
      <4>1. /\ p \in Identities \X Users
            /\ Exists(p[2])' /\ Lower[account'[p[2]].email] \in vouched[p[1]]
        BY <1>2, <3>1, Watched
      <4>2. PICK i \in Identities, v \in Users : p = <<i, v>>
        BY <4>1
      <4>3. Exists(v) /\ account'[v].email = account[v].email
        <5>1. CASE v = u
          BY <1>3, <2>1, <2>2, <5>1
        <5>2. CASE v # u
          BY <4>1, <4>2, <5>2, Rows
        <5>3. QED
          BY <5>1, <5>2
      <4>4. QED
        BY <3>1, <4>1, <4>2, <4>3 DEF Vouched, MatchedNow
    <3>2. QED
      BY <1>2, <3>1, Watched
  <2>5. QED
    BY <1>2, <2>3, <2>4 DEF Promise!vars
<1>4. CASE ~Exists(u) \/ u \in edited
  <2>1. Holds[u] = {} \/ u \in edited
    BY <1>4, HoldsOf
  <2>2. ASSUME NEW v \in Users \ (edited \cup {u}) PROVE a.email \notin Holds[v]
    <3>1. CASE Exists(v)
      <4>1. Lower[account[v].email] = account[v].email
        BY <2>2, <3>1 DEF Addresses, Stored, Capitals
      <4>2. account[v].email # a.email
        BY <2>2, <3>1 DEF Puts
      <4>3. Holds[v] = {account[v].email}
        BY <2>2, <3>1, <4>1, HoldsOf
      <4>4. QED
        BY <4>2, <4>3
    <3>2. CASE ~Exists(v)
      <4>1. Holds[v] = {}
        BY <2>2, <3>2, HoldsOf
      <4>2. QED
        BY <4>1
    <3>3. QED
      BY <3>1, <3>2
  <2>3. Promise!Open(u, a.email)
    BY <1>1, <1>2, <2>1, <2>2, WatchSame DEF Promise!Open
  <2>4. QED
    BY <1>1, <2>3 DEF Promise!Change
<1>5. QED
  BY <1>3, <1>4

LEMMA PromiseStep ==
    ASSUME Inv, [Next]_vars
    PROVE  [Promise!Change]_Promise!vars
<1> USE DEF Inv
<1>1. ASSUME NEW w \in Workers, NEW u \in Users, NEW a \in Account,
             Creates(w, u, a) \/ Saves(w, u, a)
      PROVE  [Promise!Change]_Promise!vars
  <2>1. Lower[a.email] = a.email
    BY <1>1 DEF Creates, Saves, Addresses, Carries
  <2>2. QED
    BY <1>1, <2>1, PromiseWrites DEF Creates, Saves
<1>2. ASSUME NEW u \in Users, NEW a \in Account, Edits(u, a)
      PROVE  Promise!Change
  <2>1. /\ Holds' = [Holds EXCEPT ![u] = {Lower[a.email]}] /\ Lower[a.email] \in Spellings
        /\ Watch /\ UNCHANGED <<link, vouched, assigned>>
    BY <1>2, HoldsPut DEF Edits, Puts
  <2>2. Promise!Edit(u, Lower[a.email])
    BY <1>2, <2>1, WatchSame DEF Edits, Promise!Edit
  <2>3. QED
    BY <2>1, <2>2 DEF Promise!Change
<1>3. ASSUME NEW w \in Workers, NEW i \in Identities, NEW s \in Spellings, FetchUser(w, i, s)
      PROVE  Promise!Change
  <2>1. Lower[s] \in Spellings
    BY LinkingAssumption
  <2>2. Promise!Report(i, Lower[s])
    BY <1>3, WatchSame
       DEF FetchUser, Report, Promise!Report, Holds, Exists, tables, marks
  <2>3. QED
    BY <2>1, <2>2 DEF Promise!Change
<1>4. ASSUME NEW w \in Workers, Link(w)
      PROVE  Promise!Change
  <2> DEFINE u == req[w].user
             i == req[w].identity
  <2>1. u \in Users /\ i \in Identities
    BY <1>4, RequestCases DEF Link, LinkingUp
  <2>2. Exists(u) /\ <<i, u>> \in matched
    BY <1>4 DEF Link, Vouched
  <2>3. Holds' = Holds /\ link' = [link EXCEPT ![i] = u] /\ UNCHANGED <<seen, edited, assigned>>
    BY <1>4 DEF Link, Holds, Exists
  <2> HIDE DEF u, i
  <2>4. Holds[u] # {}
    BY <2>1, <2>2, HoldsOf
  <2>5. Promise!Connect(i, u)
    BY <2>2, <2>3, <2>4 DEF Promise!Connect, seen
  <2>6. QED
    BY <2>1, <2>5 DEF Promise!Change
<1>5. ASSUME NEW u \in Users, Delete(u)
      PROVE  Promise!Close(u)
  <2>1. \A v \in Users : /\ Exists(v)' <=> Exists(v) /\ v # u
                         /\ v # u => account'[v] = account[v]
    BY <1>5 DEF Delete, Exists, TypeOK
  <2>2. Holds' = [Holds EXCEPT ![u] = {}]
    BY <2>1 DEF Holds
  <2>3. Holds[u] # {}
    BY <1>5, HoldsOf DEF Delete
  <2>4. QED
    BY <1>5, <2>2, <2>3 DEF Delete, Promise!Close, seen
<1>6. ASSUME NEW i \in Identities, NEW u \in Users \cup {NoUser}, AdminLink(i, u)
      PROVE  Promise!Change
  <2>1. Holds' = Holds
    BY <1>6 DEF AdminLink, Holds, Exists
  <2>2. CASE u = NoUser
    <3>1. Promise!Dismiss(i)
      BY <1>6, <2>1, <2>2 DEF AdminLink, Promise!Dismiss, seen
    <3>2. QED
      BY <3>1 DEF Promise!Change
  <2>3. CASE u # NoUser
    <3>1. u \in Users /\ Holds[u] # {}
      BY <1>6, <2>3, HoldsOf DEF AdminLink
    <3>2. Promise!Assign(i, u)
      BY <1>6, <2>1, <3>1 DEF AdminLink, Promise!Assign, seen
    <3>3. QED
      BY <3>1, <3>2 DEF Promise!Change
  <2>4. QED
    BY <2>2, <2>3
<1>7. ASSUME Quiet
      PROVE  UNCHANGED Promise!vars
  <2>1. \A u \in Users : Holds'[u] = Holds[u]
    BY <1>7, HoldsOf DEF Quiet
  <2>2. Holds' = Holds
    BY <2>1 DEF Holds
  <2>3. QED
    BY <1>7, <2>2 DEF Quiet, seen, marks, Promise!vars
<1>8. QED
  BY <1>1, <1>2, <1>3, <1>4, <1>5, <1>6, <1>7, Effects DEF Promise!Change

(* However registrations, callbacks, the administrator's forms, repairs    *)
(* and deletions interleave, accounts, addresses and links change as       *)
(* Directory allows: needs that the addresses the application stores are   *)
(* in lower case, that a callback's account is its own, and that what it   *)
(* links is matched.                                                       *)
THEOREM Refinement == Spec => KeepsPromise
<1>1. Inv /\ [Next]_vars => [Promise!Next]_Promise!vars
  BY PromiseStep DEF Promise!Next
<1>2. QED
  BY <1>1, Invariant, PromiseInit, PTL DEF Spec, KeepsPromise, Promise!Spec
=============================================================================
