----------------------------- MODULE LoginFlow -----------------------------
(***************************************************************************)
(* Sign-in: three first factors (password, magic link, OAuth), the TOTP    *)
(* challenge, and the database-backed session that carries a user from one *)
(* to the other.                                                           *)
(*                                                                         *)
(* One browser with any number of tabs, one worker per request in flight.  *)
(* A request loads the session row of its cookie into a copy, works on the *)
(* copy, and writes the whole copy back when it responds; other browsers   *)
(* and the admin site appear as changes to the users' rows.                *)
(***************************************************************************)
EXTENDS Integers, FiniteSets

CONSTANTS
    Users,
    Workers,    \* requests in flight at once
    Keys,       \* session keys, each drawn at most once
    None        \* no user, no key, no row

ASSUME NoneAssumption == None \notin Users \cup Keys

VARIABLES
    confirmed,  \* per user: is there a confirmed TOTP device
    active,     \* per user: is_active
    store,      \* the session table: per key a row or None
    drawn,      \* the keys ever drawn
    sent,       \* the keys ever sent in a Set-Cookie
    cookie,     \* the browser's session cookie, or None
    req         \* per worker, the request it serves

vars == <<confirmed, active, store, drawn, sent, cookie, req>>

(* The parts of the session dict that sign-in uses: _auth_user_id and      *)
(* pre_auth_user_id.                                                       *)
Session == [user : Users \cup {None}, pre : Users \cup {None}]
Anonymous == [user |-> None, pre |-> None]

ASSUME RowAssumption == None \notin Session

Steps == {"idle", "device", "code", "audit", "save"}

(* What a request's login rests on, a history kept for the properties: is  *)
(* it the OAuth callback, was a second factor checked, was a SUCCESS row   *)
(* written, and was the user active, or without a confirmed device, at     *)
(* some moment since the request learned who the user is.                  *)
Tags == {"oauth", "second_factor", "audited", "active", "no_device"}

Request == [at : Steps, user : Users \cup {None}, key : Keys \cup {None},
            data : Session, how : SUBSET Tags]

Idle == [at |-> "idle", user |-> None, key |-> None, data |-> Anonymous, how |-> {}]

TypeOK ==
    /\ confirmed \in [Users -> BOOLEAN]
    /\ active \in [Users -> BOOLEAN]
    /\ store \in [Keys -> Session \cup {None}]
    /\ drawn \subseteq Keys /\ sent \subseteq drawn
    /\ \A k \in Keys : store[k] # None => k \in drawn
    /\ cookie \in sent \cup {None}
    /\ req \in [Workers -> Request]

Init ==
    /\ confirmed \in [Users -> BOOLEAN]
    /\ active \in [Users -> BOOLEAN]
    /\ store = [k \in Keys |-> None]
    /\ drawn = {}
    /\ sent = {}
    /\ cookie = None
    /\ req = [w \in Workers |-> Idle]

users == <<confirmed, active>>
sessions == <<store, drawn, sent, cookie>>

Goto(w, step) == req' = [req EXCEPT ![w].at = step]

-----------------------------------------------------------------------------
(* The session middleware, and django.contrib.auth.                        *)

(* The copy a request works on: the row of the cookie's key, or an empty   *)
(* session without a key when there is no such row.                        *)
Loaded ==
    IF cookie # None /\ store[cookie] # None
      THEN [key |-> cookie, data |-> store[cookie]]
      ELSE [key |-> None, data |-> Anonymous]

Without(key) == IF key = None THEN store ELSE [store EXCEPT ![key] = None]

(* login(): the copy then carries the user; tags is what the request adds  *)
(* to how.  An anonymous session gets a new key and its old row is deleted,*)
(* the same user's session keeps its key, another user's is flushed.       *)
SignedIn(w, key, pre, tags) ==
    req' = [req EXCEPT ![w].at = "audit", ![w].key = key, ![w].how = @ \cup tags,
                       ![w].data = [user |-> req[w].user, pre |-> pre]]

CycleKey(w, pre, tags) ==
    /\ req[w].data.user = None
    /\ \E k \in Keys \ drawn :
         /\ store' = [Without(req[w].key) EXCEPT ![k] = [user |-> None, pre |-> pre]]
         /\ drawn' = drawn \cup {k}
         /\ SignedIn(w, k, pre, tags)

KeepKey(w, pre, tags) ==
    SignedIn(w, req[w].key, pre, tags) /\ UNCHANGED <<store, drawn>>

(* Mutants: the key survives the login, of anyone or of another user.      *)
login_MutantKey(w, pre, tags) == KeepKey(w, pre, tags)
login_MutantNoFlush(w, pre, tags) ==
    CycleKey(w, pre, tags) \/ (req[w].data.user # None /\ KeepKey(w, pre, tags))

login(w, pre, tags) ==
    \/ CycleKey(w, pre, tags)
    \/ req[w].data.user = req[w].user /\ KeepKey(w, pre, tags)
    \/ /\ req[w].data.user \notin {None, req[w].user}
       /\ store' = Without(req[w].key)
       /\ SignedIn(w, None, None, tags)
       /\ UNCHANGED drawn

(* The response: the copy goes to its row, or to a new one if it has no    *)
(* key; if the row is gone the request fails and nothing is written.       *)
Respond(w, k) ==
    /\ store' = [store EXCEPT ![k] = req[w].data]
    /\ cookie' = k
    /\ sent' = sent \cup {k}

(* Mutant: the row is written whether or not it still exists.              *)
Save_MutantUpsert(w) ==
    /\ req[w].at = "save"
    /\ \E k \in IF req[w].key = None THEN Keys \ drawn ELSE {req[w].key} :
         Respond(w, k) /\ drawn' = drawn \cup {k}
    /\ req' = [req EXCEPT ![w] = Idle]
    /\ UNCHANGED users

Save(w) ==
    /\ req[w].at = "save"
    /\ LET key == req[w].key IN
         \/ /\ key = None
            /\ \E k \in Keys \ drawn : Respond(w, k) /\ drawn' = drawn \cup {k}
         \/ /\ key # None /\ store[key] # None
            /\ Respond(w, key)
            /\ UNCHANGED drawn
         \/ /\ key # None /\ store[key] = None
            /\ UNCHANGED sessions
    /\ req' = [req EXCEPT ![w] = Idle]
    /\ UNCHANGED users

-----------------------------------------------------------------------------
(* The views.                                                              *)

(* Session load and first query are one step: they read different tables,  *)
(* so a change between the two could as well come before or after both.    *)
Begin(w, step, u, data, tags) ==
    /\ req[w].at = "idle"
    /\ req' = [req EXCEPT ![w] =
                 [at |-> step, user |-> u, key |-> Loaded.key, data |-> data,
                  how |-> tags \cup (IF active[u] THEN {"active"} ELSE {})
                               \cup (IF confirmed[u] THEN {} ELSE {"no_device"})]]
    /\ UNCHANGED <<users, sessions>>

(* A first factor names a user.  login_view sends an authenticated browser *)
(* away, and the password backend refuses an inactive user.                *)
LoginView(w, u) ==
    /\ Loaded.data.user = None
    /\ active[u]
    /\ Begin(w, "device", u, Loaded.data, {})

(* The magic link refuses an inactive user too.  Its view reads the        *)
(* session last; here the copy is as old as in the other views.            *)
ConsumeLink(w, u) ==
    /\ active[u]
    /\ Begin(w, "device", u, Loaded.data, {})

(* The OAuth callback asks neither.  The ones it refuses are OAuthState's. *)
OAuthCallback(w, u) == Begin(w, "device", u, Loaded.data, {"oauth"})

(* challenge() loads the pending user; an inactive one is forgotten.       *)
(* Mutant: is_active is not looked at.                                     *)
Challenge_MutantInactive(w) ==
    LET u == Loaded.data.pre IN
    /\ u # None
    /\ Begin(w, "code", u, Loaded.data, {})

Challenge(w) ==
    LET u == Loaded.data.pre IN
    /\ u # None
    /\ IF active[u]
         THEN Begin(w, "code", u, Loaded.data, {})
         ELSE Begin(w, "save", u, [Loaded.data EXCEPT !.pre = None], {})

(* _user_has_totp: with a confirmed device the session only remembers the  *)
(* first factor and the browser is sent to the challenge; else login().    *)
(* Mutant: the session is given the method in place of the user.           *)
Remember(w, pre) ==
    /\ req' = [req EXCEPT ![w].at = "save", ![w].data.pre = pre]
    /\ UNCHANGED <<store, drawn>>
PassFirst_MutantMethod(w) == Remember(w, "password")
PassFirst(w) == Remember(w, req[w].user)

(* Mutant: the OAuth callback without its TOTP branch.                     *)
Branch(w, has_totp) ==
    /\ req[w].at = "device"
    /\ IF has_totp THEN PassFirst(w) ELSE login(w, req[w].data.pre, {})
    /\ UNCHANGED <<users, sent, cookie>>
DeviceBranch_MutantOAuth(w) ==
    Branch(w, confirmed[req[w].user] /\ "oauth" \notin req[w].how)
DeviceBranch(w) == Branch(w, confirmed[req[w].user])

(* A valid TOTP or backup code: _complete_login pops the pending user and  *)
(* calls login().                                                          *)
ValidCode(w) ==
    /\ req[w].at = "code"
    /\ login(w, None, {"second_factor"})
    /\ UNCHANGED <<users, sent, cookie>>

(* Mutant: the SUCCESS row is written by a later job.                      *)
Record_MutantLater(w) ==
    /\ req[w].at = "audit"
    /\ Goto(w, "save")
    /\ UNCHANGED <<users, sessions>>

(* audit.record_attempt(SUCCESS), after login() and before the response.   *)
Record(w) ==
    /\ req[w].at = "audit"
    /\ req' = [req EXCEPT ![w].at = "save", ![w].how = @ \cup {"audited"}]
    /\ UNCHANGED <<users, sessions>>

(* A request that ends without writing the session: a wrong password or    *)
(* code, an exception (the middleware saves nothing on a 500), a worker    *)
(* killed.                                                                 *)
EndUnsaved(w) ==
    /\ req[w].at # "idle"
    /\ req' = [req EXCEPT ![w] = Idle]
    /\ UNCHANGED <<users, sessions>>

(* logout_view: the row is deleted and the cookie dropped.                 *)
Logout ==
    /\ cookie # None
    /\ store' = [store EXCEPT ![cookie] = None]
    /\ cookie' = None
    /\ UNCHANGED <<users, drawn, sent, req>>

-----------------------------------------------------------------------------
(* Other browsers and the admin site.                                      *)

(* Every request that knows u as its user notes what u's rows now say.     *)
Witness(u, tag) ==
    req' = [w \in Workers |->
              IF req[w].user = u THEN [req[w] EXCEPT !.how = @ \cup {tag}] ELSE req[w]]

(* setup() confirms a device, disable() removes it.                        *)
ConfirmDevice(u) ==
    /\ ~confirmed[u]
    /\ confirmed' = [confirmed EXCEPT ![u] = TRUE]
    /\ UNCHANGED <<active, sessions, req>>

DisableDevice(u) ==
    /\ confirmed[u]
    /\ confirmed' = [confirmed EXCEPT ![u] = FALSE]
    /\ Witness(u, "no_device")
    /\ UNCHANGED <<active, sessions>>

(* An administrator deactivates the user, and reactivates them.            *)
Deactivate(u) ==
    /\ active[u]
    /\ active' = [active EXCEPT ![u] = FALSE]
    /\ UNCHANGED <<confirmed, sessions, req>>

Reactivate(u) ==
    /\ ~active[u]
    /\ active' = [active EXCEPT ![u] = TRUE]
    /\ Witness(u, "active")
    /\ UNCHANGED <<confirmed, sessions>>

Next ==
    \/ \E w \in Workers :
         \/ \E u \in Users : LoginView(w, u) \/ ConsumeLink(w, u) \/ OAuthCallback(w, u)
         \/ Challenge(w)
         \/ DeviceBranch(w)
         \/ ValidCode(w)
         \/ Record(w)
         \/ Save(w)
         \/ EndUnsaved(w)
    \/ Logout
    \/ \E u \in Users :
         ConfirmDevice(u) \/ DisableDevice(u) \/ Deactivate(u) \/ Reactivate(u)

Spec == Init /\ [][Next]_vars

-----------------------------------------------------------------------------

Authenticated(k) == store[k] # None /\ store[k].user # None

(* A step opens a session: a row starts to carry a user.  Only a response  *)
(* can do that; the request that responds is the one that ends.            *)
Opens(k) == store'[k] # None /\ store'[k].user # None /\ ~Authenticated(k)
OpenedBy(w) == req[w].at = "save" /\ req'[w].at = "idle"

(* The MFA gate: a session opened without a second factor belongs to a     *)
(* user who had no confirmed device at some moment after the request knew  *)
(* the user, whatever else ran in other tabs and browsers.                 *)
MfaGate ==
    [][\A k \in Keys : Opens(k) =>
         \E w \in Workers :
            OpenedBy(w) /\ req[w].how \cap {"second_factor", "no_device"} # {}]_vars

(* README: "Audit log of every login attempt".  No session opens before    *)
(* its SUCCESS row is written, even when workers die half way.             *)
AuditedBeforeOpen ==
    [][\A k \in Keys : Opens(k) =>
         \E w \in Workers : OpenedBy(w) /\ "audited" \in req[w].how]_vars

(* Deactivation closes every path but one: only an OAuth callback that     *)
(* needs no second factor opens a session for a user who was inactive all  *)
(* along.                                                                  *)
ActiveGate ==
    [][\A k \in Keys : Opens(k) =>
         \E w \in Workers :
            OpenedBy(w) /\ req[w].how \cap {"active", "oauth"} # {}]_vars

(* A key the browser held before a login never becomes an authenticated    *)
(* one: signing in always moves the session to a new key.                  *)
KeysRotate ==
    [][\A k \in sent : store[k] # None /\ ~Authenticated(k) => ~Authenticated(k)']_vars

(* A session row once deleted (logout, login, flush) stays deleted, though *)
(* requests that loaded it earlier still respond after that.               *)
DeletedStayDeleted ==
    [][\A k \in drawn : store[k] = None => store'[k] = None]_vars

(* The session table keeps the promise of OwnedSession for every key the   *)
(* browser was sent: under one key it is never signed in as two users, nor *)
(* as anyone after it was anonymous or had ended, although each request    *)
(* writes back a copy of the row as it was before other requests ran.      *)
Live == {k \in sent : store[k] # None}
Owner == [k \in Keys |-> IF k \in Live THEN store[k].user ELSE None]

Promise == INSTANCE OwnedSession WITH known <- sent, live <- Live, owner <- Owner
KeepsPromise == Promise!Spec
=============================================================================
