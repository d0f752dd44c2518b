----------------------------- MODULE OAuthState -----------------------------
(***************************************************************************)
(* The state and the provider that oauth/views.py keeps in the session     *)
(* between start and callback.                                             *)
(*                                                                         *)
(* Both live in a copy of the session that is written back whole when the  *)
(* response is ready, and not at all when the response is a 5xx; so do the *)
(* sessions of the other sign-in views in other tabs of the browser.  A    *)
(* callback is an ordinary GET: a user reloads it, goes back to it, opens  *)
(* it in another tab or browser, or follows it late.                       *)
(***************************************************************************)
EXTENDS Integers, FiniteSets

CONSTANTS
    Browsers,
    Workers,    \* requests in flight at once
    Keys,       \* session keys, each drawn at most once
    States,     \* values of secrets.token_urlsafe, each drawn at most once
    Providers,  \* PROVIDERS, the registry
    None

ASSUME NoneAssumption == None \notin Browsers \cup Keys \cup States \cup Providers

VARIABLES
    issued,     \* per state: the start that drew it, or Unissued
    store,      \* the session table: per key a row or NoRow
    owner,      \* per key: the browser it was drawn for, or None
    cookie,     \* per browser: its session cookie, or None
    req,        \* per worker: the request it serves
    due,        \* history, per browser: the states that must be honoured
    retired     \* history: the states that must be refused

vars == <<issued, store, owner, cookie, req, due, retired>>

Unissued == [browser |-> None, provider |-> None]
Start == [browser : Browsers, provider : Providers]

(* oauth_state and oauth_provider, and whether a user is signed in.        *)
Session == [state : States \cup {None}, provider : Providers \cup {None},
            signed_in : BOOLEAN]
Empty == [state |-> None, provider |-> None, signed_in |-> FALSE]
NoRow == [row |-> "none"]

(* A request works on a copy of a session; a callback brings a state and   *)
(* a provider in its URL.                                                  *)
Idle == [at |-> "idle"]
Request ==
    [at : {"exchange", "sign_in", "save"}, view : {"start", "callback", "other"},
     browser : Browsers, key : Keys \cup {None}, data : Session,
     state : States \cup {None}, provider : Providers \cup {None}]

TypeOK ==
    /\ issued \in [States -> Start \cup {Unissued}]
    /\ store \in [Keys -> Session \cup {NoRow}]
    /\ owner \in [Keys -> Browsers \cup {None}]
    /\ \A k \in Keys : store[k] # NoRow => owner[k] # None
    /\ cookie \in [Browsers -> Keys \cup {None}]
    /\ req \in [Workers -> Request \cup {Idle}]
    /\ due \in [Browsers -> SUBSET States]
    /\ retired \subseteq States

Init ==
    /\ issued = [s \in States |-> Unissued]
    /\ store = [k \in Keys |-> NoRow]
    /\ owner = [k \in Keys |-> None]
    /\ cookie = [b \in Browsers |-> None]
    /\ req = [w \in Workers |-> Idle]
    /\ due = [b \in Browsers |-> {}]
    /\ retired = {}

sessions == <<store, owner, cookie>>

At(w, step) == req[w].at = step
Serves(w, b) == req[w] # Idle /\ req[w].browser = b
Alone(w) == \A v \in Workers \ {w} : ~Serves(v, req[w].browser)

-----------------------------------------------------------------------------
(* The session middleware.                                                 *)

(* The copy a request works on: the row of the cookie's key, or an empty   *)
(* session without a key when there is no such row.                        *)
Loaded(b) ==
    IF cookie[b] # None /\ store[cookie[b]] # NoRow
      THEN [key |-> cookie[b], data |-> store[cookie[b]]]
      ELSE [key |-> None, data |-> Empty]

Begin(w, b, step, view, data, s, p) ==
    /\ At(w, "idle")
    /\ req' = [req EXCEPT ![w] =
                 [at |-> step, view |-> view, browser |-> b, key |-> Loaded(b).key,
                  data |-> data, state |-> s, provider |-> p]]
    /\ UNCHANGED <<sessions, retired>>

Fresh(k) == owner[k] = None
Without(key) == IF key = None THEN store ELSE [store EXCEPT ![key] = NoRow]

(* The response carries the copy to its row, or to a new one if it has no  *)
(* key.  What a start or a callback that was alone in its browser leaves   *)
(* there decides what later callbacks must find.                           *)
Respond(w, k) ==
    LET r == req[w]
        left == {s \in States : r.view = "start" /\ s = r.data.state}
        ofBrowser == {s \in States : issued[s].browser = r.browser} IN
    /\ store' = [store EXCEPT ![k] = r.data]
    /\ owner' = [owner EXCEPT ![k] = r.browser]
    /\ cookie' = [cookie EXCEPT ![r.browser] = k]
    /\ IF Alone(w) /\ r.view # "other"
         THEN /\ due' = [due EXCEPT ![r.browser] = left]
              /\ retired' = retired \cup (ofBrowser \ left)
         ELSE UNCHANGED <<due, retired>>

(* If its row is gone the response is an error and nothing is written.     *)
Save(w) ==
    /\ At(w, "save")
    /\ LET key == req[w].key IN
         \/ /\ key = None
            /\ \E k \in Keys : Fresh(k) /\ Respond(w, k)
         \/ /\ key # None
            /\ store[key] # NoRow
            /\ Respond(w, key)
         \/ /\ key # None
            /\ store[key] = NoRow
            /\ UNCHANGED <<sessions, due, retired>>
    /\ req' = [req EXCEPT ![w] = Idle]
    /\ UNCHANGED issued
-----------------------------------------------------------------------------
(* start and callback.                                                     *)

(* start, for a provider of the registry; any other name is answered 404   *)
(* and changes nothing.                                                    *)
StartView(w, b, p, s) ==
    /\ issued[s] = Unissued
    /\ issued' = [issued EXCEPT ![s] = [browser |-> b, provider |-> p]]
    /\ Begin(w, b, "save", "start",
             [Loaded(b).data EXCEPT !.state = s, !.provider = p], None, None)
    /\ due' = [due EXCEPT ![b] = {}]

(* The two session.pop at the head of callback.  Mutants: get; blanks.     *)
Popped_MutantGet(data) == data
Popped_MutantBlank(data) == [data EXCEPT !.state = "", !.provider = ""]
Popped(data) == [data EXCEPT !.state = None, !.provider = None]

(* compare_digest and the test of the provider.  s = None stands for a     *)
(* URL without a state or a code, or with an error.  Mutant: any state.    *)
Matches_MutantAnyState(data, s, p) == None \notin {data.state, s} /\ data.provider = p
Matches(data, s, p) == s # None /\ data.state = s /\ data.provider = p

Accept(w, b, s, p) ==
    /\ Matches(Loaded(b).data, s, p)
    /\ Begin(w, b, "exchange", "callback", Popped(Loaded(b).data), s, p)
    /\ UNCHANGED <<issued, due>>

(* A refusal still pops, and a 400 is saved; without anything to pop the   *)
(* session is not modified and nothing happens at all.                     *)
Refuse(w, b, s, p) ==
    /\ Loaded(b).data.state # None
    /\ ~Matches(Loaded(b).data, s, p)
    /\ Begin(w, b, "save", "callback", Popped(Loaded(b).data), None, None)
    /\ due' = [due EXCEPT ![b] = {}]
    /\ UNCHANGED issued

(* exchange_code or fetch_user raises: one of two HTTP calls to Google, of *)
(* two or three to GitHub, fails.  The 502 is not saved.  Mutant: a 400.   *)
ProviderFails_MutantSaved(w) ==
    /\ At(w, "exchange")
    /\ req' = [req EXCEPT ![w].at = "save"]
    /\ UNCHANGED <<issued, sessions, due, retired>>

ProviderFails(w) ==
    /\ At(w, "exchange")
    /\ req' = [req EXCEPT ![w] = Idle]
    /\ UNCHANGED <<issued, sessions, due, retired>>

(* The provider reports no address (400), or the account has a TOTP device *)
(* and the session remembers the first factor: nobody is signed in yet.    *)
NotSignedIn(w) ==
    /\ req[w].at \in {"exchange", "sign_in"}
    /\ req' = [req EXCEPT ![w].at = "save"]
    /\ due' = [due EXCEPT ![req[w].browser] = {}]
    /\ UNCHANGED <<issued, sessions, retired>>

(* login(): an anonymous session, with whatever state it holds, moves to a *)
(* new key; the same user's keeps its key; another user's is flushed.      *)
SignedIn(w, key, data) ==
    req' = [req EXCEPT ![w] = [@ EXCEPT !.at = "save", !.key = key,
                                        !.data = [data EXCEPT !.signed_in = TRUE]]]

SignIn(w) ==
    LET r == req[w] IN
    /\ r.at \in {"exchange", "sign_in"}
    /\ \/ /\ ~r.data.signed_in
          /\ \E k \in Keys :
               /\ Fresh(k)
               /\ store' = [Without(r.key) EXCEPT ![k] = r.data]
               /\ owner' = [owner EXCEPT ![k] = r.browser]
               /\ SignedIn(w, k, r.data)
       \/ /\ r.data.signed_in
          /\ SignedIn(w, r.key, r.data)
          /\ UNCHANGED <<store, owner>>
       \/ /\ r.data.signed_in
          /\ store' = Without(r.key)
          /\ SignedIn(w, None, Empty)
          /\ UNCHANGED owner
    /\ due' = [due EXCEPT ![r.browser] = {}]
    /\ UNCHANGED <<issued, cookie, retired>>

-----------------------------------------------------------------------------
(* The rest of the browser's traffic, and the workers.                     *)

(* Another first factor, or the challenge, succeeds in another tab.        *)
OtherSignIn(w, b) ==
    /\ Begin(w, b, "sign_in", "other", Loaded(b).data, None, None)
    /\ due' = [due EXCEPT ![b] = {}]
    /\ UNCHANGED issued

(* logout_view: the row is deleted and the cookie dropped.                 *)
Logout(b) ==
    /\ cookie[b] # None
    /\ store' = Without(cookie[b])
    /\ cookie' = [cookie EXCEPT ![b] = None]
    /\ due' = [due EXCEPT ![b] = {}]
    /\ UNCHANGED <<issued, owner, req, retired>>

(* The worker is killed, or a database error ends the request with a 500.  *)
Abort(w) ==
    /\ ~At(w, "idle")
    /\ req' = [req EXCEPT ![w] = Idle]
    /\ UNCHANGED <<issued, sessions, due, retired>>

Next ==
    \/ \E w \in Workers :
         \/ \E b \in Browsers :
              \/ \E p \in Providers :
                   \/ \E s \in States : StartView(w, b, p, s)
                   \/ \E s \in States \cup {None} : Accept(w, b, s, p) \/ Refuse(w, b, s, p)
              \/ OtherSignIn(w, b)
         \/ ProviderFails(w) \/ NotSignedIn(w) \/ SignIn(w)
         \/ Save(w)
         \/ Abort(w)
    \/ \E b \in Browsers : Logout(b)

Spec == Init /\ [][Next]_vars

-----------------------------------------------------------------------------

(* What the state is for: a callback goes on to the provider only in the   *)
(* browser whose start drew its state, and for that start's provider.      *)
OwnState ==
    \A w \in Workers : At(w, "exchange") =>
        issued[req[w].state] = [browser |-> req[w].browser, provider |-> req[w].provider]

(* Once a callback, or a later start, has responded while no other request *)
(* of its browser held a copy of the session, the states drawn before are  *)
(* refused for good, whatever is reloaded and however sessions move.       *)
RetiredRefused == \A w \in Workers : At(w, "exchange") => req[w].state \notin retired

(* The other way round: what a start left in the session stays there until *)
(* another request of the browser changes it.  A callback that fails at    *)
(* the provider, or whose worker is killed, can be repeated.               *)
DueHonoured ==
    \A b \in Browsers : \A s \in due[b] : Matches(Loaded(b).data, s, issued[s].provider)
=============================================================================
