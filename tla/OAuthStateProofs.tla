-------------------------- MODULE OAuthStateProofs --------------------------
(***************************************************************************)
(* OAuthState for any number of browsers, workers, keys, states and        *)
(* providers.  A session copy may be written to a row long after it was    *)
(* read, so the argument follows the copies: a key belongs to one browser  *)
(* (Owned), a state sits only in rows and copies of the browser that drew  *)
(* it, beside its own provider (Slots), and a retired state is in nothing  *)
(* its browser can still load or write back (Gone).                        *)
(***************************************************************************)
EXTENDS OAuthState, TLAPS

(* The cookie of a browser and the keys its requests hold are its own.     *)
Owned ==
    /\ \A b \in Browsers : cookie[b] # None => owner[cookie[b]] = b
    /\ \A w \in Workers :
         req[w] # Idle /\ req[w].key # None => owner[req[w].key] = req[w].browser

(* A session of browser b holds no state, or one that b drew for the       *)
(* provider beside it.                                                     *)
Paired(data, b) ==
    data.state # None => issued[data.state] = [browser |-> b, provider |-> data.provider]

Slots ==
    /\ \A k \in Keys : store[k] # NoRow => Paired(store[k], owner[k])
    /\ \A w \in Workers : req[w] # Idle => Paired(req[w].data, req[w].browser)

(* The copy of a callback has no state, and the one it brought is its own. *)
Carried ==
    \A w \in Workers : req[w] # Idle =>
        /\ req[w].at = "exchange" => req[w].state # None
        /\ req[w].view = "callback" => req[w].data.state = None
        /\ req[w].state # None =>
             issued[req[w].state] = [browser |-> req[w].browser, provider |-> req[w].provider]

(* No browser can load a retired state and no request carries one.         *)
Gone ==
    \A s \in retired :
        /\ issued[s] # Unissued
        /\ \A b \in Browsers : Loaded(b).data.state # s
        /\ \A w \in Workers : req[w] # Idle => s \notin {req[w].data.state, req[w].state}

(* While a start must be honoured its browser runs accepted callbacks only. *)
Undisturbed ==
    \A b \in Browsers : due[b] # {} => \A w \in Workers : Serves(w, b) => At(w, "exchange")

(* The inductive invariant.                                                *)
IInv == TypeOK /\ Owned /\ Slots /\ Carried /\ Gone /\ Undisturbed /\ DueHonoured

-----------------------------------------------------------------------------

(* A start belongs to a browser, so no state of one is Unissued.           *)
LEMMA StartFacts ==
    ASSUME NEW s, NEW b \in Browsers, NEW p, issued[s] = [browser |-> b, provider |-> p]
    PROVE  issued[s] # Unissued /\ issued[s].browser = b /\ issued[s].provider = p
  <1>1. issued[s].browser = b /\ issued[s].provider = p
    OBVIOUS
  <1>2. Unissued.browser = None
    BY DEF Unissued
  <1> QED
    BY <1>1, <1>2, NoneAssumption

LEMMA PairedFacts ==
    ASSUME NEW data, NEW b \in Browsers, Paired(data, b), data.state # None
    PROVE  /\ issued[data.state] # Unissued /\ issued[data.state].browser = b
           /\ issued[data.state].provider = data.provider
  <1>1. issued[data.state] = [browser |-> b, provider |-> data.provider]
    BY DEF Paired
  <1> QED
    BY <1>1, StartFacts

LEMMA CarriedFacts ==
    ASSUME TypeOK, Carried, NEW v \in Workers, req[v] # Idle, req[v].state # None
    PROVE  issued[req[v].state] # Unissued /\ issued[req[v].state].browser = req[v].browser
  <1>1. req[v].browser \in Browsers
    BY DEF TypeOK, Request
  <1>2. issued[req[v].state] = [browser |-> req[v].browser, provider |-> req[v].provider]
    BY DEF Carried
  <1> QED
    BY <1>1, <1>2, StartFacts

LEMMA LoadedFacts ==
    ASSUME TypeOK, NEW b \in Browsers
    PROVE  /\ Loaded(b).data \in Session
           /\ Loaded(b).key \in Keys \cup {None}
           /\ Loaded(b).key # None => /\ Loaded(b).key = cookie[b]
                                      /\ store[cookie[b]] # NoRow
                                      /\ Loaded(b).data = store[cookie[b]]
           /\ Loaded(b).key = None => Loaded(b).data = Empty
  BY NoneAssumption DEF TypeOK, Loaded, Session, Empty, NoRow

LEMMA PoppedFacts ==
    ASSUME NEW data \in Session
    PROVE  Popped(data) \in Session /\ Popped(data).state = None
  BY DEF Popped, Session

(* What a new request looks like.                                          *)
LEMMA BeginFacts ==
    ASSUME TypeOK, NEW w \in Workers, NEW b \in Browsers, NEW step \in {"exchange", "sign_in", "save"},
           NEW view \in {"start", "callback", "other"}, NEW data \in Session,
           NEW s \in States \cup {None}, NEW p \in Providers \cup {None},
           Begin(w, b, step, view, data, s, p)
    PROVE  /\ req[w] = Idle
           /\ req' \in [Workers -> Request \cup {Idle}]
           /\ req'[w] \in Request
           /\ req'[w].at = step /\ req'[w].view = view /\ req'[w].browser = b
           /\ req'[w].key = Loaded(b).key /\ req'[w].data = data
           /\ req'[w].state = s /\ req'[w].provider = p
           /\ \A v \in Workers \ {w} : req'[v] = req[v]
           /\ store' = store /\ owner' = owner /\ cookie' = cookie /\ retired' = retired
  <1>1. Loaded(b).key \in Keys \cup {None}
    BY LoadedFacts
  <1>2. req[w] = Idle
    BY DEF Begin, At, TypeOK, Request, Idle
  <1> QED
    BY <1>1, <1>2 DEF Begin, TypeOK, Request, sessions

LEMMA TypeStep == TypeOK /\ [Next]_vars => TypeOK'
  <1> SUFFICES ASSUME TypeOK, [Next]_vars PROVE TypeOK'
    OBVIOUS
  <1>1. ASSUME NEW w \in Workers, NEW b \in Browsers, NEW p \in Providers, NEW s \in States,
               StartView(w, b, p, s)
        PROVE  TypeOK'
    <2> DEFINE data == [Loaded(b).data EXCEPT !.state = s, !.provider = p]
    <2>1. data \in Session
      BY LoadedFacts DEF Session
    <2>2. Begin(w, b, "save", "start", data, None, None)
      BY <1>1 DEF StartView
    <2> HIDE DEF data
    <2>3. /\ req' \in [Workers -> Request \cup {Idle}]
          /\ store' = store /\ owner' = owner /\ cookie' = cookie /\ retired' = retired
      BY <2>1, <2>2, BeginFacts
    <2>4. issued' \in [States -> Start \cup {Unissued}] /\ due' \in [Browsers -> SUBSET States]
      BY <1>1 DEF StartView, TypeOK, Start
    <2> QED
      BY <2>3, <2>4 DEF TypeOK
  <1>2. ASSUME NEW w \in Workers, NEW b \in Browsers, NEW p \in Providers,
               NEW s \in States \cup {None}, Accept(w, b, s, p) \/ Refuse(w, b, s, p)
        PROVE  TypeOK'
    <2>1. Popped(Loaded(b).data) \in Session
      BY LoadedFacts, PoppedFacts
    <2>2. /\ req' \in [Workers -> Request \cup {Idle}]
          /\ store' = store /\ owner' = owner /\ cookie' = cookie /\ retired' = retired
      BY <1>2, <2>1, BeginFacts DEF Accept, Refuse
    <2>3. issued' = issued /\ due' \in [Browsers -> SUBSET States]
      BY <1>2 DEF Accept, Refuse, TypeOK
    <2> QED
      BY <2>2, <2>3 DEF TypeOK
  <1>3. ASSUME NEW w \in Workers, NEW b \in Browsers, OtherSignIn(w, b) PROVE TypeOK'
    <2>1. /\ req' \in [Workers -> Request \cup {Idle}]
          /\ store' = store /\ owner' = owner /\ cookie' = cookie /\ retired' = retired
      BY <1>3, LoadedFacts, BeginFacts DEF OtherSignIn
    <2> QED
      BY <1>3, <2>1 DEF OtherSignIn, TypeOK
  <1>4. ASSUME NEW w \in Workers, ProviderFails(w) \/ Abort(w) PROVE TypeOK'
    BY <1>4 DEF ProviderFails, Abort, TypeOK, sessions
  <1>5. ASSUME NEW w \in Workers, NotSignedIn(w) PROVE TypeOK'
    <2>1. req[w] \in Request
      BY <1>5 DEF NotSignedIn, TypeOK, Idle
    <2>2. req' \in [Workers -> Request \cup {Idle}]
      BY <1>5, <2>1 DEF NotSignedIn, TypeOK, Request
    <2> QED
      BY <1>5, <2>1, <2>2 DEF NotSignedIn, TypeOK, Request, sessions
  <1>6. ASSUME NEW w \in Workers, SignIn(w) PROVE TypeOK'
    <2>1. req[w] \in Request
      BY <1>6 DEF SignIn, TypeOK, Idle
    <2>2. /\ req[w].browser \in Browsers /\ req[w].data \in Session
          /\ req[w].key \in Keys \cup {None} /\ Empty \in Session
      BY <2>1 DEF Request, Empty, Session
    <2>3. ASSUME NEW key \in Keys \cup {None}, NEW data \in Session, SignedIn(w, key, data)
          PROVE  req' \in [Workers -> Request \cup {Idle}]
      <3>1. [data EXCEPT !.signed_in = TRUE] \in Session
        BY DEF Session
      <3> QED
        BY <2>1, <2>3, <3>1 DEF SignedIn, Request, TypeOK
    <2>4. req' \in [Workers -> Request \cup {Idle}]
      BY <1>6, <2>2, <2>3 DEF SignIn
    <2>5. /\ store' \in [Keys -> Session \cup {NoRow}] /\ owner' \in [Keys -> Browsers \cup {None}]
          /\ \A k \in Keys : store'[k] # NoRow => owner'[k] # None
      BY <1>6, <2>2, NoneAssumption DEF SignIn, TypeOK, Without, Fresh
    <2> QED
      BY <1>6, <2>2, <2>4, <2>5 DEF SignIn, TypeOK
  <1>7. ASSUME NEW w \in Workers, Save(w) PROVE TypeOK'
    <2>1. req[w] \in Request
      BY <1>7 DEF Save, At, TypeOK, Idle
    <2>2. /\ req[w].browser \in Browsers /\ req[w].data \in Session /\ req[w].key \in Keys \cup {None}
          /\ req[w].view = "start" => req[w].data.state \in States \cup {None}
      BY <2>1 DEF Request, Session
    <2>3. req' \in [Workers -> Request \cup {Idle}] /\ issued' = issued
      BY <1>7 DEF Save, TypeOK
    <2>4. ASSUME NEW k \in Keys, Respond(w, k) PROVE TypeOK'
      <3>1. /\ store' \in [Keys -> Session \cup {NoRow}] /\ owner' \in [Keys -> Browsers \cup {None}]
            /\ \A l \in Keys : store'[l] # NoRow => owner'[l] # None
            /\ cookie' \in [Browsers -> Keys \cup {None}]
        BY <2>2, <2>4, NoneAssumption DEF Respond, TypeOK
      <3>2. due' \in [Browsers -> SUBSET States] /\ retired' \subseteq States
        BY <2>2, <2>4 DEF Respond, TypeOK
      <3> QED
        BY <2>3, <3>1, <3>2 DEF TypeOK
    <2> QED
      BY <1>7, <2>2, <2>3, <2>4 DEF Save, TypeOK, sessions
  <1>8. ASSUME NEW b \in Browsers, Logout(b) PROVE TypeOK'
    BY <1>8, NoneAssumption DEF Logout, Without, TypeOK
  <1>9. CASE UNCHANGED vars
    BY <1>9 DEF vars, TypeOK
  <1> QED
    BY <1>1, <1>2, <1>3, <1>4, <1>5, <1>6, <1>7, <1>8, <1>9 DEF Next

-----------------------------------------------------------------------------
(* What the steps do to the sessions that browsers can load.               *)

LEMMA LoadedSame ==
    ASSUME NEW b \in Browsers, cookie'[b] = cookie[b],
           cookie[b] # None => store'[cookie[b]] = store[cookie[b]]
    PROVE  Loaded(b)' = Loaded(b)
  BY DEF Loaded

(* A cookie is no fresh key, and no key of another browser.                *)
LEMMA KeysApart ==
    ASSUME TypeOK, Owned, NEW b \in Browsers, NEW c \in Browsers \ {b}, NEW k \in Keys,
           owner[k] \in {b, None}
    PROVE  cookie[c] # k
  BY NoneAssumption DEF TypeOK, Owned

LEMMA SignInEffect ==
    ASSUME TypeOK, Owned, NEW w \in Workers, SignIn(w)
    PROVE  /\ req[w] \in Request /\ req[w] # Idle /\ retired' = retired
           /\ \E key \in Keys \cup {None}, data \in {req[w].data, Empty} :
                /\ SignedIn(w, key, data)
                /\ key # None => owner'[key] = req[w].browser
           /\ \A k \in Keys : owner[k] # None => owner'[k] = owner[k]
           /\ \A k \in Keys : \/ store'[k] = store[k] /\ owner'[k] = owner[k]
                              \/ store'[k] = NoRow
                              \/ store'[k] = req[w].data /\ owner'[k] = req[w].browser
           /\ \A b \in Browsers :
                /\ b # req[w].browser => Loaded(b)' = Loaded(b)
                /\ Loaded(b)'.data.state \in {Loaded(b).data.state, None}
  <1>1. req[w] \in Request
    BY DEF SignIn, TypeOK, Idle
  <1>2. /\ req[w].browser \in Browsers /\ req[w].data \in Session
        /\ req[w].key \in Keys \cup {None} /\ req[w] # Idle
    BY <1>1 DEF Request, SignIn, Idle
  <1>3. req[w].key # None => owner[req[w].key] = req[w].browser
    BY <1>2 DEF Owned
  <1>4. \E key \in Keys \cup {None}, data \in {req[w].data, Empty} :
          /\ SignedIn(w, key, data)
          /\ key # None => owner'[key] = req[w].browser
    BY <1>2, <1>3, NoneAssumption DEF SignIn, TypeOK
  <1>5. \A k \in Keys : owner[k] # None => owner'[k] = owner[k]
    BY <1>2 DEF SignIn, Fresh, TypeOK
  <1>6. \A k \in Keys : \/ store'[k] = store[k] /\ owner'[k] = owner[k]
                        \/ store'[k] = NoRow
                        \/ store'[k] = req[w].data /\ owner'[k] = req[w].browser
    BY <1>2 DEF SignIn, Without, TypeOK
  <1>7. cookie' = cookie
    BY DEF SignIn
  <1>8. ASSUME NEW b \in Browsers, b # req[w].browser PROVE Loaded(b)' = Loaded(b)
    <2>1. cookie[b] # None => store'[cookie[b]] = store[cookie[b]]
      BY <1>2, <1>3, <1>8, NoneAssumption DEF SignIn, Without, TypeOK, Owned, Fresh
    <2> QED
      BY <1>7, <2>1, LoadedSame
  <1>9. ASSUME NEW b \in Browsers PROVE Loaded(b)'.data.state \in {Loaded(b).data.state, None}
    <2>1. cookie[b] # None => store'[cookie[b]] \in {store[cookie[b]], NoRow}
      BY <1>2, NoneAssumption DEF SignIn, Without, TypeOK, Owned, Fresh
    <2> QED
      BY <1>7, <2>1 DEF Loaded, Empty
  <1>10. retired' = retired
    BY DEF SignIn
  <1> QED
    BY <1>1, <1>2, <1>4, <1>5, <1>6, <1>8, <1>9, <1>10

LEMMA SaveEffect ==
    ASSUME TypeOK, Owned, NEW w \in Workers, Save(w)
    PROVE  /\ req[w] \in Request /\ req[w].at = "save"
           /\ req' = [req EXCEPT ![w] = Idle] /\ issued' = issued
           /\ \/ UNCHANGED <<sessions, due, retired>>
              \/ \E k \in Keys : Respond(w, k) /\ owner[k] \in {req[w].browser, None}
  <1>1. req[w] \in Request
    BY DEF Save, At, TypeOK, Idle
  <1>2. req[w].key \in Keys \cup {None} /\ req[w] # Idle
    BY <1>1 DEF Request, Save, At, Idle
  <1>3. req[w].key # None => owner[req[w].key] = req[w].browser
    BY <1>2 DEF Owned
  <1> QED
    BY <1>1, <1>2, <1>3 DEF Save, At, Fresh

LEMMA RespondEffect ==
    ASSUME TypeOK, Owned, NEW w \in Workers, req[w] \in Request, NEW k \in Keys,
           Respond(w, k), NEW b \in Browsers, req[w].browser = b, owner[k] \in {b, None}
    PROVE  /\ Loaded(b)'.data = req[w].data
           /\ \A c \in Browsers \ {b} : Loaded(c)' = Loaded(c) /\ cookie'[c] = cookie[c]
           /\ \A l \in Keys : owner[l] # None => owner'[l] = owner[l]
           /\ \A l \in Keys : l # k => store'[l] = store[l] /\ owner'[l] = owner[l]
           /\ store'[k] = req[w].data /\ owner'[k] = b /\ cookie'[b] = k
  <1>1. req[w].data \in Session
    BY DEF Request
  <1>2. /\ store'[k] = req[w].data /\ owner'[k] = b /\ cookie'[b] = k
        /\ \A l \in Keys : l # k => store'[l] = store[l] /\ owner'[l] = owner[l]
        /\ \A c \in Browsers \ {b} : cookie'[c] = cookie[c]
    BY DEF Respond, TypeOK
  <1>3. req[w].data # NoRow /\ k # None
    BY <1>1, NoneAssumption DEF Session, NoRow
  <1>4. Loaded(b)'.data = req[w].data
    BY <1>2, <1>3 DEF Loaded
  <1>5. ASSUME NEW c \in Browsers \ {b} PROVE Loaded(c)' = Loaded(c)
    <2>1. cookie[c] # k
      BY KeysApart
    <2>2. cookie[c] # None => cookie[c] \in Keys
      BY DEF TypeOK
    <2> QED
      BY <1>2, <2>1, <2>2, LoadedSame
  <1> QED
    BY <1>2, <1>4, <1>5

LEMMA LogoutEffect ==
    ASSUME TypeOK, Owned, NEW b \in Browsers, Logout(b)
    PROVE  /\ Loaded(b)'.data = Empty
           /\ \A c \in Browsers \ {b} : Loaded(c)' = Loaded(c) /\ cookie'[c] = cookie[c]
           /\ cookie'[b] = None
           /\ \A k \in Keys : store'[k] \in {store[k], NoRow}
           /\ req' = req /\ owner' = owner /\ issued' = issued /\ retired' = retired
           /\ due' = [due EXCEPT ![b] = {}]
  <1>1. cookie[b] \in Keys /\ cookie'[b] = None /\ owner[cookie[b]] = b
    BY DEF Logout, TypeOK, Owned
  <1>2. \A k \in Keys : store'[k] = IF k = cookie[b] THEN NoRow ELSE store[k]
    BY <1>1, NoneAssumption DEF Logout, Without, TypeOK
  <1>3. Loaded(b)'.data = Empty
    BY <1>1 DEF Loaded
  <1>4. ASSUME NEW c \in Browsers \ {b} PROVE Loaded(c)' = Loaded(c) /\ cookie'[c] = cookie[c]
    <2>1. cookie[c] # cookie[b]
      BY <1>1, KeysApart
    <2>2. cookie'[c] = cookie[c] /\ (cookie[c] # None => cookie[c] \in Keys)
      BY DEF Logout, TypeOK
    <2> QED
      BY <1>2, <2>1, <2>2, LoadedSame
  <1> QED
    BY <1>1, <1>2, <1>3, <1>4 DEF Logout

-----------------------------------------------------------------------------
(* The requests that begin, and those that end without a response.         *)
LEMMA StartEffect ==
    ASSUME TypeOK, NEW w \in Workers, NEW b \in Browsers, NEW p \in Providers, NEW s \in States,
           StartView(w, b, p, s)
    PROVE  /\ req[w] = Idle /\ req'[w] \in Request /\ \A v \in Workers \ {w} : req'[v] = req[v]
           /\ req'[w].at = "save" /\ req'[w].view = "start" /\ req'[w].browser = b
           /\ req'[w].key = Loaded(b).key /\ req'[w].state = None
           /\ req'[w].data.state = s /\ req'[w].data.provider = p
           /\ store' = store /\ owner' = owner /\ cookie' = cookie /\ retired' = retired
           /\ issued[s] = Unissued /\ issued' = [issued EXCEPT ![s] = [browser |-> b, provider |-> p]]
           /\ due' = [due EXCEPT ![b] = {}]
  <1> DEFINE data == [Loaded(b).data EXCEPT !.state = s, !.provider = p]
  <1>1. data \in Session /\ data.state = s /\ data.provider = p
    BY LoadedFacts DEF Session
  <1>2. Begin(w, b, "save", "start", data, None, None)
    BY DEF StartView
  <1> HIDE DEF data
  <1>3. /\ issued[s] = Unissued /\ issued' = [issued EXCEPT ![s] = [browser |-> b, provider |-> p]]
        /\ due' = [due EXCEPT ![b] = {}]
    BY DEF StartView
  <1> QED
    BY <1>1, <1>2, <1>3, BeginFacts

LEMMA CallbackEffect ==
    ASSUME TypeOK, NEW w \in Workers, NEW b \in Browsers, NEW p \in Providers,
           NEW s \in States \cup {None}, Accept(w, b, s, p) \/ Refuse(w, b, s, p)
    PROVE  /\ req[w] = Idle /\ req'[w] \in Request /\ \A v \in Workers \ {w} : req'[v] = req[v]
           /\ req'[w].view = "callback" /\ req'[w].browser = b
           /\ req'[w].key = Loaded(b).key /\ req'[w].data.state = None
           /\ \/ /\ req'[w].at = "exchange" /\ req'[w].state = s /\ req'[w].provider = p
                 /\ due' = due
                 /\ s # None /\ Loaded(b).data.state = s /\ Loaded(b).data.provider = p
              \/ /\ req'[w].at = "save" /\ req'[w].state = None
                 /\ due' = [due EXCEPT ![b] = {}]
           /\ store' = store /\ owner' = owner /\ cookie' = cookie /\ retired' = retired
           /\ issued' = issued
  <1>1. Popped(Loaded(b).data) \in Session /\ Popped(Loaded(b).data).state = None
    BY LoadedFacts, PoppedFacts
  <1>2. CASE Accept(w, b, s, p)
    BY <1>1, <1>2, BeginFacts DEF Accept, Matches
  <1>3. CASE Refuse(w, b, s, p)
    BY <1>1, <1>3, BeginFacts DEF Refuse
  <1> QED
    BY <1>2, <1>3

LEMMA OtherEffect ==
    ASSUME TypeOK, NEW w \in Workers, NEW b \in Browsers, OtherSignIn(w, b)
    PROVE  /\ req[w] = Idle /\ req'[w] \in Request /\ \A v \in Workers \ {w} : req'[v] = req[v]
           /\ req'[w].at = "sign_in" /\ req'[w].view = "other" /\ req'[w].browser = b
           /\ req'[w].key = Loaded(b).key /\ req'[w].data = Loaded(b).data
           /\ req'[w].state = None
           /\ store' = store /\ owner' = owner /\ cookie' = cookie /\ retired' = retired
           /\ issued' = issued /\ due' = [due EXCEPT ![b] = {}]
  <1> DEFINE data == Loaded(b).data
  <1>1. data \in Session
    BY LoadedFacts
  <1>2. /\ Begin(w, b, "sign_in", "other", data, None, None)
        /\ issued' = issued /\ due' = [due EXCEPT ![b] = {}]
    BY DEF OtherSignIn
  <1> HIDE DEF data
  <1>3. /\ req[w] = Idle /\ req'[w] \in Request /\ \A v \in Workers \ {w} : req'[v] = req[v]
        /\ req'[w].at = "sign_in" /\ req'[w].view = "other" /\ req'[w].browser = b
        /\ req'[w].key = Loaded(b).key /\ req'[w].data = data /\ req'[w].state = None
        /\ store' = store /\ owner' = owner /\ cookie' = cookie /\ retired' = retired
    BY <1>1, <1>2, BeginFacts
  <1> QED
    BY <1>2, <1>3 DEF data

LEMMA EndEffect ==
    ASSUME TypeOK, NEW w \in Workers, ProviderFails(w) \/ Abort(w)
    PROVE  /\ req'[w] = Idle /\ \A v \in Workers \ {w} : req'[v] = req[v]
           /\ store' = store /\ owner' = owner /\ cookie' = cookie /\ retired' = retired
           /\ issued' = issued /\ due' = due
  <1>1. req' = [req EXCEPT ![w] = Idle]
    BY DEF ProviderFails, Abort
  <1>2. req'[w] = Idle /\ \A v \in Workers \ {w} : req'[v] = req[v]
    BY <1>1 DEF TypeOK
  <1> QED
    BY <1>2 DEF ProviderFails, Abort, sessions

LEMMA NotSignedInEffect ==
    ASSUME TypeOK, NEW w \in Workers, NotSignedIn(w)
    PROVE  /\ req[w] \in Request /\ req'[w] = [req[w] EXCEPT !.at = "save"]
           /\ \A v \in Workers \ {w} : req'[v] = req[v]
           /\ store' = store /\ owner' = owner /\ cookie' = cookie /\ retired' = retired
           /\ issued' = issued /\ due' = [due EXCEPT ![req[w].browser] = {}]
           /\ req[w] # Idle /\ req'[w].key = req[w].key /\ req'[w].data = req[w].data
           /\ req'[w].browser = req[w].browser /\ req'[w].state = req[w].state
  <1>1. req[w] \in Request /\ req[w] # Idle
    BY DEF NotSignedIn, TypeOK, Idle
  <1>2. /\ req'[w] = [req[w] EXCEPT !.at = "save"]
        /\ \A v \in Workers \ {w} : req'[v] = req[v]
    BY DEF NotSignedIn, TypeOK
  <1>3. /\ req'[w].key = req[w].key /\ req'[w].data = req[w].data
        /\ req'[w].browser = req[w].browser /\ req'[w].state = req[w].state
    BY <1>1, <1>2 DEF Request
  <1> QED
    BY <1>1, <1>2, <1>3 DEF NotSignedIn, sessions

LEMMA SignedInEffect ==
    ASSUME TypeOK, NEW w \in Workers, req[w] \in Request, NEW key \in Keys \cup {None},
           NEW data \in {req[w].data, Empty}, SignedIn(w, key, data)
    PROVE  /\ \A v \in Workers \ {w} : req'[v] = req[v]
           /\ req'[w] # Idle /\ req'[w].at = "save" /\ req'[w].key = key
           /\ req'[w].browser = req[w].browser /\ req'[w].view = req[w].view
           /\ req'[w].state = req[w].state /\ req'[w].provider = req[w].provider
           /\ \/ /\ req'[w].data.state = req[w].data.state
                 /\ req'[w].data.provider = req[w].data.provider
              \/ req'[w].data.state = None
  <1> DEFINE after == [data EXCEPT !.signed_in = TRUE]
  <1>1. req[w].data \in Session
    BY DEF Request
  <1>2. Empty \in Session /\ Empty.state = None
    BY DEF Session, Empty
  <1>3. after.state = data.state /\ after.provider = data.provider
    BY <1>1, <1>2 DEF Session
  <1>4. \/ after.state = req[w].data.state /\ after.provider = req[w].data.provider
        \/ after.state = None
    BY <1>2, <1>3
  <1>5. /\ req'[w] = [req[w] EXCEPT !.at = "save", !.key = key, !.data = after]
        /\ \A v \in Workers \ {w} : req'[v] = req[v]
    BY DEF SignedIn, TypeOK
  <1> HIDE DEF after
  <1>6. /\ req'[w].at = "save" /\ req'[w].key = key /\ req'[w].data = after
        /\ req'[w].browser = req[w].browser /\ req'[w].view = req[w].view
        /\ req'[w].state = req[w].state /\ req'[w].provider = req[w].provider
    BY <1>5 DEF Request
  <1>7. req'[w] # Idle
    BY <1>6 DEF Idle
  <1> QED
    BY <1>4, <1>5, <1>6, <1>7

-----------------------------------------------------------------------------
(* The conjuncts of the invariant, one by one.                             *)

LEMMA OwnedStep ==
    ASSUME TypeOK, Owned, [Next]_vars
    PROVE  Owned'
  <1>1. ASSUME NEW w \in Workers, NEW b \in Browsers, Loaded(b).key = req'[w].key, req'[w].browser = b,
               \A v \in Workers \ {w} : req'[v] = req[v], owner' = owner, cookie' = cookie
        PROVE  Owned'
    BY <1>1, LoadedFacts DEF Owned
  <1>2. ASSUME NEW w \in Workers, NEW b \in Browsers, NEW p \in Providers, NEW s \in States,
               StartView(w, b, p, s)
        PROVE  Owned'
    BY <1>1, <1>2, StartEffect
  <1>3. ASSUME NEW w \in Workers, NEW b \in Browsers, NEW p \in Providers,
               NEW s \in States \cup {None}, Accept(w, b, s, p) \/ Refuse(w, b, s, p)
        PROVE  Owned'
    BY <1>1, <1>3, CallbackEffect
  <1>4. ASSUME NEW w \in Workers, NEW b \in Browsers, OtherSignIn(w, b) PROVE Owned'
    BY <1>1, <1>4, OtherEffect
  <1>5. ASSUME NEW w \in Workers, ProviderFails(w) \/ Abort(w) PROVE Owned'
    BY <1>5, EndEffect DEF Owned
  <1>6. ASSUME NEW w \in Workers, NotSignedIn(w) PROVE Owned'
    <2>1. /\ req[w] # Idle /\ req'[w].key = req[w].key /\ req'[w].browser = req[w].browser
          /\ \A v \in Workers \ {w} : req'[v] = req[v]
          /\ owner' = owner /\ cookie' = cookie
      BY <1>6, NotSignedInEffect
    <2> QED
      BY <2>1 DEF Owned
  <1>7. ASSUME NEW w \in Workers, SignIn(w) PROVE Owned'
    <2>1. PICK key \in Keys \cup {None}, data \in {req[w].data, Empty} :
            SignedIn(w, key, data) /\ (key # None => owner'[key] = req[w].browser)
      BY <1>7, SignInEffect
    <2>2. /\ \A v \in Workers \ {w} : req'[v] = req[v]
          /\ req'[w].key = key /\ req'[w].browser = req[w].browser
      BY <1>7, <2>1, SignInEffect, SignedInEffect
    <2>3. \A k \in Keys : owner[k] # None => owner'[k] = owner[k]
      BY <1>7, SignInEffect
    <2>4. cookie' = cookie
      BY <1>7 DEF SignIn
    <2>5. ASSUME NEW b \in Browsers, cookie[b] # None PROVE owner'[cookie[b]] = b
      BY <2>3, <2>5, NoneAssumption DEF Owned, TypeOK
    <2>6. ASSUME NEW v \in Workers, v # w, req[v] # Idle, req[v].key # None
          PROVE  owner'[req[v].key] = req[v].browser
      <3>1. req[v].key \in Keys /\ req[v].browser \in Browsers
        BY <2>6 DEF TypeOK, Request
      <3> QED
        BY <2>3, <2>6, <3>1, NoneAssumption DEF Owned
    <2> QED
      BY <2>1, <2>2, <2>4, <2>5, <2>6 DEF Owned
  <1>8. ASSUME NEW w \in Workers, Save(w) PROVE Owned'
    <2>1. req' = [req EXCEPT ![w] = Idle] /\ req[w] \in Request
      BY <1>8, SaveEffect
    <2>2. CASE UNCHANGED sessions
      BY <2>1, <2>2 DEF Owned, sessions, TypeOK
    <2>3. CASE \E k \in Keys : Respond(w, k) /\ owner[k] \in {req[w].browser, None}
      <3>1. PICK b \in Browsers : req[w].browser = b
        BY <2>1 DEF Request
      <3>2. PICK k \in Keys : Respond(w, k) /\ owner[k] \in {b, None}
        BY <2>3, <3>1
      <3>3. /\ \A c \in Browsers \ {b} : cookie'[c] = cookie[c]
            /\ \A l \in Keys : owner[l] # None => owner'[l] = owner[l]
            /\ owner'[k] = b /\ cookie'[b] = k
        BY <2>1, <3>1, <3>2, RespondEffect
      <3>4. ASSUME NEW c \in Browsers, cookie'[c] # None PROVE owner'[cookie'[c]] = c
        BY <3>3, <3>4, NoneAssumption DEF Owned, TypeOK
      <3>5. ASSUME NEW v \in Workers, v # w, req[v] # Idle, req[v].key # None
            PROVE  owner'[req[v].key] = req[v].browser
        <4>1. req[v].key \in Keys /\ req[v].browser \in Browsers
          BY <3>5 DEF TypeOK, Request
        <4> QED
          BY <3>3, <3>5, <4>1, NoneAssumption DEF Owned
      <3> QED
        BY <2>1, <3>4, <3>5 DEF Owned, TypeOK
    <2> QED
      BY <1>8, <2>2, <2>3, SaveEffect
  <1>9. ASSUME NEW b \in Browsers, Logout(b) PROVE Owned'
    BY <1>9, LogoutEffect DEF Owned
  <1>10. CASE UNCHANGED vars
    BY <1>10 DEF vars, Owned
  <1> QED
    BY <1>2, <1>3, <1>4, <1>5, <1>6, <1>7, <1>8, <1>9, <1>10 DEF Next

(* A state that has been issued stays issued to the same start.            *)
LEMMA IssuedStep ==
    ASSUME TypeOK, [Next]_vars, NEW s \in States, issued[s] # Unissued
    PROVE  issued'[s] = issued[s]
  BY DEF Next, vars, TypeOK, StartView, Accept, Refuse, OtherSignIn, ProviderFails,
       NotSignedIn,
         SignIn, Save, Abort, Logout

LEMMA PairedStep ==
    ASSUME TypeOK, [Next]_vars, NEW data \in Session, NEW b \in Browsers, Paired(data, b)
    PROVE  Paired(data, b)'
  <1>1. CASE data.state = None
    BY <1>1 DEF Paired
  <1>2. CASE data.state # None
    <2>1. data.state \in States
      BY <1>2 DEF Session
    <2>2. issued[data.state] # Unissued
      BY <1>2, PairedFacts
    <2> QED
      BY <1>2, <2>1, <2>2, IssuedStep DEF Paired
  <1> QED
    BY <1>1, <1>2

LEMMA LoadedPaired ==
    ASSUME TypeOK, Owned, Slots, NEW b \in Browsers
    PROVE  Paired(Loaded(b).data, b)
  BY LoadedFacts DEF Owned, Slots, Paired, Empty, TypeOK

LEMMA SlotsStep ==
    ASSUME TypeOK, Owned, Slots, [Next]_vars
    PROVE  Slots'
  <1>1. ASSUME NEW k \in Keys, store'[k] = store[k], owner'[k] = owner[k], store'[k] # NoRow
        PROVE  Paired(store[k], owner[k])'
    <2>1. store[k] \in Session /\ owner[k] \in Browsers /\ Paired(store[k], owner[k])
      BY <1>1 DEF TypeOK, Slots
    <2> QED
      BY <1>1, <2>1, PairedStep DEF Paired
  <1>2. ASSUME NEW v \in Workers, req'[v] = req[v], req'[v] # Idle
        PROVE  Paired(req[v].data, req[v].browser)'
    <2>1. req[v].data \in Session /\ req[v].browser \in Browsers /\ Paired(req[v].data, req[v].browser)
      BY <1>2 DEF TypeOK, Slots, Request
    <2> QED
      BY <1>2, <2>1, PairedStep DEF Paired
  <1>3. ASSUME store' = store, owner' = owner, NEW w \in Workers,
               \A v \in Workers \ {w} : req'[v] = req[v],
               req'[w] # Idle => Paired(req[w].data, req[w].browser)'
        PROVE  Slots'
    BY <1>1, <1>2, <1>3 DEF Slots
  <1>4. ASSUME NEW w \in Workers, NEW b \in Browsers, NEW p \in Providers, NEW s \in States,
               StartView(w, b, p, s)
        PROVE  Slots'
    <2>1. issued'[s] = [browser |-> b, provider |-> p]
      BY <1>4, StartEffect DEF TypeOK
    <2>2. Paired(req[w].data, req[w].browser)'
      BY <1>4, <2>1, StartEffect DEF Paired
    <2> QED
      BY <1>3, <1>4, <2>2, StartEffect
  <1>5. ASSUME NEW w \in Workers, NEW b \in Browsers, NEW p \in Providers,
               NEW s \in States \cup {None}, Accept(w, b, s, p) \/ Refuse(w, b, s, p)
        PROVE  Slots'
    <2>1. Paired(req[w].data, req[w].browser)'
      BY <1>5, CallbackEffect DEF Paired
    <2> QED
      BY <1>3, <1>5, <2>1, CallbackEffect
  <1>6. ASSUME NEW w \in Workers, NEW b \in Browsers, OtherSignIn(w, b) PROVE Slots'
    <2>1. Paired(Loaded(b).data, b) /\ Loaded(b).data \in Session
      BY LoadedPaired, LoadedFacts
    <2>2. Paired(req[w].data, req[w].browser)'
      BY <1>6, <2>1, PairedStep, OtherEffect DEF Paired
    <2> QED
      BY <1>3, <1>6, <2>2, OtherEffect
  <1>7. ASSUME NEW w \in Workers, ProviderFails(w) \/ Abort(w) PROVE Slots'
    BY <1>3, <1>7, EndEffect
  <1>8. ASSUME NEW w \in Workers, NotSignedIn(w) PROVE Slots'
    <2>1. /\ req[w] # Idle /\ req[w].data \in Session /\ req[w].browser \in Browsers
          /\ req'[w].data = req[w].data /\ req'[w].browser = req[w].browser
      BY <1>8, NotSignedInEffect DEF Request
    <2>2. Paired(req[w].data, req[w].browser)
      BY <2>1 DEF Slots
    <2>3. Paired(req[w].data, req[w].browser)'
      BY <2>1, <2>2, PairedStep DEF Paired
    <2> QED
      BY <1>3, <1>8, <2>3, NotSignedInEffect
  <1>9. ASSUME NEW w \in Workers, SignIn(w) PROVE Slots'
    <2>1. /\ req[w] \in Request /\ req[w] # Idle
          /\ req[w].data \in Session /\ req[w].browser \in Browsers
      BY <1>9, SignInEffect DEF Request
    <2>2. /\ Paired(req[w].data, req[w].browser)
          /\ req[w].data.state # None =>
               issued'[req[w].data.state] = [browser |-> req[w].browser, provider |-> req[w].data.provider]
      BY <2>1, PairedStep DEF Paired, Slots
    <2>3. PICK key \in Keys \cup {None}, data \in {req[w].data, Empty} : SignedIn(w, key, data)
      BY <1>9, SignInEffect
    <2>4. /\ \A v \in Workers \ {w} : req'[v] = req[v]
          /\ Paired(req[w].data, req[w].browser)'
      BY <2>1, <2>2, <2>3, SignedInEffect DEF Paired
    <2>5. ASSUME NEW k \in Keys, store'[k] # NoRow PROVE Paired(store[k], owner[k])'
      <3>1. CASE store'[k] = store[k] /\ owner'[k] = owner[k]
        BY <1>1, <2>5, <3>1
      <3>2. CASE store'[k] = req[w].data /\ owner'[k] = req[w].browser
        BY <2>2, <3>2 DEF Paired
      <3> QED
        BY <1>9, <2>5, <3>1, <3>2, SignInEffect
    <2> QED
      BY <1>2, <2>4, <2>5 DEF Slots
  <1>10. ASSUME NEW w \in Workers, Save(w) PROVE Slots'
    <2>1. /\ req[w] \in Request /\ req[w] # Idle /\ req' = [req EXCEPT ![w] = Idle]
      BY <1>10, SaveEffect DEF Idle
    <2>2. /\ req'[w] = Idle /\ \A v \in Workers \ {w} : req'[v] = req[v]
      BY <2>1 DEF TypeOK
    <2>3. CASE UNCHANGED sessions
      BY <1>3, <2>2, <2>3 DEF sessions
    <2>4. CASE \E k \in Keys : Respond(w, k) /\ owner[k] \in {req[w].browser, None}
      <3>1. PICK b \in Browsers : req[w].browser = b
        BY <2>1 DEF Request
      <3>2. PICK k \in Keys : Respond(w, k) /\ owner[k] \in {b, None}
        BY <2>4, <3>1
      <3>3. /\ \A l \in Keys : l # k => store'[l] = store[l] /\ owner'[l] = owner[l]
            /\ store'[k] = req[w].data /\ owner'[k] = b
        BY <2>1, <3>1, <3>2, RespondEffect
      <3>4. req[w].data \in Session /\ Paired(req[w].data, b)
        BY <2>1, <3>1 DEF Slots, Request
      <3>5. Paired(store[k], owner[k])'
        BY <3>3, <3>4, PairedStep DEF Paired
      <3> QED
        BY <1>1, <1>2, <2>2, <3>3, <3>5 DEF Slots
    <2> QED
      BY <1>10, <2>3, <2>4, SaveEffect
  <1>11. ASSUME NEW b \in Browsers, Logout(b) PROVE Slots'
    BY <1>1, <1>2, <1>11, LogoutEffect DEF Slots
  <1>12. CASE UNCHANGED vars
    BY <1>1, <1>2, <1>12 DEF vars, Slots
  <1> QED
    BY <1>4, <1>5, <1>6, <1>7, <1>8, <1>9, <1>10, <1>11, <1>12 DEF Next

LEMMA CarriedStep ==
    ASSUME TypeOK, Owned, Slots, Carried, [Next]_vars
    PROVE  Carried'
  <1> DEFINE Fine(r) == /\ r.at = "exchange" => r.state # None
                        /\ r.view = "callback" => r.data.state = None
                        /\ r.state # None =>
                             issued'[r.state] = [browser |-> r.browser, provider |-> r.provider]
  <1>1. ASSUME NEW v \in Workers, req[v] # Idle PROVE Fine(req[v])
    <2>1. req[v].state \in States \cup {None} /\ req[v].browser \in Browsers
      BY <1>1 DEF TypeOK, Request
    <2>2. req[v].state # None => issued[req[v].state] # Unissued
      BY <1>1, CarriedFacts
    <2> QED
      BY <1>1, <2>1, <2>2, IssuedStep DEF Carried
  <1>2. ASSUME NEW w \in Workers, \A v \in Workers \ {w} : req'[v] = req[v],
               req'[w] # Idle => Fine(req'[w])
        PROVE  Carried'
    BY <1>1, <1>2 DEF Carried
  <1>3. ASSUME NEW w \in Workers, NEW b \in Browsers, NEW p \in Providers, NEW s \in States,
               StartView(w, b, p, s)
        PROVE  Carried'
    BY <1>2, <1>3, StartEffect
  <1>4. ASSUME NEW w \in Workers, NEW b \in Browsers, NEW p \in Providers,
               NEW s \in States \cup {None}, Accept(w, b, s, p) \/ Refuse(w, b, s, p)
        PROVE  Carried'
    <2>1. Paired(Loaded(b).data, b)
      BY LoadedPaired
    <2>2. Fine(req'[w])
      BY <1>4, <2>1, CallbackEffect DEF Paired
    <2> QED
      BY <1>2, <1>4, <2>2, CallbackEffect
  <1>5. ASSUME NEW w \in Workers, NEW b \in Browsers, OtherSignIn(w, b) PROVE Carried'
    BY <1>2, <1>5, OtherEffect
  <1>6. ASSUME NEW w \in Workers, ProviderFails(w) \/ Abort(w) PROVE Carried'
    BY <1>2, <1>6, EndEffect
  <1>7. ASSUME NEW w \in Workers, NotSignedIn(w) PROVE Carried'
    <2>1. req[w] # Idle /\ req'[w] = [req[w] EXCEPT !.at = "save"] /\ req[w] \in Request
      BY <1>7, NotSignedInEffect DEF Idle, NotSignedIn
    <2>2. Fine(req[w])
      BY <1>1, <2>1
    <2>3. Fine(req'[w])
      BY <2>1, <2>2 DEF Request
    <2> QED
      BY <1>2, <1>7, <2>3, NotSignedInEffect
  <1>8. ASSUME NEW w \in Workers, SignIn(w) PROVE Carried'
    <2>1. req[w] \in Request /\ req[w] # Idle
      BY <1>8, SignInEffect
    <2>2. PICK key \in Keys \cup {None}, data \in {req[w].data, Empty} : SignedIn(w, key, data)
      BY <1>8, SignInEffect
    <2>3. Fine(req[w])
      BY <1>1, <2>1
    <2>4. Fine(req'[w])
      BY <2>1, <2>2, <2>3, SignedInEffect
    <2> QED
      BY <1>2, <2>1, <2>2, <2>4, SignedInEffect
  <1>9. ASSUME NEW w \in Workers, Save(w) PROVE Carried'
    <2>1. req'[w] = Idle /\ \A v \in Workers \ {w} : req'[v] = req[v]
      BY <1>9, SaveEffect DEF TypeOK
    <2> QED
      BY <1>2, <2>1
  <1>10. ASSUME NEW b \in Browsers, Logout(b) PROVE Carried'
    BY <1>1, <1>10, LogoutEffect DEF Carried
  <1>11. CASE UNCHANGED vars
    BY <1>1, <1>11 DEF vars, Carried
  <1> QED
    BY <1>3, <1>4, <1>5, <1>6, <1>7, <1>8, <1>9, <1>10, <1>11 DEF Next

LEMMA GoneStep ==
    ASSUME TypeOK, Owned, Slots, Carried, Gone, [Next]_vars
    PROVE  Gone'
  <1> DEFINE Free(r, s) == r # Idle => s \notin {r.data.state, r.state}
  <1>1. ASSUME NEW s \in retired
        PROVE  /\ s \in States /\ s # None /\ issued'[s] = issued[s] /\ issued[s] # Unissued
               /\ \A b \in Browsers : Loaded(b).data.state # s
               /\ \A v \in Workers : Free(req[v], s)
    BY IssuedStep, NoneAssumption DEF TypeOK, Gone
  <1>2. ASSUME NEW w \in Workers, \A v \in Workers \ {w} : req'[v] = req[v],
               store' = store, cookie' = cookie, retired' = retired,
               \A s \in retired : Free(req'[w], s)
        PROVE  Gone'
    <2>1. \A b \in Browsers : Loaded(b)' = Loaded(b)
      BY <1>2, LoadedSame
    <2> QED
      BY <1>1, <1>2, <2>1 DEF Gone
  <1>3. ASSUME NEW w \in Workers, NEW b \in Browsers, NEW p \in Providers, NEW s \in States,
               StartView(w, b, p, s)
        PROVE  Gone'
    <2>1. s \notin retired
      BY <1>1, <1>3, StartEffect
    <2>2. \A t \in retired : Free(req'[w], t)
      BY <1>1, <1>3, <2>1, StartEffect
    <2> QED
      BY <1>2, <1>3, <2>2, StartEffect
  <1>4. ASSUME NEW w \in Workers, NEW b \in Browsers, NEW p \in Providers,
               NEW s \in States \cup {None}, Accept(w, b, s, p) \/ Refuse(w, b, s, p)
        PROVE  Gone'
    <2>1. \A t \in retired : Free(req'[w], t)
      BY <1>1, <1>4, CallbackEffect
    <2> QED
      BY <1>2, <1>4, <2>1, CallbackEffect
  <1>5. ASSUME NEW w \in Workers, NEW b \in Browsers, OtherSignIn(w, b) PROVE Gone'
    <2>1. \A t \in retired : Free(req'[w], t)
      BY <1>1, <1>5, OtherEffect
    <2> QED
      BY <1>2, <1>5, <2>1, OtherEffect
  <1>6. ASSUME NEW w \in Workers, ProviderFails(w) \/ Abort(w) PROVE Gone'
    BY <1>2, <1>6, EndEffect
  <1>7. ASSUME NEW w \in Workers, NotSignedIn(w) PROVE Gone'
    <2>1. /\ req[w] # Idle
          /\ req'[w].data = req[w].data /\ req'[w].state = req[w].state
      BY <1>7, NotSignedInEffect DEF Request, Idle, NotSignedIn
    <2>2. \A t \in retired : Free(req'[w], t)
      BY <1>1, <2>1
    <2> QED
      BY <1>2, <1>7, <2>2, NotSignedInEffect
  <1>8. ASSUME NEW w \in Workers, SignIn(w) PROVE Gone'
    <2>1. req[w] \in Request /\ req[w] # Idle /\ retired' = retired
      BY <1>8, SignInEffect
    <2>2. PICK key \in Keys \cup {None}, data \in {req[w].data, Empty} : SignedIn(w, key, data)
      BY <1>8, SignInEffect
    <2>3. /\ \A v \in Workers \ {w} : req'[v] = req[v]
          /\ \A t \in retired : Free(req'[w], t)
      BY <1>1, <2>1, <2>2, SignedInEffect
    <2>4. \A t \in retired : \A b \in Browsers : Loaded(b)'.data.state # t
      BY <1>1, <1>8, SignInEffect
    <2> QED
      BY <1>1, <2>1, <2>3, <2>4 DEF Gone
  <1>9. ASSUME NEW w \in Workers, Save(w) PROVE Gone'
    <2>1. /\ req[w] \in Request /\ req[w] # Idle /\ req' = [req EXCEPT ![w] = Idle] /\ issued' = issued
      BY <1>9, SaveEffect DEF Idle
    <2>2. /\ req'[w] = Idle /\ \A v \in Workers \ {w} : req'[v] = req[v]
      BY <2>1 DEF TypeOK
    <2>3. CASE UNCHANGED <<sessions, due, retired>>
      BY <1>2, <2>2, <2>3 DEF sessions
    <2>4. CASE \E k \in Keys : Respond(w, k) /\ owner[k] \in {req[w].browser, None}
      <3>1. PICK b \in Browsers : req[w].browser = b
        BY <2>1 DEF Request
      <3>2. PICK k \in Keys : Respond(w, k) /\ owner[k] \in {b, None}
        BY <2>4, <3>1
      <3>3. /\ Loaded(b)'.data = req[w].data
            /\ \A c \in Browsers \ {b} : Loaded(c)' = Loaded(c)
        BY <2>1, <3>1, <3>2, RespondEffect
      <3>4. ASSUME NEW s \in retired
            PROVE  /\ issued'[s] # Unissued
                   /\ \A c \in Browsers : Loaded(c)'.data.state # s
                   /\ \A v \in Workers : Free(req'[v], s)
        BY <1>1, <2>1, <2>2, <3>3
      <3>5. ASSUME NEW s \in retired', s \notin retired
            PROVE  /\ issued'[s] # Unissued
                   /\ \A c \in Browsers : Loaded(c)'.data.state # s
                   /\ \A v \in Workers : Free(req'[v], s)
        <4>1. /\ Alone(w) /\ s \in States /\ issued[s].browser = b /\ s # None
              /\ req[w].view = "start" => s # req[w].data.state
              /\ req[w].view # "other"
          BY <3>1, <3>2, <3>5, NoneAssumption DEF Respond
        <4>2. req[w].data.state # s
          BY <2>1, <4>1 DEF Carried, Request
        <4>3. ASSUME NEW c \in Browsers PROVE Loaded(c)'.data.state # s
          <5>1. CASE c = b
            BY <3>3, <4>2, <5>1
          <5>2. CASE c # b
            <6>1. Loaded(c)'.data = Loaded(c).data
              BY <3>3, <5>2
            <6>2. Loaded(c).data.state # None => issued[Loaded(c).data.state].browser = c
              BY LoadedPaired, PairedFacts
            <6> QED
              BY <4>1, <5>2, <6>1, <6>2
          <5> QED
            BY <5>1, <5>2
        <4>4. ASSUME NEW v \in Workers PROVE Free(req'[v], s)
          <5>1. CASE v = w
            BY <2>2, <5>1
          <5>2. CASE v # w /\ req[v] # Idle
            <6>1. req[v].browser # b
              BY <3>1, <4>1, <5>2 DEF Alone, Serves
            <6>2. req[v].browser \in Browsers
              BY <5>2 DEF TypeOK, Request
            <6>3. req[v].data.state # None => issued[req[v].data.state].browser = req[v].browser
              BY <5>2, <6>2, PairedFacts DEF Slots
            <6>4. req[v].state # None => issued[req[v].state].browser = req[v].browser
              BY <5>2, CarriedFacts
            <6> QED
              BY <2>2, <4>1, <5>2, <6>1, <6>3, <6>4
          <5> QED
            BY <2>2, <5>1, <5>2
        <4>5. issued'[s] # Unissued
          BY <2>1, <4>1, NoneAssumption DEF Unissued
        <4> QED
          BY <4>3, <4>4, <4>5
      <3> QED
        BY <3>4, <3>5 DEF Gone
    <2> QED
      BY <1>9, <2>3, <2>4, SaveEffect
  <1>10. ASSUME NEW b \in Browsers, Logout(b) PROVE Gone'
    <2>1. \A t \in retired : \A c \in Browsers : Loaded(c)'.data.state # t
      BY <1>1, <1>10, LogoutEffect DEF Empty
    <2> QED
      BY <1>1, <1>10, <2>1, LogoutEffect DEF Gone
  <1>11. CASE UNCHANGED vars
    <2>1. \A b \in Browsers : Loaded(b)' = Loaded(b)
      BY <1>11, LoadedSame DEF vars
    <2> QED
      BY <1>1, <1>11, <2>1 DEF vars, Gone
  <1> QED
    BY <1>3, <1>4, <1>5, <1>6, <1>7, <1>8, <1>9, <1>10, <1>11 DEF Next

(* Who is due, what its browser runs and what it loads go together.        *)
LEMMA DueStep ==
    ASSUME TypeOK, Owned, Slots, Undisturbed, DueHonoured, [Next]_vars
    PROVE  Undisturbed' /\ DueHonoured'
  <1> DEFINE Calm(b) == /\ \A v \in Workers : Serves(v, b) => At(v, "exchange")
                        /\ \A s \in due[b] : Matches(Loaded(b).data, s, issued[s].provider)
  <1>1. \A b \in Browsers : due[b] = {} \/ Calm(b)
    BY DEF Undisturbed, DueHonoured
  <1>2. ASSUME NEW b \in Browsers, Loaded(b)' = Loaded(b), due'[b] = due[b]
        PROVE  \A s \in due'[b] : Matches(Loaded(b)'.data, s, issued'[s].provider)
    <2> SUFFICES ASSUME NEW s \in due[b] PROVE Matches(Loaded(b).data, s, issued'[s].provider)
      BY <1>2
    <2>1. Matches(Loaded(b).data, s, issued[s].provider) /\ s \in States
      BY DEF DueHonoured, TypeOK
    <2>2. issued[s] # Unissued
      <3>1. Loaded(b).data.state = s /\ s # None
        BY <2>1 DEF Matches
      <3> QED
        BY <3>1, LoadedPaired, PairedFacts
    <2> QED
      BY <2>1, <2>2, IssuedStep
  <1>3. ASSUME \A b \in Browsers : due'[b] = {} \/ /\ due'[b] = due[b] /\ Loaded(b)' = Loaded(b)
                                                    /\ \A v \in Workers : Serves(v, b)' => At(v, "exchange")'
        PROVE  Undisturbed' /\ DueHonoured'
    BY <1>2, <1>3 DEF Undisturbed, DueHonoured
  <1>4. ASSUME NEW w \in Workers, NEW b \in Browsers, NEW p \in Providers, NEW s \in States,
               StartView(w, b, p, s)
        PROVE  Undisturbed' /\ DueHonoured'
    <2>1. \A c \in Browsers : Loaded(c)' = Loaded(c)
      BY <1>4, StartEffect, LoadedSame
    <2>2. due'[b] = {} /\ \A c \in Browsers \ {b} : due'[c] = due[c]
      BY <1>4, StartEffect DEF TypeOK
    <2>3. \A c \in Browsers \ {b}, v \in Workers : Serves(v, c)' => Serves(v, c) /\ req'[v] = req[v]
      BY <1>4, StartEffect DEF Serves
    <2> QED
      BY <1>1, <1>3, <2>1, <2>2, <2>3 DEF At
  <1>5. ASSUME NEW w \in Workers, NEW b \in Browsers, NEW p \in Providers,
               NEW s \in States \cup {None}, Accept(w, b, s, p) \/ Refuse(w, b, s, p)
        PROVE  Undisturbed' /\ DueHonoured'
    <2>1. \A c \in Browsers : Loaded(c)' = Loaded(c)
      BY <1>5, CallbackEffect, LoadedSame
    <2>2. /\ due'[b] = {} \/ (due'[b] = due[b] /\ req'[w].at = "exchange")
          /\ \A c \in Browsers \ {b} : due'[c] = due[c]
      BY <1>5, CallbackEffect DEF TypeOK
    <2>3. \A c \in Browsers, v \in Workers :
            Serves(v, c)' => (v = w /\ c = b) \/ (Serves(v, c) /\ req'[v] = req[v])
      BY <1>5, CallbackEffect DEF Serves
    <2> QED
      BY <1>1, <1>3, <2>1, <2>2, <2>3 DEF At
  <1>6. ASSUME NEW w \in Workers, NEW b \in Browsers, OtherSignIn(w, b)
        PROVE  Undisturbed' /\ DueHonoured'
    <2>1. \A c \in Browsers : Loaded(c)' = Loaded(c)
      BY <1>6, OtherEffect, LoadedSame
    <2>2. due'[b] = {} /\ \A c \in Browsers \ {b} : due'[c] = due[c]
      BY <1>6, OtherEffect DEF TypeOK
    <2>3. \A c \in Browsers \ {b}, v \in Workers : Serves(v, c)' => Serves(v, c) /\ req'[v] = req[v]
      BY <1>6, OtherEffect DEF Serves
    <2> QED
      BY <1>1, <1>3, <2>1, <2>2, <2>3 DEF At
  <1>7. ASSUME NEW w \in Workers, ProviderFails(w) \/ Abort(w) PROVE Undisturbed' /\ DueHonoured'
    <2>1. due' = due /\ \A c \in Browsers : Loaded(c)' = Loaded(c)
      BY <1>7, EndEffect, LoadedSame
    <2>2. \A c \in Browsers, v \in Workers : Serves(v, c)' => Serves(v, c) /\ req'[v] = req[v]
      BY <1>7, EndEffect DEF Serves
    <2> QED
      BY <1>1, <1>3, <2>1, <2>2 DEF At
  <1>8. ASSUME NEW w \in Workers, NotSignedIn(w) PROVE Undisturbed' /\ DueHonoured'
    <2>1. \A c \in Browsers : Loaded(c)' = Loaded(c)
      BY <1>8, NotSignedInEffect, LoadedSame
    <2>2. PICK b \in Browsers : req[w].browser = b
      BY <1>8, NotSignedInEffect DEF Request
    <2>3. due'[b] = {} /\ \A c \in Browsers \ {b} : due'[c] = due[c]
      BY <1>8, <2>2, NotSignedInEffect DEF TypeOK
    <2>4. req'[w].browser = b
      BY <1>8, <2>2, NotSignedInEffect DEF Request
    <2>5. \A c \in Browsers \ {b}, v \in Workers : Serves(v, c)' => Serves(v, c) /\ req'[v] = req[v]
      BY <1>8, <2>4, NotSignedInEffect DEF Serves
    <2> QED
      BY <1>1, <1>3, <2>1, <2>3, <2>5 DEF At
  <1>9. ASSUME NEW w \in Workers, SignIn(w) PROVE Undisturbed' /\ DueHonoured'
    <2>1. req[w] \in Request
      BY <1>9, SignInEffect
    <2>2. PICK b \in Browsers : req[w].browser = b
      BY <2>1 DEF Request
    <2>3. \A c \in Browsers \ {b} : Loaded(c)' = Loaded(c)
      BY <1>9, <2>2, SignInEffect
    <2>4. due'[b] = {} /\ \A c \in Browsers \ {b} : due'[c] = due[c]
      BY <1>9, <2>2 DEF SignIn, TypeOK
    <2>5. PICK key \in Keys \cup {None}, data \in {req[w].data, Empty} : SignedIn(w, key, data)
      BY <1>9, SignInEffect
    <2>6. req'[w].browser = b /\ \A v \in Workers \ {w} : req'[v] = req[v]
      BY <2>1, <2>2, <2>5, SignedInEffect
    <2>7. \A c \in Browsers \ {b}, v \in Workers : Serves(v, c)' => Serves(v, c) /\ req'[v] = req[v]
      BY <2>6 DEF Serves
    <2> QED
      BY <1>1, <1>3, <2>3, <2>4, <2>7 DEF At
  <1>10. ASSUME NEW w \in Workers, Save(w) PROVE Undisturbed' /\ DueHonoured'
    <2>1. /\ req[w] \in Request /\ req[w] # Idle /\ req[w].at = "save" /\ issued' = issued
          /\ req' = [req EXCEPT ![w] = Idle]
      BY <1>10, SaveEffect DEF Idle
    <2>2. /\ req'[w] = Idle /\ \A v \in Workers \ {w} : req'[v] = req[v]
      BY <2>1 DEF TypeOK
    <2>3. PICK b \in Browsers : req[w].browser = b
      BY <2>1 DEF Request
    <2>4. due[b] = {}
      BY <2>1, <2>3 DEF Undisturbed, Serves, At
    <2>5. \A c \in Browsers, v \in Workers : Serves(v, c)' => v # w /\ Serves(v, c) /\ req'[v] = req[v]
      BY <2>2 DEF Serves
    <2>6. CASE UNCHANGED <<sessions, due, retired>>
      <3>1. \A c \in Browsers : Loaded(c)' = Loaded(c)
        BY <2>6, LoadedSame DEF sessions
      <3> QED
        BY <1>1, <1>3, <2>5, <2>6, <3>1 DEF At
    <2>7. CASE \E k \in Keys : Respond(w, k) /\ owner[k] \in {req[w].browser, None}
      <3>1. PICK k \in Keys : Respond(w, k) /\ owner[k] \in {b, None}
        BY <2>3, <2>7
      <3>2. /\ Loaded(b)'.data = req[w].data
            /\ \A c \in Browsers \ {b} : Loaded(c)' = Loaded(c)
        BY <2>1, <2>3, <3>1, RespondEffect
      <3>3. \A c \in Browsers \ {b} : due'[c] = due[c]
        BY <2>3, <3>1 DEF Respond, TypeOK
      <3>4. \/ due'[b] = {}
            \/ /\ Alone(w)
               /\ \A s \in due'[b] : s \in States /\ s = req[w].data.state
        BY <2>3, <2>4, <3>1 DEF Respond, TypeOK
      <3>5. CASE due'[b] = {}
        BY <1>1, <1>3, <2>5, <3>2, <3>3, <3>5 DEF At
      <3>6. CASE Alone(w) /\ \A s \in due'[b] : s \in States /\ s = req[w].data.state
        <4>1. \A v \in Workers : ~Serves(v, b)'
          BY <2>3, <2>5, <3>6 DEF Alone
        <4>2. ASSUME NEW s \in due'[b] PROVE Matches(Loaded(b)'.data, s, issued'[s].provider)
          <5>1. s # None /\ s = req[w].data.state
            BY <3>6, NoneAssumption
          <5>2. issued[s].provider = req[w].data.provider
            <6>1. Paired(req[w].data, b)
              BY <2>1, <2>3 DEF Slots
            <6> QED
              BY <5>1, <6>1, PairedFacts
          <5> QED
            BY <2>1, <3>2, <5>1, <5>2 DEF Matches
        <4>3. ASSUME NEW c \in Browsers \ {b}
              PROVE  \/ due'[c] = {}
                     \/ /\ \A v \in Workers : Serves(v, c)' => At(v, "exchange")'
                        /\ \A s \in due'[c] : Matches(Loaded(c)'.data, s, issued'[s].provider)
          BY <1>1, <1>2, <2>5, <3>2, <3>3 DEF At
        <4> QED
          BY <4>1, <4>2, <4>3 DEF Undisturbed, DueHonoured
      <3> QED
        BY <3>4, <3>5, <3>6
    <2> QED
      BY <1>10, <2>6, <2>7, SaveEffect
  <1>11. ASSUME NEW b \in Browsers, Logout(b) PROVE Undisturbed' /\ DueHonoured'
    <2>1. /\ \A c \in Browsers \ {b} : Loaded(c)' = Loaded(c)
          /\ due'[b] = {} /\ \A c \in Browsers \ {b} : due'[c] = due[c]
          /\ req' = req
      BY <1>11, LogoutEffect DEF TypeOK
    <2> QED
      BY <1>1, <1>3, <2>1 DEF Serves, At
  <1>12. CASE UNCHANGED vars
    <2>1. \A b \in Browsers : Loaded(b)' = Loaded(b)
      BY <1>12, LoadedSame DEF vars
    <2> QED
      BY <1>1, <1>3, <1>12, <2>1 DEF vars, Serves, At
  <1> QED
    BY <1>4, <1>5, <1>6, <1>7, <1>8, <1>9, <1>10, <1>11, <1>12 DEF Next

-----------------------------------------------------------------------------

LEMMA Inductive == Spec => []IInv
  <1>1. Init => IInv
    BY NoneAssumption DEF Init, IInv, TypeOK, Owned, Slots, Carried, Gone, Undisturbed,
         DueHonoured, Serves
  <1>2. IInv /\ [Next]_vars => IInv'
    BY TypeStep, OwnedStep, SlotsStep, CarriedStep, GoneStep, DueStep DEF IInv
  <1> QED
    BY <1>1, <1>2, PTL DEF Spec

(* Rows, cookies and requests keep their types.                            *)
THEOREM TypeCorrect == Spec => []TypeOK
  <1>1. IInv => TypeOK
    BY DEF IInv
  <1> QED
    BY <1>1, Inductive, PTL

(* oauth/views.py, callback: whoever goes on to the provider brought back  *)
(* the state of a start of the same browser, for the same provider.        *)
THEOREM StateIsOwn == Spec => []OwnState
  <1>1. IInv => OwnState
    BY DEF IInv, Carried, OwnState, At, Idle
  <1> QED
    BY <1>1, Inductive, PTL

(* oauth/views.py, the two session.pop: what a response popped or replaced *)
(* while it was alone in its browser is never accepted again.              *)
THEOREM RetiredIsRefused == Spec => []RetiredRefused
  <1>1. IInv => RetiredRefused
    BY DEF IInv, Gone, RetiredRefused, At, Idle
  <1> QED
    BY <1>1, Inductive, PTL

(* oauth/views.py, start and the unsaved 502: a state that was stored      *)
(* undisturbed is accepted, and accepted again after a failure.            *)
THEOREM DueIsHonoured == Spec => []DueHonoured
  <1>1. IInv => DueHonoured
    BY DEF IInv
  <1> QED
    BY <1>1, Inductive, PTL
=============================================================================
