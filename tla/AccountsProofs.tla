--------------------------- MODULE AccountsProofs --------------------------
(***************************************************************************)
(* Theorems about the user's row and its sessions: their type, that a      *)
(* session ends with its password, and who stays signed in.                *)
(***************************************************************************)
EXTENDS Accounts, TLAPS

Viewing == [at : {"identify", "write", "save"}, op : Operations, key : Keys, session : Session]
Rotating ==
    [at : {"rotate"}, op : Operations, key : Keys, session : Session, new : Passwords]
Editing == [at : {"saveProfile"}, row : Row, auth : Passwords]
Saving == [at : {"saveUser"}, row : Row]
Responding == [at : {"respond"}, op : Operations, key : Keys]

Begins(w, k) ==
    \/ Visit(w, k) \/ profile_edit(w, k) \/ password_change(w, k)
    \/ OpenReset(w, k) \/ PostReset(w, k) \/ SignIn(w, k)

Step(w) ==
    \/ \E k \in Keys : Begins(w, k)
    \/ Anonymous(w) \/ Authenticated(w) \/ Flush(w)
    \/ SaveProfile(w) \/ Write(w) \/ SignInAgain(w) \/ Rotate(w) \/ Save(w) \/ Respond(w)
    \/ AdminLoad(w) \/ AdminSave(w)
    \/ VerifyAddress(w) \/ get_or_make(w)
    \/ Abort(w)

LEMMA NextCases == Next <=> \E w \in Workers : Step(w)
BY DEF Next, Step, Begins

LEMMA PasswordFacts ==
    /\ Passwords \subseteq Nat /\ NoPassword \notin Passwords /\ 0 \in Passwords
    /\ \A n \in Passwords : n < MaxPassword => n + 1 \in Passwords
BY AccountsAssumption DEF Passwords, NoPassword

(* What a request can be, by the step it is at.                            *)
LEMMA RequestCases ==
    ASSUME TypeOK, NEW w \in Workers
    PROVE  /\ req[w] \in {Idle} \cup Busy
           /\ At(w, "idle") => req[w] = Idle
           /\ At(w, "identify") \/ At(w, "write") \/ At(w, "save") => req[w] \in Viewing
           /\ At(w, "rotate") => req[w] \in Rotating
           /\ At(w, "saveProfile") => req[w] \in Editing
           /\ At(w, "saveUser") => req[w] \in Saving
           /\ At(w, "respond") => req[w] \in Responding
<1>1. QED
  BY DEF TypeOK, Busy, Idle, At, Viewing, Rotating, Editing, Saving, Responding

(* And the fields of the first two of these.                               *)
LEMMA ViewingFacts ==
    ASSUME NEW r \in Viewing \cup Rotating
    PROVE  /\ r.op \in Operations /\ r.key \in Keys /\ r.session \in Session
           /\ r.session.auth \in Passwords \cup {NoPassword} /\ r.session.stash \in BOOLEAN
           /\ r \in Rotating => r.new \in Passwords
<1>1. r.op \in Operations /\ r.key \in Keys /\ r.session \in Session
  BY DEF Viewing, Rotating
<1>2. r \in Rotating => r.new \in Passwords
  BY DEF Rotating
<1>3. QED
  BY <1>1, <1>2 DEF Session

LEMMA IdleFacts == Idle.at = "idle"
BY DEF Idle

-----------------------------------------------------------------------------
(* Which operation a request can be at a step for.                         *)

Course(r) ==
    /\ r.at = "identify" => r.op \in {"visit", "profile", "change", "open"}
    /\ r.at = "write" => r.op \in {"change", "reset"}
    /\ r.at = "rotate" => r.op \in {"change", "login"}
    /\ r.at = "respond" => r.op \in Operations

(* What a request knows of the password, unless it may be out of date.     *)
Knows(r, password) ==
    /\ r.at = "saveProfile" => r.auth = password
    /\ r.at \in {"saveProfile", "saveUser"} => r.row.password = password
    /\ r.at = "write" /\ r.op = "change" => r.session.auth = password
    /\ r.at = "rotate" => r.new = password
    /\ r.at = "save" /\ r.op \in {"login", "change"} => r.session.auth = password

(* No copy of the row is from the future.                                  *)
Past(r, password) == r.at \in {"saveProfile", "saveUser"} => r.row.password <= password

Current ==
    \A w \in Workers :
        /\ Course(req[w])
        /\ Past(req[w], newest)
        /\ w \notin overlap => Knows(req[w], row.password)

Inv == TypeOK /\ Current

LEMMA InvInit == Init => Inv
<1>1. Init => TypeOK
  BY PasswordFacts DEF Init, TypeOK, Row
<1>2. Init => Current
  BY DEF Init, Current, Idle, Course, Past, Knows
<1>3. QED
  BY <1>1, <1>2 DEF Inv

(* What the first use of request.user finds, in any of the views.          *)
LEMMA AuthenticatedCases ==
    ASSUME Inv, NEW w \in Workers, Authenticated(w)
    PROVE  (\E r : Proceed(w, r)) \/ End(w)
<1>1. req[w].op \in {"profile", "change", "open", "visit"}
  BY DEF Authenticated, Inv, Current, Course, At
<1>2. QED
  BY <1>1 DEF Authenticated

(* A worker's step leaves the other workers' requests alone.               *)
LEMMA Moves ==
    ASSUME Inv, NEW w \in Workers, Step(w)
    PROVE  (\E r : Goto(w, r)) \/ req' = req
<1> DEFINE Goes == (\E r : Goto(w, r)) \/ req' = req
<1>1. \A k \in Keys : Begins(w, k) => Goes
  BY DEF Begins, Visit, profile_edit, password_change, OpenReset, PostReset, SignIn,
       Begin,
         Proceed
<1>2. Anonymous(w) \/ Flush(w) => Goes
  BY DEF Anonymous, Flush, Proceed, End
<1>3. Authenticated(w) => Goes
  BY AuthenticatedCases DEF Proceed, End
<1>4. SaveProfile(w) \/ Write(w) \/ AdminSave(w) \/ get_or_make(w) => Goes
  BY DEF SaveProfile, Write, AdminSave, get_or_make
<1>5. SignInAgain(w) \/ Rotate(w) \/ Save(w) => Goes
  BY DEF SignInAgain, Rotate, CycleKey, Save, Proceed
<1>6. Respond(w) \/ AdminLoad(w) \/ VerifyAddress(w) \/ Abort(w) => Goes
  BY DEF Respond, AdminLoad, VerifyAddress, Abort, Proceed, End
<1>7. QED
  BY <1>1, <1>2, <1>3, <1>4, <1>5, <1>6 DEF Step

LEMMA OtherWorkers ==
    ASSUME Inv, NEW w \in Workers, Step(w)
    PROVE  \A v \in Workers \ {w} : req'[v] = req[v]
BY Moves DEF Goto, Inv, TypeOK

(* The steps that write the row, and that the password they write is the   *)
(* row's, an older one, or the newest of all.                              *)
Writes(w) == SaveProfile(w) \/ AdminSave(w) \/ Write(w) \/ get_or_make(w)

LEMMA RowFacts ==
    ASSUME TypeOK
    PROVE  /\ row.password \in Passwords /\ row.verified \in BOOLEAN
           /\ newest \in Passwords /\ newest \in Nat /\ row.password \in Nat
           /\ row.password <= newest
           /\ \A p \in Passwords : [row EXCEPT !.password = p] \in Row
           /\ \A p \in Passwords : [row EXCEPT !.password = p].password = p
           /\ [row EXCEPT !.verified = TRUE] \in Row
           /\ [row EXCEPT !.verified = TRUE].password = row.password
<1>1. row \in Row /\ newest \in Passwords /\ row.password <= newest
  BY DEF TypeOK
<1>2. QED
  BY <1>1, PasswordFacts DEF Row

LEMMA WritesFacts ==
    ASSUME Inv, NEW w \in Workers, Writes(w)
    PROVE  /\ row' \in Row /\ newest' \in Passwords /\ newest <= newest'
           /\ row'.password <= newest'
           /\ overlap' \subseteq Workers
           /\ \A v \in Workers \ {w} :
                v \notin overlap' =>
                  \/ At(v, "idle")
                  \/ v \notin overlap /\ row'.password = row.password
           /\ UNCHANGED <<sess, drawn>>
<1>1. TypeOK /\ overlap \subseteq Workers
  BY DEF Inv, TypeOK
<1>2. ASSUME NEW r \in Row, WriteRow(w, r)
      PROVE  /\ row' = r /\ overlap' \subseteq Workers
             /\ \A v \in Workers \ {w} :
                  v \notin overlap' =>
                    \/ At(v, "idle")
                    \/ v \notin overlap /\ row'.password = row.password
  BY <1>1, <1>2 DEF WriteRow
<1>3. CASE SaveProfile(w) \/ AdminSave(w)
  <2>1. req[w].row \in Row /\ req[w].row.password <= newest
    BY <1>1, <1>3, RequestCases
       DEF SaveProfile, AdminSave, Editing, Saving, Inv, Current, Past, At
  <2>2. WriteRow(w, req[w].row) /\ UNCHANGED <<sess, drawn, newest>>
    BY <1>3 DEF SaveProfile, AdminSave
  <2>3. QED
    BY <1>1, <1>2, <2>1, <2>2, RowFacts
<1>4. CASE Write(w) \/ get_or_make(w)
  <2>1. /\ newest < MaxPassword /\ newest' = newest + 1 /\ UNCHANGED <<sess, drawn>>
        /\ WriteRow(w, [row EXCEPT !.password = newest + 1])
    BY <1>4 DEF Write, get_or_make
  <2>2. newest + 1 \in Passwords /\ newest <= newest + 1
    BY <1>1, <2>1, RowFacts, PasswordFacts
  <2>3. /\ [row EXCEPT !.password = newest + 1] \in Row
        /\ [row EXCEPT !.password = newest + 1].password = newest + 1
    BY <1>1, <2>2, RowFacts
  <2>4. newest' <= newest'
    BY <2>1, <2>2, PasswordFacts
  <2>5. QED
    BY <1>2, <2>1, <2>2, <2>3, <2>4
<1>5. QED
  BY <1>3, <1>4 DEF Writes

(* The other steps leave the password and all marks but their own alone.   *)
LEMMA ReadsFacts ==
    ASSUME Inv, NEW w \in Workers, Step(w), ~Writes(w)
    PROVE  /\ row' \in Row /\ newest' = newest /\ row'.password = row.password
           /\ overlap' \subseteq overlap /\ overlap \subseteq overlap' \cup {w}
<1>1. CASE VerifyAddress(w)
  BY <1>1, RowFacts DEF VerifyAddress, Inv
<1>2. CASE ~VerifyAddress(w)
  <2> DEFINE Marks == overlap' = overlap \/ overlap' = overlap \ {w}
  <2>1. (\E r : Proceed(w, r)) \/ End(w) => Marks
    BY DEF Proceed, End
  <2>2. UNCHANGED <<row, newest>>
    BY <1>2 DEF Step, Writes, Begins, Visit, profile_edit, password_change, OpenReset,
         PostReset, SignIn, Begin, Anonymous, Authenticated, Flush, SignInAgain,
         Rotate, CycleKey, Save, Respond, AdminLoad, Abort
  <2>3. (\E r : Proceed(w, r)) \/ End(w)
    <3>1. \A k \in Keys : Begins(w, k) => \E r : Proceed(w, r)
      BY DEF Begins, Visit, profile_edit, password_change, OpenReset, PostReset,
           SignIn, Begin
    <3>2. Anonymous(w) \/ Flush(w) => (\E r : Proceed(w, r)) \/ End(w)
      BY DEF Anonymous, Flush
    <3>3. SignInAgain(w) \/ Rotate(w) \/ Save(w) \/ AdminLoad(w) => \E r : Proceed(w, r)
      BY DEF SignInAgain, Rotate, CycleKey, Save, AdminLoad
    <3>4. Respond(w) \/ Abort(w) => End(w)
      BY DEF Respond, Abort
    <3>5. QED
      BY <1>2, <3>1, <3>2, <3>3, <3>4, AuthenticatedCases DEF Step, Writes
  <2>4. QED
    BY <2>1, <2>2, <2>3 DEF Inv, TypeOK
<1>3. QED
  BY <1>1, <1>2

-----------------------------------------------------------------------------
(* What a worker's own request is after its step.                          *)

Fits(w, r) ==
    /\ r \in {Idle} \cup Busy
    /\ Course(r) /\ Past(r, newest')
    /\ w \notin overlap' => Knows(r, row'.password)

LEMMA IdleFits == \A w : Fits(w, Idle)
BY DEF Fits, Idle, Course, Past, Knows

LEMMA KnownSession ==
    ASSUME TypeOK, NEW k \in Keys
    PROVE  /\ Loaded(k) \in Session /\ Loaded(k).auth \in Passwords \cup {NoPassword}
           /\ (IF Known(k) THEN k ELSE NoKey) \in Keys
           /\ [Loaded(k) EXCEPT !.stash = TRUE] \in Session
<1>1. Known(k) => k \in Sessions /\ sess[k] \in Session
  BY DEF Known, Keys, TypeOK
<1>2. Loaded(k) \in Session
  BY <1>1 DEF Loaded, Empty, Session
<1>3. (IF Known(k) THEN k ELSE NoKey) \in Keys
  BY DEF Keys
<1>4. QED
  BY <1>2, <1>3 DEF Session

LEMMA BeginFits ==
    ASSUME Inv, NEW w \in Workers, NEW k \in Keys, Begins(w, k)
    PROVE  Fits(w, req'[w]) /\ UNCHANGED <<sess, drawn>>
<1>1. TypeOK
  BY DEF Inv
<1>2. CASE SignIn(w, k)
  <2> DEFINE r == [at |-> "rotate", op |-> "login", key |-> IF Known(k) THEN k ELSE NoKey,
                   session |-> Loaded(k), new |-> row.password]
  <2>1. req' = [req EXCEPT ![w] = r] /\ UNCHANGED <<row, sess, drawn, newest>>
    BY <1>2 DEF SignIn, Proceed, Goto
  <2>2. r \in Busy
    BY <1>1, KnownSession, RowFacts DEF Busy, Operations
  <2>3. Fits(w, r)
    BY <2>1, <2>2 DEF Fits, Course, Past, Knows
  <2> HIDE DEF r
  <2>4. QED
    BY <1>1, <2>1, <2>3 DEF TypeOK
<1>3. CASE ~SignIn(w, k)
  <2>1. PICK op \in Operations, step \in {"identify", "write"} :
          /\ Begin(w, k, op, step)
          /\ step = "identify" => op \in {"visit", "profile", "change", "open"}
          /\ step = "write" => op = "reset"
    BY <1>3 DEF Begins, Visit, profile_edit, password_change, OpenReset, PostReset,
         Operations
  <2> DEFINE r == [at |-> step, op |-> op, key |-> IF Known(k) THEN k ELSE NoKey,
                   session |-> Loaded(k)]
  <2>2. req' = [req EXCEPT ![w] = r] /\ UNCHANGED <<row, sess, drawn, newest>>
    BY <2>1 DEF Begin, Proceed, Goto
  <2>3. r \in Busy
    BY <1>1, KnownSession DEF Busy
  <2>4. Fits(w, r)
    BY <2>1, <2>3 DEF Fits, Course, Past, Knows
  <2> HIDE DEF r
  <2>5. QED
    BY <1>1, <2>2, <2>4 DEF TypeOK
<1>4. QED
  BY <1>2, <1>3

(* The session of a copy with another stash or hash.                       *)
LEMMA SessionFacts ==
    ASSUME NEW s \in Session
    PROVE  /\ \A b \in BOOLEAN : [s EXCEPT !.stash = b] \in Session
           /\ \A p \in Passwords : [s EXCEPT !.auth = p] \in Session
           /\ \A p \in Passwords : [s EXCEPT !.auth = p].auth = p
<1>1. QED
  BY DEF Session

(* A request that only moves on to the save, with the id in its session.   *)
LEMMA StashFits ==
    ASSUME TypeOK, NEW w \in Workers, NEW b \in BOOLEAN, req[w] \in Viewing,
           req[w].op \in {"open", "reset"}
    PROVE  Fits(w, [req[w] EXCEPT !.at = "save", !.session.stash = b])
<1> DEFINE r == [req[w] EXCEPT !.at = "save", !.session.stash = b]
<1>1. req[w].session \in Session
  BY ViewingFacts
<1>2. r \in Viewing /\ r.at = "save" /\ r.op = req[w].op
  BY <1>1 DEF Viewing, Session
<1>3. r \in Busy
  BY <1>2 DEF Viewing, Busy
<1> HIDE DEF r
<1>4. Fits(w, r)
  BY <1>2, <1>3 DEF Fits, Course, Past, Knows
<1>5. QED
  BY <1>4 DEF r

LEMMA IdentifyFits ==
    ASSUME Inv, NEW w \in Workers, Anonymous(w) \/ Authenticated(w) \/ Flush(w)
    PROVE  Fits(w, req'[w])
<1>1. TypeOK /\ At(w, "identify") /\ req[w] \in Viewing
  BY RequestCases DEF Inv, Anonymous, Authenticated, Flush
<1>2. req[w].op \in {"visit", "profile", "change", "open"} /\ req[w].at = "identify"
  BY <1>1 DEF Inv, Current, Course, At
<1>3. ASSUME NEW r, Goto(w, r) PROVE req'[w] = r
  BY <1>1, <1>3 DEF Goto, TypeOK
<1>4. CASE End(w)
  BY <1>3, <1>4, IdleFits DEF End
<1>5. CASE Anonymous(w) /\ ~End(w)
  <2>1. req[w].op = "open" /\ Goto(w, [req[w] EXCEPT !.at = "save", !.session.stash = TRUE])
    BY <1>5 DEF Anonymous, Proceed
  <2>2. QED
    BY <1>1, <1>3, <2>1, StashFits
<1>6. CASE Flush(w) /\ ~End(w)
  <2>1. Goto(w, [at |-> "respond", op |-> "open", key |-> NoKey])
    BY <1>6 DEF Flush, Proceed
  <2>2. [at |-> "respond", op |-> "open", key |-> NoKey] \in Busy
    BY DEF Busy, Operations, Keys
  <2>3. Fits(w, [at |-> "respond", op |-> "open", key |-> NoKey])
    BY <2>2 DEF Fits, Course, Past, Knows, Operations
  <2>4. QED
    BY <1>3, <2>1, <2>3
<1>7. CASE Authenticated(w) /\ ~End(w)
  <2>1. req[w].session.auth = row.password /\ UNCHANGED <<row, newest>>
    BY <1>7 DEF Authenticated, SignedIn
  <2>2. CASE req[w].op = "profile"
    <3> DEFINE r == [at |-> "saveProfile", row |-> row, auth |-> req[w].session.auth]
    <3>1. Goto(w, r)
      BY <1>7, <2>2 DEF Authenticated, Proceed
    <3>2. r \in Busy
      BY <1>1, <2>1, RowFacts DEF Busy, TypeOK
    <3>3. Fits(w, r)
      BY <1>1, <2>1, <3>2, RowFacts DEF Fits, Course, Past, Knows
    <3> HIDE DEF r
    <3>4. QED
      BY <1>3, <3>1, <3>3
  <2>3. CASE req[w].op = "change"
    <3> DEFINE r == [req[w] EXCEPT !.at = "write"]
    <3>1. Goto(w, r)
      BY <1>7, <2>3 DEF Authenticated, Proceed
    <3>2. r \in Viewing /\ r.at = "write" /\ r.op = "change" /\ r.session = req[w].session
      BY <1>1, <2>3 DEF Viewing
    <3> HIDE DEF r
    <3>3. Fits(w, r)
      BY <2>1, <3>2 DEF Fits, Course, Past, Knows, Viewing, Busy
    <3>4. QED
      BY <1>3, <3>1, <3>3
  <2>4. CASE req[w].op = "open"
    <3>1. Goto(w, [req[w] EXCEPT !.at = "save", !.session.stash = TRUE])
      BY <1>7, <2>4 DEF Authenticated, Proceed
    <3>2. QED
      BY <1>1, <1>3, <2>4, <3>1, StashFits
  <2>5. CASE req[w].op = "visit"
    BY <1>7, <2>5 DEF Authenticated
  <2>6. QED
    BY <1>2, <2>2, <2>3, <2>4, <2>5
<1>8. QED
  BY <1>4, <1>5, <1>6, <1>7

LEMMA WriteFits ==
    ASSUME Inv, NEW w \in Workers, Writes(w)
    PROVE  Fits(w, req'[w])
<1>1. TypeOK
  BY DEF Inv
<1>2. CASE SaveProfile(w) \/ AdminSave(w)
  <2>1. req'[w] = Idle
    BY <1>1, <1>2 DEF SaveProfile, AdminSave, Goto, TypeOK
  <2>2. QED
    BY <2>1, IdleFits
<1>3. CASE get_or_make(w)
  <2>1. req'[w] = Idle
    BY <1>1, <1>3, RequestCases DEF get_or_make
  <2>2. QED
    BY <2>1, IdleFits
<1>4. CASE Write(w)
  <2>1. req[w] \in Viewing /\ req[w].op \in {"change", "reset"}
    BY <1>1, <1>4, RequestCases DEF Write, Inv, Current, Course, At
  <2>2. newest + 1 \in Passwords /\ newest' = newest + 1
    BY <1>1, <1>4, RowFacts, PasswordFacts DEF Write
  <2>3. row'.password = newest + 1
    <3>1. row' = [row EXCEPT !.password = newest + 1]
      BY <1>4 DEF Write, WriteRow
    <3>2. QED
      BY <1>1, <2>2, <3>1, RowFacts
  <2>4. CASE req[w].op = "change"
    <3> DEFINE r == [at |-> "rotate", op |-> "change", key |-> req[w].key,
                     session |-> req[w].session, new |-> newest + 1]
    <3>1. Goto(w, r)
      BY <1>4, <2>4 DEF Write
    <3>2. r \in Busy
      BY <2>1, <2>2, ViewingFacts DEF Busy, Operations
    <3>3. Fits(w, r)
      BY <2>3, <3>2 DEF Fits, Course, Past, Knows
    <3> HIDE DEF r
    <3>4. QED
      BY <1>1, <3>1, <3>3 DEF Goto, TypeOK
  <2>5. CASE req[w].op = "reset"
    <3>1. req' = [req EXCEPT ![w] = [req[w] EXCEPT !.at = "save", !.session.stash = FALSE]]
      BY <1>4, <2>5 DEF Write, Goto
    <3>2. Fits(w, [req[w] EXCEPT !.at = "save", !.session.stash = FALSE])
      BY <1>1, <2>1, <2>5, StashFits
    <3>3. QED
      BY <1>1, <3>1, <3>2 DEF TypeOK
  <2>6. QED
    BY <2>1, <2>4, <2>5
<1>5. QED
  BY <1>2, <1>3, <1>4 DEF Writes

LEMMA RotateFits ==
    ASSUME Inv, NEW w \in Workers, Rotate(w)
    PROVE  /\ Fits(w, req'[w])
           /\ sess' \in [Sessions -> Session \cup {NoSession}]
           /\ drawn \subseteq drawn' /\ drawn' \subseteq Sessions
           /\ \A k \in Sessions : sess'[k] # NoSession => k \in drawn'
<1>1. TypeOK /\ At(w, "rotate") /\ req[w] \in Rotating
  BY RequestCases DEF Inv, Rotate, CycleKey
<1>2. PICK k \in Sessions \ drawn : CycleKey(w, k, req[w].new) /\ drawn' = drawn \cup {k}
  BY DEF Rotate
<1>3. /\ req[w].session \in Session /\ req[w].new \in Passwords /\ req[w].key \in Keys
      /\ req[w].op \in {"change", "login"}
  BY <1>1, ViewingFacts DEF Inv, Current, Course, At
<1>4. Fits(w, req'[w])
  <2> DEFINE s == [req[w].session EXCEPT !.auth = req[w].new]
             r == [at |-> "save", op |-> req[w].op, key |-> k, session |-> s]
  <2>1. Proceed(w, r) /\ UNCHANGED <<row, newest>>
    BY <1>2 DEF CycleKey
  <2>2. s \in Session /\ s.auth = req[w].new
    BY <1>3, SessionFacts
  <2> HIDE DEF s
  <2>3. r \in Busy
    BY <1>3, <2>2 DEF Busy, Operations, Keys
  <2>4. overlap' = overlap
    BY <2>1 DEF Proceed
  <2>5. w \notin overlap => req[w].new = row.password
    BY <1>1 DEF Inv, Current, Knows, At
  <2>6. Fits(w, r)
    BY <2>1, <2>2, <2>3, <2>4, <2>5 DEF Fits, Course, Past, Knows
  <2> HIDE DEF r
  <2>7. QED
    BY <1>1, <2>1, <2>6 DEF Proceed, Goto, TypeOK
<1>5. sess' = [j \in Sessions |-> CASE j = k -> req[w].session
                                    [] j # k /\ j = req[w].key -> NoSession
                                    [] OTHER -> sess[j]]
  BY <1>2 DEF CycleKey
<1>6. \A j \in Sessions : sess'[j] = IF j = k THEN req[w].session
                                     ELSE IF j = req[w].key THEN NoSession ELSE sess[j]
  BY <1>5
<1>7. sess' \in [Sessions -> Session \cup {NoSession}]
  <2>1. DOMAIN sess' = Sessions /\ sess' = [j \in Sessions |-> sess'[j]]
    BY <1>5
  <2>2. \A j \in Sessions : sess'[j] \in Session \cup {NoSession}
    BY <1>1, <1>3, <1>6 DEF TypeOK
  <2>3. QED
    BY <2>1, <2>2
<1>8. QED
  BY <1>1, <1>2, <1>4, <1>6, <1>7 DEF TypeOK

(* A sign-in over a session that is signed in saves one with the hash of   *)
(* the row it signs in, whether it keeps the session or begins another.    *)
LEMMA AgainFits ==
    ASSUME Inv, NEW w \in Workers, SignInAgain(w)
    PROVE  /\ Fits(w, req'[w])
           /\ sess' \in [Sessions -> Session \cup {NoSession}]
           /\ drawn \subseteq drawn' /\ drawn' \subseteq Sessions
           /\ \A k \in Sessions : sess'[k] # NoSession => k \in drawn'
<1> DEFINE same == req[w].session.auth = req[w].new
           s == IF same THEN req[w].session ELSE [auth |-> req[w].new, stash |-> FALSE]
           r == [at |-> "save", op |-> req[w].op,
                 key |-> IF same THEN req[w].key ELSE NoKey, session |-> s]
<1>1. TypeOK /\ At(w, "rotate") /\ req[w] \in Rotating /\ req[w].op = "login"
  BY RequestCases DEF Inv, SignInAgain
<1>2. req[w].session \in Session /\ req[w].new \in Passwords /\ req[w].key \in Keys
  BY <1>1, ViewingFacts
<1>3. Proceed(w, r) /\ UNCHANGED <<row, drawn, newest>>
  BY DEF SignInAgain
<1>4. sess' = IF same THEN sess ELSE [sess EXCEPT ![req[w].key] = NoSession]
  BY DEF SignInAgain
<1>5. s \in Session /\ s.auth = req[w].new
  BY <1>2 DEF Session
<1> HIDE DEF s
<1>6. r \in Busy
  BY <1>1, <1>2, <1>5 DEF Busy, Operations, Keys
<1>7. w \notin overlap => req[w].new = row.password
  BY <1>1 DEF Inv, Current, Knows, At
<1>8. Fits(w, r)
  BY <1>3, <1>5, <1>6, <1>7 DEF Proceed, Fits, Course, Past, Knows
<1> HIDE DEF r
<1>9. req'[w] = r
  BY <1>1, <1>3 DEF Proceed, Goto, TypeOK
<1>10. QED
  BY <1>1, <1>3, <1>4, <1>8, <1>9 DEF TypeOK

(* The response writes the copy, whose hash is the password's after a      *)
(* sign-in or a change.                                                    *)
LEMMA SaveFits ==
    ASSUME Inv, NEW w \in Workers, Save(w)
    PROVE  /\ Fits(w, req'[w]) /\ UNCHANGED <<row, newest>>
           /\ req'[w].key \in Sessions /\ sess'[req'[w].key] = req[w].session
           /\ req'[w].op = req[w].op
           /\ sess' \in [Sessions -> Session \cup {NoSession}]
           /\ drawn \subseteq drawn' /\ drawn' \subseteq Sessions
           /\ \A k \in Sessions : sess'[k] # NoSession => k \in drawn'
<1>1. TypeOK /\ req[w] \in Viewing
  BY RequestCases DEF Inv, Save
<1>2. PICK k \in Sessions :
        /\ drawn' = drawn \cup {k}
        /\ sess' = [sess EXCEPT ![k] = req[w].session]
        /\ Proceed(w, [at |-> "respond", op |-> req[w].op, key |-> k])
  BY DEF Save
<1>3. req[w].session \in Session /\ req[w].op \in Operations
  BY <1>1, ViewingFacts
<1> DEFINE r == [at |-> "respond", op |-> req[w].op, key |-> k]
<1>4. r \in Busy
  BY <1>3 DEF Busy, Keys
<1>5. Fits(w, r)
  BY <1>3, <1>4 DEF Fits, Course, Past, Knows
<1>6. r.key = k /\ r.op = req[w].op
  OBVIOUS
<1> HIDE DEF r
<1>7. req'[w] = r
  BY <1>1, <1>2 DEF Proceed, Goto, TypeOK, r
<1>8. QED
  BY <1>1, <1>2, <1>3, <1>5, <1>6, <1>7 DEF Save, TypeOK

LEMMA OwnFits ==
    ASSUME Inv, NEW w \in Workers, Step(w)
    PROVE  Fits(w, req'[w])
<1>1. TypeOK
  BY DEF Inv
<1>2. CASE \E k \in Keys : Begins(w, k)
  BY <1>2, BeginFits
<1>3. CASE Anonymous(w) \/ Authenticated(w) \/ Flush(w)
  BY <1>3, IdentifyFits
<1>4. CASE Writes(w)
  BY <1>4, WriteFits
<1>5. CASE SignInAgain(w) \/ Rotate(w) \/ Save(w)
  BY <1>5, AgainFits, RotateFits, SaveFits
<1>6. CASE Respond(w) \/ Abort(w)
  <2>1. req'[w] = Idle
    BY <1>1, <1>6 DEF Respond, Abort, End, Goto, TypeOK
  <2>2. QED
    BY <2>1, IdleFits
<1>7. CASE VerifyAddress(w)
  <2>1. req'[w] = Idle
    BY <1>1, <1>7, RequestCases DEF VerifyAddress
  <2>2. QED
    BY <2>1, IdleFits
<1>8. CASE AdminLoad(w)
  <2>1. PICK v \in BOOLEAN :
          Proceed(w, [at |-> "saveUser", row |-> [password |-> row.password, verified |-> v]])
    BY <1>8 DEF AdminLoad
  <2> DEFINE c == [password |-> row.password, verified |-> v]
             r == [at |-> "saveUser", row |-> c]
  <2>2. /\ c \in Row /\ c.password <= newest /\ newest' = newest
        /\ c.password = row'.password
    BY <1>1, <1>8, RowFacts DEF AdminLoad, Row
  <2>3. req' = [req EXCEPT ![w] = r]
    BY <2>1 DEF Proceed, Goto
  <2> HIDE DEF c
  <2>4. r \in Busy
    BY <2>2 DEF Busy
  <2>5. Fits(w, r)
    BY <2>2, <2>4 DEF Fits, Course, Past, Knows
  <2> HIDE DEF r
  <2>6. QED
    BY <1>1, <2>3, <2>5 DEF TypeOK
<1>9. QED
  BY <1>2, <1>3, <1>4, <1>5, <1>6, <1>7, <1>8 DEF Step, Writes

(* Who responds after a sign-in or a change of password has just saved the *)
(* session.                                                                *)
LEMMA RespondsFacts ==
    ASSUME Inv, NEW w \in Workers, Step(w), Responds(w, {"login", "change"})
    PROVE  Save(w)
<1>1. TypeOK /\ ~At(w, "respond") /\ req'[w].at = "respond" /\ req'[w].op \in {"login", "change"}
  BY DEF Inv, Responds
<1>2. ASSUME NEW r, Goto(w, r), r.at # "respond" \/ r.op = "open" PROVE FALSE
  BY <1>1, <1>2 DEF Goto, TypeOK
<1>3. ~End(w) /\ req' # req
  BY <1>1, <1>2, IdleFacts DEF End, At
<1>4. ~\E k \in Keys : Begins(w, k)
  <2>1. ASSUME NEW k \in Keys, NEW op, NEW step \in {"identify", "write"}, Begin(w, k, op, step)
        PROVE  FALSE
    BY <1>2, <2>1 DEF Begin, Proceed
  <2>2. \A k \in Keys : ~SignIn(w, k)
    BY <1>2 DEF SignIn, Proceed
  <2>3. QED
    BY <2>1, <2>2 DEF Begins, Visit, profile_edit, password_change, OpenReset, PostReset
<1>5. ~Anonymous(w) /\ ~Authenticated(w)
  <2>1. CASE At(w, "identify")
    <3>1. req[w] \in Viewing /\ req[w].op \in {"visit", "profile", "change", "open"}
      BY <1>1, <2>1, RequestCases DEF Inv, Current, Course, At
    <3>2. /\ [req[w] EXCEPT !.at = "save", !.session.stash = TRUE].at = "save"
          /\ [req[w] EXCEPT !.at = "write"].at = "write"
      BY <3>1 DEF Viewing
    <3>3. QED
      BY <1>2, <1>3, <3>1, <3>2 DEF Anonymous, Authenticated, Proceed
  <2>2. QED
    BY <2>1 DEF Anonymous, Authenticated
<1>6. ~Flush(w)
  BY <1>2, <1>3 DEF Flush, Proceed
<1>7. ~SaveProfile(w) /\ ~AdminSave(w) /\ ~get_or_make(w) /\ ~VerifyAddress(w)
  BY <1>2, <1>3, IdleFacts DEF SaveProfile, AdminSave, get_or_make, VerifyAddress
<1>8. ~Write(w)
  <2>1. At(w, "write") => [req[w] EXCEPT !.at = "save", !.session.stash = FALSE].at = "save"
    BY <1>1, RequestCases DEF Viewing
  <2>2. QED
    BY <1>2, <2>1 DEF Write
<1>9. ~SignInAgain(w) /\ ~Rotate(w) /\ ~AdminLoad(w)
  BY <1>2 DEF SignInAgain, Rotate, CycleKey, AdminLoad, Proceed
<1>10. ~Respond(w) /\ ~Abort(w)
  BY <1>3 DEF Respond, Abort
<1>11. QED
  BY <1>4, <1>5, <1>6, <1>7, <1>8, <1>9, <1>10 DEF Step

-----------------------------------------------------------------------------
(* The stored sessions.                                                    *)

LEMMA SessionsStep ==
    ASSUME Inv, NEW w \in Workers, Step(w)
    PROVE  /\ sess' \in [Sessions -> Session \cup {NoSession}]
           /\ drawn \subseteq drawn' /\ drawn' \subseteq Sessions
           /\ \A k \in Sessions : sess'[k] # NoSession => k \in drawn'
<1>1. TypeOK
  BY DEF Inv
<1>2. CASE UNCHANGED <<sess, drawn>>
  BY <1>1, <1>2 DEF TypeOK
<1>3. CASE Flush(w)
  BY <1>1, <1>3 DEF Flush, TypeOK
<1>4. QED
  BY <1>2, <1>3, BeginFits, WritesFacts, AgainFits, RotateFits, SaveFits
     DEF Step, Writes, Anonymous, Authenticated, Respond, AdminLoad, VerifyAddress,
         Abort

LEMMA InvNext == ASSUME Inv, [Next]_vars PROVE Inv'
<1>1. ASSUME NEW w \in Workers, Step(w) PROVE Inv'
  <2>1. /\ row' \in Row /\ newest' \in Passwords /\ newest <= newest'
        /\ row'.password <= newest' /\ overlap' \subseteq Workers
        /\ \A v \in Workers \ {w} :
             v \notin overlap' => \/ At(v, "idle")
                                  \/ v \notin overlap /\ row'.password = row.password
    BY <1>1, WritesFacts, ReadsFacts, RowFacts, PasswordFacts DEF Inv, TypeOK
  <2>2. \A v \in Workers \ {w} : req'[v] = req[v]
    BY <1>1, OtherWorkers
  <2>3. Fits(w, req'[w])
    BY <1>1, OwnFits
  <2>4. \A v \in Workers : req'[v] \in {Idle} \cup Busy
    BY <2>2, <2>3 DEF Fits, Inv, TypeOK
  <2>5. req' \in [Workers -> {Idle} \cup Busy]
    <3>1. \E f : req' = [req EXCEPT ![w] = f]
      <4>1. (\E r : Goto(w, r)) \/ req' = req
        BY <1>1, Moves
      <4>2. req' = req => req' = [req EXCEPT ![w] = req[w]]
        BY DEF Inv, TypeOK
      <4>3. QED
        BY <4>1, <4>2 DEF Goto
    <3>2. QED
      BY <2>4, <3>1 DEF Inv, TypeOK
  <2>6. TypeOK'
    BY <1>1, <2>1, <2>5, SessionsStep DEF TypeOK
  <2>7. ASSUME NEW v \in Workers \ {w}
        PROVE  Course(req[v]) /\ Past(req[v], newest')
               /\ (v \notin overlap' => Knows(req[v], row'.password))
    <3>1. Course(req[v]) /\ Past(req[v], newest)
          /\ (v \notin overlap => Knows(req[v], row.password))
      BY DEF Inv, Current
    <3>2. Past(req[v], newest')
      <4>1. req[v].at \in {"saveProfile", "saveUser"} => req[v].row.password \in Nat
        BY RequestCases, PasswordFacts DEF Inv, Editing, Saving, Row, At
      <4>2. newest \in Nat /\ newest' \in Nat
        BY <2>1, PasswordFacts DEF Inv, TypeOK
      <4>3. QED
        BY <2>1, <3>1, <4>1, <4>2 DEF Past
    <3>3. At(v, "idle") => Knows(req[v], row'.password)
      BY DEF At, Knows
    <3>4. QED
      BY <2>1, <3>1, <3>2, <3>3
  <2>8. Current'
    BY <2>2, <2>3, <2>7 DEF Current, Fits
  <2>9. QED
    BY <2>6, <2>8 DEF Inv
<1>2. CASE UNCHANGED vars
  BY <1>2 DEF vars, Inv, TypeOK, Current
<1>3. QED
  BY <1>1, <1>2, NextCases

(* The row, the stored sessions and every request in flight have their     *)
(* types; a session exists only under a key that was drawn, and the row's  *)
(* password is never one that is yet to be set.                            *)
THEOREM TypeCorrect == Spec => []TypeOK
<1>1. Inv => TypeOK
  BY DEF Inv
<1>2. QED
  BY InvInit, InvNext, <1>1, PTL DEF Spec

(* Whatever else is saved, whenever: a session of a former password acts   *)
(* for the user only from a request that was in flight when the password   *)
(* changed.  For any number of requests and sessions.                      *)
THEOREM FormerPasswordEnds == Spec => FormerPasswordsEnd
<1>1. ASSUME Inv
      PROVE  \A w \in Workers : ActsAsUser(w) /\ HashOf(w) # row.password => w \in overlap
  BY <1>1 DEF Inv, Current, Knows, ActsAsUser, HashOf, At
<1>2. Inv => [\A w \in Workers :
                ActsAsUser(w) /\ req'[w] # req[w] /\ row' # row /\ HashOf(w) # row.password =>
                  w \in overlap]_vars
  BY <1>1
<1>3. QED
  BY InvInit, InvNext, <1>2, PTL DEF Spec, FormerPasswordsEnd

(* The session that a sign-in or a change of password responds with        *)
(* carries the password of the row, unless another request overlapped      *)
(* that changed it again.                                                  *)
THEOREM SignedInStays == Spec => StaysSignedIn
<1>1. ASSUME Inv, NEW w \in Workers, NEW v \in Workers, Step(w), Responds(v, {"login", "change"})
      PROVE  sess'[req'[v].key].auth = row.password \/ v \in overlap
  <2>1. v = w
    BY <1>1, OtherWorkers DEF Responds, At
  <2>2. Save(w)
    BY <1>1, <2>1, RespondsFacts
  <2>3. sess'[req'[w].key] = req[w].session /\ req'[w].op = req[w].op /\ At(w, "save")
    BY <1>1, <2>2, SaveFits DEF Save
  <2>4. QED
    BY <1>1, <2>1, <2>3 DEF Responds, Inv, Current, Knows, At
<1>2. ASSUME Inv, [Next]_vars
      PROVE  [\A w \in Workers :
                Responds(w, {"login", "change"}) =>
                  sess'[req'[w].key].auth = row.password \/ w \in overlap]_vars
  BY <1>1, <1>2, NextCases
<1>3. QED
  BY InvInit, InvNext, <1>2, PTL DEF Spec, StaysSignedIn

-----------------------------------------------------------------------------
(* What becomes of a changed password.                                     *)

(* What a step writes: a copy that was loaded earlier, or a new password.  *)
LEMMA WrittenPassword ==
    ASSUME Inv, NEW w \in Workers, Writes(w)
    PROVE  \/ /\ At(w, "saveProfile") \/ At(w, "saveUser")
              /\ row' = req[w].row /\ newest' = newest
           \/ row'.password = newest' /\ newest < newest'
<1>1. CASE SaveProfile(w) \/ AdminSave(w)
  BY <1>1 DEF SaveProfile, AdminSave, WriteRow
<1>2. CASE Write(w) \/ get_or_make(w)
  <2>1. /\ newest < MaxPassword /\ newest' = newest + 1
        /\ row' = [row EXCEPT !.password = newest + 1]
    BY <1>2 DEF Write, get_or_make, WriteRow
  <2>2. newest \in Nat /\ newest + 1 \in Passwords
    BY <2>1, RowFacts, PasswordFacts DEF Inv
  <2>3. QED
    BY <2>1, <2>2, RowFacts DEF Inv
<1>3. QED
  BY <1>1, <1>2 DEF Writes

(* A password that was replaced comes back only by a form that saves the   *)
(* whole row and was in flight when that happened.                         *)
THEOREM RevivedOverlaps == Spec => RevivedByOverlap
<1> DEFINE Revived == row'.password < row.password =>
                        \E w \in overlap : At(w, "saveProfile") \/ At(w, "saveUser")
<1>1. ASSUME Inv, NEW w \in Workers, Step(w) PROVE Revived
  <2>1. row.password \in Nat /\ newest \in Nat /\ row.password <= newest
    BY <1>1, RowFacts DEF Inv
  <2>2. CASE ~Writes(w)
    BY <1>1, <2>1, <2>2, ReadsFacts
  <2>3. CASE Writes(w)
    <3>1. newest' \in Nat
      BY <1>1, <2>3, WritesFacts, PasswordFacts
    <3>2. CASE row'.password = newest' /\ newest < newest'
      BY <2>1, <3>1, <3>2
    <3>3. CASE (At(w, "saveProfile") \/ At(w, "saveUser")) /\ row' = req[w].row
      BY <1>1, <2>1, <3>3 DEF Inv, Current, Knows, At
    <3>4. QED
      BY <1>1, <2>3, <3>2, <3>3, WrittenPassword
  <2>4. QED
    BY <2>2, <2>3
<1>2. ASSUME Inv, [Next]_vars PROVE [Revived]_vars
  BY <1>1, <1>2, NextCases
<1>3. QED
  BY InvInit, InvNext, <1>2, PTL DEF Spec, RevivedByOverlap

(* With one worker no request overlaps another: no change of password is   *)
(* lost, whatever is saved and killed.                                     *)
THEOREM OneWorkerKeepsNewest ==
    ASSUME NEW only, Workers = {only}
    PROVE  Spec => [](row.password = newest)
<1> DEFINE Newest == row.password = newest /\ overlap = {}
<1>1. Init => Newest
  BY DEF Init
<1>2. ASSUME Inv, Newest, [Next]_vars PROVE Newest'
  <2>1. CASE UNCHANGED vars
    BY <1>2, <2>1 DEF vars
  <2>2. CASE Step(only)
    <3>1. CASE ~Writes(only)
      BY <1>2, <2>2, <3>1, ReadsFacts
    <3>2. CASE Writes(only)
      <4>1. overlap' = {}
        BY <1>2, <3>2 DEF Writes, SaveProfile, AdminSave, Write, get_or_make, WriteRow
      <4>2. CASE row' = req[only].row /\ newest' = newest
                   /\ (At(only, "saveProfile") \/ At(only, "saveUser"))
        BY <1>2, <4>1, <4>2 DEF Inv, Current, Knows, At
      <4>3. QED
        BY <1>2, <3>2, <4>1, <4>2, WrittenPassword
    <3>3. QED
      BY <3>1, <3>2
  <2>3. QED
    BY <1>2, <2>1, <2>2, NextCases
<1>3. QED
  BY <1>1, <1>2, InvInit, InvNext, PTL DEF Spec
=============================================================================
