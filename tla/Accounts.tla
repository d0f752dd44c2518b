------------------------------- MODULE Accounts -----------------------------
(***************************************************************************)
(* The row of one user and the sessions that depend on its password:       *)
(* profile, change and reset of the password (accounts/views.py).          *)
(*                                                                         *)
(* A request holds a copy of the session and, from request.user, a copy of *)
(* the row.  Some saves write one column, others the whole copy.  A        *)
(* session counts as signed in only while it carries the hash of the row's *)
(* password; the first look at request.user deletes a session that does    *)
(* not.  The reset's GET and POST share the session only.                  *)
(***************************************************************************)
EXTENDS Integers, FiniteSets

CONSTANTS
    Workers,
    Sessions,       \* session keys, drawn once each
    MaxPassword     \* bound: passwords that are set

ASSUME AccountsAssumption == MaxPassword \in Nat

VARIABLES
    row,        \* the user
    sess,       \* per key: the stored session, NoSession without one
    drawn,      \* the keys that were drawn
    req,        \* per worker: the request it serves
    newest,     \* the number of the password set last
    overlap     \* history: the requests in flight when row.password changed

vars == <<row, sess, drawn, req, newest, overlap>>

(* Every set_password makes another salted hash: they are numbered.        *)
Passwords == 0..MaxPassword
NoPassword == -1
NoKey == "nokey"

(* The other columns that more than one request writes, is_active and      *)
(* is_email_verified, fare alike: the second stands for both.              *)
Row == [password : Passwords, verified : BOOLEAN]

(* auth: the password whose hash the session carries; stash: it holds      *)
(* pwreset_user_id.                                                        *)
Session == [auth : Passwords \cup {NoPassword}, stash : BOOLEAN]
Empty == [auth |-> NoPassword, stash |-> FALSE]
NoSession == [row |-> "none"]

Keys == Sessions \cup {NoKey}
Operations == {"visit", "profile", "change", "login", "open", "reset"}

(* What a request holds between its statements.  new: the hash its session *)
(* is about to get.                                                        *)
Idle == [at |-> "idle"]
Busy ==
    [at : {"identify", "write", "save"}, op : Operations, key : Keys, session : Session]
      \cup [at : {"rotate"}, op : Operations, key : Keys, session : Session, new : Passwords]
      \cup [at : {"saveProfile"}, row : Row, auth : Passwords]
      \cup [at : {"saveUser"}, row : Row]
      \cup [at : {"respond"}, op : Operations, key : Keys]

TypeOK ==
    /\ row \in Row
    /\ sess \in [Sessions -> Session \cup {NoSession}]
    /\ drawn \subseteq Sessions
    /\ \A k \in Sessions : sess[k] # NoSession => k \in drawn
    /\ req \in [Workers -> {Idle} \cup Busy]
    /\ newest \in Passwords /\ row.password <= newest
    /\ overlap \subseteq Workers

Init ==
    /\ row \in [password : {0}, verified : BOOLEAN]
    /\ sess = [k \in Sessions |-> NoSession]
    /\ drawn = {}
    /\ req = [w \in Workers |-> Idle]
    /\ newest = 0
    /\ overlap = {}

At(w, step) == req[w].at = step
Goto(w, r) == req' = [req EXCEPT ![w] = r]

(* A request goes on, or ends: then nothing it has read is used any more.  *)
Proceed(w, r) == Goto(w, r) /\ UNCHANGED overlap
End(w) == Goto(w, Idle) /\ overlap' = overlap \ {w}

(* w writes the row, and whoever is in flight may not know.                *)
WriteRow(w, r) ==
    /\ row' = r
    /\ overlap' = IF r.password = row.password THEN overlap \ {w}
                    ELSE {v \in Workers \ {w} : ~At(v, "idle")}

-----------------------------------------------------------------------------

(* The session of the cookie; a cookie of no session is an empty session,  *)
(* which gets a key when it is saved.                                      *)
Known(k) == k # NoKey /\ sess[k] # NoSession
Loaded(k) == IF Known(k) THEN sess[k] ELSE Empty

Begin(w, k, op, step) ==
    /\ At(w, "idle")
    /\ Proceed(w, [at |-> step, op |-> op, key |-> IF Known(k) THEN k ELSE NoKey,
                   session |-> Loaded(k)])
    /\ UNCHANGED <<row, sess, drawn, newest>>

(* Any page asks for request.user: its base template does.                 *)
Visit(w, k) == Begin(w, k, "visit", "identify")
profile_edit(w, k) == Begin(w, k, "profile", "identify")
password_change(w, k) == Begin(w, k, "change", "identify")

(* GET of password_reset_confirm: the link was consumed (TokenStore), the  *)
(* id is put into the session, and the form is rendered.                   *)
OpenReset(w, k) == Begin(w, k, "open", "identify")

(* POST of it: the id is in the session.                                   *)
PostReset(w, k) == Loaded(k).stash /\ Begin(w, k, "reset", "write")

(* A sign-in is about to succeed for this row (LoginFlow).                 *)
SignIn(w, k) ==
    /\ At(w, "idle")
    /\ Proceed(w, [at |-> "rotate", op |-> "login", key |-> IF Known(k) THEN k ELSE NoKey,
                   session |-> Loaded(k), new |-> row.password])
    /\ UNCHANGED <<row, sess, drawn, newest>>

(* get_user compares the hash in the session with the row's.  Mutant: it   *)
(* does not.                                                               *)
SignedIn_MutantNoHash(session) == session.auth # NoPassword
SignedIn(session) == session.auth = row.password

(* What the first use of request.user finds.  Nobody: all but the reset    *)
(* redirect to the login page.                                             *)
Anonymous(w) ==
    /\ At(w, "identify")
    /\ req[w].session.auth = NoPassword
    /\ IF req[w].op = "open"
         THEN Proceed(w, [req[w] EXCEPT !.at = "save", !.session.stash = TRUE])
         ELSE End(w)
    /\ UNCHANGED <<row, sess, drawn, newest>>

(* The user, and a copy of the row.                                        *)
Authenticated(w) ==
    LET r == req[w] IN
    /\ At(w, "identify")
    /\ r.session.auth # NoPassword
    /\ SignedIn(r.session)
    /\ CASE r.op = "profile" -> Proceed(w, [at |-> "saveProfile", row |-> row,
                                            auth |-> r.session.auth])
         [] r.op = "change" -> Proceed(w, [r EXCEPT !.at = "write"])
         [] r.op = "open" -> Proceed(w, [r EXCEPT !.at = "save", !.session.stash = TRUE])
         [] r.op = "visit" -> End(w)
    /\ UNCHANGED <<row, sess, drawn, newest>>

(* A session of another password: it is deleted there and then, with all   *)
(* the request has put into it.  The form of the reset is shown even so.   *)
Flush(w) ==
    /\ At(w, "identify")
    /\ req[w].session.auth # NoPassword
    /\ ~SignedIn(req[w].session)
    /\ sess' = [sess EXCEPT ![req[w].key] = NoSession]
    /\ IF req[w].op = "open"
         THEN Proceed(w, [at |-> "respond", op |-> "open", key |-> NoKey])
         ELSE End(w)
    /\ UNCHANGED <<row, drawn, newest>>

-----------------------------------------------------------------------------

(* ProfileForm.save: every column of the copy, the name among them.        *)
SaveProfile(w) ==
    /\ At(w, "saveProfile")
    /\ WriteRow(w, req[w].row)
    /\ Goto(w, Idle)
    /\ UNCHANGED <<sess, drawn, newest>>

(* save(update_fields=["password"]), after the form was found valid: for a *)
(* change, by the current password of the copy that Authenticated made.    *)
Write(w) ==
    LET r == req[w] IN
    /\ At(w, "write")
    /\ newest < MaxPassword
    /\ newest' = newest + 1
    /\ WriteRow(w, [row EXCEPT !.password = newest + 1])
    /\ Goto(w, IF r.op = "change"
                 THEN [at |-> "rotate", op |-> "change", key |-> r.key,
                       session |-> r.session, new |-> newest + 1]
                 ELSE [r EXCEPT !.at = "save", !.session.stash = FALSE])
    /\ UNCHANGED <<sess, drawn>>

(* login() over a session that is signed in (magic links and OAuth do not  *)
(* look at request.user): it stays if it carries the same hash, else it is *)
(* flushed and the copy goes on as a new one.                              *)
SignInAgain(w) ==
    LET r == req[w]
        same == r.session.auth = r.new IN
    /\ At(w, "rotate")
    /\ r.op = "login" /\ r.session.auth # NoPassword
    /\ sess' = IF same THEN sess ELSE [sess EXCEPT ![r.key] = NoSession]
    /\ Proceed(w, [at |-> "save", op |-> r.op, key |-> IF same THEN r.key ELSE NoKey,
                   session |-> IF same THEN r.session
                                 ELSE [auth |-> r.new, stash |-> FALSE]])
    /\ UNCHANGED <<row, drawn, newest>>

(* cycle_key, in login() and update_session_auth_hash(): the session as it *)
(* was loaded goes to a new key, then it gets the hash.  Mutants: the new  *)
(* key may be one in use; the hash stays as it was.                        *)
CycleKey(w, k, auth) ==
    LET r == req[w] IN
    /\ At(w, "rotate")
    /\ r.op = "change" \/ r.session.auth = NoPassword
    /\ sess' = [j \in Sessions |-> CASE j = k -> r.session
                                     [] j # k /\ j = r.key -> NoSession
                                     [] OTHER -> sess[j]]
    /\ Proceed(w, [at |-> "save", op |-> r.op, key |-> k,
                   session |-> [r.session EXCEPT !.auth = auth]])
    /\ UNCHANGED <<row, newest>>
Rotate_MutantKey(w) ==
    \E k \in Sessions : CycleKey(w, k, req[w].new) /\ UNCHANGED drawn
Rotate_MutantHash(w) ==
    \E k \in Sessions \ drawn : CycleKey(w, k, req[w].session.auth) /\ drawn' = drawn \cup {k}
Rotate(w) ==
    \E k \in Sessions \ drawn : CycleKey(w, k, req[w].new) /\ drawn' = drawn \cup {k}

(* The session middleware writes the copy: under its key, unless that is   *)
(* gone, or under a new one.  The response follows.                        *)
Save(w) ==
    LET r == req[w] IN
    /\ At(w, "save")
    /\ \E k \in Sessions :
         /\ IF r.key = NoKey THEN k \notin drawn ELSE k = r.key /\ sess[k] # NoSession
         /\ drawn' = drawn \cup {k}
         /\ sess' = [sess EXCEPT ![k] = r.session]
         /\ Proceed(w, [at |-> "respond", op |-> r.op, key |-> k])
    /\ UNCHANGED <<row, newest>>

Respond(w) ==
    /\ At(w, "respond")
    /\ End(w)
    /\ UNCHANGED <<row, sess, drawn, newest>>

(* An error (the session's key is gone), or the worker is killed.          *)
Abort(w) ==
    /\ ~At(w, "idle")
    /\ End(w)
    /\ UNCHANGED <<row, sess, drawn, newest>>

-----------------------------------------------------------------------------

(* The admin's form saves every column too: the flags as it shows them,    *)
(* the rest from a copy.                                                   *)
AdminLoad(w) ==
    /\ At(w, "idle")
    /\ \E v \in BOOLEAN :
         Proceed(w, [at |-> "saveUser", row |-> [password |-> row.password, verified |-> v]])
    /\ UNCHANGED <<row, sess, drawn, newest>>

AdminSave(w) ==
    /\ At(w, "saveUser")
    /\ WriteRow(w, req[w].row)
    /\ Goto(w, Idle)
    /\ UNCHANGED <<sess, drawn, newest>>

(* Someone follows a verification link: one column (TokenStore).           *)
VerifyAddress(w) ==
    /\ At(w, "idle")
    /\ row' = [row EXCEPT !.verified = TRUE]
    /\ UNCHANGED <<sess, drawn, req, newest, overlap>>

(* create_demo_users finds the user: it sets the password anew, whatever   *)
(* sessions there are.  Mutant: it restores the hash of its first run.     *)
get_or_make_MutantHash(w) ==
    /\ At(w, "idle")
    /\ WriteRow(w, [row EXCEPT !.password = 0])
    /\ UNCHANGED <<sess, drawn, req, newest>>

get_or_make(w) ==
    /\ At(w, "idle")
    /\ newest < MaxPassword
    /\ newest' = newest + 1
    /\ WriteRow(w, [row EXCEPT !.password = newest + 1])
    /\ UNCHANGED <<sess, drawn, req>>

Next == \E w \in Workers :
    \/ \E k \in Keys :
         \/ Visit(w, k) \/ profile_edit(w, k) \/ password_change(w, k)
         \/ OpenReset(w, k) \/ PostReset(w, k) \/ SignIn(w, k)
    \/ Anonymous(w) \/ Authenticated(w) \/ Flush(w)
    \/ SaveProfile(w) \/ Write(w) \/ SignInAgain(w) \/ Rotate(w) \/ Save(w) \/ Respond(w)
    \/ AdminLoad(w) \/ AdminSave(w)
    \/ VerifyAddress(w) \/ get_or_make(w)
    \/ Abort(w)

Spec == Init /\ [][Next]_vars

-----------------------------------------------------------------------------

(* Whatever else is saved, whenever: a session of a former password edits  *)
(* the profile or changes the password only from a request that was in     *)
(* flight when row.password changed.                                       *)
ActsAsUser(w) == At(w, "saveProfile") \/ (At(w, "write") /\ req[w].op = "change")
HashOf(w) == IF At(w, "saveProfile") THEN req[w].auth ELSE req[w].session.auth
FormerPasswordsEnd ==
    [][\A w \in Workers :
         ActsAsUser(w) /\ req'[w] # req[w] /\ row' # row /\ HashOf(w) # row.password =>
           w \in overlap]_vars

(* A form that saves every column of its copy may bring back a password    *)
(* that was replaced, but only if its request was in flight when that      *)
(* happened; nothing else loses a change of password.                      *)
RevivedByOverlap ==
    [][row'.password < row.password =>
         \E w \in overlap : At(w, "saveProfile") \/ At(w, "saveUser")]_vars

Responds(w, ops) == ~At(w, "respond") /\ req'[w].at = "respond" /\ req'[w].op \in ops

(* accounts/views.py: "Keep the user logged in after a password change."   *)
(* The session a sign-in or a change responds with carries the password of *)
(* the row, unless another request overlapped that changed it again.       *)
StaysSignedIn ==
    [][\A w \in Workers :
         Responds(w, {"login", "change"}) =>
           sess'[req'[w].key].auth = row.password \/ w \in overlap]_vars

(* accounts/views.py: "POST: read the user id stashed at GET time."  A     *)
(* browser that is shown the form has a session that holds the id.         *)
FormHasStash ==
    [][\A w \in Workers :
         Responds(w, {"open"}) =>
           req'[w].key \in Sessions /\ sess'[req'[w].key].stash]_vars
=============================================================================
