------------------------------- MODULE Linking ------------------------------
(***************************************************************************)
(* Where accounts come from: registration (accounts/views.py, forms.py),   *)
(* the OAuth callback's link_or_create (oauth/services.py), and the admin  *)
(* site's forms of users and links (accounts/admin.py, oauth/admin.py).    *)
(*                                                                         *)
(* Registrations and callbacks look for an account of the address and      *)
(* create one later, in other statements; only the unique constraint on    *)
(* the exact spelling of the address stands between them.  A callback may  *)
(* further create or move the link of its identity, and may die after any  *)
(* statement.  An administrator can give an account any address, as it is  *)
(* typed, and link it to any identity.  is_active is LoginFlow's.          *)
(***************************************************************************)
EXTENDS Integers, FiniteSets

CONSTANTS
    Users,          \* primary keys, drawn once each
    Identities,     \* pairs of a provider and a user id there
    Spellings,      \* email addresses as people type them
    Lower,          \* str.lower() on them
    Workers

NoUser == "no user"
NoIdentity == "no identity"

ASSUME LinkingAssumption ==
    /\ Lower \in [Spellings -> Spellings]
    /\ \A s \in Spellings : Lower[Lower[s]] = Lower[s]
    /\ NoUser \notin Users
    /\ NoIdentity \notin Identities
    /\ IsFiniteSet(Workers)
    /\ Workers # {}

VARIABLES
    account,    \* per user id: its row, NoAccount without one
    drawn,      \* the ids the sequence has given out
    link,       \* per identity: the user of its SocialAccount, or NoUser
    req,        \* per worker: the request it serves
    vouched,    \* history, per identity: the addresses callbacks were given
    matched,    \* history: the pairs of an identity and an account that at
                \* some moment had one of these addresses
    moves,      \* history, per identity: how often callbacks moved its link
    edited,     \* history: the accounts an administrator added or changed
    assigned    \* history, per identity: the account an administrator
                \* linked it to, or NoUser

tables == <<account, drawn, link>>
seen == <<vouched, matched>>
marks == <<moves, edited, assigned>>
vars == <<tables, req, seen, marks>>

NoAccount == [row |-> "none"]
Idle == [at |-> "idle"]

(* oauth: created by a callback.  The name is left out, and so is the      *)
(* password, which is unusable in accounts that a callback created.        *)
Account == [email : Spellings, verified : BOOLEAN, oauth : BOOLEAN]

(* A request for NoIdentity is a registration.                             *)
Busy ==
    [at : {"find_link", "find_user"}, identity : Identities, email : Spellings]
      \cup [at : {"insert"}, identity : Identities \cup {NoIdentity}, email : Spellings]
      \cup [at : {"complete"}, identity : Identities, email : Spellings, user : Users]
      \cup [at : {"link"}, identity : Identities, user : Users]

TypeOK ==
    /\ account \in [Users -> Account \cup {NoAccount}]
    /\ drawn \subseteq Users
    /\ \A u \in Users : account[u] # NoAccount => u \in drawn
    /\ link \in [Identities -> Users \cup {NoUser}]
    /\ \A i \in Identities : link[i] # NoUser => account[link[i]] # NoAccount
    /\ req \in [Workers -> {Idle} \cup Busy]
    /\ vouched \in [Identities -> SUBSET Spellings]
    /\ matched \subseteq Identities \X Users
    /\ moves \in [Identities -> Nat]
    /\ edited \subseteq drawn
    /\ assigned \in [Identities -> Users \cup {NoUser}]

Init ==
    /\ account = [u \in Users |-> NoAccount]
    /\ drawn = {}
    /\ link = [i \in Identities |-> NoUser]
    /\ req = [w \in Workers |-> Idle]
    /\ vouched = [i \in Identities |-> {}]
    /\ matched = {}
    /\ moves = [i \in Identities |-> 0]
    /\ edited = {}
    /\ assigned = [i \in Identities |-> NoUser]

At(w, step) == req[w].at = step
Goto(w, r) == req' = [req EXCEPT ![w] = r]

Exists(u) == account[u] # NoAccount

(* filter(email__iexact=e).                                                *)
Matching(e) == {u \in Users : Exists(u) /\ Lower[account[u].email] = Lower[e]}

(* The unique constraint, which compares spellings.                        *)
Taken(e) == \E u \in Users : Exists(u) /\ account[u].email = e

(* A save() by primary key: an UPDATE of every column, or an INSERT if the *)
(* row has been deleted.                                                   *)
SaveRow(u, a) ==
    /\ \A v \in Users \ {u} : Exists(v) => account[v].email # a.email
    /\ account' = [account EXCEPT ![u] = a]

(* What the tables say: whose address is which, up to case.                *)
Holds == [u \in Users |-> IF Exists(u) THEN {Lower[account[u].email]} ELSE {}]
Watch ==
    matched' = matched \cup
      {p \in Identities \X Users : (Holds'[p[2]] \cap vouched'[p[1]]) # {}}

-----------------------------------------------------------------------------

(* The registration form is valid: clean_email found no account.           *)
Register(w, s) ==
    /\ At(w, "idle")
    /\ Matching(s) = {}
    /\ Goto(w, [at |-> "insert", identity |-> NoIdentity, email |-> Lower[s]])
    /\ UNCHANGED <<tables, seen, marks>>

(* create_user: an INSERT, refused by the constraint with an error nobody  *)
(* catches.  A registration then saves is_active, which is set already;    *)
(* its verification link is TokenStore's.  Mutant: the address is not      *)
(* unique in the table.                                                    *)
InsertRow(w) ==
    /\ At(w, "insert")
    /\ \E u \in Users \ drawn :
         /\ drawn' = drawn \cup {u}
         /\ account' = [account EXCEPT ![u] =
                          [email |-> req[w].email, verified |-> FALSE,
                           oauth |-> req[w].identity # NoIdentity]]
         /\ Goto(w, IF req[w].identity = NoIdentity THEN Idle
                      ELSE [at |-> "complete", identity |-> req[w].identity,
                            email |-> req[w].email, user |-> u])
    /\ UNCHANGED <<link, vouched, marks>>
    /\ Watch
Insert_MutantNoUnique(w) == InsertRow(w)
Insert(w) == InsertRow(w) /\ ~Taken(req[w].email)

-----------------------------------------------------------------------------

(* A callback was accepted and its provider reports the profile, with an   *)
(* address that its owner may change there at any time.  Mutant: it is     *)
(* taken as it is spelt.                                                   *)
Report(w, i, email) ==
    /\ At(w, "idle")
    /\ Goto(w, [at |-> "find_link", identity |-> i, email |-> email])
    /\ vouched' = [vouched EXCEPT ![i] = @ \cup {email}]
    /\ UNCHANGED <<tables, marks>>
    /\ Watch
FetchUser_MutantSpelling(w, i, s) == Report(w, i, s)
FetchUser(w, i, s) == Report(w, i, Lower[s])

(* Strategy 1: the identity is linked, its user signs in.  Mutant: the     *)
(* address goes before the link.                                           *)
FindLink_MutantAddressFirst(w) ==
    /\ At(w, "find_link")
    /\ Goto(w, [req[w] EXCEPT !.at = "find_user"])
    /\ UNCHANGED <<tables, seen, marks>>

FindLink(w) ==
    /\ At(w, "find_link")
    /\ Goto(w, IF link[req[w].identity] # NoUser THEN Idle
                 ELSE [req[w] EXCEPT !.at = "find_user"])
    /\ UNCHANGED <<tables, seen, marks>>

(* Strategy 2: an account with the address.  Mutant: any account will do.  *)
FindAmong(w, found) ==
    /\ At(w, "find_user")
    /\ \/ found = {} /\ Goto(w, [req[w] EXCEPT !.at = "insert"])
       \/ \E u \in found :
            Goto(w, [at |-> "link", identity |-> req[w].identity, user |-> u])
    /\ UNCHANGED <<tables, seen, marks>>
FindUser_MutantAny(w) == FindAmong(w, {u \in Users : Exists(u)})
FindUser(w) == FindAmong(w, Matching(req[w].email))

(* Strategy 3, after Insert: user.save() writes every column as the copy   *)
(* has it, and creates the row again if it has been deleted.               *)
Complete(w) ==
    LET u == req[w].user IN
    /\ At(w, "complete")
    /\ SaveRow(u, [email |-> req[w].email, verified |-> TRUE, oauth |-> TRUE])
    /\ Goto(w, [at |-> "link", identity |-> req[w].identity, user |-> u])
    /\ UNCHANGED <<drawn, link, vouched, marks>>
    /\ Watch

(* update_or_create, one transaction: the identity's row now names u.      *)
Link(w) ==
    LET u == req[w].user
        i == req[w].identity IN
    /\ At(w, "link")
    /\ Exists(u)
    /\ link' = [link EXCEPT ![i] = u]
    /\ moves' = [moves EXCEPT ![i] = IF link[i] \in {NoUser, u} THEN @ ELSE @ + 1]
    /\ Goto(w, Idle)
    /\ UNCHANGED <<account, drawn, seen, edited, assigned>>

(* IntegrityError, DatabaseError, or the worker is killed.                 *)
Abort(w) ==
    /\ ~At(w, "idle")
    /\ Goto(w, Idle)
    /\ UNCHANGED <<tables, seen, marks>>

-----------------------------------------------------------------------------

(* The user follows an emailed link.                                       *)
VerifyAddress(u) ==
    /\ Exists(u)
    /\ account' = [account EXCEPT ![u].verified = TRUE]
    /\ UNCHANGED <<drawn, link, req, seen, marks>>

(* An administrator adds a user, in the add form or by createsuperuser,    *)
(* which verifies the address: it is stored as it is typed.                *)
AdminAdd(s, verified) ==
    /\ ~Taken(s)
    /\ \E u \in Users \ drawn :
         /\ drawn' = drawn \cup {u}
         /\ account' = [account EXCEPT ![u] =
                          [email |-> s, verified |-> verified, oauth |-> FALSE]]
         /\ edited' = edited \cup {u}
    /\ UNCHANGED <<link, req, vouched, moves, assigned>>
    /\ Watch

(* An administrator posts the change form: the address and the flag as     *)
(* they were typed, over a row that may be gone since the form's copy was  *)
(* loaded.                                                                 *)
AdminEdit(u, s, verified, oauth) ==
    LET a == [email |-> s, verified |-> verified, oauth |-> oauth] IN
    /\ u \in drawn
    /\ Exists(u) => account[u] # a /\ account[u].oauth = oauth
    /\ SaveRow(u, a)
    /\ edited' = edited \cup {u}
    /\ UNCHANGED <<drawn, link, req, vouched, moves, assigned>>
    /\ Watch

(* An administrator deletes the row and with it its links (CASCADE).       *)
(* Mutant: the links are left.                                             *)
Delete_MutantDangling(u) ==
    /\ Exists(u)
    /\ account' = [account EXCEPT ![u] = NoAccount]
    /\ UNCHANGED <<drawn, link, req, seen, marks>>

Delete(u) ==
    LET Cleared(f, none) == [i \in Identities |-> IF link[i] = u THEN none ELSE f[i]] IN
    /\ Exists(u)
    /\ account' = [account EXCEPT ![u] = NoAccount]
    /\ link' = Cleared(link, NoUser)
    /\ moves' = Cleared(moves, 0)
    /\ assigned' = Cleared(assigned, NoUser)
    /\ UNCHANGED <<drawn, req, seen, edited>>

(* The admin's form of links gives the row of i to a user, or clears or    *)
(* deletes it, after which it signs in nobody.                             *)
AdminLink(i, u) ==
    /\ u # NoUser => Exists(u)
    /\ link' = [link EXCEPT ![i] = u]
    /\ moves' = [moves EXCEPT ![i] = 0]
    /\ assigned' = [assigned EXCEPT ![i] = u]
    /\ UNCHANGED <<account, drawn, req, seen, edited>>

Next ==
    \/ \E w \in Workers :
         \/ \E s \in Spellings : Register(w, s)
         \/ Insert(w)
         \/ \E i \in Identities, s \in Spellings : FetchUser(w, i, s)
         \/ FindLink(w) \/ FindUser(w) \/ Complete(w) \/ Link(w)
         \/ Abort(w)
    \/ \E s \in Spellings, verified \in BOOLEAN :
         \/ AdminAdd(s, verified)
         \/ \E u \in Users, oauth \in BOOLEAN : AdminEdit(u, s, verified, oauth)
    \/ \E u \in Users : VerifyAddress(u) \/ Delete(u)
    \/ \E i \in Identities, u \in Users \cup {NoUser} : AdminLink(i, u)

Spec == Init /\ [][Next]_vars

-----------------------------------------------------------------------------

(* accounts/backends.py signs in "against the email field, case-           *)
(* insensitive", with a query that fails on two rows.  However             *)
(* registrations and callbacks overlap, and whatever is deleted and        *)
(* re-created under them, two accounts share an address only if an         *)
(* administrator has given one of them an address with capitals.           *)
Capitals(u) == Lower[account[u].email] # account[u].email
OneAccountPerAddress ==
    \A u, v \in Users :
        Exists(u) /\ Exists(v) /\ Holds[u] = Holds[v] /\ u # v =>
          \E x \in edited \cap {u, v} : Capitals(x)

(* Unless an administrator linked it, an identity is linked to nobody but  *)
(* an account that at some moment had an address its own provider had      *)
(* reported: neither the account nor the address can be another one when   *)
(* the callback has read the tables and comes to write them.               *)
LinkVouched ==
    \A i \in Identities : link[i] \notin {NoUser, assigned[i]} => <<i, link[i]>> \in matched

(* The callbacks of i that have found it without a link.                   *)
Linking(i) == {w \in Workers : req[w].at \in {"find_user", "insert", "complete", "link"}
                                  /\ req[w].identity = i}

(* update_or_create can move a link, but only callbacks that overlap the   *)
(* one that made it get there: what comes later signs in its user.  One    *)
(* that an administrator made can be overlapped by one callback more.      *)
MovesBounded ==
    \A i \in Identities :
        /\ link[i] = NoUser => moves[i] = 0
        /\ link[i] # NoUser =>
             moves[i] + Cardinality(Linking(i)) <
               Cardinality(Workers) + (IF assigned[i] = NoUser THEN 0 ELSE 1)

(* And only if the provider reported another address in between, or an     *)
(* administrator had to do with one of the two accounts or moves the link. *)
MovesNeedNewAddress ==
    [][\A i \in Identities :
         link[i] # NoUser /\ link'[i] \notin {NoUser, link[i]} =>
           \/ \E s \in vouched[i] : s # account[link[i]].email
           \/ {link[i], link'[i]} \cap edited # {}
           \/ link'[i] = assigned'[i]]_vars

(* Rows, links and requests, statement by statement, implement Directory:  *)
(* nothing but an INSERT or the repair of a deleted row gives an account   *)
(* its address, and no link is made, moved or dropped, other than as the   *)
(* administrator wants it.                                                 *)
Promise == INSTANCE Directory WITH
    Accounts <- Users, Addresses <- Spellings, None <- NoUser,
    holds <- Holds, linked <- link, reported <- vouched
KeepsPromise == Promise!Spec

(* oauth/services.py: "Otherwise, create a new user. Mark the account      *)
(* email-verified because receipt of the OAuth callback proves control of  *)
(* the email at the provider level."  An account that one callback created *)
(* and that this or a later one linked is verified, if no administrator    *)
(* has changed it.                                                         *)
CreatedVerified ==
    \A u \in Users :
        /\ Exists(u) /\ account[u].oauth /\ u \notin edited
        /\ \E i \in Identities : link[i] = u /\ assigned[i] # u
        =>
          \/ account[u].verified
          \/ \E w \in Workers : At(w, "complete") /\ req[w].user = u
=============================================================================
