----------------------------- MODULE TokenStore ----------------------------
(***************************************************************************)
(* The emailed links of one user: email verification and password reset    *)
(* (accounts/services.py) and magic links (magic/services.py).             *)
(*                                                                         *)
(* The three consume functions have one shape: SELECT the row and judge    *)
(* it, UPDATE used_at, then, but for resets, UPDATE the user.  The         *)
(* statements commit one by one, so requests for the same link interleave  *)
(* between them, and gunicorn may kill a worker at any of them.            *)
(***************************************************************************)
EXTENDS Integers, FiniteSets

CONSTANTS
    Tokens,
    Workers,    \* gunicorn worker processes
    TTL,        \* time to live, per kind of link, in ticks
    Timeout     \* gunicorn's --timeout, in ticks

Kinds == {"email", "reset", "magic"}
ProvingKinds == {"email", "magic"}
NoKind == "none"

ASSUME TokenAssumption ==
    /\ TTL \in [Kinds -> Nat]
    /\ Timeout \in Nat
    /\ IsFiniteSet(Workers)
    /\ Workers # {}

VARIABLES
    kind,       \* per token: the table its row is in, NoKind without a row
    age,        \* per token: ticks since the row was created
    used,       \* the tokens whose row has a used_at
    mailed,     \* the tokens whose link was emailed
    verified,   \* is_email_verified of the user
    active,     \* is_active of the user
    req,        \* per worker: the request it serves
    grants      \* per token: how many consume calls returned the user

vars == <<kind, age, used, mailed, verified, active, req, grants>>

(* Ages past MaxAge are alike.                                             *)
LongestTTL == IF TTL["email"] >= TTL["reset"] /\ TTL["email"] >= TTL["magic"]
                THEN TTL["email"]
                ELSE IF TTL["reset"] >= TTL["magic"] THEN TTL["reset"] ELSE TTL["magic"]
MaxAge == LongestTTL + Timeout + 1

Idle == [at |-> "idle"]
(* What a request holds between its statements; since is how long its      *)
(* worker has been busy.  insert: mails tells whether the link will be     *)
(* sent.  mark: the row was judged good, and saw is the is_email_verified  *)
(* of its user as the SELECT joined it.  verify: used_at is written.       *)
Clock == 0..Timeout
Busy ==
    [at : {"insert"}, kind : Kinds, mails : BOOLEAN, since : Clock]
      \cup [at : {"send"}, token : Tokens, since : Clock]
      \cup [at : {"mark", "verify"}, token : Tokens, saw : BOOLEAN, since : Clock]

TypeOK ==
    /\ kind \in [Tokens -> Kinds \cup {NoKind}]
    /\ age \in [Tokens -> 0..MaxAge]
    /\ used \subseteq Tokens
    /\ mailed \subseteq Tokens
    /\ verified \in BOOLEAN
    /\ active \in BOOLEAN
    /\ req \in [Workers -> {Idle} \cup Busy]
    /\ grants \in [Tokens -> Nat]

Init ==
    /\ kind = [t \in Tokens |-> NoKind]
    /\ age = [t \in Tokens |-> 0]
    /\ used = {}
    /\ mailed = {}
    /\ verified \in BOOLEAN
    /\ active \in BOOLEAN
    /\ req = [w \in Workers |-> Idle]
    /\ grants = [t \in Tokens |-> 0]

At(w, step) == req[w].at = step
Goto(w, r) == req' = [req EXCEPT ![w] = r]

(* A view reads the user's flags, then issues a link of kind k.            *)
Begin(w, k, mails) ==
    /\ At(w, "idle")
    /\ Goto(w, [at |-> "insert", kind |-> k, mails |-> mails, since |-> 0])
    /\ UNCHANGED <<kind, age, used, mailed, verified, active, grants>>

(* Once the address is verified there is nothing to resend.                *)
ResendVerification(w) == ~verified /\ Begin(w, "email", TRUE)

RequestReset(w) == active /\ Begin(w, "reset", TRUE)

(* An inactive user's link gets its row all the same, but no mail.         *)
RequestMagicLink(w) == Begin(w, "magic", active)

(* issue_*: the row is created.                                            *)
Issue(w) ==
    /\ At(w, "insert")
    /\ \E t \in Tokens :
         /\ kind[t] = NoKind
         /\ kind' = [kind EXCEPT ![t] = req[w].kind]
         /\ Goto(w, IF req[w].mails
                      THEN [at |-> "send", token |-> t, since |-> req[w].since]
                      ELSE Idle)
    /\ UNCHANGED <<age, used, mailed, verified, active, grants>>

(* send_template_email, after the row: when it fails the row stays.        *)
Send(w) ==
    /\ At(w, "send")
    /\ mailed' = mailed \cup {req[w].token}
    /\ Goto(w, Idle)
    /\ UNCHANGED <<kind, age, used, verified, active, grants>>

(* What the SELECT of consume_* must find.  Mutants: the expiry of magic   *)
(* links is forgotten; used_at is not looked at.                           *)
Consumable_MutantExpiry(t) ==
    /\ t \notin used
    /\ kind[t] # "magic" => age[t] <= TTL[kind[t]]
    /\ kind[t] = "magic" => active
Consumable_MutantReplay(t) ==
    /\ age[t] <= TTL[kind[t]]
    /\ kind[t] = "magic" => active

Consumable(t) ==
    /\ t \notin used
    /\ age[t] <= TTL[kind[t]]
    /\ kind[t] = "magic" => active

(* A link can be followed any number of times, from any number of places.  *)
(* What is not consumable is refused, and nothing changes.  Mutant: the    *)
(* address is verified first and the link spent afterwards.                *)
Lookup_MutantVerifyFirst(w, t) ==
    /\ At(w, "idle")
    /\ t \in mailed
    /\ Consumable(t)
    /\ Goto(w, [at |-> "mark", token |-> t, saw |-> verified, since |-> 0])
    /\ verified' = (verified \/ kind[t] \in ProvingKinds)
    /\ UNCHANGED <<kind, age, used, mailed, active, grants>>

Lookup(w, t) ==
    /\ At(w, "idle")
    /\ t \in mailed
    /\ Consumable(t)
    /\ Goto(w, [at |-> "mark", token |-> t, saw |-> verified, since |-> 0])
    /\ UNCHANGED <<kind, age, used, mailed, verified, active, grants>>

(* consume_* returns the user.                                             *)
Return(w) ==
    /\ Goto(w, Idle)
    /\ grants' = [grants EXCEPT ![req[w].token] = @ + 1]

(* record.save(update_fields=["used_at"]) by primary key, whatever used_at *)
(* has become.  Mutant: a reset link verifies the address too.             *)
Mark_MutantReset(w) ==
    /\ At(w, "mark")
    /\ used' = used \cup {req[w].token}
    /\ IF req[w].saw THEN Return(w)
       ELSE req' = [req EXCEPT ![w].at = "verify"] /\ UNCHANGED grants
    /\ UNCHANGED <<kind, age, mailed, verified, active>>

Mark(w) ==
    /\ At(w, "mark")
    /\ used' = used \cup {req[w].token}
    /\ IF kind[req[w].token] \in ProvingKinds /\ ~req[w].saw
         THEN req' = [req EXCEPT ![w].at = "verify"] /\ UNCHANGED grants
         ELSE Return(w)
    /\ UNCHANGED <<kind, age, mailed, verified, active>>

(* user.save(update_fields=["is_email_verified"]).                         *)
Verify(w) ==
    /\ At(w, "verify")
    /\ verified' = TRUE
    /\ Return(w)
    /\ UNCHANGED <<kind, age, used, mailed, active>>

(* An exception, or a worker killed: what was written stays written.       *)
Abort(w) ==
    /\ ~At(w, "idle")
    /\ Goto(w, Idle)
    /\ UNCHANGED <<kind, age, used, mailed, verified, active, grants>>

(* An administrator posts the change form, which has a box for each flag.  *)
AdminEdit ==
    /\ active' \in BOOLEAN
    /\ verified' \in BOOLEAN
    /\ UNCHANGED <<kind, age, used, mailed, req, grants>>

(* Mutant: no worker is ever killed.                                       *)
Tick_MutantNoKill ==
    /\ age' = [t \in Tokens |->
                 IF kind[t] # NoKind /\ age[t] < MaxAge THEN age[t] + 1 ELSE age[t]]
    /\ req' = [w \in Workers |->
                 IF At(w, "idle") THEN Idle ELSE [req[w] EXCEPT !.since = @ + 1]]
    /\ UNCHANGED <<kind, used, mailed, verified, active, grants>>

(* The clock.  gunicorn kills a worker that is busy for Timeout: it aborts *)
(* before the clock goes on.                                               *)
Tick ==
    /\ \A w \in Workers : ~At(w, "idle") => req[w].since < Timeout
    /\ age' = [t \in Tokens |->
                 IF kind[t] # NoKind /\ age[t] < MaxAge THEN age[t] + 1 ELSE age[t]]
    /\ req' = [w \in Workers |->
                 IF At(w, "idle") THEN Idle ELSE [req[w] EXCEPT !.since = @ + 1]]
    /\ UNCHANGED <<kind, used, mailed, verified, active, grants>>

Next ==
    \/ \E w \in Workers :
         \/ ResendVerification(w) \/ RequestReset(w) \/ RequestMagicLink(w)
         \/ Issue(w)
         \/ Send(w)
         \/ \E t \in Tokens : Lookup(w, t)
         \/ Mark(w)
         \/ Verify(w)
         \/ Abort(w)
    \/ AdminEdit
    \/ Tick

Spec == Init /\ [][Next]_vars

-----------------------------------------------------------------------------

(* The requests that found t consumable and have not returned.             *)
InFlight(t) == {w \in Workers : req[w].at \in {"mark", "verify"} /\ req[w].token = t}

(* Only requests that overlap the first one to mark a link can be granted  *)
(* by it: whatever arrives after used_at is set is refused, so grants and  *)
(* requests in flight together never exceed the number of workers.         *)
GrantsBounded ==
    \A t \in Tokens :
        /\ t \notin used => grants[t] = 0
        /\ grants[t] + Cardinality(InFlight(t)) <= Cardinality(Workers)

(* A request that judged a link before its expiry may finish after it, but *)
(* no later than gunicorn lets a worker live.                              *)
GrantsInTime ==
    [][\A t \in Tokens : grants'[t] > grants[t] => age[t] <= TTL[kind[t]] + Timeout]_vars

(* The link that verifies an address is spent before the address counts as *)
(* verified: no crash leaves the address verified and the link open.  Only *)
(* an administrator can do without a link, by ticking the box.             *)
VerifiedSpendsLink ==
    [][verified' /\ ~verified =>
         AdminEdit \/ \E t \in used \cap mailed : kind[t] \in ProvingKinds]_vars

(* The links keep the promise of OneTimeLink, once per worker.             *)
Promise == INSTANCE OneTimeLink WITH
    Grace <- Timeout, MaxGrants <- Cardinality(Workers)
KeepsPromise == Promise!Spec

(* accounts/models.py: "Single-use token"; magic/services.py: "Marks the   *)
(* token as used on success so that replay is rejected."                   *)
SingleUse == \A t \in Tokens : grants[t] <= 1
=============================================================================
