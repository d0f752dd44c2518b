-------------------------------- MODULE Mfa --------------------------------
(***************************************************************************)
(* The second factor of one user: the TOTP device and the backup codes of  *)
(* mfa/services.py, as the views of mfa/views.py and the command           *)
(* create_demo_users, which enrols a demo user, drive them.                *)
(*                                                                         *)
(* setup, regenerate, disable, the command and the backup-code branch of   *)
(* challenge are each several statements that commit one by one.  An       *)
(* object that was loaded is saved with update_fields, by primary key: if  *)
(* its row is gone the save raises DatabaseError and the request ends      *)
(* (Abort).                                                                *)
(***************************************************************************)
EXTENDS Integers, FiniteSets

CONSTANTS
    Workers,    \* requests and commands in flight at once
    Devices,    \* device rows, each with its own secret
    Codes,      \* backup codes, all different
    CodeCount   \* BACKUP_CODE_COUNT

ASSUME MfaAssumption ==
    /\ IsFiniteSet(Workers)
    /\ CodeCount \in Nat \ {0}
    /\ Devices \cap Codes = {}

VARIABLES
    device,     \* the set of the user's device rows: empty or a singleton
    confirmed,  \* the devices whose row is confirmed
    seen,       \* the devices whose secret a setup page has shown
    proven,     \* the devices for whose secret a valid code was entered
    codes,      \* the stored backup codes
    spent,      \* the codes whose row has a used_at
    made,       \* the devices and codes ever created
    req,        \* per worker: the request it serves
    uses,       \* per stored code: how often it was accepted
    alone       \* history: the requests no other has disturbed at the codes

vars == <<device, confirmed, seen, proven, codes, spent, made, req, uses, alone>>

(* What a request holds: the device row it loaded, the code it found, or   *)
(* how many codes it has yet to create.                                    *)
Idle == [at |-> "idle"]
Callers == {"form", "command"}
Request ==
    {Idle}
      \cup [at : {"create"}, caller : Callers]
      \cup [at : {"purge", "show", "dropDevice", "dropCodes"}]
      \cup [at : Callers, device : Devices]
      \cup [at : {"spend"}, code : Codes]
      \cup [at : {"fill"}, left : 1..CodeCount]

TypeOK ==
    /\ device \subseteq Devices /\ Cardinality(device) <= 1
    /\ confirmed \subseteq Devices
    /\ seen \cup proven \subseteq made \cap Devices
    /\ codes \subseteq made \cap Codes
    /\ spent \subseteq codes
    /\ req \in [Workers -> Request]
    /\ uses \in [Codes -> Nat]
    /\ alone \subseteq Workers

Init ==
    /\ device = {} /\ confirmed = {} /\ seen = {} /\ proven = {}
    /\ codes = {} /\ spent = {} /\ made = {}
    /\ req = [w \in Workers |-> Idle]
    /\ uses = [c \in Codes |-> 0]
    /\ alone = {}

deviceVars == <<device, confirmed, seen, proven>>
codeVars == <<codes, spent, uses>>

At(w, step) == req[w].at = step
Goto(w, r) == req' = [req EXCEPT ![w] = r]

-----------------------------------------------------------------------------
(* setup and qr, and the command's way to a confirmed device.              *)

(* get_or_start_device: the SELECT.  The command goes on with a device     *)
(* that is not confirmed.                                                  *)
LoadDevice(w, caller) ==
    /\ At(w, "idle")
    /\ \/ device = {} /\ Goto(w, [at |-> "create", caller |-> caller])
       \/ \E d \in device :
            /\ caller = "command" => d \notin confirmed
            /\ Goto(w, [at |-> caller, device |-> d])
    /\ UNCHANGED <<deviceVars, codeVars, made>>

(* get_or_start_device: the INSERT, which the one-to-one constraint lets   *)
(* through only once.  Mutant: without the constraint.                     *)
InsertDevice(w) ==
    /\ At(w, "create")
    /\ \E d \in Devices \ made :
         /\ device' = device \cup {d}
         /\ made' = made \cup {d}
         /\ Goto(w, [at |-> req[w].caller, device |-> d])
    /\ UNCHANGED <<confirmed, seen, proven, codeVars>>
CreateDevice_MutantRace(w) == InsertDevice(w)
CreateDevice(w) == device = {} /\ InsertDevice(w)

(* A GET, or a POST whose code is wrong: the page shows the secret.        *)
ShowSecret(w) ==
    /\ At(w, "form")
    /\ seen' = seen \cup {req[w].device}
    /\ Goto(w, Idle)
    /\ UNCHANGED <<device, confirmed, proven, codeVars, made>>

(* confirm_device with a valid code: a user has it from a secret that was  *)
(* shown, the command computes it.  Mutants: the UPDATE names the user, not*)
(* the row that was loaded; the save has no update_fields, and inserts the *)
(* row when it is gone.                                                    *)
Confirm(w, rows) ==
    /\ req[w].at \in Callers
    /\ At(w, "form") => req[w].device \in seen
    /\ confirmed' = confirmed \cup rows
    /\ proven' = proven \cup {req[w].device}
    /\ Goto(w, [at |-> "purge"])
    /\ UNCHANGED <<seen, codeVars, made>>
ConfirmDevice_MutantByUser(w) == Confirm(w, device) /\ UNCHANGED device
ConfirmDevice_MutantUpsert(w) ==
    /\ Confirm(w, {req[w].device})
    /\ device \subseteq {req[w].device}
    /\ device' = {req[w].device}
ConfirmDevice(w) ==
    /\ Confirm(w, {req[w].device})
    /\ req[w].device \in device
    /\ UNCHANGED device

-----------------------------------------------------------------------------
(* generate_backup_codes, called by setup and by the command once the      *)
(* device is confirmed and by regenerate once the password is.             *)

Regenerate(w) ==
    /\ At(w, "idle")
    /\ Goto(w, [at |-> "purge"])
    /\ UNCHANGED <<deviceVars, codeVars, made>>

(* The DELETE.  Mutant: it spares the codes that are still unused.         *)
DeleteAllBut(left) ==
    /\ codes' = left
    /\ spent' = spent \cap left
    /\ uses' = [c \in Codes |-> IF c \in left THEN uses[c] ELSE 0]

PurgeAllBut(w, left) ==
    /\ At(w, "purge")
    /\ DeleteAllBut(left)
    /\ Goto(w, [at |-> "fill", left |-> CodeCount])
    /\ UNCHANGED <<deviceVars, made>>
Purge_MutantUsedOnly(w) == PurgeAllBut(w, codes \ spent)
Purge(w) == PurgeAllBut(w, {})

(* One INSERT of the loop.                                                 *)
InsertCode(w) ==
    /\ At(w, "fill")
    /\ \E c \in Codes \ made :
         /\ codes' = codes \cup {c}
         /\ made' = made \cup {c}
         /\ Goto(w, IF req[w].left = 1 THEN [at |-> "show"]
                      ELSE [at |-> "fill", left |-> req[w].left - 1])
    /\ UNCHANGED <<deviceVars, spent, uses>>

(* The response shows the new codes; the command does not.                 *)
ShowCodes(w) ==
    /\ At(w, "show")
    /\ Goto(w, Idle)
    /\ UNCHANGED <<deviceVars, codeVars, made>>

-----------------------------------------------------------------------------
(* disable, once the password is confirmed: two DELETEs.                   *)

Disable(w) ==
    /\ At(w, "idle")
    /\ Goto(w, [at |-> "dropDevice"])
    /\ UNCHANGED <<deviceVars, codeVars, made>>

DropDevice(w) ==
    /\ At(w, "dropDevice")
    /\ device' = {}
    /\ confirmed' = confirmed \ device
    /\ Goto(w, [at |-> "dropCodes"])
    /\ UNCHANGED <<seen, proven, codeVars, made>>

DropCodes(w) ==
    /\ At(w, "dropCodes")
    /\ DeleteAllBut({})
    /\ Goto(w, Idle)
    /\ UNCHANGED <<deviceVars, made>>

-----------------------------------------------------------------------------
(* challenge: consume_backup_code.                                         *)

(* The SELECT.  Mutant: used_at is not part of it.                         *)
FindAmong(w, found) ==
    /\ At(w, "idle")
    /\ \E c \in found : Goto(w, [at |-> "spend", code |-> c])
    /\ UNCHANGED <<deviceVars, codeVars, made>>
FindCode_MutantUsed(w) == FindAmong(w, codes)
FindCode(w) == FindAmong(w, codes \ spent)

(* The UPDATE.  Mutant: save() without update_fields, which inserts the    *)
(* row when it is gone.                                                    *)
Spend(w) ==
    /\ At(w, "spend")
    /\ codes' = codes \cup {req[w].code}
    /\ spent' = spent \cup {req[w].code}
    /\ uses' = [uses EXCEPT ![req[w].code] = @ + 1]
    /\ Goto(w, Idle)
    /\ UNCHANGED <<deviceVars, made>>
SpendCode_MutantUpsert(w) == Spend(w)
SpendCode(w) == Spend(w) /\ req[w].code \in codes

(* IntegrityError, DatabaseError, or the worker is killed.                 *)
Abort(w) ==
    /\ ~At(w, "idle")
    /\ Goto(w, Idle)
    /\ UNCHANGED <<deviceVars, codeVars, made>>

Step(w) ==
    \/ \E caller \in Callers : LoadDevice(w, caller)
    \/ CreateDevice(w) \/ ShowSecret(w) \/ ConfirmDevice(w)
    \/ Regenerate(w) \/ Purge(w) \/ InsertCode(w) \/ ShowCodes(w)
    \/ Disable(w) \/ DropDevice(w) \/ DropCodes(w)
    \/ FindCode(w) \/ SpendCode(w)
    \/ Abort(w)

(* A generation is alone from its DELETE on, until another request comes   *)
(* to write codes or does so.                                              *)
Writing(w) == req[w].at \in {"purge", "fill", "dropDevice", "dropCodes"}
Watch ==
    alone' = {w \in Workers :
                /\ w \in alone \/ At(w, "purge")
                /\ At(w, "fill")' \/ At(w, "show")'
                /\ \A v \in Workers \ {w} : ~Writing(v) /\ ~Writing(v)'}

Next == (\E w \in Workers : Step(w)) /\ Watch

Spec == Init /\ [][Next]_vars

-----------------------------------------------------------------------------

(* mfa/models.py: a device counts "only once confirmed is True, which is   *)
(* set after the user's authenticator app produces a valid code".  The     *)
(* device that gates sign-in is one for whose own secret a code was        *)
(* entered, even if it was disabled and started anew in between.           *)
ConfirmedProven == confirmed \subseteq proven \cap device

(* A code that was replaced or removed is never stored or accepted again,  *)
(* by requests that found it before either.                                *)
ReplacedStayDead ==
    [][\A c \in (made \cap Codes) \ codes : c \notin codes' /\ uses'[c] = uses[c]]_vars

(* Only requests that overlap the first use of a code can use it too.      *)
Spending(c) == {w \in Workers : At(w, "spend") /\ req[w].code = c}
UsesBounded ==
    \A c \in Codes :
        /\ c \notin spent => uses[c] = 0
        /\ uses[c] + Cardinality(Spending(c)) <= Cardinality(Workers)

(* However generations interleave and die, a user never has more than one  *)
(* batch per worker: the DELETE of any of them clears all that went before.*)
CodesBounded == Cardinality(codes) <= CodeCount * Cardinality(Workers)

(* And one that nothing disturbs leaves exactly the batch that it shows,   *)
(* whatever requests that died before it left behind.                      *)
BatchComplete ==
    \A w \in alone : At(w, "show") => Cardinality(codes) = CodeCount

(* Statement by statement, and with requests that die between any two, the *)
(* rows keep the promise of SecondFactor: a device that was removed never  *)
(* gates again though requests still hold it, codes are withdrawn together *)
(* and for good, and count once per worker, in one batch per worker.       *)
Offered == made \cap Codes
Removed == (made \cap Devices) \ device

Promise == INSTANCE SecondFactor WITH
    gate <- confirmed, removed <- Removed, offered <- Offered, valid <- codes,
    MaxUses <- Cardinality(Workers), MaxCodes <- CodeCount * Cardinality(Workers)
KeepsPromise == Promise!Spec

(* README: "8 single-use backup codes"; mfa/services.py: "Replace any      *)
(* existing backup codes for the user and return the new plain codes."     *)
OneBatch == Cardinality(codes) <= CodeCount
=============================================================================
