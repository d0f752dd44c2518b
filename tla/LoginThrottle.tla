--------------------------- MODULE LoginThrottle ---------------------------
(***************************************************************************)
(* The lockout under concurrent requests for one address.                  *)
(*                                                                         *)
(* login_view (accounts/views.py) and challenge (mfa/views.py) both ask    *)
(* is_locked, then check a password or a code, then write an audit row.    *)
(* Each worker process serves one request at a time and every ORM          *)
(* statement commits by itself, so any number of requests may have passed  *)
(* the check when a failure of another is written.                         *)
(***************************************************************************)
EXTENDS Lockout

CONSTANT Workers    \* gunicorn worker processes

ASSUME WorkersAssumption == IsFiniteSet(Workers) /\ Workers # {}

VARIABLES
    failures,   \* the address's failure log (see Lockout), newest first
    request     \* per worker: "idle", the view past its check, or "refused"

vars == <<failures, request>>

Views == {"login", "challenge"}

(* Rows older than this match no query, now or later: the model drops them.*)
MaxAge == Horizon + 1

TypeOK ==
    /\ failures \in Seq(0..MaxAge)
    /\ Ordered(failures)
    /\ request \in [Workers -> Views \cup {"idle", "refused"}]

Init ==
    /\ failures = <<>>
    /\ request = [w \in Workers |-> "idle"]

(* Mutants of record_attempt: rows numbered from the oldest; a success that*)
(* clears the failures before it.                                          *)
record_attempt_MutantAppend(outcome) ==
    failures' = IF outcome \in FailureOutcomes THEN Append(failures, 0) ELSE failures
record_attempt_MutantReset(outcome) ==
    failures' = IF outcome \in FailureOutcomes THEN <<0>> \o failures
                ELSE IF outcome = "success" THEN <<>> ELSE failures

(* audit.record_attempt: created_at is the time of the insert.             *)
record_attempt(outcome) ==
    failures' = IF outcome \in FailureOutcomes THEN <<0>> \o failures ELSE failures

Locked == IsLocked(failures)

(* is_locked, which a view asks before it looks at any credential.         *)
(* Mutant: the challenge does not ask.                                     *)
Ask(w, view, locked) ==
    /\ request[w] = "idle"
    /\ request' = [request EXCEPT ![w] = IF locked THEN "refused" ELSE view]
    /\ UNCHANGED failures
Check_MutantLoginOnly(w, view) == Ask(w, view, Locked /\ view = "login")
Check(w, view) == Ask(w, view, Locked)

Answer(w, outcome) ==
    /\ record_attempt(outcome)
    /\ request' = [request EXCEPT ![w] = "idle"]

Refuse(w) == request[w] = "refused" /\ Answer(w, "locked")

LoginView(w) ==
    /\ request[w] = "login"
    /\ \E outcome \in {"wrong_password", "unknown_user", "success"} : Answer(w, outcome)

Challenge(w) ==
    /\ request[w] = "challenge"
    /\ \E outcome \in {"mfa_failed", "success"} : Answer(w, outcome)

(* A request that ends without a row: the redirect from the password to    *)
(* the challenge, the challenge's page itself, an exception, or a worker   *)
(* that gunicorn kills.                                                    *)
EndWithoutRow(w) ==
    /\ request[w] # "idle"
    /\ request' = [request EXCEPT ![w] = "idle"]
    /\ UNCHANGED failures

(* The clock: rows grow older, and those past MaxAge are dropped.          *)
Tick ==
    /\ \E n \in 0..Len(failures) :
         /\ \A i \in 1..n : failures[i] < MaxAge
         /\ \A i \in (n + 1)..Len(failures) : failures[i] >= MaxAge
         /\ failures' = [i \in 1..n |-> failures[i] + 1]
    /\ UNCHANGED request

Next ==
    \/ \E w \in Workers :
         \/ \E view \in Views : Check(w, view)
         \/ Refuse(w)
         \/ LoginView(w)
         \/ Challenge(w)
         \/ EndWithoutRow(w)
    \/ Tick

Spec == Init /\ [][Next]_vars

(* Only the clock is sure to go on: no request need ever come or end.      *)
FairSpec == Spec /\ WF_vars(Tick)

-----------------------------------------------------------------------------

(* Requests past the check whose failure is not in the log yet.            *)
Unlocked == {w \in Workers : request[w] \in Views}

(* The query, its horizon, its order and its slice never change the        *)
(* verdict: is_locked answers what the three settings say, in every state  *)
(* that requests and time can produce.                                     *)
LockMatchesRule == Locked <=> LockRule(failures)

(* A window never holds more failures than the threshold allows plus one   *)
(* per other worker that had passed the check, in-flight requests counted: *)
(* the check-then-insert race of the views overshoots by that and no more. *)
FailuresBounded ==
    Window <= Duration =>
        Cardinality(InWindow(failures)) + Cardinality(Unlocked)
            <= MaxAttempts - 1 + Cardinality(Workers)

(* No request ends a lockout: not a success, not a refused attempt, not a  *)
(* failure that pushes older ones out of the slice.  Only time does.       *)
UnlockOnlyByTime == [][Locked /\ ~Locked' => UNCHANGED request /\ failures' # failures]_vars

(* How many ticks a lockout can still last: what the newest failure has    *)
(* left of Duration, and all of Duration once more for every request past  *)
(* the check, whose failure may still come.                                *)
TicksLeft == (Cardinality(Unlocked) + 1) * (Duration + 1) - failures[1]

(* Requests never lengthen a lockout: whatever they answer, the ticks left *)
(* to it do not grow, and each tick takes one.  Refused attempts and views *)
(* entered while locked would do so if they left a failure.                *)
LockoutRunsOut ==
    [][Locked /\ Locked' =>
         /\ 0 < TicksLeft' /\ TicksLeft' <= TicksLeft
         /\ UNCHANGED request => TicksLeft' < TicksLeft]_vars

(* A locked address becomes free again however often it is tried: refused  *)
(* attempts write LOCKED rows, which must not prolong the lockout.         *)
LockoutEnds == Locked ~> ~Locked

(* lockout.py's docstring: "Once the threshold is reached, the lockout     *)
(* persists for LOGIN_LOCKOUT_DURATION_MINUTES from the most recent        *)
(* failure."                                                               *)
LockoutPersists ==
    [][Locked /\ ~Locked' => \A i \in DOMAIN failures' : failures'[i] > Duration]_vars
=============================================================================
