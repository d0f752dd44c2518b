------------------------------ MODULE Lockout ------------------------------
(***************************************************************************)
(* The per-address lockout rule of apps/common/lockout.py, as operators on *)
(* a log of failures.                                                      *)
(*                                                                         *)
(* A log is the sequence of the ages (in clock ticks) of one address's     *)
(* LoginAttempt rows with a failure outcome, numbered from the newest, the *)
(* order in which order_by("-created_at") returns them.  Rows of other     *)
(* outcomes never match the query and are not in the log.                  *)
(***************************************************************************)
EXTENDS Integers, Sequences, FiniteSets

CONSTANTS
    MaxAttempts,    \* LOGIN_MAX_ATTEMPTS
    Window,         \* LOGIN_LOCKOUT_WINDOW_MINUTES
    Duration,       \* LOGIN_LOCKOUT_DURATION_MINUTES
    SliceExtra      \* the 5 of qs[: threshold + 5]

ASSUME LockoutAssumption ==
    /\ MaxAttempts \in Nat \ {0}
    /\ Window \in Nat
    /\ Duration \in Nat
    /\ SliceExtra \in Nat

(* Operators named X_Mutant... replace X, in mutation runs only.           *)
(* This one counts LOCKED rows as failures.                                *)
FailureOutcomes_MutantLocked == {"wrong_password", "mfa_failed", "unknown_user", "locked"}

FailureOutcomes == {"wrong_password", "mfa_failed", "unknown_user"}

(* The age beyond which created_at__gte excludes a row.                    *)
Horizon == IF Window >= Duration THEN Window ELSE Duration

(* The rows of the query and of its slice, by their number in the log.     *)
Matching(log) == {i \in DOMAIN log : log[i] <= Horizon}

(* Mutant: order_by("created_at"), so the slice keeps the oldest rows.     *)
Recent_MutantOldest(log) ==
    {i \in Matching(log) : i > Cardinality(Matching(log)) - (MaxAttempts + SliceExtra)}

Recent(log) == {i \in Matching(log) : i <= MaxAttempts + SliceExtra}

(* Mutant: the threshold must be exceeded, not reached.                    *)
IsLocked_MutantExceed(log) ==
    /\ Cardinality(Recent(log)) > MaxAttempts
    /\ log[1] <= Duration
    /\ Cardinality({i \in Recent(log) : log[i] <= Window}) > MaxAttempts

IsLocked(log) ==
    /\ Cardinality(Recent(log)) >= MaxAttempts
    /\ log[1] <= Duration
    /\ Cardinality({i \in Recent(log) : log[i] <= Window}) >= MaxAttempts

-----------------------------------------------------------------------------

(* What the settings promise, with no query, order or slice: MaxAttempts   *)
(* failures in the last Window ticks, one of them or a later one in the    *)
(* last Duration ticks.                                                    *)
InWindow(log) == {i \in DOMAIN log : log[i] <= Window}

LockRule(log) ==
    /\ Cardinality(InWindow(log)) >= MaxAttempts
    /\ \E i \in DOMAIN log : log[i] <= Duration

(* A log as the ordered query returns it: ages do not decrease.            *)
Ordered(log) ==
    \A i, j \in DOMAIN log : i <= j => log[i] <= log[j]
=============================================================================
