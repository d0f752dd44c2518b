------------------------ MODULE LoginThrottleProofs ------------------------
(***************************************************************************)
(* Theorems about the lockout rule and the throttle it puts on requests.   *)
(***************************************************************************)
EXTENDS LoginThrottle, FiniteSetTheorems, TLAPS

AtMost(log, m, b) == {i \in 1..m : log[i] <= b}

(* In an ordered log the first m rows hold n rows of age at most b exactly *)
(* when the n-th row is one of them.                                       *)
LEMMA CountLemma ==
    ASSUME NEW log \in Seq(Nat), Ordered(log),
           NEW m \in 0..Len(log), NEW b \in Nat, NEW n \in Nat \ {0}
    PROVE  /\ IsFiniteSet(AtMost(log, m, b))
           /\ Cardinality(AtMost(log, m, b)) \in Nat
           /\ Cardinality(AtMost(log, m, b)) >= n <=> n <= m /\ log[n] <= b
<1> DEFINE S == {i \in 1..m : log[i] <= b}
<1>1. \A k \in Nat : IsFiniteSet(1..k) /\ Cardinality(1..k) = k
  BY FS_Interval, SMT
<1>2. m \in Nat /\ S \subseteq 1..m
  OBVIOUS
<1>3. IsFiniteSet(S) /\ Cardinality(S) \in Nat /\ Cardinality(S) <= m
  <2> HIDE DEF S
  <2>1. IsFiniteSet(S) /\ Cardinality(S) <= Cardinality(1..m)
    BY <1>1, <1>2, FS_Subset
  <2>2. QED
    BY <1>1, <1>2, <2>1, FS_CardinalityType
<1>4. ASSUME n <= m, log[n] <= b PROVE Cardinality(S) >= n
  <2>1. \A i \in 1..n : i \in DOMAIN log /\ n \in DOMAIN log /\ i <= n
    BY <1>4
  <2>2. \A i \in 1..n : log[i] <= log[n] /\ log[i] \in Nat /\ log[n] \in Nat
    BY <2>1 DEF Ordered
  <2>3. 1..n \subseteq S
    BY <1>4, <2>2
  <2> HIDE DEF S
  <2>4. Cardinality(1..n) <= Cardinality(S)
    BY <2>3, <1>3, FS_Subset
  <2>5. QED
    BY <2>4, <1>1
<1>5. ASSUME n > m PROVE ~(Cardinality(S) >= n)
  <2> HIDE DEF S
  <2>1. QED
    BY <1>2, <1>3, <1>5
<1>6. ASSUME n <= m, ~(log[n] <= b) PROVE ~(Cardinality(S) >= n)
  <2>1. \A i \in n..m : i \in DOMAIN log /\ n \in DOMAIN log /\ n <= i
    BY <1>6
  <2>2. \A i \in n..m : log[n] <= log[i] /\ log[i] \in Nat /\ log[n] \in Nat
    BY <2>1 DEF Ordered
  <2>3. S \subseteq 1..(n - 1)
    BY <1>6, <2>2
  <2> HIDE DEF S
  <2>4. n - 1 \in Nat
    OBVIOUS
  <2>5. Cardinality(S) <= Cardinality(1..(n - 1))
    BY <2>3, <2>4, <1>1, FS_Subset
  <2>6. Cardinality(1..(n - 1)) = n - 1
    BY <2>4, <1>1
  <2>7. QED
    BY <2>5, <2>6, <1>3
<1>7. (n <= m /\ log[n] <= b) \/ n > m \/ (n <= m /\ ~(log[n] <= b))
  OBVIOUS
<1> HIDE DEF S
<1>8. Cardinality(S) >= n <=> n <= m /\ log[n] <= b
  BY <1>4, <1>5, <1>6, <1>7, <1>2
<1>9. QED
  BY <1>3, <1>8 DEF S, AtMost

(* is_locked on an ordered log looks at two rows only: the newest and the  *)
(* MaxAttempts-th newest.                                                  *)
LEMMA LockedAt ==
    ASSUME NEW log \in Seq(Nat), Ordered(log)
    PROVE  IsLocked(log) <=> /\ MaxAttempts <= Len(log)
                             /\ log[MaxAttempts] <= Window
                             /\ log[1] <= Duration
<1> USE LockoutAssumption
<1> DEFINE m == IF Len(log) <= MaxAttempts + SliceExtra
                  THEN Len(log) ELSE MaxAttempts + SliceExtra
<1>1. /\ m \in 0..Len(log)
      /\ Horizon \in Nat
      /\ Window <= Horizon
      /\ MaxAttempts <= m <=> MaxAttempts <= Len(log)
  BY DEF Horizon
<1>2. Recent(log) = AtMost(log, m, Horizon)
  BY DEF Recent, Matching, AtMost
<1>3. {i \in Recent(log) : log[i] <= Window} = AtMost(log, m, Window)
  <2>1. \A i \in 1..m : log[i] \in Nat
    OBVIOUS
  <2>2. QED
    BY <1>1, <1>2, <2>1 DEF AtMost
<1> HIDE DEF m
<1>4. Cardinality(AtMost(log, m, Horizon)) >= MaxAttempts
        <=> MaxAttempts <= m /\ log[MaxAttempts] <= Horizon
  BY <1>1, CountLemma
<1>5. Cardinality(AtMost(log, m, Window)) >= MaxAttempts
        <=> MaxAttempts <= m /\ log[MaxAttempts] <= Window
  BY <1>1, CountLemma
<1>6. MaxAttempts <= Len(log) => log[MaxAttempts] \in Nat
  OBVIOUS
<1>7. IsLocked(log) <=> /\ Cardinality(AtMost(log, m, Horizon)) >= MaxAttempts
                        /\ log[1] <= Duration
                        /\ Cardinality(AtMost(log, m, Window)) >= MaxAttempts
  BY <1>2, <1>3 DEF IsLocked
<1>8. QED
  BY <1>1, <1>4, <1>5, <1>6, <1>7

(* The failures inside the window, counted the same way.                   *)
LEMMA WindowCount ==
    ASSUME NEW log \in Seq(Nat), Ordered(log), NEW n \in Nat \ {0}
    PROVE  /\ IsFiniteSet(InWindow(log))
           /\ Cardinality(InWindow(log)) \in Nat
           /\ Cardinality(InWindow(log)) >= n <=> n <= Len(log) /\ log[n] <= Window
<1>1. InWindow(log) = AtMost(log, Len(log), Window)
  BY DEF InWindow, AtMost
<1>2. Len(log) \in 0..Len(log) /\ Window \in Nat
  BY LockoutAssumption
<1>3. QED
  BY <1>1, <1>2, CountLemma

(* is_locked, with its query, order, slice and last_failure test, answers  *)
(* what the three settings say, whatever their values.                     *)
THEOREM LockedIsRule ==
    ASSUME NEW log \in Seq(Nat), Ordered(log)
    PROVE  IsLocked(log) <=> LockRule(log)
<1> USE LockoutAssumption
<1>1. Cardinality(InWindow(log)) >= MaxAttempts
        <=> MaxAttempts <= Len(log) /\ log[MaxAttempts] <= Window
  BY WindowCount
<1>2. ASSUME MaxAttempts <= Len(log)
      PROVE  (\E i \in DOMAIN log : log[i] <= Duration) <=> log[1] <= Duration
  <2>1. 1 \in DOMAIN log /\ \A i \in DOMAIN log : log[1] <= log[i] /\ log[i] \in Nat
    BY <1>2 DEF Ordered
  <2>2. QED
    BY <2>1
<1>3. QED
  BY <1>1, <1>2, LockedAt DEF LockRule

(* With Window <= Duration, as in the shipped settings (15 and 30), the    *)
(* duration has no influence: an address is locked exactly while the       *)
(* window holds MaxAttempts failures.                                      *)
THEOREM DurationHasNoEffect ==
    ASSUME NEW log \in Seq(Nat), Ordered(log), Window <= Duration
    PROVE  IsLocked(log) <=> Cardinality(InWindow(log)) >= MaxAttempts
<1> USE LockoutAssumption
<1>1. ASSUME MaxAttempts <= Len(log) PROVE log[1] <= log[MaxAttempts] /\ log[1] \in Nat
                                            /\ log[MaxAttempts] \in Nat
  BY <1>1 DEF Ordered
<1>2. QED
  BY <1>1, LockedAt, WindowCount

-----------------------------------------------------------------------------

(* The log after a step: unchanged, one new row at its head, or aged.      *)
Aged(old, new) ==
    \E n \in 0..Len(old) :
        /\ \A i \in 1..n : old[i] < MaxAge
        /\ \A i \in (n + 1)..Len(old) : old[i] >= MaxAge
        /\ new = [i \in 1..n |-> old[i] + 1]

LEMMA LogIsNat ==
    ASSUME TypeOK
    PROVE  failures \in Seq(Nat) /\ Ordered(failures) /\ MaxAge \in Nat
<1>1. Horizon \in Nat
  BY LockoutAssumption DEF Horizon
<1>2. MaxAge \in Nat /\ 0..MaxAge \subseteq Nat
  BY <1>1 DEF MaxAge
<1>3. QED
  BY <1>2 DEF TypeOK

(* The step adds a failure row.                                            *)
Added == failures' = <<0>> \o failures

(* A new failure keeps the log typed and ordered and shifts its rows.      *)
LEMMA NewRow ==
    ASSUME TypeOK, Added
    PROVE  /\ failures' \in Seq(0..MaxAge)
           /\ Ordered(failures')
           /\ Len(failures') = Len(failures) + 1
           /\ failures'[1] = 0
           /\ \A i \in 2..Len(failures') : failures'[i] = failures[i - 1]
<1>1. MaxAge \in Nat /\ failures \in Seq(0..MaxAge) /\ failures \in Seq(Nat)
  BY LogIsNat DEF TypeOK
<1>2. <<0>> \in Seq(0..MaxAge) /\ Len(<<0>>) = 1
  BY <1>1
<1>3. /\ failures' \in Seq(0..MaxAge)
      /\ Len(failures') = Len(failures) + 1
      /\ failures'[1] = 0
      /\ \A i \in 2..Len(failures') : failures'[i] = failures[i - 1]
  BY <1>1, <1>2 DEF Added
<1>4. Ordered(failures')
  BY <1>1, <1>3 DEF Ordered, TypeOK, Added
<1>5. QED
  BY <1>3, <1>4

(* Ageing keeps the log typed and ordered; no row grows younger.           *)
LEMMA AgedRows ==
    ASSUME TypeOK, Aged(failures, failures')
    PROVE  /\ failures' \in Seq(0..MaxAge)
           /\ Ordered(failures')
           /\ Len(failures') <= Len(failures)
           /\ \A i \in 1..Len(failures') : failures'[i] = failures[i] + 1
<1>1. MaxAge \in Nat /\ failures \in Seq(0..MaxAge) /\ failures \in Seq(Nat)
  BY LogIsNat DEF TypeOK
<1>2. PICK n \in 0..Len(failures) :
        /\ \A i \in 1..n : failures[i] < MaxAge
        /\ failures' = [i \in 1..n |-> failures[i] + 1]
  BY DEF Aged
<1>3. \A i \in 1..n : failures[i] + 1 \in 0..MaxAge
  BY <1>1, <1>2
<1>4. failures' \in Seq(0..MaxAge) /\ Len(failures') = n
  BY <1>1, <1>2, <1>3
<1>5. ASSUME NEW i \in DOMAIN failures', NEW j \in DOMAIN failures', i <= j
      PROVE  failures'[i] <= failures'[j]
  <2>1. i \in 1..n /\ j \in 1..n /\ i \in DOMAIN failures /\ j \in DOMAIN failures
    BY <1>1, <1>4
  <2>2. failures[i] <= failures[j] /\ failures[i] \in Nat /\ failures[j] \in Nat
    BY <1>1, <1>5, <2>1 DEF Ordered, TypeOK
  <2>3. failures'[i] = failures[i] + 1 /\ failures'[j] = failures[j] + 1
    BY <1>2, <2>1
  <2>4. QED
    BY <2>2, <2>3
<1>6. QED
  BY <1>2, <1>4, <1>5 DEF Ordered

(* Every step does one of four things to the log and the requests.         *)
LEMMA Steps ==
    ASSUME TypeOK, [Next]_vars
    PROVE  \/ UNCHANGED vars
           \/ \E w \in Workers, view \in Views :
                /\ ~Locked
                /\ failures' = failures
                /\ request' = [request EXCEPT ![w] = view]
           \/ \E w \in Workers :
                /\ failures' = failures
                /\ request' = [request EXCEPT ![w] = "idle"]
           \/ \E w \in Workers :
                /\ Locked
                /\ failures' = failures
                /\ request[w] = "idle"
                /\ request' = [request EXCEPT ![w] = "refused"]
           \/ \E w \in Workers :
                /\ request[w] \in Views
                /\ Added
                /\ request' = [request EXCEPT ![w] = "idle"]
           \/ Tick
<1>1. ASSUME NEW w \in Workers, NEW view \in Views, Check(w, view)
      PROVE  \/ /\ ~Locked
                /\ failures' = failures
                /\ request' = [request EXCEPT ![w] = view]
             \/ /\ Locked
                /\ failures' = failures
                /\ request[w] = "idle"
                /\ request' = [request EXCEPT ![w] = "refused"]
  BY <1>1 DEF Check, Ask
<1>2. ASSUME NEW w \in Workers, Refuse(w)
      PROVE  failures' = failures /\ request' = [request EXCEPT ![w] = "idle"]
  BY <1>2 DEF Refuse, Answer, record_attempt, FailureOutcomes
<1>3. ASSUME NEW w \in Workers, LoginView(w) \/ Challenge(w)
      PROVE  /\ request[w] \in Views
             /\ Added \/ failures' = failures
             /\ request' = [request EXCEPT ![w] = "idle"]
  BY <1>3 DEF LoginView, Challenge, Answer, record_attempt, Views, Added
<1>4. ASSUME NEW w \in Workers, EndWithoutRow(w)
      PROVE  failures' = failures /\ request' = [request EXCEPT ![w] = "idle"]
  BY <1>4 DEF EndWithoutRow
<1>5. QED
  BY <1>1, <1>2, <1>3, <1>4 DEF Next, vars

(* No step leaves the types.                                               *)
LEMMA TypeStep == TypeOK /\ [Next]_vars => TypeOK'
<1> SUFFICES ASSUME TypeOK, [Next]_vars
             PROVE  TypeOK'
  OBVIOUS
<1>1. request' \in [Workers -> Views \cup {"idle", "refused"}]
  BY Steps DEF TypeOK, vars, Tick
<1>2. \/ failures' = failures
      \/ Added
      \/ Aged(failures, failures')
  BY Steps DEF vars, Tick, Aged
<1>3. failures' \in Seq(0..MaxAge) /\ Ordered(failures')
  BY <1>2, NewRow, AgedRows DEF TypeOK
<1>4. QED
  BY <1>1, <1>3 DEF TypeOK

(* Type correctness: ages stay in range, the log stays newest first, every *)
(* request is in one of its four places.                                   *)
THEOREM TypeCorrect == Spec => []TypeOK
<1>1. Init => TypeOK
  BY DEF Init, TypeOK, Ordered
<1>2. QED
  BY <1>1, TypeStep, PTL DEF Spec

(* In every reachable state is_locked answers what the settings promise.   *)
THEOREM LockCorrect == Spec => []LockMatchesRule
<1>1. TypeOK => LockMatchesRule
  BY LogIsNat, LockedIsRule DEF LockMatchesRule, Locked
<1>2. QED
  BY <1>1, TypeCorrect, PTL

(* What a step can do to the number of failures in the window.             *)
LEMMA WindowGrowth ==
    ASSUME TypeOK, [Next]_vars
    PROVE  /\ Added =>
                Cardinality(InWindow(failures')) <= Cardinality(InWindow(failures)) + 1
           /\ Tick => Cardinality(InWindow(failures')) <= Cardinality(InWindow(failures))
           /\ Cardinality(InWindow(failures)) \in Nat
           /\ Cardinality(InWindow(failures')) \in Nat
<1> DEFINE c == Cardinality(InWindow(failures))
           d == Cardinality(InWindow(failures'))
<1>1. failures \in Seq(Nat) /\ Ordered(failures) /\ Window \in Nat
  BY LogIsNat, LockoutAssumption
<1>2. failures' \in Seq(Nat) /\ Ordered(failures')
  BY LogIsNat, TypeStep DEF TypeOK
<1>3. c \in Nat /\ \A n \in Nat \ {0} : c >= n <=> n <= Len(failures) /\ failures[n] <= Window
  BY <1>1, WindowCount
<1>4. d \in Nat /\ \A n \in Nat \ {0} : d >= n <=> n <= Len(failures') /\ failures'[n] <= Window
  BY <1>2, WindowCount
<1> HIDE DEF c, d
<1>5. ASSUME Added, d > c + 1 PROVE FALSE
  <2>1. c + 2 <= Len(failures') /\ failures'[c + 2] <= Window
    BY <1>3, <1>4, <1>5
  <2>2. c + 1 <= Len(failures) /\ failures'[c + 2] = failures[c + 1]
    BY <1>3, <1>5, <2>1, NewRow
  <2>3. QED
    BY <1>3, <2>1, <2>2
<1>6. ASSUME Tick, d > c PROVE FALSE
  <2>1. c + 1 <= Len(failures') /\ failures'[c + 1] <= Window
    BY <1>3, <1>4, <1>6
  <2>2. c + 1 <= Len(failures) /\ failures'[c + 1] = failures[c + 1] + 1
    BY <1>1, <1>2, <1>3, <1>6, <2>1, AgedRows DEF Tick, Aged
  <2>3. failures[c + 1] <= Window
    BY <1>1, <1>3, <2>1, <2>2
  <2>4. QED
    BY <1>3, <2>2, <2>3
<1>7. QED
  BY <1>3, <1>4, <1>5, <1>6 DEF c, d

(* The throttle: with Window <= Duration, the failures of a window and the *)
(* requests past the check together never exceed the threshold by more     *)
(* than the number of other workers, for every threshold and pool.         *)
THEOREM FailuresBound == Spec => []FailuresBounded
<1> DEFINE Fails == Cardinality(InWindow(failures))
           Inflight == Cardinality(Unlocked)
           Pool == Cardinality(Workers)
<1>1. Init => FailuresBounded
  <2> SUFFICES ASSUME Init, Window <= Duration
               PROVE  Fails + Inflight <= MaxAttempts - 1 + Pool
    BY DEF FailuresBounded
  <2>1. InWindow(failures) = {} /\ Unlocked = {}
    BY DEF Init, InWindow, Unlocked, Views
  <2>2. Fails = 0 /\ Inflight = 0
    BY <2>1, FS_EmptySet
  <2>3. QED
    BY <2>2, FS_CardinalityType, WorkersAssumption, LockoutAssumption
<1>2. TypeOK /\ FailuresBounded /\ [Next]_vars => FailuresBounded'
  <2> SUFFICES ASSUME TypeOK, FailuresBounded, [Next]_vars, Window <= Duration
               PROVE  Fails' + Inflight' <= MaxAttempts - 1 + Pool
    BY DEF FailuresBounded
  <2>1. Fails + Inflight <= MaxAttempts - 1 + Pool /\ MaxAttempts \in Nat
    BY LockoutAssumption DEF FailuresBounded
  <2>2. Fails \in Nat /\ Fails' \in Nat /\ Pool \in Nat
    BY WindowGrowth, FS_CardinalityType, WorkersAssumption
  <2>3. /\ Inflight \in Nat /\ Inflight' \in Nat /\ Inflight' <= Pool
        /\ IsFiniteSet(Unlocked)
    BY FS_Subset, FS_CardinalityType, WorkersAssumption DEF Unlocked
  <2>4. CASE UNCHANGED vars
    <3>1. Fails' = Fails /\ Unlocked' = Unlocked
      BY <2>4 DEF vars, Unlocked
    <3>2. QED
      BY <3>1, <2>1
  <2>5. CASE ~Locked /\ failures' = failures
    <3>1. ~(Fails >= MaxAttempts) /\ Fails' = Fails
      BY <2>5, LogIsNat, DurationHasNoEffect DEF Locked
    <3>2. QED
      BY <3>1, <2>1, <2>2, <2>3
  <2>6. CASE failures' = failures /\ Unlocked' \subseteq Unlocked
    <3>1. Fails' = Fails /\ Inflight' <= Inflight
      BY <2>3, <2>6, FS_Subset
    <3>2. QED
      BY <3>1, <2>1, <2>2, <2>3
  <2>7. CASE \E w \in Workers : /\ request[w] \in Views
                                /\ Added
                                /\ request' = [request EXCEPT ![w] = "idle"]
    <3>1. PICK w \in Workers : /\ request[w] \in Views
                               /\ Added
                               /\ request' = [request EXCEPT ![w] = "idle"]
      BY <2>7
    <3>2. w \in Unlocked /\ Unlocked' = Unlocked \ {w}
      BY <3>1 DEF Unlocked, TypeOK, Views
    <3>3. Inflight' = Inflight - 1
      BY <2>3, <3>2, FS_RemoveElement
    <3>4. Fails' <= Fails + 1
      BY <3>1, WindowGrowth
    <3>5. QED
      BY <3>3, <3>4, <2>1, <2>2, <2>3
  <2>8. CASE Tick
    <3>1. Fails' <= Fails /\ Unlocked' = Unlocked
      BY <2>8, WindowGrowth DEF Tick, Unlocked
    <3>2. QED
      BY <3>1, <2>1, <2>2, <2>3
  <2>9. \A w \in Workers :
          request' = [request EXCEPT ![w] = "idle"] \/ request' = [request EXCEPT ![w] = "refused"]
            => Unlocked' \subseteq Unlocked
    BY DEF Unlocked, TypeOK, Views
  <2>10. QED
    BY <2>4, <2>5, <2>6, <2>7, <2>8, <2>9, Steps
<1>3. QED
  BY <1>1, <1>2, TypeCorrect, PTL DEF Spec

(* A lockout is ended by the clock alone, for every setting.               *)
THEOREM UnlockByTime == Spec => UnlockOnlyByTime
<1>1. TypeOK /\ [Next]_vars => [Locked /\ ~Locked' => UNCHANGED request /\ failures' # failures]_vars
  <2> SUFFICES ASSUME TypeOK, [Next]_vars, Locked, ~Locked'
               PROVE  UNCHANGED request /\ failures' # failures
    OBVIOUS
  <2>1. failures' # failures
    BY DEF Locked
  <2>2. CASE Added
    <3>1. /\ failures \in Seq(Nat) /\ Ordered(failures)
          /\ failures' \in Seq(Nat) /\ Ordered(failures')
      BY LogIsNat, TypeStep DEF TypeOK
    <3>2. MaxAttempts <= Len(failures) /\ failures[MaxAttempts] <= Window
      BY <3>1, LockedAt DEF Locked
    <3>3. /\ MaxAttempts <= Len(failures')
          /\ failures'[MaxAttempts] <= Window
          /\ failures'[1] <= Duration
      BY <3>1, <3>2, <2>2, NewRow, LockoutAssumption DEF Ordered, Added
    <3>4. QED
      BY <3>1, <3>3, LockedAt DEF Locked
  <2>3. QED
    BY <2>1, <2>2, Steps DEF Tick, vars
<1>2. QED
  BY <1>1, TypeCorrect, PTL DEF Spec, UnlockOnlyByTime
-----------------------------------------------------------------------------
(* The ticks left to a lockout.                                            *)

LEMMA LockedAge ==
    ASSUME NEW log \in Seq(Nat), Ordered(log), IsLocked(log)
    PROVE  log[1] \in 0..Duration
<1>1. 1 \in DOMAIN log /\ log[1] <= Duration
  BY LockedAt, LockoutAssumption
<1>2. QED
  BY <1>1, LockoutAssumption

LEMMA UnlockedFinite ==
    /\ IsFiniteSet(Unlocked) /\ Cardinality(Unlocked) \in Nat
    /\ IsFiniteSet(Unlocked') /\ Cardinality(Unlocked') \in Nat
BY WorkersAssumption, FS_Subset, FS_CardinalityType DEF Unlocked

(* Fewer requests past the check leave fewer ticks, by a whole Duration    *)
(* and one for each.                                                       *)
LEMMA Ticks ==
    ASSUME NEW u \in Nat, NEW v \in Nat, NEW d \in Nat
    PROVE  /\ (u + 1) * (d + 1) \in Int /\ (u + 1) * (d + 1) >= d + 1
           /\ v <= u => (v + 1) * (d + 1) <= (u + 1) * (d + 1)
           /\ v = u - 1 => (v + 1) * (d + 1) = (u + 1) * (d + 1) - (d + 1)
<1>1. (u + 1) * (d + 1) = u * (d + 1) + (d + 1) /\ (v + 1) * (d + 1) = v * (d + 1) + (d + 1)
  OBVIOUS
<1>2. u * (d + 1) \in Nat /\ v * (d + 1) \in Nat
  OBVIOUS
<1>3. v <= u => v * (d + 1) <= u * (d + 1)
  OBVIOUS
<1>4. v = u - 1 => v * (d + 1) = u * (d + 1) - (d + 1)
  OBVIOUS
<1>5. QED
  BY <1>1, <1>2, <1>3, <1>4

LEMMA RunsOutStep ==
    ASSUME TypeOK, TypeOK', [Next]_vars, vars' # vars, Locked, Locked'
    PROVE  /\ 0 < TicksLeft' /\ TicksLeft' <= TicksLeft
           /\ UNCHANGED request => TicksLeft' < TicksLeft
<1> DEFINE u == Cardinality(Unlocked)
           v == Cardinality(Unlocked')
           old == (u + 1) * (Duration + 1)
           new == (v + 1) * (Duration + 1)
<1>1. failures[1] \in 0..Duration /\ failures'[1] \in 0..Duration
  <2>1. /\ failures \in Seq(Nat) /\ Ordered(failures)
        /\ failures' \in Seq(Nat) /\ Ordered(failures')
    BY LogIsNat DEF TypeOK
  <2>2. QED
    BY <2>1, LockedAge DEF Locked
<1>2. u \in Nat /\ v \in Nat /\ Duration \in Nat
  BY UnlockedFinite, LockoutAssumption
<1>3. /\ old \in Int /\ new \in Int /\ new >= Duration + 1
      /\ v <= u => new <= old
      /\ v = u - 1 => new = old - (Duration + 1)
  BY <1>2, Ticks
<1>4. TicksLeft = old - failures[1] /\ TicksLeft' = new - failures'[1]
  BY DEF TicksLeft
<1> HIDE DEF old, new
<1>5. 0 < TicksLeft'
  BY <1>1, <1>2, <1>3, <1>4
<1>6. CASE failures' = failures /\ Unlocked' \subseteq Unlocked
  <2>1. v <= u
    BY <1>6, UnlockedFinite, FS_Subset
  <2>2. ~UNCHANGED request
    BY <1>6 DEF vars
  <2>3. QED
    BY <1>1, <1>2, <1>3, <1>4, <1>5, <1>6, <2>1, <2>2
<1>7. CASE \E w \in Workers : /\ request[w] \in Views
                              /\ Added
                              /\ request' = [request EXCEPT ![w] = "idle"]
  <2>1. PICK w \in Workers : /\ request[w] \in Views
                             /\ Added
                             /\ request' = [request EXCEPT ![w] = "idle"]
    BY <1>7
  <2>2. w \in Unlocked /\ Unlocked' = Unlocked \ {w} /\ ~UNCHANGED request
    BY <2>1 DEF Unlocked, TypeOK, Views
  <2>3. v = u - 1
    BY <2>2, UnlockedFinite, FS_RemoveElement
  <2>4. failures'[1] = 0
    BY <2>1, NewRow
  <2>5. QED
    BY <1>1, <1>2, <1>3, <1>4, <1>5, <2>2, <2>3, <2>4
<1>8. CASE Tick
  <2>1. Unlocked' = Unlocked
    BY <1>8 DEF Tick, Unlocked
  <2>2. failures' \in Seq(Nat) /\ MaxAttempts <= Len(failures')
    BY LogIsNat, LockedAt DEF Locked, TypeOK
  <2>3. failures'[1] = failures[1] + 1
    BY <1>8, <2>2, AgedRows, LockoutAssumption DEF Tick, Aged
  <2>4. new = old
    BY <2>1 DEF old, new
  <2>5. QED
    BY <1>1, <1>2, <1>3, <1>4, <1>5, <2>3, <2>4
<1>9. \A w \in Workers :
        request' = [request EXCEPT ![w] = "idle"] \/ request' = [request EXCEPT ![w] = "refused"]
          => Unlocked' \subseteq Unlocked
  BY DEF Unlocked, TypeOK, Views
<1>10. QED
  BY <1>6, <1>7, <1>8, <1>9, Steps

(* Whatever is requested of a locked address, the ticks left to its        *)
(* lockout do not grow, and the clock uses them up: for every setting and  *)
(* number of workers.                                                      *)
THEOREM LockRunsOut == Spec => LockoutRunsOut
<1>1. ASSUME TypeOK, TypeOK', [Next]_vars
      PROVE  [Locked /\ Locked' =>
                /\ 0 < TicksLeft' /\ TicksLeft' <= TicksLeft
                /\ UNCHANGED request => TicksLeft' < TicksLeft]_vars
  BY <1>1, RunsOutStep
<1>2. QED
  BY <1>1, TypeCorrect, PTL DEF Spec, LockoutRunsOut

-----------------------------------------------------------------------------
(* With one worker there is nothing to race, and what the settings say is  *)
(* what happens: a window never holds more failures than the threshold.    *)
THEOREM OneWorkerThreshold ==
    ASSUME Cardinality(Workers) = 1, Window <= Duration
    PROVE  Spec => [](Cardinality(InWindow(failures)) <= MaxAttempts)
<1>1. ASSUME TypeOK, FailuresBounded
      PROVE  Cardinality(InWindow(failures)) <= MaxAttempts
  <2>1. Cardinality(InWindow(failures)) \in Nat /\ Cardinality(Unlocked) \in Nat
    BY <1>1, LogIsNat, WindowCount, LockoutAssumption, UnlockedFinite
  <2>2. Cardinality(InWindow(failures)) + Cardinality(Unlocked) <= MaxAttempts - 1 + 1
    BY <1>1 DEF FailuresBounded
  <2>3. QED
    BY <2>1, <2>2, LockoutAssumption
<1>2. QED
  BY <1>1, TypeCorrect, FailuresBound, PTL

-----------------------------------------------------------------------------
(* The settings under which the docstring of is_locked is right: with a    *)
(* threshold of one failure and no duration beyond the window, an address  *)
(* is free only when every failure is older than the duration.             *)
LEMMA FreeIsOld ==
    ASSUME NEW log \in Seq(Nat), Ordered(log), MaxAttempts = 1, Duration <= Window,
           ~IsLocked(log)
    PROVE  \A i \in DOMAIN log : log[i] > Duration
<1> SUFFICES ASSUME NEW i \in DOMAIN log, ~(log[i] > Duration)
             PROVE  FALSE
  OBVIOUS
<1> USE LockoutAssumption
<1>1. log[i] \in Nat /\ log[i] <= Duration
  OBVIOUS
<1>2. 1 \in DOMAIN log /\ log[1] \in Nat /\ log[1] <= log[i]
  BY DEF Ordered
<1>3. 1 <= Len(log) /\ log[1] <= Window
  BY <1>1, <1>2
<1>4. Cardinality(InWindow(log)) >= 1
  BY <1>3, WindowCount
<1>5. QED
  BY <1>1, <1>4, LockedIsRule DEF LockRule

(* Its promise, which the run throttle_doc refutes for other settings.     *)
THEOREM DurationKept ==
    ASSUME MaxAttempts = 1, Duration <= Window
    PROVE  Spec => LockoutPersists
<1> DEFINE Old == \A i \in DOMAIN failures : failures[i] > Duration
<1>1. TypeOK => Locked \/ Old
  BY LogIsNat, FreeIsOld DEF Locked
<1>2. ASSUME (Locked \/ Old)'
      PROVE  [Locked /\ ~Locked' => \A i \in DOMAIN failures' : failures'[i] > Duration]_vars
  BY <1>2
<1>3. QED
  BY <1>1, <1>2, TypeCorrect, PTL DEF LockoutPersists
=============================================================================
