----------------------------- MODULE MfaProofs -----------------------------
(***************************************************************************)
(* Theorems about the second factor: its type, that the device which gates *)
(* sign-in is proven, that replaced codes stay dead, how often a code can  *)
(* be used, and how many codes a user can have.                            *)
(***************************************************************************)
EXTENDS Mfa, FiniteSetTheorems, TLAPS

HoldsDevice(w) == req[w].at \in Callers

(* What a request can be, by the step it is at.                            *)
LEMMA RequestCases ==
    ASSUME TypeOK, NEW w \in Workers
    PROVE  /\ At(w, "create") => req[w].caller \in Callers
           /\ HoldsDevice(w) => req[w].device \in Devices
           /\ At(w, "spend") => req[w].code \in Codes
           /\ At(w, "fill") => req[w].left \in 1..CodeCount
BY DEF TypeOK, Request, Idle, Callers, At, HoldsDevice

(* A worker's step leaves the other workers' requests alone.               *)
LEMMA OtherWorkers ==
    ASSUME TypeOK, NEW w \in Workers, Step(w)
    PROVE  /\ req' = [req EXCEPT ![w] = req'[w]]
           /\ \A v \in Workers \ {w} : req'[v] = req[v]
<1>1. \E r : Goto(w, r)
  BY DEF Step, LoadDevice, CreateDevice, InsertDevice, ShowSecret, ConfirmDevice,
       Confirm,
         Regenerate, Purge, PurgeAllBut, InsertCode, ShowCodes, Disable, DropDevice,
         DropCodes, FindCode, FindAmong, SpendCode, Spend, Abort
<1>2. QED
  BY <1>1 DEF Goto, TypeOK

-----------------------------------------------------------------------------
(* Type correctness.  It needs that a device which a request has loaded    *)
(* was made, so that the secret a page shows is that of a row.             *)

Loaded ==
    /\ device \subseteq made
    /\ \A w \in Workers : HoldsDevice(w) => req[w].device \in made

TypeInv == TypeOK /\ Loaded

LEMMA TypeInit == Init => TypeInv
BY FS_EmptySet DEF Init, TypeInv, TypeOK, Loaded, HoldsDevice, Callers, Request, Idle

LEMMA RequestStep ==
    ASSUME TypeOK, NEW w \in Workers, Step(w)
    PROVE  req' \in [Workers -> Request]
<1>1. SUFFICES ASSUME NEW r \in Request, Goto(w, r)
               PROVE  req' \in [Workers -> Request]
  <2>1. CASE \E caller \in Callers : LoadDevice(w, caller)
    <3>1. PICK caller \in Callers : LoadDevice(w, caller)
      BY <2>1
    <3>2. [at |-> "create", caller |-> caller] \in Request
      BY DEF Request
    <3>3. \A d \in device : [at |-> caller, device |-> d] \in Request
      BY DEF Request, TypeOK
    <3>4. QED
      BY <1>1, <3>1, <3>2, <3>3 DEF LoadDevice
  <2>2. CASE CreateDevice(w)
    <3>1. req[w].caller \in Callers
      BY <2>2, RequestCases DEF CreateDevice, InsertDevice
    <3>2. \A d \in Devices : [at |-> req[w].caller, device |-> d] \in Request
      BY <3>1 DEF Request
    <3>3. QED
      BY <1>1, <2>2, <3>2 DEF CreateDevice, InsertDevice
  <2>3. CASE ConfirmDevice(w) \/ Regenerate(w) \/ Disable(w) \/ DropDevice(w)
    <3>1. /\ [at |-> "purge"] \in Request /\ [at |-> "dropDevice"] \in Request
          /\ [at |-> "dropCodes"] \in Request
      BY DEF Request
    <3>2. QED
      BY <1>1, <2>3, <3>1 DEF ConfirmDevice, Confirm, Regenerate, Disable, DropDevice
  <2>4. CASE Purge(w)
    <3>1. [at |-> "fill", left |-> CodeCount] \in Request
      BY MfaAssumption DEF Request
    <3>2. QED
      BY <1>1, <2>4, <3>1 DEF Purge, PurgeAllBut
  <2>5. CASE InsertCode(w)
    <3>1. req[w].left \in 1..CodeCount
      BY <2>5, RequestCases DEF InsertCode
    <3>2. req[w].left # 1 => req[w].left - 1 \in 1..CodeCount
      BY <3>1, MfaAssumption
    <3>3. /\ [at |-> "show"] \in Request
          /\ req[w].left # 1 => [at |-> "fill", left |-> req[w].left - 1] \in Request
      BY <3>2 DEF Request
    <3>4. QED
      BY <1>1, <2>5, <3>3 DEF InsertCode
  <2>6. CASE FindCode(w)
    <3>1. \A c \in codes : [at |-> "spend", code |-> c] \in Request
      BY DEF Request, TypeOK
    <3>2. QED
      BY <1>1, <2>6, <3>1 DEF FindCode, FindAmong
  <2>7. CASE ShowSecret(w) \/ ShowCodes(w) \/ DropCodes(w) \/ SpendCode(w) \/ Abort(w)
    <3>1. Idle \in Request
      BY DEF Request
    <3>2. QED
      BY <1>1, <2>7, <3>1 DEF ShowSecret, ShowCodes, DropCodes, SpendCode, Spend, Abort
  <2>8. QED
    BY <2>1, <2>2, <2>3, <2>4, <2>5, <2>6, <2>7 DEF Step
<1>2. QED
  BY <1>1 DEF Goto, TypeOK

LEMMA RowsStep ==
    ASSUME TypeInv, NEW w \in Workers, Step(w)
    PROVE  /\ device' \subseteq Devices /\ Cardinality(device') <= 1
           /\ confirmed' \subseteq Devices
           /\ seen' \cup proven' \subseteq made' \cap Devices
           /\ codes' \subseteq made' \cap Codes
           /\ spent' \subseteq codes'
           /\ uses' \in [Codes -> Nat]
           /\ device' \subseteq made' /\ made \subseteq made'
<1>1. CASE CreateDevice(w)
  <2>1. PICK d \in Devices : device' = {d} /\ made' = made \cup {d}
    BY <1>1 DEF CreateDevice, InsertDevice
  <2>2. Cardinality(device') <= 1
    BY <2>1, FS_Singleton
  <2>3. QED
    BY <1>1, <2>1, <2>2 DEF CreateDevice, InsertDevice, codeVars, TypeInv, TypeOK,
         Loaded
<1>2. CASE ShowSecret(w) \/ ConfirmDevice(w)
  <2>1. HoldsDevice(w) /\ req[w].device \in made \cap Devices
    BY <1>2, RequestCases
       DEF ShowSecret, ConfirmDevice, Confirm, At, Callers, HoldsDevice, TypeInv, Loaded
  <2>2. QED
    BY <1>2, <2>1 DEF ShowSecret, ConfirmDevice, Confirm, codeVars, TypeInv, TypeOK,
         Loaded
<1>3. CASE InsertCode(w)
  BY <1>3 DEF InsertCode, deviceVars, TypeInv, TypeOK, Loaded
<1>4. CASE Purge(w) \/ DropCodes(w)
  BY <1>4 DEF Purge, PurgeAllBut, DropCodes, DeleteAllBut, deviceVars, TypeInv, TypeOK,
       Loaded
<1>5. CASE DropDevice(w)
  BY <1>5, FS_EmptySet DEF DropDevice, codeVars, TypeInv, TypeOK, Loaded
<1>6. CASE SpendCode(w)
  BY <1>6 DEF SpendCode, Spend, deviceVars, TypeInv, TypeOK, Loaded
<1>7. CASE UNCHANGED <<deviceVars, codeVars, made>>
  BY <1>7 DEF deviceVars, codeVars, TypeInv, TypeOK, Loaded
<1>8. QED
  BY <1>1, <1>2, <1>3, <1>4, <1>5, <1>6, <1>7
     DEF Step, LoadDevice, Regenerate, ShowCodes, Disable, FindCode, FindAmong, Abort

LEMMA LoadedStep ==
    ASSUME TypeInv, NEW w \in Workers, Step(w)
    PROVE  Loaded'
<1>1. ASSUME NEW v \in Workers, HoldsDevice(v)' PROVE req'[v].device \in made'
  <2>1. CASE v # w
    BY <1>1, <2>1, OtherWorkers, RowsStep DEF HoldsDevice, TypeInv, Loaded
  <2>2. CASE v = w
    <3>1. CASE \E caller \in Callers : LoadDevice(w, caller)
      BY <1>1, <2>2, <3>1 DEF LoadDevice, Goto, HoldsDevice, Callers, TypeInv, TypeOK,
           Loaded
    <3>2. CASE CreateDevice(w)
      BY <2>2, <3>2 DEF CreateDevice, InsertDevice, Goto, TypeInv, TypeOK
    <3>3. CASE ~CreateDevice(w) /\ ~\E caller \in Callers : LoadDevice(w, caller)
      BY <1>1, <2>2, <3>3
         DEF Step, ShowSecret, ConfirmDevice, Confirm, Regenerate, Purge, PurgeAllBut,
             InsertCode, ShowCodes, Disable, DropDevice, DropCodes, FindCode, FindAmong,
             SpendCode, Spend, Abort, Goto, Idle, HoldsDevice, Callers, TypeInv, TypeOK
    <3>4. QED
      BY <3>1, <3>2, <3>3
  <2>3. QED
    BY <2>1, <2>2
<1>2. QED
  BY <1>1, RowsStep DEF Loaded

LEMMA TypeNext == ASSUME TypeInv, [Next]_vars PROVE TypeInv'
<1>1. CASE Next
  <2>1. PICK w \in Workers : Step(w)
    BY <1>1 DEF Next
  <2>2. alone' \subseteq Workers
    BY <1>1 DEF Next, Watch
  <2>3. QED
    BY <2>1, <2>2, RequestStep, RowsStep, LoadedStep DEF TypeInv, TypeOK
<1>2. CASE UNCHANGED vars
  BY <1>2 DEF vars, TypeInv, TypeOK, Loaded, HoldsDevice
<1>3. QED
  BY <1>1, <1>2

(* The rows, the history and every request in flight have their types, and *)
(* the user never has two devices.                                         *)
THEOREM TypeCorrect == Spec => []TypeOK
<1>1. Spec => []TypeInv
  BY TypeInit, TypeNext, PTL DEF Spec
<1>2. TypeInv => TypeOK
  BY DEF TypeInv
<1>3. QED
  BY <1>1, <1>2, PTL

-----------------------------------------------------------------------------
(* The device.                                                             *)

LEMMA ProvenNext == ASSUME ConfirmedProven, [Next]_vars PROVE ConfirmedProven'
<1>1. CASE Next
  <2>1. PICK w \in Workers : Step(w)
    BY <1>1 DEF Next
  <2>2. CASE ConfirmDevice(w)
    BY <2>2 DEF ConfirmDevice, Confirm, ConfirmedProven
  <2>3. CASE CreateDevice(w)
    BY <2>3 DEF CreateDevice, InsertDevice, ConfirmedProven
  <2>4. CASE DropDevice(w)
    BY <2>4 DEF DropDevice, ConfirmedProven
  <2>5. CASE UNCHANGED <<device, confirmed, proven>>
    BY <2>5 DEF ConfirmedProven
  <2>6. QED
    BY <2>1, <2>2, <2>3, <2>4, <2>5
       DEF Step, LoadDevice, ShowSecret, Regenerate, Purge, PurgeAllBut, InsertCode,
           ShowCodes,
           Disable, DropCodes, FindCode, FindAmong, SpendCode, Spend, Abort, deviceVars
<1>2. CASE UNCHANGED vars
  BY <1>2 DEF vars, ConfirmedProven
<1>3. QED
  BY <1>1, <1>2

(* However setups, disabling and the command interleave, a device counts   *)
(* only after a valid code for its own secret was entered.                 *)
THEOREM SecretIsProven == Spec => []ConfirmedProven
<1>1. Init => ConfirmedProven
  BY DEF Init, ConfirmedProven
<1>2. QED
  BY <1>1, ProvenNext, PTL DEF Spec

-----------------------------------------------------------------------------
(* What one step does to the codes and to the request that does it.        *)

LEMMA CodeSteps ==
    ASSUME TypeOK, NEW w \in Workers, Step(w)
    PROVE  \/ UNCHANGED codeVars /\ req'[w].at \notin {"fill", "show"}
           \/ Purge(w) \/ InsertCode(w) \/ DropCodes(w) \/ SpendCode(w)
<1>1. CASE \E caller \in Callers : LoadDevice(w, caller)
  BY <1>1 DEF LoadDevice, Goto, Callers, TypeOK
<1>2. CASE CreateDevice(w)
  <2>1. req[w].caller \in Callers
    BY <1>2, RequestCases DEF CreateDevice, InsertDevice
  <2>2. UNCHANGED codeVars
    BY <1>2 DEF CreateDevice, InsertDevice
  <2>3. QED
    BY <1>2, <2>1, <2>2 DEF CreateDevice, InsertDevice, Goto, Callers, TypeOK
<1>3. CASE ShowSecret(w) \/ ConfirmDevice(w) \/ Regenerate(w) \/ Disable(w) \/ DropDevice(w)
  BY <1>3 DEF ShowSecret, ConfirmDevice, Confirm, Regenerate, Disable, DropDevice,
       Goto, Idle,
       TypeOK
<1>4. CASE ShowCodes(w) \/ FindCode(w) \/ Abort(w)
  BY <1>4 DEF ShowCodes, FindCode, FindAmong, Abort, Goto, Idle, TypeOK
<1>5. QED
  BY <1>1, <1>2, <1>3, <1>4 DEF Step

(* No row of a code that was ever made comes back.                         *)
LEMMA MadeOnce ==
    ASSUME TypeOK, NEW w \in Workers, Step(w), NEW c \in made \cap Codes, c \notin codes
    PROVE  c \notin codes'
BY CodeSteps DEF Purge, PurgeAllBut, DropCodes, InsertCode, SpendCode, Spend,
     DeleteAllBut,
       codeVars

-----------------------------------------------------------------------------
(* How often a code is used.                                               *)

UnspentUnused == \A c \in Codes : c \notin spent => uses[c] = 0

LEMMA UnspentUnusedStep ==
    ASSUME TypeOK, UnspentUnused, NEW w \in Workers, Step(w)
    PROVE  UnspentUnused'
<1>1. CASE Purge(w) \/ DropCodes(w)
  BY <1>1 DEF Purge, PurgeAllBut, DropCodes, DeleteAllBut, UnspentUnused
<1>2. CASE InsertCode(w)
  BY <1>2 DEF InsertCode, UnspentUnused
<1>3. CASE SpendCode(w)
  <2>1. req[w].code \in Codes
    BY <1>3, RequestCases DEF SpendCode, Spend
  <2>2. QED
    BY <1>3, <2>1 DEF SpendCode, Spend, UnspentUnused, TypeOK
<1>4. CASE UNCHANGED codeVars
  BY <1>4 DEF codeVars, UnspentUnused
<1>5. QED
  BY <1>1, <1>2, <1>3, <1>4, CodeSteps

LEMMA UnspentUnusedNext ==
    ASSUME TypeOK, UnspentUnused, [Next]_vars
    PROVE  UnspentUnused'
BY UnspentUnusedStep DEF Next, vars, UnspentUnused

LEMMA UnspentUnusedInit == Init => UnspentUnused
BY DEF Init, UnspentUnused

(* A code that was replaced or removed is never stored again, and no       *)
(* request that had found it before can still have it accepted.            *)
THEOREM ReplacedIsDead == Spec => ReplacedStayDead
<1>1. ASSUME TypeOK, TypeOK', UnspentUnused, UnspentUnused', [Next]_vars
      PROVE  [\A c \in (made \cap Codes) \ codes : c \notin codes' /\ uses'[c] = uses[c]]_vars
  <2>1. CASE Next
    <3>1. PICK w \in Workers : Step(w)
      BY <2>1 DEF Next
    <3>2. ASSUME NEW c \in (made \cap Codes) \ codes
          PROVE  c \notin codes' /\ uses'[c] = uses[c]
      <4>1. c \notin codes'
        BY <3>1, MadeOnce, <1>1
      <4>2. c \notin spent /\ c \notin spent'
        BY <1>1, <4>1 DEF TypeOK
      <4>3. QED
        BY <1>1, <4>1, <4>2 DEF UnspentUnused
    <3>3. QED
      BY <3>2
  <2>2. QED
    BY <1>1, <2>1
<1>2. QED
  BY TypeCorrect, UnspentUnusedInit, UnspentUnusedNext, <1>1, PTL DEF Spec,
       ReplacedStayDead

(* Who is about to use a code: only a request that finds it joins.         *)
LEMMA SpendingStep ==
    ASSUME TypeOK, NEW w \in Workers, Step(w), NEW c \in Codes
    PROVE  \/ Spending(c)' \subseteq Spending(c)
           \/ c \notin spent /\ UNCHANGED codeVars
<1>1. CASE FindCode(w)
  <2>1. PICK d \in codes \ spent : Goto(w, [at |-> "spend", code |-> d])
    BY <1>1 DEF FindCode, FindAmong
  <2>2. CASE d = c
    BY <1>1, <2>1, <2>2 DEF FindCode, FindAmong
  <2>3. CASE d # c
    BY <2>1, <2>3 DEF Goto, Spending, At, TypeOK
  <2>4. QED
    BY <2>2, <2>3
<1>2. CASE ~FindCode(w)
  <2>1. req'[w].at # "spend"
    <3>1. CASE CreateDevice(w)
      <4>1. req[w].caller \in Callers
        BY <3>1, RequestCases DEF CreateDevice, InsertDevice
      <4>2. QED
        BY <3>1, <4>1 DEF CreateDevice, InsertDevice, Goto, Callers, TypeOK
    <3>2. CASE InsertCode(w)
      BY <3>2 DEF InsertCode, Goto, TypeOK
    <3>3. CASE ~CreateDevice(w) /\ ~InsertCode(w)
      BY <1>2, <3>3
         DEF Step, LoadDevice, ShowSecret, ConfirmDevice, Confirm, Regenerate, Purge,
             PurgeAllBut, ShowCodes, Disable, DropDevice, DropCodes, SpendCode, Spend,
             Abort,
             Goto, Idle, Callers, TypeOK
    <3>4. QED
      BY <3>1, <3>2, <3>3
  <2>2. QED
    BY <2>1, OtherWorkers DEF Spending, At
<1>3. QED
  BY <1>1, <1>2

LEMMA SpendingFinite ==
    ASSUME NEW c
    PROVE  /\ IsFiniteSet(Spending(c))
           /\ Cardinality(Spending(c)) \in Nat
           /\ Cardinality(Spending(c)) <= Cardinality(Workers)
           /\ Cardinality(Workers) \in Nat
<1>1. Spending(c) \in SUBSET Workers
  BY DEF Spending
<1>2. QED
  BY <1>1, MfaAssumption, FS_Subset, FS_CardinalityType

UsesInv == UnspentUnused /\ UsesBounded

LEMMA UsesStep ==
    ASSUME TypeOK, UsesInv, NEW w \in Workers, Step(w), UnspentUnused', NEW c \in Codes
    PROVE  uses'[c] + Cardinality(Spending(c)') <= Cardinality(Workers)
<1> DEFINE S == Spending(c)
<1>1. /\ uses[c] \in Nat
      /\ uses[c] + Cardinality(S) <= Cardinality(Workers)
      /\ c \notin spent => uses[c] = 0
  BY DEF TypeOK, UsesInv, UsesBounded
<1>2. /\ IsFiniteSet(S) /\ Cardinality(S) \in Nat /\ Cardinality(Workers) \in Nat
  BY SpendingFinite
<1>3. /\ IsFiniteSet(S') /\ Cardinality(S') \in Nat
      /\ Cardinality(S') <= Cardinality(Workers)
  <2>1. S' \in SUBSET Workers
    BY DEF Spending
  <2>2. QED
    BY <2>1, MfaAssumption, FS_Subset, FS_CardinalityType
<1>4. CASE SpendCode(w) /\ req[w].code = c
  <2>1. S' \subseteq S \ {w} /\ w \in S
    BY <1>4 DEF SpendCode, Spend, Goto, Idle, Spending, At, TypeOK
  <2>2. uses'[c] = uses[c] + 1
    BY <1>4 DEF SpendCode, Spend, TypeOK
  <2>3. Cardinality(S \ {w}) = Cardinality(S) - 1 /\ IsFiniteSet(S \ {w})
    BY <1>2, <2>1, FS_RemoveElement
  <2>4. Cardinality(S') <= Cardinality(S \ {w})
    BY <2>1, <2>3, FS_Subset
  <2>5. QED
    BY <1>1, <1>2, <1>3, <2>2, <2>3, <2>4
<1>5. CASE ~(SpendCode(w) /\ req[w].code = c)
  <2>1. uses'[c] = uses[c] \/ uses'[c] = 0
    <3>1. CASE SpendCode(w)
      BY <1>5, <3>1 DEF SpendCode, Spend, TypeOK
    <3>2. CASE ~SpendCode(w)
      BY <3>2, CodeSteps
         DEF Purge, PurgeAllBut, DropCodes, DeleteAllBut, InsertCode, codeVars
    <3>3. QED
      BY <3>1, <3>2
  <2>2. CASE S' \subseteq S
    <3>1. Cardinality(S') <= Cardinality(S)
      BY <1>2, <2>2, FS_Subset
    <3>2. QED
      BY <1>1, <1>2, <1>3, <2>1, <3>1
  <2>3. CASE c \notin spent /\ UNCHANGED codeVars
    <3>1. uses'[c] = 0
      BY <1>1, <2>3 DEF codeVars
    <3>2. QED
      BY <1>3, <3>1
  <2>4. QED
    BY <2>2, <2>3, SpendingStep
<1>6. QED
  BY <1>4, <1>5

LEMMA UsesNext == ASSUME TypeOK, UsesInv, [Next]_vars PROVE UsesInv'
<1>1. UnspentUnused'
  BY UnspentUnusedNext DEF UsesInv
<1>2. CASE Next
  <2>1. PICK w \in Workers : Step(w)
    BY <1>2 DEF Next
  <2>2. \A c \in Codes : uses'[c] + Cardinality(Spending(c)') <= Cardinality(Workers)
    BY <1>1, <2>1, UsesStep
  <2>3. QED
    BY <1>1, <2>2 DEF UsesInv, UsesBounded, UnspentUnused
<1>3. CASE UNCHANGED vars
  BY <1>1, <1>3 DEF vars, UsesInv, UsesBounded, Spending, At
<1>4. QED
  BY <1>2, <1>3

LEMMA UsesInit == Init => UsesInv
<1>1. ASSUME Init, NEW c \in Codes PROVE Spending(c) = {}
  BY <1>1 DEF Init, Spending, At, Idle
<1>2. ASSUME Init PROVE UsesBounded
  <2>1. \A c \in Codes : Spending(c) = {}
    BY <1>1, <1>2
  <2>2. \A c \in Codes : uses[c] = 0
    BY <1>2 DEF Init
  <2>3. Cardinality(Workers) \in Nat /\ Cardinality({}) = 0
    BY MfaAssumption, FS_CardinalityType, FS_EmptySet
  <2>4. QED
    BY <2>1, <2>2, <2>3 DEF UsesBounded
<1>3. QED
  BY <1>2, UnspentUnusedInit DEF UsesInv

(* A code is accepted at most once by each request that had found it       *)
(* unused, and no later request finds it.                                  *)
THEOREM UsesAreBounded == Spec => []UsesBounded
<1>1. UsesInv => UsesBounded
  BY DEF UsesInv
<1>2. QED
  BY TypeCorrect, UsesInit, UsesNext, <1>1, PTL DEF Spec

-----------------------------------------------------------------------------
(* How many codes there are.  Every batch in the making may still insert   *)
(* what it has left; the first DELETE of each clears what was there, so    *)
(* the stored codes and those still to come fit in one batch per worker.   *)

Pending == {p \in Workers \X (1..CodeCount) : At(p[1], "fill") /\ p[2] <= req[p[1]].left}
Budget == CodeCount * Cardinality(Workers)

CodesInv ==
    /\ IsFiniteSet(codes)
    /\ Cardinality(codes) + Cardinality(Pending) <= Budget

LEMMA PendingFits ==
    ASSUME NEW P \in SUBSET (Workers \X (1..CodeCount))
    PROVE  /\ IsFiniteSet(P) /\ Cardinality(P) \in Nat
           /\ Cardinality(P) <= Budget /\ Budget \in Nat
<1>1. IsFiniteSet(1..CodeCount) /\ Cardinality(1..CodeCount) = CodeCount
  BY MfaAssumption, FS_Interval
<1>2. Cardinality(Workers) \in Nat
  BY MfaAssumption, FS_CardinalityType
<1>3. /\ IsFiniteSet(Workers \X (1..CodeCount))
      /\ Cardinality(Workers \X (1..CodeCount)) = Cardinality(Workers) * CodeCount
  BY <1>1, MfaAssumption, FS_Product
<1>4. QED
  BY <1>2, <1>3, MfaAssumption, FS_Subset, FS_CardinalityType DEF Budget

LEMMA StoredStep ==
    ASSUME TypeOK, CodesInv, NEW w \in Workers, Step(w)
    PROVE  /\ IsFiniteSet(codes')
           /\ codes' = codes \/ codes' = {} \/ InsertCode(w)
           /\ InsertCode(w) => Cardinality(codes') = Cardinality(codes) + 1
<1>1. codes' = codes \/ codes' = {} \/ InsertCode(w)
  BY CodeSteps DEF Purge, PurgeAllBut, DropCodes, DeleteAllBut, SpendCode, Spend,
       codeVars
<1>2. ASSUME InsertCode(w)
      PROVE  IsFiniteSet(codes') /\ Cardinality(codes') = Cardinality(codes) + 1
  <2>1. PICK c \in Codes \ made : codes' = codes \cup {c}
    BY <1>2 DEF InsertCode
  <2>2. c \notin codes /\ IsFiniteSet(codes)
    BY <2>1 DEF TypeOK, CodesInv
  <2>3. QED
    BY <2>1, <2>2, FS_AddElement
<1>3. QED
  BY <1>1, <1>2, FS_EmptySet DEF CodesInv

(* Only a DELETE of a generation starts a batch.                           *)
LEMMA PendingStep ==
    ASSUME TypeOK, NEW w \in Workers, Step(w)
    PROVE  Purge(w) \/ Pending' \subseteq Pending
<1>1. CASE InsertCode(w)
  <2>1. req[w].left \in 1..CodeCount
    BY <1>1, RequestCases DEF InsertCode
  <2>2. At(w, "fill")' => At(w, "fill") /\ req'[w].left <= req[w].left
    BY <1>1, <2>1 DEF InsertCode, Goto, At, TypeOK
  <2>3. ASSUME NEW v \in Workers, At(v, "fill")', NEW i \in 1..CodeCount, i <= req'[v].left
        PROVE  At(v, "fill") /\ i <= req[v].left
    <3>1. CASE v = w
      <4>1. req'[w].left \in Int
        BY <1>1, <2>1, <2>3, <3>1 DEF InsertCode, Goto, At, TypeOK
      <4>2. QED
        BY <2>1, <2>2, <2>3, <3>1, <4>1
    <3>2. CASE v # w
      BY <2>3, <3>2, OtherWorkers DEF At
    <3>3. QED
      BY <3>1, <3>2
  <2>4. QED
    BY <2>3 DEF Pending
<1>2. CASE ~InsertCode(w) /\ ~Purge(w)
  <2>1. req'[w].at # "fill"
    BY <1>2, CodeSteps DEF DropCodes, SpendCode, Spend, Goto, Idle, TypeOK
  <2>2. QED
    BY <2>1, OtherWorkers DEF Pending, At
<1>3. QED
  BY <1>1, <1>2

LEMMA CodesStep ==
    ASSUME TypeOK, CodesInv, NEW w \in Workers, Step(w)
    PROVE  CodesInv'
<1>1. IsFiniteSet(Pending) /\ Cardinality(Pending) \in Nat /\ Budget \in Nat
  BY PendingFits DEF Pending
<1>2. /\ IsFiniteSet(Pending') /\ Cardinality(Pending') \in Nat
      /\ Cardinality(Pending') <= Budget
  <2>1. Pending' \in SUBSET (Workers \X (1..CodeCount))
    BY DEF Pending
  <2>2. QED
    BY <2>1, PendingFits
<1>3. Cardinality(codes) \in Nat /\ Cardinality(codes) + Cardinality(Pending) <= Budget
  BY FS_CardinalityType DEF CodesInv
<1>4. CASE codes' = {}
  BY <1>1, <1>2, <1>4, FS_EmptySet DEF CodesInv, Budget
<1>5. CASE InsertCode(w)
  <2>1. req[w].left \in 1..CodeCount
    BY <1>5, RequestCases DEF InsertCode
  <2>2. Cardinality(codes') = Cardinality(codes) + 1
    BY <1>5, StoredStep
  <2>3. <<w, req[w].left>> \in Pending
    BY <1>5, <2>1, MfaAssumption DEF InsertCode, Pending
  <2>4. <<w, req[w].left>> \notin Pending'
    <3>1. At(w, "fill")' => req'[w].left = req[w].left - 1
      BY <1>5, <2>1 DEF InsertCode, Goto, At, TypeOK
    <3>2. QED
      BY <2>1, <3>1 DEF Pending
  <2>5. Pending' \subseteq Pending
    <3>1. ~Purge(w)
      BY <1>5 DEF InsertCode, Purge, PurgeAllBut, At
    <3>2. QED
      BY <3>1, PendingStep
  <2>6. Pending' \subseteq Pending \ {<<w, req[w].left>>}
    BY <2>4, <2>5
  <2>7. /\ Cardinality(Pending \ {<<w, req[w].left>>}) = Cardinality(Pending) - 1
        /\ IsFiniteSet(Pending \ {<<w, req[w].left>>})
    BY <1>1, <2>3, FS_RemoveElement
  <2>8. Cardinality(Pending') <= Cardinality(Pending) - 1
    BY <2>6, <2>7, FS_Subset
  <2>9. QED
    BY <1>1, <1>2, <1>3, <2>2, <2>8, StoredStep DEF CodesInv, Budget
<1>6. CASE codes' = codes /\ codes' # {}
  <2>1. ~Purge(w)
    BY <1>6 DEF Purge, PurgeAllBut, DeleteAllBut
  <2>2. Cardinality(Pending') <= Cardinality(Pending)
    BY <1>1, <2>1, PendingStep, FS_Subset
  <2>3. QED
    BY <1>1, <1>2, <1>3, <1>6, <2>2 DEF CodesInv, Budget
<1>7. QED
  BY <1>4, <1>5, <1>6, StoredStep

LEMMA CodesNext == ASSUME TypeOK, CodesInv, [Next]_vars PROVE CodesInv'
<1>1. CASE Next
  BY <1>1, CodesStep DEF Next
<1>2. CASE UNCHANGED vars
  BY <1>2 DEF vars, CodesInv, Pending, Budget, At
<1>3. QED
  BY <1>1, <1>2

LEMMA CodesInit == Init => CodesInv
<1>1. ASSUME Init PROVE Pending = {} /\ codes = {}
  BY <1>1 DEF Init, Pending, At, Idle
<1>2. Budget \in Nat
  BY FS_CardinalityType, MfaAssumption DEF Budget
<1>3. QED
  BY <1>1, <1>2, FS_EmptySet DEF CodesInv

(* However generations interleave and die, a user has at most one batch    *)
(* per worker.                                                             *)
THEOREM BatchesAreBounded == Spec => []CodesBounded
<1>1. ASSUME CodesInv PROVE CodesBounded
  <2>1. Cardinality(Pending) \in Nat /\ Budget \in Nat
    BY PendingFits DEF Pending
  <2>2. Cardinality(codes) \in Nat /\ Cardinality(codes) + Cardinality(Pending) <= Budget
    BY <1>1, FS_CardinalityType DEF CodesInv
  <2>3. QED
    BY <2>1, <2>2 DEF CodesBounded, Budget
<1>2. QED
  BY TypeCorrect, CodesInit, CodesNext, <1>1, PTL DEF Spec

(* And with one worker exactly what the README promises: one batch, even   *)
(* if generations die half way.                                            *)
THEOREM OneWorkerOneBatch ==
    ASSUME Cardinality(Workers) = 1
    PROVE  Spec => []OneBatch
<1>1. CodesBounded => OneBatch
  BY MfaAssumption DEF CodesBounded, OneBatch
<1>2. QED
  BY <1>1, BatchesAreBounded, PTL

(* And a code that it accepts once is not accepted again.                  *)
THEOREM OneWorkerOneUse ==
    ASSUME Cardinality(Workers) = 1
    PROVE  Spec => [](\A c \in Codes : uses[c] <= 1)
<1>1. ASSUME TypeOK, UsesBounded
      PROVE  \A c \in Codes : uses[c] <= 1
  <2>1. ASSUME NEW c \in Codes PROVE uses[c] <= 1
    <3>1. uses[c] \in Nat /\ uses[c] + Cardinality(Spending(c)) <= 1
      BY <1>1 DEF TypeOK, UsesBounded
    <3>2. QED
      BY <3>1, SpendingFinite
  <2>2. QED
    BY <2>1
<1>2. QED
  BY <1>1, TypeCorrect, UsesAreBounded, PTL

-----------------------------------------------------------------------------
(* A generation that nothing disturbs: what is stored and what it has left *)
(* make a whole batch.                                                     *)

Whole ==
    \A w \in alone :
        /\ At(w, "fill") \/ At(w, "show")
        /\ At(w, "fill") => Cardinality(codes) + req[w].left = CodeCount
        /\ At(w, "show") => Cardinality(codes) = CodeCount

LEMMA WholeStep ==
    ASSUME TypeOK, CodesInv, Whole, NEW w \in Workers, Step(w), Watch
    PROVE  Whole'
<1>1. SUFFICES ASSUME NEW v \in alone'
               PROVE  /\ At(v, "fill")' => Cardinality(codes') + req'[v].left = CodeCount
                      /\ At(v, "show")' => Cardinality(codes') = CodeCount
  BY DEF Whole, Watch
<1>2. /\ v \in Workers
      /\ v \in alone \/ At(v, "purge")
      /\ At(v, "fill")' \/ At(v, "show")'
      /\ \A u \in Workers \ {v} : ~Writing(u) /\ ~Writing(u)'
  BY <1>1 DEF Watch
<1>3. CodeCount \in Nat \ {0} /\ Cardinality(codes) \in Nat
  BY MfaAssumption, FS_CardinalityType DEF CodesInv
<1>4. CASE v # w
  <2>1. req'[v] = req[v] /\ ~Writing(w)
    BY <1>2, <1>4, OtherWorkers
  <2>2. v \in alone
    BY <1>2, <2>1 DEF At
  <2>3. codes' = codes
    BY <2>1, CodeSteps
       DEF Writing, Purge, PurgeAllBut, InsertCode, DropCodes, SpendCode, Spend,
           codeVars, At
  <2>4. QED
    BY <1>2, <2>1, <2>2, <2>3 DEF Whole, At
<1>5. CASE v = w
  <2>1. req'[w].at \in {"fill", "show"}
    BY <1>2, <1>5 DEF At
  <2>2. Purge(w) \/ InsertCode(w)
    BY <2>1, CodeSteps DEF DropCodes, SpendCode, Spend, Goto, Idle, TypeOK
  <2>3. CASE Purge(w)
    BY <1>3, <1>5, <2>3, FS_EmptySet
       DEF Purge, PurgeAllBut, DeleteAllBut, Goto, At, TypeOK
  <2>4. CASE InsertCode(w)
    <3>1. w \in alone /\ Cardinality(codes) + req[w].left = CodeCount
      BY <1>2, <1>5, <2>4 DEF InsertCode, Whole, At
    <3>2. req[w].left \in 1..CodeCount
      BY <2>4, RequestCases DEF InsertCode
    <3>3. Cardinality(codes') = Cardinality(codes) + 1
      BY <1>5, <2>4, StoredStep
    <3>4. /\ At(w, "fill")' => req'[w].left = req[w].left - 1
          /\ At(w, "show")' => req[w].left = 1
      BY <2>4, <3>2 DEF InsertCode, Goto, At, TypeOK
    <3>5. QED
      BY <1>3, <1>5, <3>1, <3>2, <3>3, <3>4
  <2>5. QED
    BY <2>2, <2>3, <2>4
<1>6. QED
  BY <1>4, <1>5

LEMMA WholeNext == ASSUME TypeOK, CodesInv, Whole, [Next]_vars PROVE Whole'
<1>1. CASE Next
  BY <1>1, WholeStep DEF Next
<1>2. CASE UNCHANGED vars
  BY <1>2 DEF vars, Whole, At
<1>3. QED
  BY <1>1, <1>2

(* A generation that no other request disturbs leaves exactly the batch it *)
(* shows, whatever requests that died before it left behind.               *)
THEOREM BatchIsComplete == Spec => []BatchComplete
<1>1. Init => Whole
  BY DEF Init, Whole
<1>2. Whole => BatchComplete
  BY DEF Whole, BatchComplete
<1>3. QED
  BY TypeCorrect, CodesInit, CodesNext, WholeNext, <1>1, <1>2, PTL DEF Spec

-----------------------------------------------------------------------------
(* Refinement.  The user has one device row at most, said without counting.*)

OneDevice == \A d, e \in device : d = e

LEMMA OneDeviceNext == ASSUME OneDevice, [Next]_vars PROVE OneDevice'
<1>1. ASSUME NEW w \in Workers, Step(w) PROVE OneDevice'
  <2>1. device' = device \/ device' = {} \/ \E d : device' = {d}
    BY <1>1 DEF Step, LoadDevice, CreateDevice, InsertDevice, ShowSecret, ConfirmDevice,
         Regenerate, Purge, PurgeAllBut, InsertCode, ShowCodes, Disable, DropDevice,
         DropCodes, FindCode, FindAmong, SpendCode, Spend, Abort, deviceVars
  <2>2. QED
    BY <2>1 DEF OneDevice
<1>2. CASE UNCHANGED vars
  BY <1>2 DEF vars, OneDevice
<1>3. QED
  BY <1>1, <1>2 DEF Next

LEMMA PromiseInit == Init => Promise!Init
BY DEF Init, Promise!Init, Offered, Removed

(* The statements about the device.                                        *)
LEMMA PromiseDevice ==
    ASSUME TypeInv, ConfirmedProven, OneDevice, NEW w \in Workers,
           CreateDevice(w) \/ ConfirmDevice(w) \/ DropDevice(w)
    PROVE  [Promise!Next]_(Promise!vars)
<1>1. /\ confirmed \subseteq device /\ device \subseteq made /\ device \subseteq Devices
      /\ Devices \cap Codes = {}
  BY MfaAssumption DEF TypeInv, TypeOK, Loaded, ConfirmedProven
<1>2. CASE CreateDevice(w)
  <2>1. PICK d \in Devices \ made : device = {} /\ device' = {d} /\ made' = made \cup {d}
    BY <1>2 DEF CreateDevice, InsertDevice
  <2>2. Removed' = Removed /\ Offered' = Offered
    BY <1>1, <2>1 DEF Removed, Offered
  <2>3. UNCHANGED <<confirmed, proven, codes, uses>>
    BY <1>2 DEF CreateDevice, InsertDevice, codeVars
  <2>4. QED
    BY <2>2, <2>3 DEF Promise!vars
<1>3. CASE ConfirmDevice(w)
  <2> DEFINE d == req[w].device
  <2>1. /\ d \in device /\ confirmed' = confirmed \cup {d} /\ proven' = proven \cup {d}
        /\ UNCHANGED <<device, made, codes, uses>>
    BY <1>3 DEF ConfirmDevice, Confirm, codeVars
  <2> HIDE DEF d
  <2>2. device = {d} /\ d \in Devices
    BY <1>1, <2>1 DEF OneDevice
  <2>3. confirmed' = {d} /\ confirmed \subseteq {d} /\ d \notin Removed
    BY <1>1, <2>1, <2>2 DEF Removed
  <2>4. UNCHANGED <<Removed, Offered, codes, uses>>
    BY <2>1 DEF Removed, Offered
  <2>5. Promise!Enrol(d)
    BY <2>1, <2>3, <2>4 DEF Promise!Enrol, Promise!codeVars
  <2>6. QED
    BY <2>2, <2>5 DEF Promise!Next
<1>4. CASE DropDevice(w)
  <2>1. /\ device' = {} /\ confirmed' = confirmed \ device
        /\ UNCHANGED <<proven, made, codes, uses>>
    BY <1>4 DEF DropDevice, codeVars
  <2>2. Offered' = Offered /\ Removed' = Removed \cup device
    BY <1>1, <2>1 DEF Offered, Removed
  <2>3. CASE device = {}
    BY <2>1, <2>2, <2>3 DEF Promise!vars
  <2>4. CASE device # {}
    <3>1. PICK d \in device : device = {d}
      BY <2>4 DEF OneDevice
    <3>2. Promise!Remove(d)
      BY <2>1, <2>2, <3>1 DEF Promise!Remove, Promise!codeVars
    <3>3. QED
      BY <1>1, <3>2 DEF Promise!Next
  <2>5. QED
    BY <2>3, <2>4
<1>5. QED
  BY <1>2, <1>3, <1>4

(* The statements about the codes.                                         *)
LEMMA PromiseCodes ==
    ASSUME TypeInv, UsesInv, CodesInv, NEW w \in Workers,
           Purge(w) \/ DropCodes(w) \/ InsertCode(w) \/ SpendCode(w)
    PROVE  [Promise!Next]_(Promise!vars)
<1>1. TypeOK /\ codes \subseteq made /\ UNCHANGED <<device, confirmed, proven>>
  BY DEF TypeInv, TypeOK, Purge, PurgeAllBut, DropCodes, InsertCode, SpendCode, Spend,
         deviceVars
<1>2. CASE Purge(w) \/ DropCodes(w)
  <2>1. codes' = {} /\ uses' = [c \in Codes |-> 0] /\ made' = made
    BY <1>2 DEF Purge, PurgeAllBut, DropCodes, DeleteAllBut
  <2>2. Promise!Withdraw
    BY <1>1, <2>1 DEF Promise!Withdraw, Promise!deviceVars, Offered, Removed
  <2>3. QED
    BY <2>2 DEF Promise!Next
<1>3. CASE InsertCode(w)
  <2>1. PICK c \in Codes \ made :
          codes' = codes \cup {c} /\ made' = made \cup {c} /\ uses' = uses
    BY <1>3 DEF InsertCode
  <2>2. Removed' = Removed /\ Offered' = Offered \cup {c} /\ c \notin Offered
    BY <1>1, <2>1, MfaAssumption DEF Removed, Offered
  <2>3. Cardinality(codes) < Budget
    <3>1. req[w].left \in 1..CodeCount
      BY <1>1, <1>3, RequestCases DEF InsertCode
    <3>2. <<w, req[w].left>> \in Pending
      BY <1>3, <3>1, MfaAssumption DEF InsertCode, Pending
    <3>3. IsFiniteSet(Pending) /\ Cardinality(Pending) \in Nat /\ Budget \in Nat
      BY PendingFits DEF Pending
    <3>4. Cardinality(Pending) # 0
      BY <3>2, <3>3, FS_EmptySet
    <3>5. Cardinality(codes) \in Nat /\ Cardinality(codes) + Cardinality(Pending) <= Budget
      BY FS_CardinalityType DEF CodesInv
    <3>6. QED
      BY <3>3, <3>4, <3>5
  <2>4. Promise!Offer(c)
    <3>1. Promise!Cardinality(codes) = Cardinality(codes)
      BY DEF Promise!Cardinality, Cardinality, Promise!IsFiniteSet, IsFiniteSet
    <3>2. QED
      BY <1>1, <2>1, <2>2, <2>3, <3>1 DEF Promise!Offer, Promise!deviceVars, Budget
  <2>5. QED
    BY <2>4 DEF Promise!Next
<1>4. CASE SpendCode(w)
  <2> DEFINE c == req[w].code
  <2>1. /\ c \in codes /\ codes' = codes /\ made' = made
        /\ uses' = [uses EXCEPT ![c] = @ + 1]
    BY <1>4 DEF SpendCode, Spend
  <2>2. c \in Codes /\ w \in Spending(c)
    BY <1>1, <1>4, RequestCases DEF SpendCode, Spend, Spending
  <2> HIDE DEF c
  <2>3. uses[c] < Cardinality(Workers)
    <3>1. uses[c] \in Nat /\ uses[c] + Cardinality(Spending(c)) <= Cardinality(Workers)
      BY <1>1, <2>2 DEF TypeOK, UsesInv, UsesBounded
    <3>2. Cardinality(Spending(c)) # 0
      BY <2>2, SpendingFinite, FS_EmptySet
    <3>3. QED
      BY <3>1, <3>2, SpendingFinite
  <2>4. Promise!Accept(c)
    BY <1>1, <2>1, <2>3 DEF Promise!Accept, Promise!deviceVars, Offered, Removed
  <2>5. QED
    BY <2>2, <2>4 DEF Promise!Next
<1>5. QED
  BY <1>2, <1>3, <1>4

LEMMA PromiseStep ==
    ASSUME TypeInv, ConfirmedProven, OneDevice, UsesInv, CodesInv, [Next]_vars
    PROVE  [Promise!Next]_(Promise!vars)
<1>1. CASE UNCHANGED <<deviceVars, codeVars, made>>
  BY <1>1 DEF deviceVars, codeVars, Promise!vars, Offered, Removed
<1>2. CASE UNCHANGED <<device, confirmed, proven, codeVars, made>>
  BY <1>2 DEF codeVars, Promise!vars, Offered, Removed
<1>3. ASSUME NEW w \in Workers, Step(w) PROVE [Promise!Next]_(Promise!vars)
  BY <1>1, <1>2, <1>3, PromiseDevice, PromiseCodes
     DEF Step, LoadDevice, ShowSecret, Regenerate, ShowCodes, Disable, FindCode,
         FindAmong, Abort
<1>4. CASE UNCHANGED vars
  BY <1>1, <1>4 DEF vars, deviceVars, codeVars
<1>5. QED
  BY <1>3, <1>4 DEF Next

(* The statements on the device and on the codes, interleaved and cut      *)
(* short at any point, implement SecondFactor.                             *)
THEOREM Refinement == Spec => KeepsPromise
<1>1. Spec => [](TypeInv /\ ConfirmedProven /\ UsesInv /\ CodesInv)
  <2>1. TypeInv => TypeOK
    BY DEF TypeInv
  <2>2. QED
    BY <2>1, TypeInit, TypeNext, SecretIsProven, UsesInit, UsesNext, CodesInit, CodesNext,
       PTL DEF Spec
<1>2. Init => OneDevice
  BY DEF Init, OneDevice
<1>3. Spec => []OneDevice
  BY <1>2, OneDeviceNext, PTL DEF Spec
<1>4. TypeInv /\ ConfirmedProven /\ OneDevice /\ UsesInv /\ CodesInv /\ [Next]_vars
        => [Promise!Next]_(Promise!vars)
  BY PromiseStep
<1>5. QED
  BY <1>1, <1>3, <1>4, PromiseInit, PTL DEF Spec, KeepsPromise, Promise!Spec
=============================================================================
