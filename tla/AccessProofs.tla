---------------------------- MODULE AccessProofs ----------------------------
(***************************************************************************)
(* For every number of requests, users, numbers, codes and secrets, and     *)
(* every bound: who gets in.  A behaviour of Access is a behaviour of each  *)
(* of its parts.                                                            *)
(*                                                                          *)
(* Pickup codes: a lock once set is neither shortened nor dropped by a late *)
(* failure.  The step that could break it is a failure of a request that    *)
(* asked the limiter before the lock was set.  It starts a record of its    *)
(* own if the window has run out, so the argument is that it has not:       *)
(* LockInWindow.                                                            *)
(*                                                                          *)
(* Accounts, shippers and phones: an operation writes what it decided from  *)
(* an older read, so each invariant says of the requests in flight what     *)
(* they still hold: a confirmed secret, a session not ended since, one of   *)
(* the tries of a code, the slot of a message, a code nobody has compared.  *)
(***************************************************************************)
EXTENDS Access, Sequences, FiniteSetTheorems, TLAPS

(* Access is its parts: each of them runs by its own specification.         *)
THEOREM PartsOfAccess == AccessSpec => A!Spec /\ P!Spec /\ S!Spec /\ Spec
  <1>1. AccessInit => A!Init /\ P!Init /\ S!Init /\ Init
    BY DEF AccessInit
  <1>2. [AccessNext]_allvars =>
            [A!Next]_(A!avars) /\ [P!Next]_(P!pvars) /\ [S!Next]_(S!svars) /\ [Next]_kvars
    <2> USE DEF allvars, avars, pvars, svars, kvars, A!avars, P!pvars, S!svars
    <2>1. CASE AccountMoves
      BY <2>1 DEF AccountMoves
    <2>2. CASE PhonesMove
      BY <2>2 DEF PhonesMove
    <2>3. CASE ShipperMoves
      BY <2>3 DEF ShipperMoves
    <2>4. CASE PickupMoves
      BY <2>4 DEF PickupMoves
    <2>5. CASE UNCHANGED allvars
      BY <2>5
    <2> QED BY <2>1, <2>2, <2>3, <2>4, <2>5 DEF AccessNext
  <1> QED
    BY <1>1, <1>2, PTL DEF AccessSpec, A!Spec, P!Spec, S!Spec, Spec
-----------------------------------------------------------------------------
(* Pickup codes                                                             *)

(* No window starts in the future, and a lock ends within Lock of its start. *)
InWindow(a, t) ==
    /\ a.windowStartedAt <= t
    /\ a.lockedUntil > t => a.lockedUntil <= a.windowStartedAt + Lock

LockInWindow == \A k \in Keys : InWindow(attempts[k], wall)

(* Only residents enrol a face.                                             *)
EnrollsResident == \A r \in Requests : try[r].pc = "enroll" => try[r].key \in Residents

PickupInv == PickupTypeOK /\ EnrollsResident /\ LockInWindow

(* The record after one more failure, in its window or in a new one.        *)
Current(key) ==
    IF wall - attempts[key].windowStartedAt < Window THEN attempts[key]
    ELSE [failures |-> 0, windowStartedAt |-> wall, lockedUntil |-> 0]

Failed(key) ==
    IF Current(key).failures + 1 < MaxFailures
    THEN [Current(key) EXCEPT !.failures = Current(key).failures + 1]
    ELSE [failures |-> 0, windowStartedAt |-> wall, lockedUntil |-> wall + Lock]

(* A request that is not idle holds a key, a package and a code.            *)
LEMMA HeldBy ==
  ASSUME PickupTypeOK, NEW r \in Requests, try[r].pc \in Place
  PROVE  try[r] \in Held
  BY DEF PickupTypeOK, Place, Idle

(* A failure writes one record and keeps the others.                        *)
LEMMA FailureWrites ==
  ASSUME PickupTypeOK, NEW key \in Keys, RecordFailure(key)
  PROVE  attempts' = [attempts EXCEPT ![key] = Failed(key)]
  BY DEF RecordFailure, Failed, Current

(* The record of a failure has its type.                                    *)
LEMMA FailedType ==
  ASSUME PickupTypeOK, NEW key \in Keys
  PROVE  Failed(key) \in Attempts
  <1>1. attempts[key] \in Attempts /\ wall \in Nat
    BY DEF PickupTypeOK
  <1>2. Current(key) \in Attempts
    BY <1>1 DEF Current, Attempts
  <1>3. Lock \in Nat
    BY PickupAssumption
  <1> QED BY <1>1, <1>2, <1>3 DEF Failed, Attempts

(* A failure leaves a running lock as long as it was, or longer.            *)
LEMMA FailureKeepsLock ==
  ASSUME PickupInv, NEW key \in Keys, attempts[key].lockedUntil > wall
  PROVE  Failed(key).lockedUntil >= attempts[key].lockedUntil
  <1>1. /\ attempts[key] \in Attempts /\ wall \in Nat
        /\ attempts[key].windowStartedAt <= wall
        /\ attempts[key].lockedUntil <= attempts[key].windowStartedAt + Lock
    BY DEF PickupInv, PickupTypeOK, LockInWindow, InWindow
  <1>2. Lock \in Nat /\ Window \in Nat /\ Lock <= Window
    BY PickupAssumption
  <1>3. Current(key) = attempts[key]
    BY <1>1, <1>2 DEF Current, Attempts
  <1>4. CASE attempts[key].failures + 1 < MaxFailures
    <2>1. Failed(key) = [attempts[key] EXCEPT !.failures = attempts[key].failures + 1]
      BY <1>3, <1>4 DEF Failed
    <2> QED BY <1>1, <2>1 DEF Attempts
  <1>5. CASE ~(attempts[key].failures + 1 < MaxFailures)
    <2>1. Failed(key).lockedUntil = wall + Lock
      BY <1>3, <1>5 DEF Failed
    <2> QED BY <1>1, <1>2, <2>1 DEF Attempts
  <1> QED BY <1>4, <1>5

(* A failure leaves a record whose lock ends within Lock of its window.     *)
LEMMA FailureInWindow ==
  ASSUME PickupInv, NEW key \in Keys
  PROVE  InWindow(Failed(key), wall)
  <1>1. attempts[key] \in Attempts /\ wall \in Nat /\ InWindow(attempts[key], wall)
    BY DEF PickupInv, PickupTypeOK, LockInWindow
  <1>2. Lock \in Nat
    BY PickupAssumption
  <1>3. Current(key) \in Attempts /\ InWindow(Current(key), wall)
    BY <1>1, <1>2 DEF Current, Attempts, InWindow
  <1>4. CASE Current(key).failures + 1 < MaxFailures
    <2>1. Failed(key) = [Current(key) EXCEPT !.failures = Current(key).failures + 1]
      BY <1>4 DEF Failed
    <2>2. /\ Failed(key).lockedUntil = Current(key).lockedUntil
          /\ Failed(key).windowStartedAt = Current(key).windowStartedAt
      BY <2>1, <1>3 DEF Attempts
    <2> QED BY <1>3, <2>2 DEF InWindow
  <1>5. CASE ~(Current(key).failures + 1 < MaxFailures)
    <2>1. Failed(key) = [failures |-> 0, windowStartedAt |-> wall, lockedUntil |-> wall + Lock]
      BY <1>5 DEF Failed
    <2> QED BY <1>1, <1>2, <2>1 DEF InWindow
  <1> QED BY <1>4, <1>5

(* No record is a typed record in a window that is over.                    *)
LEMMA NoAttemptsType ==
  /\ NoAttempts \in Attempts
  /\ \A t \in Nat : InWindow(NoAttempts, t)
  BY PickupAssumption DEF NoAttempts, Attempts, InWindow

(* What every operation does to the limiters: nothing, a failure of one key,*)
(* or a reset of one key.                                                   *)
LimiterStep ==
    \/ attempts' = attempts
    \/ \E key \in Keys : attempts' = [attempts EXCEPT ![key] = Failed(key)]
    \/ \E key \in Keys : attempts' = [attempts EXCEPT ![key] = NoAttempts]

(* Such a step keeps the types of the limiters.                             *)
LEMMA LimiterType ==
  ASSUME PickupTypeOK, LimiterStep
  PROVE  attempts' \in [Keys -> Attempts]
  <1>1. attempts \in [Keys -> Attempts]
    BY DEF PickupTypeOK
  <1> QED BY <1>1, FailedType, NoAttemptsType DEF LimiterStep

(* It keeps LockInWindow while the clock stands still.                      *)
LEMMA LimiterInWindow ==
  ASSUME PickupInv, LimiterStep, wall' = wall
  PROVE  LockInWindow'
  <1>1. attempts \in [Keys -> Attempts] /\ wall \in Nat
    BY DEF PickupInv, PickupTypeOK
  <1>2. \A k \in Keys : InWindow(attempts[k], wall)
    BY DEF PickupInv, LockInWindow
  <1>3. \A k \in Keys : InWindow(attempts'[k], wall)
    BY <1>1, <1>2, FailureInWindow, NoAttemptsType DEF LimiterStep
  <1> QED BY <1>3 DEF LockInWindow

(* It never shortens a running lock, unless the key succeeds.               *)
LEMMA LimiterKeepsLock ==
  ASSUME PickupInv, LimiterStep, NEW k \in Keys, attempts[k].lockedUntil > wall
  PROVE  \/ attempts'[k].lockedUntil >= attempts[k].lockedUntil
         \/ attempts'[k] = NoAttempts
  <1>1. attempts \in [Keys -> Attempts] /\ attempts[k].lockedUntil \in Int
    BY DEF PickupInv, PickupTypeOK, Attempts
  <1> QED BY <1>1, FailureKeepsLock DEF LimiterStep
-----------------------------------------------------------------------------
(* A request begun holds what it was begun with; the rest is as it was.     *)
LEMMA BeginType ==
  ASSUME PickupTypeOK, NEW r \in Requests, NEW pc \in Place, NEW key \in Keys \cup {Kiosk},
         NEW p \in Packages, NEW code \in Pins \cup {NoPin}, Begin(r, pc, key, p, code)
  PROVE  try' \in [Requests -> Held \cup {Idle}]
  <1> DEFINE at == IF pc = "reissue" THEN wall ELSE 0
  <1>1. at \in Nat
    BY PickupAssumption DEF PickupTypeOK
  <1>2. [pc |-> pc, key |-> key, pack |-> p, code |-> code, at |-> at] \in Held
    BY <1>1 DEF Held
  <1> HIDE DEF at
  <1>3. try' = [try EXCEPT ![r] = [pc |-> pc, key |-> key, pack |-> p, code |-> code,
                                   at |-> at]]
    BY DEF Begin, at
  <1> QED BY <1>2, <1>3 DEF PickupTypeOK

(* A request that ends is idle.                                             *)
LEMMA EndType ==
  ASSUME PickupTypeOK, NEW r \in Requests, End(r)
  PROVE  try' \in [Requests -> Held \cup {Idle}]
  BY DEF PickupTypeOK, End

(* A request that found a package, or goes on, holds the rest as before.    *)
LEMMA GoOnType ==
  ASSUME PickupTypeOK, NEW r \in Requests, try[r].pc \in Place,
         \/ \E pc \in Place : GoTo(r, pc)
         \/ \E p \in Packages : Found(r, p)
  PROVE  try' \in [Requests -> Held \cup {Idle}]
  <1>1. try \in [Requests -> Held \cup {Idle}] /\ try[r] \in Held
    BY HeldBy DEF PickupTypeOK
  <1>2. ASSUME NEW pc \in Place PROVE [try[r] EXCEPT !.pc = pc] \in Held
    BY <1>1 DEF Held
  <1>3. ASSUME NEW p \in Packages PROVE [try[r] EXCEPT !.pc = "fee", !.pack = p] \in Held
    BY <1>1 DEF Held, Place
  <1>4. CASE \E pc \in Place : GoTo(r, pc)
    <2>1. PICK pc \in Place : GoTo(r, pc)
      BY <1>4
    <2> QED BY <1>1, <1>2, <2>1 DEF GoTo
  <1>5. CASE \E p \in Packages : Found(r, p)
    <2>1. PICK p \in Packages : Found(r, p)
      BY <1>5
    <2> QED BY <1>1, <1>3, <2>1 DEF Found
  <1> QED BY <1>4, <1>5

(* A refusal counts for the key of the request, if it has one.              *)
LEMMA RefuseStep ==
  ASSUME PickupTypeOK, NEW r \in Requests, Refuse(r)
  PROVE  LimiterStep /\ try' \in [Requests -> Held \cup {Idle}]
  <1>1. LimiterStep
    BY FailureWrites DEF Refuse, LimiterStep
  <1>2. End(r)
    BY DEF Refuse
  <1> QED BY <1>1, <1>2, EndType

(* A success clears the key of the request, if it has one.                  *)
LEMMA AcceptStep ==
  ASSUME PickupTypeOK, NEW r \in Requests, try[r].pc \in Place, NEW p \in Packages, Accept(r, p)
  PROVE  LimiterStep /\ try' \in [Requests -> Held \cup {Idle}]
  <1>1. LimiterStep
    BY DEF Accept, Reset, LimiterStep
  <1>2. Found(r, p)
    BY DEF Accept
  <1> QED BY <1>1, <1>2, GoOnType
-----------------------------------------------------------------------------
(* The types, one action at a time.                                         *)

(* A package whose status changes keeps its type.                           *)
LEMMA StatusType ==
  ASSUME PickupTypeOK, NEW p \in Packages, NEW s \in Status,
         pkg' = [pkg EXCEPT ![p].status = s]
  PROVE  pkg' \in [Packages -> Package]
  <1>1. pkg \in [Packages -> Package]
    BY DEF PickupTypeOK
  <1>2. [pkg[p] EXCEPT !.status = s] \in Package
    BY <1>1 DEF Package
  <1> QED BY <1>1, <1>2

(* So does one that is given a PIN.                                         *)
LEMMA PinType ==
  ASSUME PickupTypeOK, NEW p \in Packages, NEW c \in Pins \cup {NoPin}, NEW t \in Nat,
         \/ pkg' = [pkg EXCEPT ![p].status = "PENDING_DEPOSIT", ![p].pin = c]
         \/ pkg' = [pkg EXCEPT ![p].pin = c, ![p].reissuedAt = t]
  PROVE  pkg' \in [Packages -> Package]
  <1>1. pkg \in [Packages -> Package]
    BY DEF PickupTypeOK
  <1> QED BY <1>1 DEF Package, Status

(* The steps that begin a request.                                          *)
LEMMA BeginStep ==
  ASSUME PickupTypeOK, NEW r \in Requests, NEW pc \in Place, NEW key \in Keys \cup {Kiosk},
         NEW p \in Packages, NEW code \in Pins \cup {NoPin}, Begin(r, pc, key, p, code),
         UNCHANGED <<pkg, due, face, attempts, wall>>
  PROVE  PickupTypeOK'
  BY BeginType DEF PickupTypeOK

(* The steps on the limiters, the requests and one package.                 *)
LEMMA LookupStep ==
  ASSUME PickupTypeOK, LimiterStep, try' \in [Requests -> Held \cup {Idle}],
         UNCHANGED <<pkg, due, face, wall>>
  PROVE  PickupTypeOK'
  BY LimiterType DEF PickupTypeOK

(* Storing a PIN: at creation, or again.                                    *)
LEMMA PinSteps ==
  ASSUME PickupTypeOK, NEW r \in Requests, CreatePackage(r) \/ StoreReissuedOtp(r)
  PROVE  PickupTypeOK' /\ LimiterStep /\ wall' = wall
  <1>1. try[r] \in Held
    BY HeldBy DEF CreatePackage, StoreReissuedOtp, At, Place
  <1>2. /\ try[r].pack \in Packages /\ try[r].code \in Pins \cup {NoPin}
        /\ try[r].at \in Nat
    BY <1>1 DEF Held
  <1>3. End(r) /\ UNCHANGED <<due, face, attempts, wall>>
    BY DEF CreatePackage, StoreReissuedOtp
  <1>4. pkg' \in [Packages -> Package]
    <2>1. pkg \in [Packages -> Package]
      BY DEF PickupTypeOK
    <2>2. CASE CreatePackage(r)
      BY <1>2, <2>1, <2>2, PinType DEF CreatePackage
    <2>3. CASE StoreReissuedOtp(r)
      BY <1>2, <2>1, <2>3, PinType DEF StoreReissuedOtp
    <2> QED BY <2>2, <2>3
  <1>5. try' \in [Requests -> Held \cup {Idle}]
    BY <1>3, EndType
  <1> QED BY <1>3, <1>4, <1>5 DEF PickupTypeOK, LimiterStep

(* Looking a package up: by its PIN, its token or a face.                   *)
LEMMA FindSteps ==
  ASSUME PickupTypeOK, NEW r \in Requests,
         \/ FindByPin(r) \/ FindByQrToken(r) \/ RejectForgery(r)
         \/ \E similar \in SUBSET Residents : VerifyAndUnlock(r, similar)
  PROVE  PickupTypeOK' /\ LimiterStep /\ wall' = wall
  <1>1. try[r].pc \in Place
    BY DEF FindByPin, FindByQrToken, RejectForgery, VerifyAndUnlock, At, Place
  <1>2. try[r] \in Held /\ Pickupable \subseteq Packages
    BY <1>1, HeldBy DEF Pickupable
  <1>3. UNCHANGED <<pkg, due, face, wall>>
    BY DEF FindByPin, FindByQrToken, RejectForgery, VerifyAndUnlock
  <1>4. LimiterStep /\ try' \in [Requests -> Held \cup {Idle}]
    <2>1. CASE FindByPin(r)
      <3>1. Refuse(r) \/ \E p \in Packages : Accept(r, p)
        BY <1>2, <2>1 DEF FindByPin
      <3> QED BY <1>1, <3>1, RefuseStep, AcceptStep
    <2>2. CASE FindByQrToken(r)
      <3>1. Refuse(r) \/ \E p \in Packages : Accept(r, p)
        BY <1>2, <2>2 DEF FindByQrToken
      <3> QED BY <1>1, <3>1, RefuseStep, AcceptStep
    <2>3. CASE \E similar \in SUBSET Residents : VerifyAndUnlock(r, similar)
      <3>1. Refuse(r) \/ \E p \in Packages : Found(r, p) /\ UNCHANGED attempts
        BY <1>2, <2>3 DEF VerifyAndUnlock
      <3>2. CASE Refuse(r)
        BY <3>2, RefuseStep
      <3>3. CASE \E p \in Packages : Found(r, p) /\ UNCHANGED attempts
        BY <1>1, <3>3, GoOnType DEF LimiterStep
      <3> QED BY <3>1, <3>2, <3>3
    <2>4. CASE RejectForgery(r)
      BY <2>4, RefuseStep DEF RejectForgery
    <2> QED BY <2>1, <2>2, <2>3, <2>4
  <1> QED BY <1>3, <1>4, LookupStep

(* The fee, the claim and the end of a pickup.                              *)
LEMMA PickupSteps ==
  ASSUME PickupTypeOK, NEW r \in Requests,
         \/ BuildPaymentRequiredResult(r) \/ RequirePaymentAtCamera(r)
         \/ ClaimPackageForPickup(r) \/ CompletePickup(r) \/ CompleteFacePickup(r)
         \/ NothingToMatch(r)
  PROVE  PickupTypeOK' /\ LimiterStep /\ wall' = wall
  <1>1. try[r].pc \in Place /\ UNCHANGED <<due, face, wall>>
    BY DEF BuildPaymentRequiredResult, RequirePaymentAtCamera, ClaimPackageForPickup,
           CompletePickup, CompleteFacePickup, NothingToMatch, At, Place
  <1>2. LimiterStep
    BY DEF BuildPaymentRequiredResult, RequirePaymentAtCamera, ClaimPackageForPickup,
           CompletePickup, CompleteFacePickup, NothingToMatch, Reset, LimiterStep, Keys
  <1>3. End(r) \/ \E pc \in Place : GoTo(r, pc)
    BY DEF BuildPaymentRequiredResult, RequirePaymentAtCamera, ClaimPackageForPickup,
           CompletePickup, CompleteFacePickup, NothingToMatch, Place
  <1>4. try' \in [Requests -> Held \cup {Idle}]
    BY <1>1, <1>3, EndType, GoOnType
  <1>5. pkg' \in [Packages -> Package]
    <2>1. try[r].pack \in Packages
      BY <1>1, HeldBy DEF Held
    <2>2. CASE ClaimPackageForPickup(r)
      <3>1. pkg' = [pkg EXCEPT ![try[r].pack].status = "PICKED_UP"] \/ pkg' = pkg
        BY <2>2 DEF ClaimPackageForPickup
      <3>2. "PICKED_UP" \in Status /\ pkg \in [Packages -> Package]
        BY DEF Status, PickupTypeOK
      <3> QED BY <2>1, <3>1, <3>2, StatusType
    <2>3. CASE ~ClaimPackageForPickup(r)
      BY <2>3 DEF BuildPaymentRequiredResult, RequirePaymentAtCamera, CompletePickup,
                     CompleteFacePickup, NothingToMatch, PickupTypeOK
    <2> QED BY <2>2, <2>3
  <1> QED BY <1>1, <1>2, <1>4, <1>5, LimiterType DEF PickupTypeOK

(* Saving a face that a resident has sent.                                  *)
LEMMA FaceStep ==
  ASSUME PickupTypeOK, EnrollsResident, NEW r \in Requests, SaveFace(r)
  PROVE  PickupTypeOK' /\ LimiterStep /\ wall' = wall
  <1>1. try[r].key \in Residents /\ End(r) /\ UNCHANGED <<pkg, due, attempts, wall>>
    BY DEF SaveFace, At, EnrollsResident
  <1>2. face' \subseteq Residents
    BY <1>1 DEF SaveFace, PickupTypeOK
  <1> QED BY <1>1, <1>2, EndType DEF PickupTypeOK, LimiterStep

(* The requests that begin.                                                 *)
LEMMA BeginSteps ==
  ASSUME PickupTypeOK, NEW r \in Requests,
         \/ \E p \in Packages, pin \in Pins : DropOff(r, p, pin) \/ ResendOtp(r, p, pin)
         \/ \E key \in PickupCallers :
              \/ \E pin \in Pins : PickupWithOtp(r, key, pin)
              \/ \E p \in Packages : PickupWithQr(r, key, p)
         \/ \E u \in Residents : EnrollFace(r, u)
         \/ VerifyFaceWithLockout(r)
  PROVE  PickupTypeOK' /\ LimiterStep /\ wall' = wall
  <1>1. \E pc \in Place, key \in Keys \cup {Kiosk}, p \in Packages, code \in Pins \cup {NoPin} :
           Begin(r, pc, key, p, code)
    BY DEF DropOff, ResendOtp, PickupWithOtp, PickupWithQr, EnrollFace, VerifyFaceWithLockout,
           PickupCallers, Place, Keys
  <1>2. UNCHANGED <<pkg, due, face, attempts, wall>>
    BY DEF DropOff, ResendOtp, PickupWithOtp, PickupWithQr, EnrollFace, VerifyFaceWithLockout
  <1> QED BY <1>1, <1>2, BeginStep DEF LimiterStep
-----------------------------------------------------------------------------
(* Every step keeps the types; it works on the limiters or on the clock.    *)
LEMMA EveryStep ==
  ASSUME PickupTypeOK, EnrollsResident, [Next]_kvars
  PROVE  /\ PickupTypeOK'
         /\ \/ LimiterStep /\ wall' = wall
            \/ attempts' = attempts /\ wall' = wall + 1
  <1>1. ASSUME NEW p \in Packages, ConfirmDeposit(p) \/ ChangeFee(p)
        PROVE  PickupTypeOK' /\ LimiterStep /\ wall' = wall
    <2>1. UNCHANGED <<face, attempts, try, wall>>
      BY <1>1 DEF ConfirmDeposit, ChangeFee
    <2>2. due' \subseteq Packages
      BY <1>1 DEF ConfirmDeposit, ChangeFee, PickupTypeOK
    <2>3. pkg' \in [Packages -> Package]
      <3>1. "WAITING_FOR_PICKUP" \in Status
        BY DEF Status
      <3>2. \/ pkg' = [pkg EXCEPT ![p].status = "WAITING_FOR_PICKUP"] \/ pkg' = pkg
        BY <1>1 DEF ConfirmDeposit, ChangeFee
      <3> QED BY <3>1, <3>2, StatusType DEF PickupTypeOK
    <2> QED BY <2>1, <2>2, <2>3 DEF PickupTypeOK, LimiterStep
  <1>2. ASSUME NEW u \in Residents, RemoveFace(u)
        PROVE  PickupTypeOK' /\ LimiterStep /\ wall' = wall
    BY <1>2 DEF RemoveFace, PickupTypeOK, LimiterStep
  <1>3. CASE Tick
    BY <1>3, PickupAssumption DEF Tick, PickupTypeOK
  <1>4. CASE UNCHANGED kvars
    BY <1>4 DEF kvars, PickupTypeOK, LimiterStep
  <1> QED BY <1>1, <1>2, <1>3, <1>4, BeginSteps, FaceStep, FindSteps, PickupSteps, PinSteps DEF Next

(* A request comes to "enroll" only as the request of a resident.           *)
LEMMA EnrollsStep ==
  ASSUME PickupTypeOK, EnrollsResident, [Next]_kvars
  PROVE  EnrollsResident'
  <1> SUFFICES ASSUME NEW r \in Requests, try'[r].pc = "enroll"
               PROVE  try'[r].key \in Residents
    BY DEF EnrollsResident
  <1>1. try \in [Requests -> Held \cup {Idle}]
    BY DEF PickupTypeOK
  <1>2. try[r].pc = "enroll" => try[r].key \in Residents
    BY DEF EnrollsResident
  <1>3. CASE try' = try
    BY <1>2, <1>3
  <1>4. ASSUME NEW q \in Requests, NEW pc \in Place, NEW key \in Keys \cup {Kiosk},
               NEW p \in Packages, NEW code \in Pins \cup {NoPin}, Begin(q, pc, key, p, code),
               pc = "enroll" => key \in Residents
        PROVE  try'[r].key \in Residents
    BY <1>1, <1>2, <1>4 DEF Begin
  <1>5. ASSUME NEW q \in Requests, End(q)
        PROVE  try'[r].key \in Residents
    BY <1>1, <1>2, <1>5 DEF End, Idle
  <1>6. ASSUME NEW q \in Requests, try[q].pc \in Place,
               \/ \E pc \in {"claim", "unlocked"} : GoTo(q, pc)
               \/ \E p \in Packages : Found(q, p)
        PROVE  try'[r].key \in Residents
    <2>1. try[q] \in Held
      BY <1>6, HeldBy
    <2>2. try'[q].pc # "enroll" /\ (r # q => try'[r] = try[r])
      BY <1>1, <1>6, <2>1 DEF GoTo, Found, Held
    <2> QED BY <1>2, <2>2
  <1>7. CASE \E q \in Requests :
          \/ \E p \in Packages, pin \in Pins : DropOff(q, p, pin) \/ ResendOtp(q, p, pin)
          \/ \E key \in PickupCallers :
              \/ \E pin \in Pins : PickupWithOtp(q, key, pin)
              \/ \E p \in Packages : PickupWithQr(q, key, p)
          \/ \E u \in Residents : EnrollFace(q, u)
          \/ VerifyFaceWithLockout(q)
    <2>1. \E q \in Requests, pc \in Place, key \in Keys \cup {Kiosk}, p \in Packages,
             code \in Pins \cup {NoPin} :
             Begin(q, pc, key, p, code) /\ (pc = "enroll" => key \in Residents)
      BY <1>7 DEF DropOff, ResendOtp, PickupWithOtp, PickupWithQr, EnrollFace,
                  VerifyFaceWithLockout, PickupCallers, Place, Keys
    <2> QED BY <1>4, <2>1
  <1>8. CASE \E q \in Requests :
          \/ CreatePackage(q) \/ StoreReissuedOtp(q) \/ NothingToMatch(q) \/ CompletePickup(q)
          \/ CompleteFacePickup(q) \/ RejectForgery(q) \/ SaveFace(q)
    BY <1>5, <1>8 DEF CreatePackage, StoreReissuedOtp, NothingToMatch, CompletePickup,
                      CompleteFacePickup, RejectForgery, Refuse, SaveFace
  <1>9. CASE \E q \in Requests :
          \/ FindByPin(q) \/ FindByQrToken(q)
          \/ \E similar \in SUBSET Residents : VerifyAndUnlock(q, similar)
          \/ BuildPaymentRequiredResult(q) \/ RequirePaymentAtCamera(q)
          \/ ClaimPackageForPickup(q)
    <2>1. PICK q \in Requests :
            /\ try[q].pc \in Place
            /\ End(q) \/ (\E pc \in {"claim", "unlocked"} : GoTo(q, pc))
               \/ \E p \in Packages : Found(q, p)
      <3>1. ASSUME NEW q \in Requests, FindByPin(q)
            PROVE  try[q].pc \in Place /\ (End(q) \/ \E p \in Packages : Found(q, p))
        BY <3>1 DEF FindByPin, At, Place, Refuse, Accept, Pickupable
      <3>2. ASSUME NEW q \in Requests, FindByQrToken(q)
            PROVE  try[q].pc \in Place /\ (End(q) \/ \E p \in Packages : Found(q, p))
        BY <3>2 DEF FindByQrToken, At, Place, Refuse, Accept, Pickupable
      <3>3. ASSUME NEW q \in Requests, NEW similar \in SUBSET Residents, VerifyAndUnlock(q, similar)
            PROVE  try[q].pc \in Place /\ (End(q) \/ \E p \in Packages : Found(q, p))
        BY <3>3 DEF VerifyAndUnlock, At, Place, Refuse, Pickupable
      <3>4. ASSUME NEW q \in Requests,
                   \/ BuildPaymentRequiredResult(q) \/ RequirePaymentAtCamera(q)
                   \/ ClaimPackageForPickup(q)
            PROVE  /\ try[q].pc \in Place
                   /\ End(q) \/ \E pc \in {"claim", "unlocked"} : GoTo(q, pc)
        BY <3>4 DEF BuildPaymentRequiredResult, RequirePaymentAtCamera, ClaimPackageForPickup,
                    At, Place
      <3> QED BY <1>9, <3>1, <3>2, <3>3, <3>4
    <2> QED BY <1>5, <1>6, <2>1
  <1>10. CASE \E p \in Packages : ConfirmDeposit(p) \/ ChangeFee(p)
    BY <1>3, <1>10 DEF ConfirmDeposit, ChangeFee
  <1>11. CASE (\E u \in Residents : RemoveFace(u)) \/ Tick \/ UNCHANGED kvars
    BY <1>3, <1>11 DEF RemoveFace, Tick, kvars
  <1> QED BY <1>7, <1>8, <1>9, <1>10, <1>11 DEF Next

(* The invariant holds at first.                                            *)
LEMMA PickupInit == Init => PickupInv
  <1> SUFFICES ASSUME Init PROVE PickupInv
    OBVIOUS
  <1>1. PickupTypeOK
    <2>1. [status |-> "none", pin |-> NoPin, reissuedAt |-> 0 - ReissueCooldown] \in Package
      BY PickupAssumption DEF Package, Status
    <2>2. wall \in 0..Horizon
      BY PickupAssumption DEF Init
    <2> QED BY <2>1, <2>2, NoAttemptsType DEF Init, PickupTypeOK
  <1>2. EnrollsResident
    BY DEF Init, EnrollsResident, Idle
  <1>3. LockInWindow
    BY NoAttemptsType DEF Init, LockInWindow
  <1> QED BY <1>1, <1>2, <1>3 DEF PickupInv

(* The clock only shortens what is left of a lock.                          *)
LEMMA ClockInWindow ==
  ASSUME PickupInv, attempts' = attempts, wall' = wall + 1
  PROVE  LockInWindow'
  <1>1. attempts \in [Keys -> Attempts] /\ wall \in Nat /\ Lock \in Nat
    BY PickupAssumption DEF PickupInv, PickupTypeOK
  <1> SUFFICES ASSUME NEW k \in Keys PROVE InWindow(attempts[k], wall + 1)
    BY DEF LockInWindow
  <1>2. InWindow(attempts[k], wall) /\ attempts[k] \in Attempts
    BY <1>1 DEF PickupInv, LockInWindow
  <1> QED BY <1>1, <1>2 DEF InWindow, Attempts

(* Every step keeps the invariant.                                          *)
LEMMA PickupNext == PickupInv /\ [Next]_kvars => PickupInv'
  <1> SUFFICES ASSUME PickupInv, [Next]_kvars PROVE PickupInv'
    OBVIOUS
  <1>1. PickupTypeOK /\ EnrollsResident
    BY DEF PickupInv
  <1>2. LockInWindow'
    BY <1>1, EveryStep, LimiterInWindow, ClockInWindow
  <1> QED BY <1>1, <1>2, EveryStep, EnrollsStep DEF PickupInv

(* Packages, limiters and requests keep their type, and a lock ends within  *)
(* Lock of its window, in every reachable state.                            *)
THEOREM PickupInvariant == Spec => []PickupInv
  BY PickupInit, PickupNext, PTL DEF Spec

(* A lock runs its time or is lifted by a success: LockHolds, for any       *)
(* number of overlapping requests of a key (pickup-attempt-limiter.ts).     *)
THEOREM LockOutlastsFailures == Spec => LockHolds
  <1>1. PickupInv /\ [Next]_kvars
          => [\A k \in Keys : attempts[k].lockedUntil > wall =>
                \/ attempts'[k].lockedUntil >= attempts[k].lockedUntil
                \/ attempts'[k] = NoAttempts]_kvars
    <2> SUFFICES ASSUME PickupInv, [Next]_kvars, NEW k \in Keys, attempts[k].lockedUntil > wall
                 PROVE  \/ attempts'[k].lockedUntil >= attempts[k].lockedUntil
                        \/ attempts'[k] = NoAttempts
      OBVIOUS
    <2>1. PickupTypeOK /\ EnrollsResident
      BY DEF PickupInv
    <2>2. CASE LimiterStep /\ wall' = wall
      BY <2>2, LimiterKeepsLock
    <2>3. CASE attempts' = attempts
      BY <2>3 DEF PickupInv, PickupTypeOK, Attempts
    <2> QED BY <2>1, <2>2, <2>3, EveryStep
  <1> QED BY <1>1, PickupInvariant, PTL DEF Spec, LockHolds
-----------------------------------------------------------------------------
(* Accounts                                                                 *)

(* Two-factor authentication is on with a confirmed secret.                 *)
Factor ==
    /\ user.enabled <=> user.secret # NoSecret
    /\ user.enabled => user.secret \in confirmed

(* A request that is to enable the second factor holds a confirmed secret.  *)
Confirms == \A c \in Requests : A!At(c, "enable") => call[c].secret \in confirmed

(* A refresh has read a session that has not ended since, or it counts as   *)
(* earlier than the end; only a deletion ends a session without a count.    *)
Refreshing ==
    \A c \in Requests : A!At(c, "refreshed") =>
        /\ call[c].ends <= ends
        /\ call[c].ends = ends => user.session \/ ~user.exists

AccountInv == A!AccountTypeOK /\ Factor /\ Confirms /\ Refreshing

(* At the start nothing is confirmed and no request has begun.              *)
LEMMA AccountStart == ASSUME A!Init PROVE AccountInv
  <1> USE AccessAssumption DEF A!AccountAssumption
  <1>1. PICK s \in {"PENDING", "ACTIVE"} :
          user = [exists |-> TRUE, session |-> FALSE, status |-> s,
                  reset |-> FALSE, age |-> "never", enabled |-> FALSE, temp |-> NoSecret,
                  secret |-> NoSecret, codes |-> {}]
    BY DEF A!Init
  <1>2. user \in A!Account /\ user.enabled = FALSE /\ user.secret = NoSecret
    BY <1>1 DEF A!Account, A!Approval, A!Age
  <1>3. A!AtRest \in A!Held /\ A!AtRest.pc = "idle"
    BY DEF A!AtRest, A!Held, A!Place, A!Approval
  <1>4. call = [c \in Requests |-> A!AtRest] /\ confirmed = {} /\ fresh = Secrets /\ ends = 0
    BY DEF A!Init
  <1>5. A!AccountTypeOK
    BY <1>2, <1>3, <1>4 DEF A!AccountTypeOK
  <1>6. Confirms /\ Refreshing
    BY <1>3, <1>4 DEF Confirms, Refreshing, A!At
  <1> QED BY <1>2, <1>5, <1>6 DEF AccountInv, Factor

(* What a step may do to the account: it stays one, a deleted account stays *)
(* as it is, and a session ends only with a count.                          *)
AccountKept ==
    /\ user' \in A!Account /\ ends' \in Nat /\ ends' >= ends
    /\ ~user.exists => ~user'.exists /\ user'.session = user.session
    /\ user.session /\ user.exists => user'.session \/ ~user'.exists \/ ends' > ends

(* What a step may do to the request of c: it holds what it may hold.       *)
Moves(c, r) ==
    /\ r \in A!Held /\ call' = [call EXCEPT ![c] = r]
    /\ r.pc = "enable" => r.secret \in confirmed'
    /\ r.pc = "refreshed" =>
          r.ends = ends /\ ends' = ends /\ user.session /\ UNCHANGED user

FactorKept ==
    /\ user'.enabled <=> user'.secret # NoSecret
    /\ user'.enabled => user'.secret \in confirmed'

(* Together they keep the invariant.                                        *)
LEMMA AccountStep ==
  ASSUME AccountInv, AccountKept, FactorKept,
         UNCHANGED call \/ \E c \in Requests : \E r : Moves(c, r),
         confirmed \subseteq confirmed', confirmed' \subseteq Secrets, fresh' \subseteq Secrets
  PROVE  AccountInv'
  <1>0. A!AccountTypeOK /\ Confirms /\ Refreshing /\ call \in [Requests -> A!Held]
        /\ ends \in Nat
    BY DEF AccountInv, A!AccountTypeOK
  <1>1. call' \in [Requests -> A!Held]
    BY <1>0 DEF Moves
  <1>2. A!AccountTypeOK'
    BY <1>1 DEF A!AccountTypeOK, AccountKept
  <1>3. Factor'
    BY DEF FactorKept, Factor
  <1>4. Confirms'
    BY <1>0 DEF Confirms, A!At, Moves
  <1>5. ASSUME NEW d \in Requests, call'[d].pc = "refreshed"
        PROVE  /\ call'[d].ends <= ends'
               /\ call'[d].ends = ends' => user'.session \/ ~user'.exists
    <2>1. CASE call'[d] = call[d]
      <3>1. /\ call[d].ends <= ends /\ call[d].ends \in Nat
            /\ call[d].ends = ends => user.session \/ ~user.exists
        BY <1>0, <1>5, <2>1 DEF Refreshing, A!At, A!Held
      <3>2. ends' \in Nat /\ ends' >= ends
        BY DEF AccountKept
      <3>3. CASE call[d].ends = ends'
        <4>1. call[d].ends = ends /\ ends' = ends
          BY <1>0, <3>1, <3>2, <3>3
        <4> QED BY <1>0, <2>1, <3>1, <3>2, <4>1 DEF AccountKept
      <3>4. CASE call[d].ends # ends'
        BY <1>0, <2>1, <3>1, <3>2, <3>4
      <3> QED BY <3>3, <3>4
    <2>2. CASE call'[d] # call[d]
      <3>1. PICK c \in Requests : \E r : Moves(c, r)
        BY <2>2
      <3>2. PICK r : Moves(c, r)
        BY <3>1
      <3>3. c = d /\ call'[d] = r
        BY <1>0, <2>2, <3>2 DEF Moves
      <3>4. call'[d].ends = ends' /\ ends' = ends /\ user'.session
        BY <1>5, <3>2, <3>3 DEF Moves
      <3> QED BY <1>0, <3>4
    <2> QED BY <2>1, <2>2
  <1> QED BY <1>2, <1>3, <1>4, <1>5 DEF AccountInv, Refreshing, A!At

(* A step that leaves the account alone keeps it.                           *)
LEMMA AccountAlone ==
  ASSUME AccountInv, UNCHANGED <<user, ends>>, confirmed \subseteq confirmed'
  PROVE  AccountKept /\ FactorKept
  <1>1. user \in A!Account /\ ends \in Nat /\ Factor
    BY DEF AccountInv, A!AccountTypeOK
  <1> QED BY <1>1 DEF AccountKept, FactorKept, Factor

(* What a new request holds.                                                *)
LEMMA BeginMoves ==
  ASSUME AccountInv, NEW c \in Requests, NEW pc \in A!Place, NEW status \in A!Approval,
         NEW secret \in Secrets \cup {NoSecret}, A!Begin(c, pc, status, secret),
         pc = "enable" => secret \in confirmed', pc # "refreshed"
  PROVE  \E r : Moves(c, r)
  <1> DEFINE r == [A!AtRest EXCEPT !.pc = pc, !.status = status, !.secret = secret]
  <1>1. r \in A!Held /\ r.pc = pc /\ r.secret = secret
    BY DEF A!AtRest, A!Held
  <1>2. call' = [call EXCEPT ![c] = r]
    BY DEF A!Begin
  <1> HIDE DEF r
  <1>3. Moves(c, r)
    BY <1>1, <1>2 DEF Moves
  <1> QED BY <1>3

(* A request that ends holds nothing.                                       *)
LEMMA FinishMoves ==
  ASSUME AccountInv, NEW c \in Requests, A!Finish(c)
  PROVE  \E r : Moves(c, r)
  <1>1. A!AtRest \in A!Held /\ A!AtRest.pc = "idle"
    BY AccessAssumption DEF A!AtRest, A!Held, A!Place, A!Approval
  <1>2. Moves(c, A!AtRest)
    BY <1>1 DEF Moves, A!Finish
  <1> QED BY <1>2

(* Requests that begin, read or give up: the account is not written.        *)
LEMMA ReadingSteps ==
  ASSUME AccountInv, NEW c \in Requests,
         \/ A!Login(c) \/ A!AuthenticateTotp(c) \/ A!GiveUp(c)
         \/ (\E k \in Codes : A!AuthenticateRecovery(c, k))
         \/ A!RefreshTokens(c) \/ A!ChangePassword(c) \/ A!ForgotPassword(c) \/ A!ResetPassword(c)
         \/ (\E s \in Secrets : A!Generate2faSecret(c, s))
         \/ A!TurnOn2fa(c) \/ A!TurnOff2fa(c)
         \/ (\E s \in A!Approval : A!UpdateByAdmin(c, s)) \/ A!RemoveScoped(c)
  PROVE  AccountInv'
  <1>0. /\ user \in A!Account /\ call \in [Requests -> A!Held] /\ call[c] \in A!Held
        /\ confirmed \subseteq Secrets /\ fresh \subseteq Secrets /\ ends \in Nat
        /\ A!AtRest \in A!Held /\ A!AtRest.pc = "idle"
    BY DEF AccountInv, A!AccountTypeOK, A!AtRest, A!Held, A!Place, A!Approval
  <1>1. UNCHANGED <<user, ends>> /\ confirmed \subseteq confirmed'
        /\ confirmed' \subseteq Secrets /\ fresh' \subseteq Secrets
    <2>1. CASE A!TurnOn2fa(c)
      BY <1>0, <2>1 DEF A!TurnOn2fa, A!Account
    <2>2. CASE \E s \in Secrets : A!Generate2faSecret(c, s)
      BY <1>0, <2>2 DEF A!Generate2faSecret
    <2>3. CASE ~A!TurnOn2fa(c) /\ ~\E s \in Secrets : A!Generate2faSecret(c, s)
      BY <1>0, <2>3 DEF A!Login, A!AuthenticateTotp, A!GiveUp, A!AuthenticateRecovery,
           A!RefreshTokens, A!ChangePassword, A!ForgotPassword, A!ResetPassword, A!TurnOff2fa,
           A!UpdateByAdmin, A!RemoveScoped
    <2> QED BY <2>1, <2>2, <2>3
  <1>2. \E r : Moves(c, r)
    <2> USE DEF A!Place, A!Approval
    <2>1. CASE A!Login(c)
      BY <2>1, BeginMoves DEF A!Login
    <2>2. CASE A!AuthenticateTotp(c)
      <3> DEFINE r == [call[c] EXCEPT !.pc = "store"]
      <3>1. CASE A!Finish(c)
        BY <3>1, FinishMoves
      <3>2. CASE call' = [call EXCEPT ![c].pc = "store"]
        <4>1. r \in A!Held /\ r.pc = "store" /\ call' = [call EXCEPT ![c] = r]
          BY <1>0, <3>2 DEF A!Held
        <4> HIDE DEF r
        <4>2. Moves(c, r)
          BY <4>1 DEF Moves
        <4> QED BY <4>2
      <3> QED BY <2>2, <3>1, <3>2 DEF A!AuthenticateTotp
    <2>3. CASE A!GiveUp(c)
      BY <2>3, FinishMoves DEF A!GiveUp
    <2>4. CASE \E k \in Codes : A!AuthenticateRecovery(c, k)
      <3>1. PICK k \in Codes : A!AuthenticateRecovery(c, k)
        BY <2>4
      <3> DEFINE r == [call[c] EXCEPT !.pc = "consume", !.status = user.status,
                                      !.rest = user.codes \ {k}]
      <3>2. r \in A!Held /\ r.pc = "consume"
        BY <1>0 DEF A!Held, A!Account
      <3>3. call' = [call EXCEPT ![c] = r]
        BY <1>0, <3>1 DEF A!AuthenticateRecovery
      <3> HIDE DEF r
      <3>4. Moves(c, r)
        BY <3>2, <3>3 DEF Moves
      <3> QED BY <3>4
    <2>5. CASE A!RefreshTokens(c)
      <3> DEFINE r == [call[c] EXCEPT !.pc = "refreshed", !.ends = ends]
      <3>2. r \in A!Held /\ r.pc = "refreshed" /\ r.ends = ends
        BY <1>0 DEF A!Held
      <3>3. call' = [call EXCEPT ![c] = r]
        BY <1>0, <2>5 DEF A!RefreshTokens
      <3> HIDE DEF r
      <3>4. Moves(c, r)
        BY <1>1, <2>5, <3>2, <3>3 DEF Moves, A!RefreshTokens
      <3> QED BY <3>4
    <2>6. CASE A!ChangePassword(c) \/ A!ForgotPassword(c) \/ A!ResetPassword(c)
               \/ A!TurnOff2fa(c) \/ A!RemoveScoped(c)
      BY <2>6, BeginMoves DEF A!ChangePassword, A!ForgotPassword, A!ResetPassword, A!TurnOff2fa,
                              A!RemoveScoped
    <2>7. CASE \E s \in Secrets : A!Generate2faSecret(c, s)
      BY <2>7, BeginMoves DEF A!Generate2faSecret
    <2>8. CASE A!TurnOn2fa(c)
      BY <1>0, <2>8, BeginMoves DEF A!TurnOn2fa, A!Account
    <2>9. CASE \E s \in A!Approval : A!UpdateByAdmin(c, s)
      BY <2>9, BeginMoves DEF A!UpdateByAdmin
    <2> QED BY <2>1, <2>2, <2>3, <2>4, <2>5, <2>6, <2>7, <2>8, <2>9
  <1> QED BY <1>1, <1>2, AccountAlone, AccountStep

(* A write that leaves the second factor alone, and ends a session only     *)
(* with a count.                                                            *)
LEMMA OtherFields ==
  ASSUME AccountInv, NEW new \in A!Account, user' = new \/ user' = IF user.exists THEN new ELSE user,
         new.enabled = user.enabled, new.secret = user.secret, UNCHANGED confirmed,
         ~user.exists => (~new.exists /\ new.session = user.session) \/ user' = user,
         ends' \in Nat, ends' >= ends, user.session => new.session \/ ~new.exists \/ ends' > ends
  PROVE  AccountKept /\ FactorKept
  <1>1. user \in A!Account /\ Factor
    BY DEF AccountInv, A!AccountTypeOK
  <1> QED BY <1>1 DEF AccountKept, FactorKept, Factor

(* Writes of fields other than the second factor.                           *)
LEMMA WritingSteps ==
  ASSUME AccountInv, NEW c \in Requests,
         \/ A!ConsumeRecoveryCode(c) \/ A!UpdateRefreshTokenHash(c) \/ A!WritePassword(c)
         \/ A!SetResetPasswordOtp(c) \/ A!UpdatePasswordAndClearResetOtp(c)
         \/ A!SaveTempTwoFactorSecret(c) \/ A!WriteByAdmin(c) \/ A!FindByIdAndDelete(c)
  PROVE  AccountInv'
  <1>0. /\ user \in A!Account /\ call \in [Requests -> A!Held] /\ call[c] \in A!Held
        /\ confirmed \subseteq Secrets /\ fresh \subseteq Secrets /\ ends \in Nat
    BY DEF AccountInv, A!AccountTypeOK
  <1>1. UNCHANGED <<confirmed, fresh>>
    BY DEF A!ConsumeRecoveryCode, A!UpdateRefreshTokenHash, A!WritePassword, A!SetResetPasswordOtp,
           A!UpdatePasswordAndClearResetOtp, A!SaveTempTwoFactorSecret, A!WriteByAdmin,
           A!FindByIdAndDelete
  <1>2. \E r : Moves(c, r)
    <2>1. CASE A!Finish(c)
      BY <2>1, FinishMoves
    <2>2. CASE ~A!Finish(c)
      <3> DEFINE r == [A!AtRest EXCEPT !.pc = "store"]
      <3>1. r \in A!Held /\ r.pc = "store"
        BY DEF A!AtRest, A!Held, A!Place, A!Approval
      <3>2. call' = [call EXCEPT ![c] = r]
        BY <2>2 DEF A!ConsumeRecoveryCode, A!UpdateRefreshTokenHash, A!WritePassword,
           A!SetResetPasswordOtp, A!UpdatePasswordAndClearResetOtp, A!SaveTempTwoFactorSecret,
           A!WriteByAdmin, A!FindByIdAndDelete
      <3> HIDE DEF r
      <3>3. Moves(c, r)
        BY <3>1, <3>2 DEF Moves
      <3> QED BY <3>3
    <2> QED BY <2>1, <2>2
  <1>3. AccountKept /\ FactorKept
    <2>1. CASE A!ConsumeRecoveryCode(c)
      <3> DEFINE new == [user EXCEPT !.codes = call[c].rest]
      <3>1. new \in A!Account /\ new.enabled = user.enabled /\ new.secret = user.secret
            /\ new.session = user.session
        BY <1>0 DEF A!Account, A!Held
      <3>2. user' = (IF user.exists THEN new ELSE user) /\ ends' = ends
        BY <2>1 DEF A!ConsumeRecoveryCode, A!Write
      <3> HIDE DEF new
      <3> QED BY <1>0, <1>1, <3>1, <3>2, OtherFields
    <2>2. CASE A!UpdateRefreshTokenHash(c)
      <3> DEFINE new == [user EXCEPT !.session = TRUE]
      <3>1. new \in A!Account /\ new.enabled = user.enabled /\ new.secret = user.secret /\ new.session
        BY <1>0 DEF A!Account
      <3>2. user' = (IF user.exists THEN new ELSE user) /\ ends' = ends
        BY <2>2 DEF A!UpdateRefreshTokenHash, A!Write
      <3> HIDE DEF new
      <3> QED BY <1>0, <1>1, <3>1, <3>2, OtherFields
    <2>3. CASE A!WritePassword(c)
      <3> DEFINE new == [user EXCEPT !.session = FALSE]
      <3>1. new \in A!Account /\ new.enabled = user.enabled /\ new.secret = user.secret
        BY <1>0 DEF A!Account
      <3>2. user' = (IF user.exists THEN new ELSE user) /\ ends' = ends + 1
        BY <2>3 DEF A!WritePassword, A!Write, A!EndSession
      <3> HIDE DEF new
      <3> QED BY <1>0, <1>1, <3>1, <3>2, OtherFields
    <2>4. CASE A!SetResetPasswordOtp(c)
      <3> DEFINE new == [user EXCEPT !.reset = TRUE, !.age = "hot"]
      <3>1. new \in A!Account /\ new.enabled = user.enabled /\ new.secret = user.secret
            /\ new.session = user.session
        BY <1>0 DEF A!Account, A!Age
      <3>2. user' = (IF user.exists THEN new ELSE user) /\ ends' = ends
        BY <2>4 DEF A!SetResetPasswordOtp, A!Write
      <3> HIDE DEF new
      <3> QED BY <1>0, <1>1, <3>1, <3>2, OtherFields
    <2>5. CASE A!UpdatePasswordAndClearResetOtp(c)
      <3> DEFINE new == [user EXCEPT !.session = FALSE, !.reset = FALSE]
      <3>1. new \in A!Account /\ new.enabled = user.enabled /\ new.secret = user.secret
        BY <1>0 DEF A!Account
      <3>2. user' = (IF user.exists THEN new ELSE user) /\ ends' = ends + 1
        BY <2>5 DEF A!UpdatePasswordAndClearResetOtp, A!Write, A!EndSession
      <3> HIDE DEF new
      <3> QED BY <1>0, <1>1, <3>1, <3>2, OtherFields
    <2>6. CASE A!SaveTempTwoFactorSecret(c)
      <3> DEFINE new == [user EXCEPT !.temp = call[c].secret]
      <3>1. new \in A!Account /\ new.enabled = user.enabled /\ new.secret = user.secret
            /\ new.session = user.session
        BY <1>0 DEF A!Account, A!Held
      <3>2. user' = (IF user.exists THEN new ELSE user) /\ ends' = ends
        BY <2>6 DEF A!SaveTempTwoFactorSecret, A!Write
      <3> HIDE DEF new
      <3> QED BY <1>0, <1>1, <3>1, <3>2, OtherFields
    <2>7. CASE A!WriteByAdmin(c) /\ call[c].status = "SUSPENDED"
      <3> DEFINE new == [user EXCEPT !.status = "SUSPENDED", !.session = FALSE]
      <3>1. new \in A!Account /\ new.enabled = user.enabled /\ new.secret = user.secret
        BY <1>0 DEF A!Account, A!Approval
      <3>2. user' = (IF user.exists THEN new ELSE user) /\ ends' = ends + 1
        BY <2>7 DEF A!WriteByAdmin, A!Write, A!EndSession
      <3> HIDE DEF new
      <3> QED BY <1>0, <1>1, <3>1, <3>2, OtherFields
    <2>8. CASE A!WriteByAdmin(c) /\ call[c].status # "SUSPENDED"
      <3> DEFINE new == [user EXCEPT !.status = "ACTIVE"]
      <3>1. new \in A!Account /\ new.enabled = user.enabled /\ new.secret = user.secret
            /\ new.session = user.session
        BY <1>0 DEF A!Account, A!Approval
      <3>2. user' = (IF user.exists THEN new ELSE user) /\ ends' = ends
        BY <2>8 DEF A!WriteByAdmin, A!Write
      <3> HIDE DEF new
      <3> QED BY <1>0, <1>1, <3>1, <3>2, OtherFields
    <2>9. CASE A!FindByIdAndDelete(c)
      <3> DEFINE new == [user EXCEPT !.exists = FALSE]
      <3>1. new \in A!Account /\ new.enabled = user.enabled /\ new.secret = user.secret
            /\ new.session = user.session /\ ~new.exists
        BY <1>0 DEF A!Account
      <3>2. user' = new /\ ends' = ends
        BY <2>9 DEF A!FindByIdAndDelete
      <3> HIDE DEF new
      <3> QED BY <1>0, <1>1, <3>1, <3>2, OtherFields
    <2> QED BY <2>1, <2>2, <2>3, <2>4, <2>5, <2>6, <2>7, <2>8, <2>9
  <1> QED BY <1>0, <1>1, <1>2, <1>3, AccountStep

(* The second factor is turned on with the secret whose code was entered,   *)
(* or turned off.                                                           *)
LEMMA FactorSteps ==
  ASSUME AccountInv, NEW c \in Requests, A!EnableTwoFactor(c) \/ A!DisableTwoFactor(c)
  PROVE  AccountInv'
  <1> USE AccessAssumption DEF A!AccountAssumption
  <1>0. /\ user \in A!Account /\ call \in [Requests -> A!Held] /\ call[c] \in A!Held
        /\ confirmed \subseteq Secrets /\ fresh \subseteq Secrets /\ ends \in Nat /\ Factor
    BY DEF AccountInv, A!AccountTypeOK
  <1>1. UNCHANGED <<confirmed, fresh, ends>> /\ A!Finish(c)
    BY DEF A!EnableTwoFactor, A!DisableTwoFactor
  <1>2. AccountKept /\ FactorKept
    <2>1. CASE A!EnableTwoFactor(c)
      <3> DEFINE new == [user EXCEPT !.enabled = TRUE, !.secret = call[c].secret, !.temp = NoSecret,
                                     !.codes = BatchOf[call[c].secret]]
      <3>1. call[c].secret \in confirmed /\ call[c].secret \in Secrets /\ call[c].secret # NoSecret
        BY <1>0, <2>1 DEF AccountInv, Confirms, A!EnableTwoFactor
      <3>2. BatchOf[call[c].secret] \in SUBSET Codes
        BY <3>1
      <3>3. new \in A!Account /\ new.enabled /\ new.secret = call[c].secret
            /\ new.session = user.session /\ new.exists = user.exists
        BY <1>0, <3>1, <3>2 DEF A!Account
      <3>4. user' = IF user.exists THEN new ELSE user
        BY <2>1 DEF A!EnableTwoFactor, A!Write
      <3> HIDE DEF new
      <3> QED BY <1>0, <1>1, <3>1, <3>3, <3>4 DEF AccountKept, FactorKept, Factor
    <2>2. CASE A!DisableTwoFactor(c)
      <3> DEFINE new == [user EXCEPT !.enabled = FALSE, !.secret = NoSecret, !.temp = NoSecret,
                                     !.codes = {}]
      <3>3. new \in A!Account /\ ~new.enabled /\ new.secret = NoSecret
            /\ new.session = user.session /\ new.exists = user.exists
        BY <1>0 DEF A!Account
      <3>4. user' = IF user.exists THEN new ELSE user
        BY <2>2 DEF A!DisableTwoFactor, A!Write
      <3> HIDE DEF new
      <3> QED BY <1>0, <1>1, <3>3, <3>4 DEF AccountKept, FactorKept, Factor
    <2> QED BY <2>1, <2>2
  <1> QED BY <1>0, <1>1, <1>2, FinishMoves, AccountStep

(* Logging out, the age of a code, approval and rejection.                  *)
LEMMA PlainSteps ==
  ASSUME AccountInv,
         A!Logout \/ A!ResetOtpAges \/ \E s \in A!Approval : A!UpdateApprovalStatus(s)
  PROVE  AccountInv'
  <1>0. /\ user \in A!Account /\ confirmed \subseteq Secrets /\ fresh \subseteq Secrets /\ ends \in Nat
    BY DEF AccountInv, A!AccountTypeOK
  <1>1. UNCHANGED <<call, confirmed, fresh>>
    BY DEF A!Logout, A!ResetOtpAges, A!UpdateApprovalStatus
  <1>2. AccountKept /\ FactorKept
    <2>1. CASE A!Logout
      <3> DEFINE new == [user EXCEPT !.session = FALSE]
      <3>1. new \in A!Account /\ new.enabled = user.enabled /\ new.secret = user.secret
        BY <1>0 DEF A!Account
      <3>2. user' = new /\ ends' = ends + 1 /\ user.exists
        BY <2>1 DEF A!Logout, A!EndSession
      <3> HIDE DEF new
      <3> QED BY <1>0, <1>1, <3>1, <3>2, OtherFields
    <2>2. CASE A!ResetOtpAges
      <3> DEFINE new == [user EXCEPT !.age = IF @ = "hot" THEN "live" ELSE "expired"]
      <3>1. new \in A!Account /\ new.enabled = user.enabled /\ new.secret = user.secret
            /\ new.session = user.session /\ new.exists = user.exists
        BY <1>0 DEF A!Account, A!Age
      <3>2. user' = new /\ ends' = ends
        BY <2>2 DEF A!ResetOtpAges
      <3> HIDE DEF new
      <3> QED BY <1>0, <1>1, <3>1, <3>2, OtherFields
    <2>3. ASSUME NEW s \in A!Approval, A!UpdateApprovalStatus(s) PROVE AccountKept /\ FactorKept
      <3> DEFINE new == [user EXCEPT !.status = s]
      <3>1. new \in A!Account /\ new.enabled = user.enabled /\ new.secret = user.secret
            /\ new.session = user.session
        BY <1>0 DEF A!Account
      <3>2. user' = new /\ ends' = ends /\ user.exists
        BY <2>3 DEF A!UpdateApprovalStatus
      <3> HIDE DEF new
      <3> QED BY <1>0, <1>1, <3>1, <3>2, OtherFields
    <2> QED BY <2>1, <2>2, <2>3
  <1> QED BY <1>0, <1>1, <1>2, AccountStep

(* An account keeps its type, and its requests what they may still write.   *)
LEMMA AccountNext == ASSUME AccountInv, [A!Next]_(A!avars) PROVE AccountInv'
  <1>1. CASE UNCHANGED A!avars
    BY <1>1 DEF A!avars, AccountInv, A!AccountTypeOK, Factor, Confirms, Refreshing, A!At
  <1>2. CASE A!Next
    BY <1>2, ReadingSteps, WritingSteps, FactorSteps, PlainSteps DEF A!Next
  <1> QED BY <1>1, <1>2

(* The account, its requests and the secrets keep their types, whatever     *)
(* operations of devices and administrators interleave.                     *)
THEOREM AccountInvariant == AccessSpec => []AccountInv
  <1>1. A!Spec => []AccountInv
    BY AccountStart, AccountNext, PTL DEF A!Spec
  <1> QED BY <1>1, PartsOfAccess, PTL

(* Two-factor authentication is on exactly with a secret, and the user has  *)
(* entered a code of that secret (users.service.ts, enableTwoFactor): also  *)
(* when another device generated a new one between the code and the write.  *)
THEOREM SecretIsConfirmed == AccessSpec => []ActiveSecretWasConfirmed
  <1>1. AccountInv => ActiveSecretWasConfirmed
    BY DEF AccountInv, Factor, ActiveSecretWasConfirmed, A!ActiveSecretWasConfirmed
  <1> QED BY <1>1, AccountInvariant, PTL

(* A session that was ended is revived by a refresh only if that refresh    *)
(* had read the account before the end (auth.service.ts, refreshTokens),    *)
(* whatever logs out, resets, suspends or deletes in between.               *)
THEOREM OnlyEarlierRefreshRevives == AccessSpec => RevivedOnlyByEarlierRefresh
  <1> DEFINE Revives == \A c \in Requests :
                ~user.session /\ user'.session /\ A!At(c, "refreshed") /\ call'[c].pc = "idle"
                => call[c].ends < ends
  <1>1. AccountInv /\ [A!Next]_(A!avars) => [Revives]_(A!avars)
    <2> SUFFICES ASSUME AccountInv, [A!Next]_(A!avars), NEW c \in Requests,
                        ~user.session, user'.session, A!At(c, "refreshed")
                 PROVE  call[c].ends < ends
      OBVIOUS
    <2>1. /\ call[c].ends <= ends /\ (call[c].ends = ends => user.session \/ ~user.exists)
          /\ ends \in Nat /\ call[c].ends \in Nat
      BY DEF AccountInv, A!AccountTypeOK, A!Held, Refreshing
    <2>2. user.exists
      <3> SUFFICES ASSUME ~user.exists PROVE user'.session = user.session
        OBVIOUS
      <3>1. user \in A!Account
        BY DEF AccountInv, A!AccountTypeOK
      <3>2. UNCHANGED user \/ user' = [user EXCEPT !.age = IF @ = "hot" THEN "live" ELSE "expired"]
            \/ user' = [user EXCEPT !.exists = FALSE]
        BY ZenonT(60) DEF A!Next, A!avars, A!Begin, A!Write, A!Login, A!AuthenticateTotp, A!GiveUp,
           A!AuthenticateRecovery, A!RefreshTokens, A!ChangePassword, A!ForgotPassword,
           A!ResetPassword, A!Generate2faSecret, A!TurnOn2fa, A!TurnOff2fa, A!UpdateByAdmin,
           A!RemoveScoped, A!ConsumeRecoveryCode, A!UpdateRefreshTokenHash, A!WritePassword,
           A!SetResetPasswordOtp, A!UpdatePasswordAndClearResetOtp, A!SaveTempTwoFactorSecret,
           A!WriteByAdmin, A!FindByIdAndDelete, A!EnableTwoFactor, A!DisableTwoFactor, A!Logout,
           A!ResetOtpAges, A!UpdateApprovalStatus
      <3> QED BY <3>1, <3>2 DEF A!Account
    <2> QED BY <2>1, <2>2
  <1> QED BY <1>1, AccountInvariant, PartsOfAccess, PTL
          DEF A!Spec, RevivedOnlyByEarlierRefresh, A!RevivedOnlyByEarlierRefresh
-----------------------------------------------------------------------------
(* Shippers                                                                 *)

(* The requests that have compared a code and not recorded it yet.          *)
Comparing == {c \in Requests : ask[c].pc \in {"count", "save"}}

(* While a code is pending, every comparison is recorded or about to be;    *)
(* without a session there is no code.                                      *)
Recorded ==
    /\ ~session.exists => session.otp = 0
    /\ session.otp # 0 => tries <= session.failedAttempts + Cardinality(Comparing)

SessionInv == S!SessionTypeOK /\ Recorded /\ TriesBounded

(* Requests are finite, in the sense of this module too.                    *)
LEMMA FiniteRequests ==
  /\ IsFiniteSet(Requests) /\ Requests # {}
  /\ S!Cardinality(Requests) = Cardinality(Requests)
  BY AccessAssumption
  DEF S!SessionAssumption, S!IsFiniteSet, IsFiniteSet, S!Cardinality, Cardinality

(* There are fewer requests that compare than requests, if one does not.    *)
LEMMA Comparers ==
  /\ IsFiniteSet(Comparing) /\ Cardinality(Comparing) \in Nat /\ Cardinality(Requests) \in Nat
  /\ Cardinality(Comparing) <= Cardinality(Requests)
  BY FiniteRequests, FS_Subset, FS_CardinalityType DEF Comparing

(* The dates and counters of the session are numbers.                       *)
LEMMA SessionConstants ==
  /\ ShipperInterval \in Nat /\ ShipperWindow \in Nat /\ ShipperSends \in Nat /\ TokenTtl \in Nat
  /\ ShipperOtpTtl \in Nat /\ ShipperTime \in Nat /\ MaxCodes \in Nat /\ MaxFailures \in Nat \ {0}
  /\ S!Never \in Int
  <1>1. \A n \in {ShipperInterval, ShipperWindow, ShipperSends, ShipperOtpTtl, TokenTtl,
                  ShipperTime} : n \in Nat
    BY AccessAssumption DEF S!SessionAssumption
  <1>2. MaxFailures \in Nat \ {0} /\ MaxCodes \in Nat
    BY AccessAssumption DEF S!SessionAssumption
  <1> QED BY <1>1, <1>2 DEF S!Never

(* At the start no code was sent.                                           *)
LEMMA SessionStart == ASSUME S!Init PROVE SessionInv
  <1> USE SessionConstants
  <1>1. S!NoSession \in S!Session /\ S!NoSession.otp = 0
    BY DEF S!NoSession, S!Session
  <1>2. S!SessionTypeOK
    BY <1>1 DEF S!Init, S!SessionTypeOK
  <1>3. Cardinality(Requests) \in Nat \ {0}
    BY FiniteRequests, Comparers, FS_EmptySet
  <1> QED BY <1>1, <1>2, <1>3, FiniteRequests
          DEF SessionInv, Recorded, TriesBounded, S!TriesBounded, S!Init

(* What a request that begins has read.                                     *)
LEMMA AskBegins ==
  ASSUME S!SessionTypeOK, NEW c \in Requests, NEW pc \in S!Place, S!Begin(c, pc)
  PROVE  /\ ask' \in [Requests -> S!Asked \cup {S!Idle}]
         /\ ask[c].pc = "idle" /\ ask'[c].pc = pc
         /\ \A d \in Requests \ {c} : ask'[d] = ask[d]
  <1> USE SessionConstants
  <1> DEFINE r == [pc |-> pc, at |-> clock, otp |-> 0,
                   failedAttempts |-> session.failedAttempts, sendCount |-> session.sendCount,
                   sendWindowStartedAt |-> session.sendWindowStartedAt]
  <1>1. r \in S!Asked /\ r.pc = pc
    BY DEF S!Asked, S!SessionTypeOK, S!Session
  <1>2. ask' = [ask EXCEPT ![c] = r] /\ ask[c] = S!Idle
    BY DEF S!Begin
  <1> HIDE DEF r
  <1> QED BY <1>1, <1>2 DEF S!SessionTypeOK, S!Idle

(* A request that ends is idle.                                             *)
LEMMA AskEnds ==
  ASSUME S!SessionTypeOK, NEW c \in Requests, S!End(c)
  PROVE  /\ ask' \in [Requests -> S!Asked \cup {S!Idle}]
         /\ ask'[c].pc = "idle"
         /\ \A d \in Requests \ {c} : ask'[d] = ask[d]
  BY DEF S!End, S!SessionTypeOK, S!Idle

(* A step of a request that compares nothing.                               *)
LEMMA NoComparison ==
  ASSUME NEW c \in Requests, ask[c].pc \notin {"count", "save"}, ask'[c].pc \notin {"count", "save"},
         \A d \in Requests \ {c} : ask'[d] = ask[d]
  PROVE  Comparing' = Comparing
  BY DEF Comparing

(* A step without a comparison keeps the bound if it resets the count, or   *)
(* leaves the code and both counters alone, or takes the code away.         *)
LEMMA RecordedKept ==
  ASSUME SessionInv, S!SessionTypeOK', ~session'.exists => session'.otp = 0,
         \/ tries' = 0
         \/ tries' = tries /\ session'.otp = 0
         \/ /\ tries' = tries /\ Comparing' = Comparing /\ session'.otp = session.otp
            /\ session'.failedAttempts = session.failedAttempts
  PROVE  SessionInv'
  <1> USE SessionConstants
  <1>1. tries \in Nat /\ session'.failedAttempts \in Nat
    BY DEF SessionInv, S!SessionTypeOK, S!Session
  <1>2. IsFiniteSet(Comparing') /\ Cardinality(Comparing') \in Nat
    BY FiniteRequests, FS_Subset, FS_CardinalityType DEF Comparing
  <1>3. Cardinality(Requests) \in Nat \ {0}
    BY FiniteRequests, Comparers, FS_EmptySet
  <1>4. tries' <= tries /\ TriesBounded
    BY <1>1 DEF SessionInv
  <1>5. TriesBounded'
    BY <1>1, <1>3, <1>4, FiniteRequests DEF TriesBounded, S!TriesBounded
  <1>6. Recorded'
    BY <1>1, <1>2 DEF SessionInv, Recorded
  <1> QED BY <1>5, <1>6 DEF SessionInv

(* Sending, and requests that only read.                                    *)
LEMMA SendingSteps ==
  ASSUME SessionInv, NEW c \in Requests,
         \/ S!SendShipperOtp(c) \/ S!SendSms(c) \/ S!SmsFails(c)
         \/ S!VerifyFirebaseToken(c) \/ S!FindValidSession(c)
  PROVE  SessionInv'
  <1> USE SessionConstants
  <1>0. S!SessionTypeOK /\ session \in S!Session /\ codes \in 0..MaxCodes
        /\ ask \in [Requests -> S!Asked \cup {S!Idle}]
    BY DEF SessionInv, S!SessionTypeOK
  <1>1. /\ ask' \in [Requests -> S!Asked \cup {S!Idle}] /\ codes' \in 0..MaxCodes
        /\ ask[c].pc \notin {"count", "save"} /\ ask'[c].pc \notin {"count", "save"}
        /\ \A d \in Requests \ {c} : ask'[d] = ask[d]
    <2>1. CASE S!SendShipperOtp(c)
      BY <1>0, <2>1, AskBegins DEF S!SendShipperOtp, S!Place
    <2>2. CASE S!SendSms(c)
      <3>1. ask[c] \in S!Asked /\ codes' = codes + 1 /\ codes < MaxCodes
        BY <1>0, <2>2 DEF S!SendSms, S!At, S!Idle
      <3> DEFINE r == [ask[c] EXCEPT !.pc = "store", !.otp = codes']
      <3>5. codes' \in 0..MaxCodes
        BY <1>0, <3>1
      <3>2. r \in S!Asked /\ r.pc = "store"
        BY <3>1, <3>5 DEF S!Asked, S!Place
      <3>3. ask' = [ask EXCEPT ![c] = r]
        BY <1>0, <2>2 DEF S!SendSms
      <3> HIDE DEF r
      <3> QED BY ZenonT(60), <1>0, <2>2, <3>2, <3>3, <3>5 DEF S!SendSms, S!At
    <2>3. CASE S!SmsFails(c)
      BY <1>0, <2>3, AskEnds DEF S!SmsFails, S!At
    <2>4. CASE S!VerifyFirebaseToken(c)
      BY <1>0, <2>4, AskBegins DEF S!VerifyFirebaseToken, S!Place
    <2>5. CASE S!FindValidSession(c)
      BY <1>0, <2>5, AskBegins DEF S!FindValidSession, S!Place
    <2> QED BY <2>1, <2>2, <2>3, <2>4, <2>5
  <1>2. UNCHANGED <<session, tries, clock>>
    BY DEF S!SendShipperOtp, S!SendSms, S!SmsFails, S!VerifyFirebaseToken, S!FindValidSession
  <1>3. S!SessionTypeOK'
    BY <1>0, <1>1, <1>2 DEF S!SessionTypeOK
  <1>4. Comparing' = Comparing
    BY <1>1, NoComparison
  <1> QED BY <1>2, <1>3, <1>4, RecordedKept DEF SessionInv, Recorded

(* Writes of the session that record no comparison.                         *)
LEMMA StoringSteps ==
  ASSUME SessionInv, NEW c \in Requests,
         \/ S!StoreShipperOtp(c) \/ S!UnsetOtp(c) \/ S!StoreFirebaseSession(c) \/ S!RenewSession(c)
         \/ S!SaveSession(c)
  PROVE  SessionInv'
  <1> USE SessionConstants
  <1>0. /\ S!SessionTypeOK /\ session \in S!Session /\ ask \in [Requests -> S!Asked \cup {S!Idle}]
        /\ ask[c] \in S!Asked /\ (~session.exists => session.otp = 0) /\ tries \in Nat
    BY DEF SessionInv, Recorded, S!SessionTypeOK, S!StoreShipperOtp, S!UnsetOtp,
           S!StoreFirebaseSession, S!RenewSession, S!SaveSession, S!At, S!Idle
  <1>1. S!End(c) /\ UNCHANGED <<codes, clock>>
    BY DEF S!StoreShipperOtp, S!UnsetOtp, S!StoreFirebaseSession, S!RenewSession, S!SaveSession
  <1>2. /\ ask' \in [Requests -> S!Asked \cup {S!Idle}]
        /\ ask'[c].pc = "idle"
        /\ \A d \in Requests \ {c} : ask'[d] = ask[d]
    BY <1>0, <1>1, AskEnds
  <1>3. /\ session' \in S!Session /\ tries' \in Nat /\ (~session'.exists => session'.otp = 0)
        /\ \/ tries' = 0
           \/ tries' = tries /\ session'.otp = 0
           \/ /\ tries' = tries /\ Comparing' = Comparing /\ session'.otp = session.otp
              /\ session'.failedAttempts = session.failedAttempts
    <2>1. CASE S!StoreShipperOtp(c)
      <3> DEFINE active == S!WindowIsActive(ask[c], ask[c].at)
                 count == (IF active THEN ask[c].sendCount ELSE 0) + 1
                 start == IF active THEN ask[c].sendWindowStartedAt ELSE ask[c].at
                 limit == ask[c].at + ShipperOtpTtl
                 new == [session EXCEPT
                !.exists = TRUE, !.otp = ask[c].otp, !.otpExpiresAt = limit,
                !.failedAttempts = 0, !.lastResendAt = ask[c].at,
                !.sendCount = count, !.sendWindowStartedAt = start]
      <3>1. count \in Nat /\ start \in Int /\ limit \in Int /\ ask[c].at \in Int /\ ask[c].otp \in 0..MaxCodes
        BY <1>0 DEF S!Asked
      <3>2. session' = new /\ tries' = 0
        BY <2>1 DEF S!StoreShipperOtp
      <3> HIDE DEF active, count, start, limit
      <3>3. new \in S!Session /\ new.exists
        BY <1>0, <3>1 DEF S!Session
      <3> HIDE DEF new
      <3> QED BY <3>2, <3>3
    <2>2. CASE S!UnsetOtp(c)
      <3> DEFINE new == [session EXCEPT !.otp = 0, !.otpExpiresAt = S!Never]
      <3>1. 0 \in 0..MaxCodes /\ S!Never \in Int
        OBVIOUS
      <3>2. new \in S!Session /\ new.otp = 0
        BY <1>0, <3>1 DEF S!Session
      <3>3. session' = new /\ tries' = tries
        BY <2>2 DEF S!UnsetOtp
      <3> HIDE DEF new
      <3> QED BY <1>0, <3>2, <3>3
    <2>3. CASE S!StoreFirebaseSession(c)
      <3> DEFINE limit == ask[c].at + TokenTtl
                 new == [session EXCEPT !.exists = TRUE, !.isVerified = TRUE, !.failedAttempts = 0,
                                  !.sessionExpiresAt = limit]
      <3>1. limit \in Int
        BY <1>0 DEF S!Asked
      <3>2. session' = new /\ tries' = 0
        BY <2>3 DEF S!StoreFirebaseSession
      <3> HIDE DEF limit
      <3>3. new \in S!Session /\ new.exists
        BY <1>0, <3>1 DEF S!Session
      <3> HIDE DEF new
      <3> QED BY <3>2, <3>3
    <2>4. CASE S!RenewSession(c)
      <3> DEFINE limit == ask[c].at + TokenTtl
                 new == [session EXCEPT !.sessionExpiresAt = limit]
      <3>1. limit \in Int
        BY <1>0 DEF S!Asked
      <3>2. session' = (IF session.exists THEN new ELSE session) /\ tries' = tries
        BY <2>4 DEF S!RenewSession
      <3> HIDE DEF limit
      <3>3. new \in S!Session /\ new.otp = session.otp /\ new.exists = session.exists
            /\ new.failedAttempts = session.failedAttempts
        BY <1>0, <3>1 DEF S!Session
      <3> HIDE DEF new
      <3>4. Comparing' = Comparing
        BY <1>2, <2>4, NoComparison DEF S!RenewSession, S!At
      <3> QED BY <1>0, <3>2, <3>3, <3>4
    <2>5. CASE S!SaveSession(c)
      <3> DEFINE limit == ask[c].at + TokenTtl
                 failed == IF ask[c].failedAttempts # 0 THEN 0 ELSE session.failedAttempts
                 new == [session EXCEPT !.isVerified = TRUE, !.otp = 0, !.otpExpiresAt = S!Never,
                               !.sessionExpiresAt = limit, !.failedAttempts = failed]
      <3>1. limit \in Int /\ failed \in Nat /\ 0 \in 0..MaxCodes /\ S!Never \in Int
        BY <1>0 DEF S!Asked, S!Session
      <3>2. session' = (IF session.exists THEN new ELSE session) /\ tries' \in {0, tries}
        BY <1>0, <2>5 DEF S!SaveSession
      <3> HIDE DEF limit, failed
      <3>3. new \in S!Session /\ new.otp = 0
        BY <1>0, <3>1 DEF S!Session
      <3> HIDE DEF new
      <3> QED BY <1>0, <3>2, <3>3
    <2> QED BY <2>1, <2>2, <2>3, <2>4, <2>5
  <1>4. S!SessionTypeOK'
    BY <1>0, <1>1, <1>2, <1>3 DEF S!SessionTypeOK
  <1> QED BY <1>3, <1>4, RecordedKept

(* A comparison: one try more, and one request more that has to record it.  *)
LEMMA ComparingStep ==
  ASSUME SessionInv, NEW c \in Requests, NEW right \in BOOLEAN, S!VerifyShipperOtp(c, right)
  PROVE  SessionInv'
  <1> USE SessionConstants
  <1>0. /\ S!SessionTypeOK /\ Recorded /\ TriesBounded /\ tries \in Nat
        /\ session.failedAttempts \in Nat
    BY DEF SessionInv, S!SessionTypeOK, S!Session
  <1>1. CASE S!Begin(c, "unset") /\ UNCHANGED tries
    <2>1. /\ ask' \in [Requests -> S!Asked \cup {S!Idle}]
          /\ ask[c].pc = "idle" /\ ask'[c].pc = "unset"
          /\ \A d \in Requests \ {c} : ask'[d] = ask[d]
      BY <1>0, <1>1, AskBegins DEF S!Place
    <2>2. UNCHANGED <<session, codes, clock>>
      BY DEF S!VerifyShipperOtp
    <2>3. S!SessionTypeOK' /\ Comparing' = Comparing
      BY <1>0, <1>1, <2>1, <2>2, NoComparison DEF S!SessionTypeOK
    <2> QED BY <1>0, <1>1, <2>2, <2>3, RecordedKept DEF Recorded
  <1>2. CASE /\ session.failedAttempts < MaxFailures /\ clock <= session.otpExpiresAt
             /\ S!Begin(c, IF right THEN "save" ELSE "count")
             /\ tries' = tries + 1
    <2>1. /\ ask' \in [Requests -> S!Asked \cup {S!Idle}]
          /\ ask[c].pc = "idle" /\ ask'[c].pc \in {"count", "save"}
          /\ \A d \in Requests \ {c} : ask'[d] = ask[d]
      BY <1>0, <1>2, AskBegins DEF S!Place
    <2>2. UNCHANGED <<session, codes, clock>> /\ session.otp # 0
      BY DEF S!VerifyShipperOtp
    <2>3. S!SessionTypeOK'
      BY <1>0, <1>2, <2>1, <2>2 DEF S!SessionTypeOK
    <2>4. Comparing' = Comparing \cup {c} /\ c \notin Comparing
      BY <2>1 DEF Comparing
    <2>5. Cardinality(Comparing') = Cardinality(Comparing) + 1
      BY <2>4, Comparers, FS_AddElement
    <2>6. Cardinality(Comparing') <= Cardinality(Requests) /\ Cardinality(Comparing) \in Nat
          /\ Cardinality(Requests) \in Nat
      BY FiniteRequests, Comparers, FS_Subset, FS_CardinalityType DEF Comparing
    <2>7. tries <= session.failedAttempts + Cardinality(Comparing)
      BY <1>0, <2>2 DEF Recorded
    <2>8. Recorded'
      BY <1>0, <1>2, <2>2, <2>5, <2>6, <2>7 DEF Recorded
    <2>9. tries' <= MaxFailures + Cardinality(Requests) - 1
      BY <1>0, <1>2, <2>5, <2>6, <2>7
    <2> QED BY <2>3, <2>8, <2>9, FiniteRequests DEF SessionInv, TriesBounded, S!TriesBounded
  <1> QED BY <1>1, <1>2 DEF S!VerifyShipperOtp

(* A wrong code is recorded: one failure more, one request less.            *)
LEMMA CountingStep ==
  ASSUME SessionInv, NEW c \in Requests, S!CountFailure(c)
  PROVE  SessionInv'
  <1> USE SessionConstants
  <1>0. /\ S!SessionTypeOK /\ Recorded /\ TriesBounded /\ tries \in Nat
        /\ session \in S!Session /\ session.failedAttempts \in Nat
    BY DEF SessionInv, S!SessionTypeOK, S!Session
  <1>1. /\ ask' \in [Requests -> S!Asked \cup {S!Idle}]
        /\ ask[c].pc = "count" /\ ask'[c].pc = "idle"
        /\ \A d \in Requests \ {c} : ask'[d] = ask[d]
    BY <1>0, AskEnds DEF S!CountFailure, S!At
  <1>2. UNCHANGED <<codes, tries, clock>>
    BY DEF S!CountFailure
  <1> DEFINE more == session.failedAttempts + 1
             new == [session EXCEPT !.failedAttempts = more]
  <1>3. session' = IF session.exists THEN new ELSE session
    BY DEF S!CountFailure
  <1>4. more \in Nat
    BY <1>0
  <1> HIDE DEF more
  <1>5. new \in S!Session /\ new.otp = session.otp /\ new.exists = session.exists
        /\ new.failedAttempts = more
    BY <1>0, <1>4 DEF S!Session
  <1> HIDE DEF new
  <1>6. S!SessionTypeOK'
    BY <1>0, <1>1, <1>2, <1>3, <1>5 DEF S!SessionTypeOK
  <1>7. Comparing' = Comparing \ {c} /\ c \in Comparing
    BY <1>1 DEF Comparing
  <1>8. Cardinality(Comparing') = Cardinality(Comparing) - 1 /\ Cardinality(Comparing) \in Nat
    BY <1>7, Comparers, FS_RemoveElement
  <1>9. Recorded'
    <2>1. CASE session.exists
      <3>1. /\ session'.otp = session.otp /\ session'.exists
            /\ session'.failedAttempts = session.failedAttempts + 1
        BY <1>3, <1>5, <2>1 DEF more
      <3> QED BY <1>0, <1>2, <1>8, <3>1 DEF Recorded
    <2>2. CASE ~session.exists
      BY <1>0, <1>3, <2>2 DEF Recorded
    <2> QED BY <2>1, <2>2
  <1> QED BY <1>0, <1>2, <1>6, <1>9 DEF SessionInv, TriesBounded, S!TriesBounded

(* The session keeps its type, its requests compare only what they count.   *)
LEMMA SessionNext == ASSUME SessionInv, [S!Next]_(S!svars) PROVE SessionInv'
  <1>1. CASE UNCHANGED S!svars
    BY <1>1 DEF S!svars, SessionInv, S!SessionTypeOK, Recorded, Comparing, TriesBounded, S!TriesBounded
  <1>2. CASE S!RemoveExpiredSession
    <2>1. S!NoSession \in S!Session /\ S!NoSession.otp = 0
      BY SessionConstants DEF S!NoSession, S!Session
    <2>2. S!SessionTypeOK'
      BY <1>2, <2>1 DEF S!RemoveExpiredSession, SessionInv, S!SessionTypeOK
    <2> QED BY <1>2, <2>1, <2>2, RecordedKept DEF S!RemoveExpiredSession
  <1>3. CASE S!Tick
    <2>1. S!SessionTypeOK'
      BY <1>3, SessionConstants DEF S!Tick, SessionInv, S!SessionTypeOK
    <2>2. Comparing' = Comparing
      BY <1>3 DEF S!Tick, Comparing
    <2> QED BY <1>3, <2>1, <2>2, RecordedKept DEF S!Tick, SessionInv, Recorded
  <1> QED BY <1>1, <1>2, <1>3, SendingSteps, StoringSteps, ComparingStep, CountingStep DEF S!Next

(* The session keeps its type, and while a code is pending its tries are    *)
(* the failures recorded and the requests that are yet to record theirs.    *)
THEOREM SessionInvariant == AccessSpec => []SessionInv
  <1>1. S!Spec => []SessionInv
    BY SessionStart, SessionNext, PTL DEF S!Spec
  <1> QED BY <1>1, PartsOfAccess, PTL

(* However many requests compare a shipper's code at once, the tries exceed *)
(* the five failures only by the requests in flight                         *)
(* (shipper-session.service.ts): each goes by a count it read earlier.      *)
THEOREM TriesAreBounded == AccessSpec => []TriesBounded
  <1>1. SessionInv => TriesBounded
    BY DEF SessionInv
  <1> QED BY <1>1, SessionInvariant, PTL
-----------------------------------------------------------------------------
(* Phones                                                                   *)

(* A code is known once it was sent; its number is its place in "sent".     *)
CodesKnown ==
    /\ \A u \in Users : change[u].otp <= Len(sent)
    /\ \A c \in Requests : request[c].pc \in {"store", "save"} => request[c].otp \in 1..Len(sent)
    /\ \A k \in 1..MaxCodes : k > Len(sent) => guesses[k] = 0 /\ saves[k] = 0

(* A code is stored for one user, once.                                     *)
StoredOnce ==
    /\ \A u, v \in Users : change[u].otp # 0 /\ change[u].otp = change[v].otp => u = v
    /\ \A c \in Requests : request[c].pc = "store" =>
          /\ \A u \in Users : change[u].otp # request[c].otp
          /\ guesses[request[c].otp] = 0 /\ saves[request[c].otp] = 0
    /\ \A c, d \in Requests :
          request[c].pc = "store" /\ request[d].pc = "store" /\ request[c].otp = request[d].otp
          => c = d

(* A stored code was compared no more often than its attempts say, and has  *)
(* changed nothing yet.                                                     *)
Counted ==
    \A u \in Users : change[u].otp # 0 =>
        guesses[change[u].otp] <= change[u].failedAttempts /\ saves[change[u].otp] = 0

CodesInv == CodesKnown /\ StoredOnce /\ Counted /\ GuessesBounded /\ CodeChangesOnce

(* Requests on their way to a slot, and those that hold one.                *)
Waits(c) == request[c].pc \in {"window", "slot"}

Holds(c) == request[c].pc \in {"sms", "release"}

(* No such request dwells longer than Delay.                                *)
Timely ==
    \A c \in Requests : Waits(c) \/ Holds(c) =>
        /\ request[c].at \in Nat
        /\ request[c].at <= now /\ now <= request[c].at + Delay

(* The messages the server knows of: its send has returned.                 *)
Known == {k \in DOMAIN sent : sent[k].known}

(* lastSentAt is no earlier than any known message to the user.             *)
LastKnown == \A k \in Known : sent[k].at <= change[sent[k].to].lastSentAt

(* A slot is held by one request of a user at a time; it is the user's last *)
(* and follows every known message by the interval, and so would the one    *)
(* restored if its message fails.                                           *)
SlotHeld ==
    /\ \A c \in Requests : Holds(c) =>
          /\ change[request[c].user].lastSentAt = request[c].at
          /\ \A k \in Known : sent[k].to = request[c].user =>
                /\ sent[k].at + ResendInterval <= request[c].at
                /\ sent[k].at <= request[c].previous
    /\ \A c, d \in Requests : Holds(c) /\ Holds(d) /\ request[c].user = request[d].user => c = d

(* The instants of the messages known to be sent to c's user, and of the    *)
(* slots held.                                                              *)
Instants(c) ==
    LET u == request[c].user
    IN  {sent[k].at : k \in {j \in Known : sent[j].to = u}}
            \cup {request[d].at : d \in {e \in Requests : Holds(e) /\ request[e].user = u}}

(* The instant t is not later than the lastSentAt that c has read, or c     *)
(* will be refused on its account.                                          *)
Minds(c, t) ==
    \/ t <= request[c].previous
    \/ request[c].pc = "window" /\ t >= request[c].at - Delay
    \/ request[c].pc = "slot" /\ t > request[c].at - ResendInterval

ReadLast == \A c \in Requests : Waits(c) => \A t \in Instants(c) : Minds(c, t)

SlotsInv == Timely /\ LastKnown /\ SlotHeld /\ ReadLast /\ P!KnownSpaced

(* The slots are in order until a request stalls.                           *)
PhonesInv == P!PhonesTypeOK /\ CodesInv /\ (stalled \/ SlotsInv)

InTime == P!PhonesTypeOK /\ SlotsInv
-----------------------------------------------------------------------------
Requested == [Requests -> P!Held \cup {P!Idle}]

(* What a step leaves alone: the pending codes, the slots, the requests of  *)
(* others.                                                                  *)
SameCodes ==
    \A u \in Users : /\ change'[u].otp = change[u].otp
                     /\ change'[u].failedAttempts = change[u].failedAttempts

SameSlots == \A u \in Users : change'[u].lastSentAt = change[u].lastSentAt

OthersStay(c) == \A d \in Requests \ {c} : request'[d] = request[d]

(* The bounds are numbers, and a slot outlasts two delays.                  *)
LEMMA PhoneConstants ==
  /\ ResendInterval \in Nat /\ SendWindow \in Nat /\ MaxSends \in Nat /\ OtpTtl \in Nat
  /\ Delay \in Nat /\ MaxVerifyAttempts \in Nat /\ MaxCodes \in Nat /\ MaxTime \in Nat
  /\ NoNumber \notin Numbers /\ P!Never \in Int
  /\ 2 * Delay < ResendInterval
  <1>1. \A n \in {ResendInterval, SendWindow, MaxSends, OtpTtl, Delay,
                  MaxVerifyAttempts, MaxCodes, MaxTime} : n \in Nat
    BY AccessAssumption DEF P!PhoneAssumption
  <1>2. NoNumber \notin Numbers /\ 2 * Delay < ResendInterval
    BY AccessAssumption DEF P!PhoneAssumption
  <1> QED BY <1>1, <1>2 DEF P!Never

(* The parts of the type invariant.                                         *)
LEMMA PhoneParts ==
  ASSUME P!PhonesTypeOK
  PROVE  /\ person \in [Users -> [status: P!Status, phone: Numbers \cup {NoNumber}]]
         /\ change \in [Users -> P!Change] /\ \A u \in Users : change[u] \in P!Change
         /\ request \in Requested
         /\ sent \in Seq(P!Sent) /\ Len(sent) \in Nat /\ Len(sent) <= MaxCodes
         /\ guesses \in [1..MaxCodes -> Nat] /\ saves \in [1..MaxCodes -> Nat]
         /\ now \in Nat /\ now <= MaxTime /\ stalled \in BOOLEAN
  BY PhoneConstants DEF P!PhonesTypeOK, Requested

(* A request that is not idle holds what it is about.                       *)
LEMMA HoldsRequest ==
  ASSUME P!PhonesTypeOK, NEW c \in Requests, request[c].pc # "idle"
  PROVE  /\ request[c] \in P!Held
         /\ request[c].user \in Users /\ request[c].phone \in Numbers /\ request[c].status \in P!Status
         /\ request[c].previous \in Int /\ request[c].at \in Int /\ request[c].otp \in 0..MaxCodes
  <1>1. request[c] \in P!Held
    BY DEF P!PhonesTypeOK, P!Idle
  <1> QED BY <1>1 DEF P!Held

(* A request replaced by another.                                           *)
LEMMA OneRequest ==
  ASSUME P!PhonesTypeOK, NEW c \in Requests, NEW r \in P!Held \cup {P!Idle},
         request' = [request EXCEPT ![c] = r]
  PROVE  request' \in Requested /\ request'[c] = r /\ OthersStay(c)
  BY DEF P!PhonesTypeOK, Requested, OthersStay

(* A new request, with the codes and the instants it starts from.           *)
LEMMA BeginsRequest ==
  ASSUME P!PhonesTypeOK, NEW c \in Requests, NEW r \in P!Held, P!Begin(c, r)
  PROVE  request' \in Requested /\ OthersStay(c) /\ request[c].pc = "idle" /\ request'[c] = r
  <1>1. request' = [request EXCEPT ![c] = r] /\ request[c].pc = "idle"
    BY DEF P!Begin, P!Idle
  <1> QED BY <1>1, OneRequest

LEMMA RequestFields ==
  ASSUME NEW pc \in P!Place, NEW u \in Users, NEW p \in Numbers, NEW status \in P!Status
  PROVE  P!Request(pc, u, p, status) \in P!Held /\ P!Request(pc, u, p, status).pc = pc
  <1>1. 0 \in 0..MaxCodes /\ P!Never \in Int
    BY PhoneConstants
  <1> QED BY <1>1 DEF P!Request, P!Held

LEMMA RequestOfCode ==
  ASSUME NEW pc \in P!Place, NEW u \in Users, NEW p \in Numbers, NEW status \in P!Status,
         NEW k \in 0..MaxCodes
  PROVE  LET r == [P!Request(pc, u, p, status) EXCEPT !.otp = k]
         IN  r \in P!Held /\ r.pc = pc /\ r.user = u /\ r.otp = k
  <1> DEFINE h == [pc |-> pc, user |-> u, phone |-> p, status |-> status,
                   previous |-> P!Never, at |-> P!Never, otp |-> k]
  <1>1. [P!Request(pc, u, p, status) EXCEPT !.otp = k] = h
    BY DEF P!Request
  <1>2. h \in P!Held
    BY PhoneConstants DEF P!Held
  <1> QED BY <1>1, <1>2

(* A request that goes on keeps what it holds.                              *)
LEMMA GoesOn ==
  ASSUME P!PhonesTypeOK, NEW c \in Requests, request[c].pc # "idle", NEW pc \in P!Place,
         P!GoTo(c, pc)
  PROVE  /\ request' \in Requested /\ OthersStay(c) /\ request'[c].pc = pc
         /\ request'[c].user = request[c].user /\ request'[c].previous = request[c].previous
         /\ request'[c].at = request[c].at /\ request'[c].otp = request[c].otp
  <1> DEFINE r == [request[c] EXCEPT !.pc = pc]
  <1>1. /\ r \in P!Held /\ r.pc = pc /\ r.user = request[c].user
        /\ r.previous = request[c].previous /\ r.at = request[c].at /\ r.otp = request[c].otp
    BY HoldsRequest DEF P!Held
  <1>2. request' = [request EXCEPT ![c] = r]
    BY PhoneParts DEF P!GoTo, Requested
  <1> HIDE DEF r
  <1> QED BY <1>1, <1>2, OneRequest

(* A request that ends is idle.                                             *)
LEMMA EndsRequest ==
  ASSUME P!PhonesTypeOK, NEW c \in Requests, P!End(c)
  PROVE  request' \in Requested /\ OthersStay(c) /\ request'[c].pc = "idle"
  <1>1. P!Idle \in P!Held \cup {P!Idle} /\ P!Idle.pc = "idle"
    BY DEF P!Idle
  <1>2. request' = [request EXCEPT ![c] = P!Idle]
    BY DEF P!End
  <1> QED BY <1>1, <1>2, OneRequest

(* The phoneChange field of one user replaced by another.                   *)
LEMMA OneChange ==
  ASSUME P!PhonesTypeOK, NEW u \in Users, NEW d \in P!Change, change' = [change EXCEPT ![u] = d]
  PROVE  /\ change' \in [Users -> P!Change] /\ change'[u] = d
         /\ \A v \in Users \ {u} : change'[v] = change[v]
  BY DEF P!PhonesTypeOK
-----------------------------------------------------------------------------
(* What each operation does: types, and what the properties need of it.     *)

(* Requests that begin, and registrations.                                  *)
LEMMA RegisterEffect ==
  ASSUME P!PhonesTypeOK, NEW c \in Requests, NEW u \in Users, NEW p \in Numbers,
         \/ P!RegisterResident(c, u, p) \/ P!RegisterShipper(c, u, p)
         \/ P!CreateBuildingAdmin(c, u, p) \/ P!CreateResidentByAdmin(c, u, p)
         \/ P!RefusedAttempt(c, u, p)
  PROVE  /\ P!PhonesTypeOK' /\ UNCHANGED <<change, sent, guesses, saves, now, stalled>>
         /\ OthersStay(c) /\ request'[c].pc \in {"create", "reject"}
  <1>1. \E status \in P!Status, pc \in {"create", "reject"} : P!Begin(c, P!Request(pc, u, p, status))
    BY DEF P!RegisterResident, P!RegisterShipper, P!CreateBuildingAdmin, P!CreateResidentByAdmin,
           P!Register, P!RefusedAttempt, P!Status
  <1>2. UNCHANGED <<person, change, sent, guesses, saves, now, stalled>>
    BY DEF P!RegisterResident, P!RegisterShipper, P!CreateBuildingAdmin, P!CreateResidentByAdmin,
           P!Register, P!RefusedAttempt
  <1>3. request' \in Requested /\ OthersStay(c) /\ request'[c].pc \in {"create", "reject"}
    <2>1. PICK status \in P!Status, pc \in {"create", "reject"} :
             P!Begin(c, P!Request(pc, u, p, status))
      BY <1>1
    <2>2. /\ P!Request(pc, u, p, status) \in P!Held
          /\ P!Request(pc, u, p, status).pc = pc
      <3>1. pc \in P!Place
        BY DEF P!Place
      <3> QED BY <3>1, RequestFields
    <2> QED BY <2>1, <2>2, BeginsRequest
  <1> QED BY <1>2, <1>3 DEF P!PhonesTypeOK, Requested

(* A request for a code has read lastSentAt now.                            *)
LEMMA RequestEffect ==
  ASSUME P!PhonesTypeOK, NEW c \in Requests, NEW u \in Users, NEW p \in Numbers, P!RequestOtp(c, u, p)
  PROVE  /\ P!PhonesTypeOK' /\ UNCHANGED <<change, sent, guesses, saves, now, stalled>>
         /\ OthersStay(c) /\ request'[c].pc = "window" /\ request'[c].user = u
         /\ request'[c].previous = change[u].lastSentAt /\ request'[c].at = now
  <1>1. /\ request' \in Requested /\ OthersStay(c) /\ request'[c].pc = "window" /\ request'[c].user = u
        /\ request'[c].previous = change[u].lastSentAt /\ request'[c].at = now
    <2> DEFINE r == [pc |-> "window", user |-> u, phone |-> p, status |-> "ACTIVE",
                     previous |-> change[u].lastSentAt, at |-> now, otp |-> 0]
    <2>1. change[u].lastSentAt \in Int /\ now \in Int
      BY PhoneParts DEF P!Change
    <2>2. /\ r \in P!Held /\ r.pc = "window" /\ r.user = u
          /\ r.previous = change[u].lastSentAt /\ r.at = now
      <3>1. "window" \in P!Place /\ "ACTIVE" \in P!Status /\ 0 \in 0..MaxCodes
        BY PhoneConstants DEF P!Place, P!Status
      <3> QED BY <2>1, <3>1 DEF P!Held
    <2>3. P!Begin(c, r)
      BY DEF P!RequestOtp
    <2> HIDE DEF r
    <2> QED BY <2>2, <2>3, BeginsRequest
  <1>2. UNCHANGED <<person, change, sent, guesses, saves, now, stalled>>
    BY DEF P!RequestOtp
  <1> QED BY <1>1, <1>2 DEF P!PhonesTypeOK, Requested

(* Users created, approved and suspended.                                   *)
LEMMA UserEffect ==
  ASSUME P!PhonesTypeOK,
         \/ \E c \in Requests : P!Create(c)
         \/ \E u \in Users, s \in P!Status : P!SetStatus(u, s)
  PROVE  /\ P!PhonesTypeOK' /\ UNCHANGED <<change, sent, guesses, saves, now, stalled>>
         /\ \/ UNCHANGED request
            \/ \E c \in Requests : OthersStay(c) /\ request'[c].pc = "idle"
  <1>1. ASSUME NEW c \in Requests, P!Create(c)
        PROVE  /\ P!PhonesTypeOK' /\ UNCHANGED <<change, sent, guesses, saves, now, stalled>>
               /\ OthersStay(c) /\ request'[c].pc = "idle"
    <2>1. request' \in Requested /\ OthersStay(c) /\ request'[c].pc = "idle"
      BY <1>1, EndsRequest DEF P!Create
    <2>2. UNCHANGED <<change, sent, guesses, saves, now, stalled>>
      BY <1>1 DEF P!Create
    <2>3. request[c].user \in Users /\ request[c].status \in P!Status /\ request[c].phone \in Numbers
      BY <1>1, HoldsRequest DEF P!Create, P!At
    <2>4. person' \in [Users -> [status: P!Status, phone: Numbers \cup {NoNumber}]]
      BY <1>1, <2>3, PhoneParts DEF P!Create
    <2> QED BY <2>1, <2>2, <2>4 DEF P!PhonesTypeOK, Requested
  <1>2. ASSUME NEW u \in Users, NEW s \in P!Status, P!SetStatus(u, s)
        PROVE  P!PhonesTypeOK' /\ UNCHANGED <<change, request, sent, guesses, saves, now, stalled>>
    <2>1. UNCHANGED <<change, request, sent, guesses, saves, now, stalled>>
      BY <1>2 DEF P!SetStatus
    <2>2. person' \in [Users -> [status: P!Status, phone: Numbers \cup {NoNumber}]]
      BY <1>2, PhoneParts DEF P!SetStatus
    <2> QED BY <2>1, <2>2 DEF P!PhonesTypeOK
  <1> QED BY <1>1, <1>2

(* The fields of a phoneChange.                                             *)
LEMMA ChangeFields ==
  ASSUME P!PhonesTypeOK, NEW u \in Users
  PROVE  /\ change[u].phone \in Numbers \cup {NoNumber} /\ change[u].otp \in 0..MaxCodes
         /\ change[u].expiresAt \in Nat /\ change[u].failedAttempts \in 0..MaxVerifyAttempts
         /\ change[u].sendCount \in Int /\ change[u].lastSentAt \in Int
         /\ change[u].sendWindowStartedAt \in Int
  BY PhoneParts DEF P!Change

(* The instant is now, and the window may open again.                       *)
LEMMA OpenEffect ==
  ASSUME P!PhonesTypeOK, NEW c \in Requests, P!OpenWindow(c)
  PROVE  /\ P!PhonesTypeOK' /\ UNCHANGED <<sent, guesses, saves, now, stalled>>
         /\ SameCodes /\ SameSlots /\ OthersStay(c)
         /\ request[c].pc = "window" /\ request'[c].pc = "slot" /\ request'[c].at = now
         /\ request'[c].user = request[c].user /\ request'[c].previous = request[c].previous
  <1> DEFINE u == request[c].user
             d == IF change[u].sendWindowStartedAt <= now - SendWindow
                  THEN [change[u] EXCEPT !.sendWindowStartedAt = now, !.sendCount = 0]
                  ELSE change[u]
             r == [request[c] EXCEPT !.pc = "slot", !.at = now]
  <1>1. request[c].pc = "window" /\ UNCHANGED <<person, sent, guesses, saves, now, stalled>>
    BY DEF P!OpenWindow, P!At
  <1>2. u \in Users /\ now \in Int /\ 0 \in Int /\ request[c] \in P!Held
    BY <1>1, HoldsRequest, PhoneParts
  <1>3. /\ d \in P!Change /\ d.otp = change[u].otp /\ d.failedAttempts = change[u].failedAttempts
        /\ d.lastSentAt = change[u].lastSentAt
    <2>1. change[u] \in P!Change
      BY <1>2, PhoneParts
    <2> QED BY <1>2, <2>1 DEF P!Change
  <1>4. /\ r \in P!Held /\ r.pc = "slot" /\ r.at = now /\ r.user = u
        /\ r.previous = request[c].previous
    BY <1>2 DEF P!Held, P!Place
  <1>5. request' = [request EXCEPT ![c] = r]
    BY PhoneParts DEF P!OpenWindow, Requested
  <1>6. change' = [change EXCEPT ![u] = d]
    BY <1>2, PhoneParts DEF P!OpenWindow
  <1> HIDE DEF d, r
  <1>7. request' \in Requested /\ request'[c] = r /\ OthersStay(c)
    BY <1>4, <1>5, OneRequest
  <1>8. /\ change' \in [Users -> P!Change] /\ change'[u] = d
        /\ \A v \in Users \ {u} : change'[v] = change[v]
    BY <1>2, <1>3, <1>6, OneChange
  <1>9. SameCodes /\ SameSlots
    BY <1>3, <1>8 DEF SameCodes, SameSlots
  <1>10. P!PhonesTypeOK'
    BY <1>1, <1>7, <1>8 DEF P!PhonesTypeOK, Requested
  <1> QED BY <1>1, <1>4, <1>7, <1>9, <1>10

(* A slot is claimed when the last one is an interval old, or refused.      *)
LEMMA ClaimEffect ==
  ASSUME P!PhonesTypeOK, NEW c \in Requests, P!ClaimSendSlot(c)
  PROVE  /\ P!PhonesTypeOK' /\ UNCHANGED <<sent, guesses, saves, now, stalled>>
         /\ SameCodes /\ OthersStay(c) /\ request[c].pc = "slot"
         /\ \/ SameSlots /\ request'[c].pc = "idle"
            \/ /\ change[request[c].user].lastSentAt <= request[c].at - ResendInterval
               /\ change'[request[c].user].lastSentAt = request[c].at
               /\ \A v \in Users \ {request[c].user} : change'[v].lastSentAt = change[v].lastSentAt
               /\ request'[c].pc = "sms" /\ request'[c].user = request[c].user
               /\ request'[c].previous = request[c].previous /\ request'[c].at = request[c].at
  <1> DEFINE u == request[c].user
             d == [change[u] EXCEPT !.lastSentAt = request[c].at, !.sendCount = @ + 1]
  <1>1. request[c].pc = "slot" /\ UNCHANGED <<person, sent, guesses, saves, now, stalled>>
    BY DEF P!ClaimSendSlot, P!At
  <1>2. u \in Users /\ request[c].at \in Int
    BY <1>1, HoldsRequest
  <1>3. CASE P!End(c) /\ UNCHANGED change
    <2>1. request' \in Requested /\ OthersStay(c) /\ request'[c].pc = "idle"
      BY <1>3, EndsRequest
    <2> QED BY <1>1, <1>3, <2>1 DEF P!PhonesTypeOK, Requested, SameCodes, SameSlots
  <1>4. CASE /\ change[u].lastSentAt <= request[c].at - ResendInterval
             /\ change' = [change EXCEPT ![u].lastSentAt = request[c].at, ![u].sendCount = @ + 1]
             /\ P!GoTo(c, "sms")
    <2>1. change[u].sendCount + 1 \in Int /\ change[u] \in P!Change
      BY <1>2, PhoneParts, ChangeFields
    <2>2. /\ d \in P!Change /\ d.otp = change[u].otp /\ d.failedAttempts = change[u].failedAttempts
          /\ d.lastSentAt = request[c].at
      BY <1>2, <2>1 DEF P!Change
    <2>3. change' = [change EXCEPT ![u] = d]
      BY <1>2, <1>4, PhoneParts
    <2> HIDE DEF d
    <2>4. /\ change' \in [Users -> P!Change] /\ change'[u] = d
          /\ \A v \in Users \ {u} : change'[v] = change[v]
      BY <1>2, <2>2, <2>3, OneChange
    <2>5. /\ request' \in Requested /\ OthersStay(c) /\ request'[c].pc = "sms"
          /\ request'[c].user = u /\ request'[c].previous = request[c].previous
          /\ request'[c].at = request[c].at
      BY <1>1, <1>4, GoesOn DEF P!Place
    <2>6. SameCodes /\ \A v \in Users \ {u} : change'[v].lastSentAt = change[v].lastSentAt
      BY <2>2, <2>4 DEF SameCodes
    <2>7. P!PhonesTypeOK'
      BY <1>1, <2>4, <2>5 DEF P!PhonesTypeOK, Requested
    <2> QED BY <1>1, <1>4, <2>2, <2>4, <2>5, <2>6, <2>7
  <1> QED BY <1>3, <1>4 DEF P!ClaimSendSlot

(* A message delivered is the last one, in its request's slot.              *)
LEMMA DeliverEffect ==
  ASSUME P!PhonesTypeOK, NEW c \in Requests, NEW known \in BOOLEAN, P!Deliver(c, known)
  PROVE  /\ request[c].pc = "sms" /\ request[c].user \in Users /\ request[c].phone \in Numbers
         /\ sent' \in Seq(P!Sent) /\ Len(sent') \in 1..MaxCodes
         /\ Len(sent') = Len(sent) + 1 /\ DOMAIN sent' = DOMAIN sent \cup {Len(sent')}
         /\ \A k \in DOMAIN sent : k # Len(sent') /\ k < Len(sent') /\ sent'[k] = sent[k]
         /\ sent'[Len(sent')].to = request[c].user /\ sent'[Len(sent')].at = request[c].at
         /\ sent'[Len(sent')].known = known
  <1> DEFINE m == [to |-> request[c].user, at |-> request[c].at, known |-> known]
  <1>1. request[c].pc = "sms" /\ Len(sent) < MaxCodes /\ sent' = Append(sent, m)
    BY DEF P!Deliver, P!At
  <1>2. /\ request[c].user \in Users /\ request[c].phone \in Numbers
        /\ m \in P!Sent /\ m.to = request[c].user /\ m.at = request[c].at /\ m.known = known
    BY <1>1, HoldsRequest DEF P!Sent
  <1> HIDE DEF m
  <1>3. /\ sent' \in Seq(P!Sent) /\ Len(sent') = Len(sent) + 1
        /\ \A k \in DOMAIN sent : k # Len(sent') /\ k < Len(sent') /\ sent'[k] = sent[k]
        /\ sent'[Len(sent')] = m /\ DOMAIN sent' = DOMAIN sent \cup {Len(sent')}
    BY <1>1, <1>2, PhoneParts
  <1>4. Len(sent') \in 1..MaxCodes
    BY <1>1, <1>3, PhoneParts, PhoneConstants
  <1> QED BY <1>1, <1>2, <1>3, <1>4

(* The message and its code.                                                *)
LEMMA SendEffect ==
  ASSUME P!PhonesTypeOK, NEW c \in Requests, P!SendSms(c)
  PROVE  /\ P!PhonesTypeOK' /\ UNCHANGED <<change, guesses, saves, now, stalled>>
         /\ OthersStay(c) /\ request[c].pc = "sms"
         /\ Len(sent') = Len(sent) + 1 /\ Len(sent') \in 1..MaxCodes
         /\ request'[c].pc = "store" /\ request'[c].user = request[c].user
         /\ request'[c].otp = Len(sent')
  <1> DEFINE r == [P!Request("store", request[c].user, request[c].phone, "ACTIVE") EXCEPT
                       !.otp = Len(sent')]
  <1>1. /\ request[c].pc = "sms" /\ request[c].user \in Users /\ request[c].phone \in Numbers
        /\ sent' \in Seq(P!Sent) /\ Len(sent') \in 1..MaxCodes /\ Len(sent') = Len(sent) + 1
    BY DeliverEffect DEF P!SendSms
  <1>2. UNCHANGED <<person, change, guesses, saves, now, stalled>>
    BY DEF P!SendSms
  <1>3. request' = [request EXCEPT ![c] = r]
    BY PhoneParts DEF P!SendSms, Requested
  <1>4. Len(sent') \in 0..MaxCodes /\ Len(sent') <= MaxCodes
    BY <1>1, PhoneConstants
  <1>5. r \in P!Held /\ r.pc = "store" /\ r.user = request[c].user /\ r.otp = Len(sent')
    <2>1. "store" \in P!Place /\ "ACTIVE" \in P!Status
      BY DEF P!Place, P!Status
    <2> QED BY <1>1, <1>4, <2>1, RequestOfCode
  <1> HIDE DEF r
  <1>6. request' \in Requested /\ request'[c] = r /\ OthersStay(c)
    BY <1>3, <1>5, OneRequest
  <1>7. P!PhonesTypeOK'
    BY <1>1, <1>2, <1>4, <1>6 DEF P!PhonesTypeOK, Requested
  <1> QED BY <1>1, <1>2, <1>5, <1>6, <1>7

(* A message delivered of which the request does not hear.                  *)
LEMMA LostEffect ==
  ASSUME P!PhonesTypeOK, NEW c \in Requests, P!AnswerLost(c)
  PROVE  /\ P!PhonesTypeOK' /\ UNCHANGED <<change, guesses, saves, now, stalled>>
         /\ OthersStay(c) /\ request[c].pc = "sms" /\ Len(sent') = Len(sent) + 1
         /\ request'[c].pc = "release" /\ request'[c].user = request[c].user
         /\ request'[c].at = request[c].at /\ request'[c].previous = request[c].previous
  <1>1. /\ request[c].pc = "sms" /\ sent' \in Seq(P!Sent) /\ Len(sent') \in 1..MaxCodes
        /\ Len(sent') = Len(sent) + 1
    BY DeliverEffect DEF P!AnswerLost
  <1>2. UNCHANGED <<person, change, guesses, saves, now, stalled>> /\ P!GoTo(c, "release")
    BY DEF P!AnswerLost
  <1>3. /\ request' \in Requested /\ OthersStay(c) /\ request'[c].pc = "release"
        /\ request'[c].user = request[c].user /\ request'[c].at = request[c].at
        /\ request'[c].previous = request[c].previous
    BY <1>1, <1>2, GoesOn DEF P!Place
  <1>4. Len(sent') <= MaxCodes
    BY <1>1, PhoneConstants
  <1>5. P!PhonesTypeOK'
    BY <1>1, <1>2, <1>3, <1>4 DEF P!PhonesTypeOK, Requested
  <1> QED BY <1>1, <1>2, <1>3, <1>5

(* A failed message; a refused attempt that finds no tries left, or ends.   *)
LEMMA FailEffect ==
  ASSUME P!PhonesTypeOK, NEW c \in Requests, P!SmsFails(c) \/ P!RejectVerify(c)
  PROVE  /\ P!PhonesTypeOK' /\ UNCHANGED <<change, sent, guesses, saves, now, stalled>> /\ OthersStay(c)
         /\ \/ /\ request[c].pc = "sms" /\ request'[c].pc = "release"
               /\ request'[c].user = request[c].user /\ request'[c].at = request[c].at
               /\ request'[c].previous = request[c].previous
            \/ request[c].pc = "reject" /\ request'[c].pc \in {"clear", "idle"}
  <1>1. CASE P!SmsFails(c)
    <2>1. /\ request[c].pc = "sms" /\ P!GoTo(c, "release")
          /\ UNCHANGED <<person, change, sent, guesses, saves, now, stalled>>
      BY <1>1 DEF P!SmsFails, P!At
    <2>2. /\ request' \in Requested /\ OthersStay(c) /\ request'[c].pc = "release"
          /\ request'[c].user = request[c].user /\ request'[c].at = request[c].at
          /\ request'[c].previous = request[c].previous
      BY <2>1, GoesOn DEF P!Place
    <2> QED BY <2>1, <2>2 DEF P!PhonesTypeOK, Requested
  <1>2. CASE P!RejectVerify(c)
    <2>1. /\ request[c].pc = "reject" /\ (P!GoTo(c, "clear") \/ P!End(c))
          /\ UNCHANGED <<person, change, sent, guesses, saves, now, stalled>>
      BY <1>2 DEF P!RejectVerify, P!At
    <2>2. request' \in Requested /\ OthersStay(c) /\ request'[c].pc \in {"clear", "idle"}
      BY <2>1, GoesOn, EndsRequest DEF P!Place
    <2> QED BY <2>1, <2>2 DEF P!PhonesTypeOK, Requested
  <1> QED BY <1>1, <1>2

(* A failed message gives the lastSentAt back that its request had read.    *)
LEMMA ReleaseEffect ==
  ASSUME P!PhonesTypeOK, NEW c \in Requests, P!ReleaseSendSlot(c)
  PROVE  /\ P!PhonesTypeOK' /\ UNCHANGED <<sent, guesses, saves, now, stalled>>
         /\ SameCodes /\ OthersStay(c) /\ request[c].pc = "release" /\ request'[c].pc = "idle"
         /\ change'[request[c].user].lastSentAt = request[c].previous
         /\ \A v \in Users \ {request[c].user} : change'[v].lastSentAt = change[v].lastSentAt
  <1> DEFINE u == request[c].user
             d == [change[u] EXCEPT !.sendCount = @ - 1, !.lastSentAt = request[c].previous]
  <1>1. /\ request[c].pc = "release" /\ UNCHANGED <<person, sent, guesses, saves, now, stalled>> /\ P!End(c)
    BY DEF P!ReleaseSendSlot, P!At
  <1>2. u \in Users /\ request[c].previous \in Int
    BY <1>1, HoldsRequest
  <1>3. change[u].sendCount - 1 \in Int /\ change[u] \in P!Change
    BY <1>2, PhoneParts, ChangeFields
  <1>4. /\ d \in P!Change /\ d.otp = change[u].otp /\ d.failedAttempts = change[u].failedAttempts
        /\ d.lastSentAt = request[c].previous
    BY <1>2, <1>3 DEF P!Change
  <1>5. change' = [change EXCEPT ![u] = d]
    BY <1>2, PhoneParts DEF P!ReleaseSendSlot
  <1> HIDE DEF d
  <1>6. /\ change' \in [Users -> P!Change] /\ change'[u] = d
        /\ \A v \in Users \ {u} : change'[v] = change[v]
    BY <1>2, <1>4, <1>5, OneChange
  <1>7. request' \in Requested /\ OthersStay(c) /\ request'[c].pc = "idle"
    BY <1>1, EndsRequest
  <1>8. SameCodes
    BY <1>4, <1>6 DEF SameCodes
  <1>9. P!PhonesTypeOK'
    BY <1>1, <1>6, <1>7 DEF P!PhonesTypeOK, Requested
  <1> QED BY <1>1, <1>4, <1>6, <1>7, <1>8, <1>9

(* The code sent is the pending one now, with all its tries.                *)
LEMMA StoreEffect ==
  ASSUME P!PhonesTypeOK, NEW c \in Requests, P!StoreOtp(c)
  PROVE  /\ P!PhonesTypeOK' /\ UNCHANGED <<sent, guesses, saves, now, stalled>>
         /\ SameSlots /\ OthersStay(c) /\ request[c].pc = "store" /\ request'[c].pc = "idle"
         /\ change'[request[c].user].otp = request[c].otp
         /\ change'[request[c].user].failedAttempts = 0
         /\ \A v \in Users \ {request[c].user} : change'[v] = change[v]
  <1> DEFINE u == request[c].user
             d == [change[u] EXCEPT !.phone = request[c].phone, !.otp = request[c].otp,
                                    !.expiresAt = now + OtpTtl, !.failedAttempts = 0]
  <1>1. /\ request[c].pc = "store" /\ UNCHANGED <<person, sent, guesses, saves, now, stalled>> /\ P!End(c)
    BY DEF P!StoreOtp, P!At
  <1>2. /\ u \in Users /\ request[c].phone \in Numbers /\ request[c].otp \in 0..MaxCodes
        /\ now + OtpTtl \in Nat /\ 0 \in 0..MaxVerifyAttempts
    BY <1>1, HoldsRequest, PhoneParts, PhoneConstants
  <1>3. change[u] \in P!Change
    BY <1>2, PhoneParts
  <1>4. /\ d \in P!Change /\ d.otp = request[c].otp /\ d.failedAttempts = 0
        /\ d.lastSentAt = change[u].lastSentAt
    BY <1>2, <1>3 DEF P!Change
  <1>5. change' = [change EXCEPT ![u] = d]
    BY <1>2, PhoneParts DEF P!StoreOtp
  <1> HIDE DEF d
  <1>6. /\ change' \in [Users -> P!Change] /\ change'[u] = d
        /\ \A v \in Users \ {u} : change'[v] = change[v]
    BY <1>2, <1>4, <1>5, OneChange
  <1>7. request' \in Requested /\ OthersStay(c) /\ request'[c].pc = "idle"
    BY <1>1, EndsRequest
  <1>8. SameSlots
    BY <1>4, <1>6 DEF SameSlots
  <1>9. P!PhonesTypeOK'
    BY <1>1, <1>6, <1>7 DEF P!PhonesTypeOK, Requested
  <1> QED BY <1>1, <1>4, <1>6, <1>7, <1>8, <1>9

(* One more try of the pending code, and one more comparison.               *)
LEMMA VerifyEffect ==
  ASSUME P!PhonesTypeOK, NEW c \in Requests, NEW u \in Users, NEW p \in Numbers,
         NEW right \in BOOLEAN, P!VerifyOtp(c, u, p, right)
  PROVE  /\ P!PhonesTypeOK' /\ UNCHANGED <<sent, saves, now, stalled>> /\ SameSlots
         /\ change[u].otp # 0 /\ change'[u].otp = change[u].otp
         /\ change[u].failedAttempts < MaxVerifyAttempts
         /\ change'[u].failedAttempts = change[u].failedAttempts + 1
         /\ \A v \in Users \ {u} : change'[v] = change[v]
         /\ guesses' = [guesses EXCEPT ![change[u].otp] = @ + 1]
         /\ \/ UNCHANGED request
            \/ /\ OthersStay(c) /\ request[c].pc = "idle" /\ request'[c].pc \in {"save", "clear"}
               /\ request'[c].otp = change[u].otp
  <1> DEFINE d == [change[u] EXCEPT !.failedAttempts = @ + 1]
             r(pc) == [P!Request(pc, u, p, "ACTIVE") EXCEPT !.otp = change[u].otp]
  <1>1. /\ change[u].otp # 0 /\ change[u].failedAttempts < MaxVerifyAttempts
        /\ request[c].pc = "idle" /\ UNCHANGED <<person, sent, saves, now, stalled>>
        /\ guesses' = [guesses EXCEPT ![change[u].otp] = @ + 1]
    BY DEF P!VerifyOtp, P!Attemptable, P!Guess, P!Idle
  <1>2. change[u].failedAttempts + 1 \in 0..MaxVerifyAttempts
    BY <1>1, ChangeFields, PhoneConstants
  <1>3. /\ d \in P!Change /\ d.otp = change[u].otp /\ d.lastSentAt = change[u].lastSentAt
        /\ d.failedAttempts = change[u].failedAttempts + 1
    <2>1. change[u] \in P!Change
      BY PhoneParts
    <2> QED BY <1>2, <2>1 DEF P!Change
  <1>4. change' = [change EXCEPT ![u] = d]
    BY PhoneParts DEF P!VerifyOtp
  <1> HIDE DEF d
  <1>5. /\ change' \in [Users -> P!Change] /\ change'[u] = d
        /\ \A v \in Users \ {u} : change'[v] = change[v]
    BY <1>3, <1>4, OneChange
  <1>6. SameSlots
    BY <1>3, <1>5 DEF SameSlots
  <1>7. guesses' \in [1..MaxCodes -> Nat]
    <2>1. \A k \in 1..MaxCodes : guesses[k] + 1 \in Nat
      BY PhoneParts
    <2> QED BY <1>1, <2>1, PhoneParts, Zenon
  <1>8. /\ r("save") \in P!Held /\ r("save").pc = "save" /\ r("save").otp = change[u].otp
        /\ r("clear") \in P!Held /\ r("clear").pc = "clear" /\ r("clear").otp = change[u].otp
    <2>1. /\ "save" \in P!Place /\ "clear" \in P!Place /\ "ACTIVE" \in P!Status
          /\ change[u].otp \in 0..MaxCodes
      BY ChangeFields DEF P!Place, P!Status
    <2> QED BY <2>1, RequestOfCode
  <1>9. \/ P!Begin(c, r("save")) \/ P!Begin(c, r("clear"))
        \/ UNCHANGED request
    BY DEF P!VerifyOtp
  <1> HIDE DEF r
  <1>10. /\ request' \in Requested
         /\ \/ UNCHANGED request
            \/ /\ OthersStay(c) /\ request'[c].pc \in {"save", "clear"}
               /\ request'[c].otp = change[u].otp
    BY <1>8, <1>9, BeginsRequest, PhoneParts
  <1>11. P!PhonesTypeOK'
    BY <1>1, <1>5, <1>7, <1>10 DEF P!PhonesTypeOK, Requested
  <1> QED BY <1>1, <1>3, <1>5, <1>6, <1>10, <1>11

(* No code is pending any more.                                             *)
LEMMA ClearEffect ==
  ASSUME P!PhonesTypeOK, NEW c \in Requests, P!ClearPendingOtp(c)
  PROVE  /\ P!PhonesTypeOK' /\ UNCHANGED <<sent, guesses, saves, now, stalled>>
         /\ SameSlots /\ OthersStay(c) /\ request[c].pc = "clear" /\ request'[c].pc = "idle"
         /\ change'[request[c].user].otp = 0
         /\ \A v \in Users \ {request[c].user} : change'[v] = change[v]
  <1> DEFINE u == request[c].user
             d == [change[u] EXCEPT !.otp = 0, !.expiresAt = 0]
  <1>1. /\ request[c].pc = "clear" /\ UNCHANGED <<person, sent, guesses, saves, now, stalled>> /\ P!End(c)
    BY DEF P!ClearPendingOtp, P!At
  <1>2. u \in Users /\ 0 \in Nat /\ 0 \in 0..MaxCodes
    BY <1>1, HoldsRequest, PhoneConstants
  <1>3. change[u] \in P!Change
    BY <1>2, PhoneParts
  <1>4. d \in P!Change /\ d.otp = 0 /\ d.lastSentAt = change[u].lastSentAt
    BY <1>2, <1>3 DEF P!Change
  <1>5. change' = [change EXCEPT ![u] = d]
    BY <1>2, PhoneParts DEF P!ClearPendingOtp
  <1> HIDE DEF d
  <1>6. /\ change' \in [Users -> P!Change] /\ change'[u] = d
        /\ \A v \in Users \ {u} : change'[v] = change[v]
    BY <1>2, <1>4, <1>5, OneChange
  <1>7. request' \in Requested /\ OthersStay(c) /\ request'[c].pc = "idle"
    BY <1>1, EndsRequest
  <1>8. SameSlots
    BY <1>4, <1>6 DEF SameSlots
  <1>9. P!PhonesTypeOK'
    BY <1>1, <1>6, <1>7 DEF P!PhonesTypeOK, Requested
  <1> QED BY <1>1, <1>4, <1>6, <1>7, <1>8, <1>9

(* The number changes with the code that is still pending, which is then    *)
(* gone; or nothing changes.                                                *)
LEMMA SaveEffect ==
  ASSUME P!PhonesTypeOK, NEW c \in Requests, P!SavePhone(c)
  PROVE  /\ P!PhonesTypeOK' /\ UNCHANGED <<sent, guesses, now, stalled>>
         /\ SameSlots /\ OthersStay(c) /\ request[c].pc = "save" /\ request'[c].pc = "idle"
         /\ \/ UNCHANGED <<change, saves>>
            \/ /\ change[request[c].user].otp = request[c].otp
               /\ change'[request[c].user].otp = 0
               /\ \A v \in Users \ {request[c].user} : change'[v] = change[v]
               /\ saves' = [saves EXCEPT ![request[c].otp] = @ + 1]
  <1> DEFINE u == request[c].user
             d == [change[u] EXCEPT !.phone = NoNumber, !.otp = 0, !.expiresAt = 0,
                                    !.failedAttempts = 0]
  <1>1. request[c].pc = "save" /\ UNCHANGED <<sent, guesses, now, stalled>> /\ P!End(c)
    BY DEF P!SavePhone, P!At
  <1>2. request' \in Requested /\ OthersStay(c) /\ request'[c].pc = "idle"
    BY <1>1, EndsRequest
  <1>3. CASE UNCHANGED <<person, change, saves>>
    BY <1>1, <1>2, <1>3 DEF P!PhonesTypeOK, Requested, SameSlots
  <1>4. CASE /\ change[u].otp = request[c].otp /\ P!Saved(u, request[c].phone)
             /\ saves' = [saves EXCEPT ![request[c].otp] = @ + 1]
    <2>1. /\ u \in Users /\ request[c].phone \in Numbers
          /\ 0 \in Nat /\ 0 \in 0..MaxCodes /\ 0 \in 0..MaxVerifyAttempts
      BY <1>1, HoldsRequest, PhoneConstants
    <2>2. change[u] \in P!Change
      BY <2>1, PhoneParts
    <2>3. d \in P!Change /\ d.otp = 0 /\ d.lastSentAt = change[u].lastSentAt
      BY <2>1, <2>2 DEF P!Change
    <2>4. change' = [change EXCEPT ![u] = d]
      BY Zenon, <1>4, <2>1, PhoneParts DEF P!Saved
    <2> HIDE DEF d
    <2>5. /\ change' \in [Users -> P!Change] /\ change'[u] = d
          /\ \A v \in Users \ {u} : change'[v] = change[v]
      BY <2>1, <2>3, <2>4, OneChange
    <2>6. SameSlots
      BY <2>3, <2>5 DEF SameSlots
    <2>7. person' \in [Users -> [status: P!Status, phone: Numbers \cup {NoNumber}]]
      BY <1>4, <2>1, PhoneParts DEF P!Saved
    <2>8. saves' \in [1..MaxCodes -> Nat]
      <3>1. \A k \in 1..MaxCodes : saves[k] + 1 \in Nat
        BY PhoneParts
      <3> QED BY <1>4, <3>1, PhoneParts, Zenon
    <2>9. P!PhonesTypeOK'
      BY <1>1, <1>2, <2>5, <2>7, <2>8 DEF P!PhonesTypeOK, Requested
    <2> QED BY <1>1, <1>2, <1>4, <2>3, <2>5, <2>6, <2>9
  <1> QED BY <1>3, <1>4 DEF P!SavePhone

(* While no request stalls, none is passed by the clock when due.           *)
LEMMA TickEffect ==
  ASSUME P!PhonesTypeOK, P!Tick
  PROVE  /\ P!PhonesTypeOK' /\ UNCHANGED <<change, request, sent, guesses, saves>>
         /\ now' = now + 1
         /\ stalled => stalled'
         /\ ~stalled' => \A c \in Requests : Waits(c) \/ Holds(c) => ~(now >= request[c].at + Delay)
  <1>1. /\ now < MaxTime /\ now' = now + 1
        /\ UNCHANGED <<person, change, request, sent, guesses, saves>>
        /\ stalled' = (stalled \/ \E c \in Requests : P!Overdue(c))
    BY DEF P!Tick
  <1>2. \A c \in Requests : ~P!Overdue(c) /\ (Waits(c) \/ Holds(c)) => ~(now >= request[c].at + Delay)
    BY DEF P!Overdue, Waits, Holds
  <1>3. now' \in 0..MaxTime /\ stalled' \in BOOLEAN
    BY <1>1, PhoneParts, PhoneConstants
  <1>4. P!PhonesTypeOK'
    BY <1>1, <1>3 DEF P!PhonesTypeOK
  <1>5. (stalled => stalled') /\ (~stalled' => \A c \in Requests : ~P!Overdue(c))
    BY <1>1
  <1> QED BY <1>1, <1>2, <1>4, <1>5
-----------------------------------------------------------------------------
(* The codes                                                                *)

(* A step that compares, stores and uses no code, except that it may clear  *)
(* a pending one.                                                           *)
LEMMA CodesKept ==
  ASSUME PhonesInv, UNCHANGED <<sent, guesses, saves>>,
         \A u \in Users : \/ change'[u].otp = 0
                          \/ /\ change'[u].otp = change[u].otp
                             /\ change'[u].failedAttempts = change[u].failedAttempts,
         \A c \in Requests : request'[c].pc \in {"store", "save"} =>
             request'[c].pc = request[c].pc /\ request'[c].otp = request[c].otp
  PROVE  CodesInv'
  <1> USE DEF PhonesInv, CodesInv
  <1>1. CodesKnown'
    <2>1. Len(sent) \in Nat
      BY PhoneParts
    <2> QED BY <2>1 DEF CodesKnown
  <1>2. StoredOnce'
    <2>1. \A c \in Requests : request'[c].pc = "store" =>
             request[c].pc = "store" /\ request'[c].otp = request[c].otp /\ request[c].otp # 0
      BY DEF CodesKnown
    <2> QED BY <2>1 DEF StoredOnce
  <1>3. Counted'
    BY DEF Counted
  <1>4. GuessesBounded' /\ CodeChangesOnce'
    BY DEF GuessesBounded, CodeChangesOnce, P!GuessesBounded, P!CodeChangesOnce
  <1> QED BY <1>1, <1>2, <1>3, <1>4

(* The code of a new message is nobody's yet.                               *)
LEMMA CodesOfSend ==
  ASSUME PhonesInv, NEW c \in Requests, P!SendSms(c)
  PROVE  CodesInv'
  <1> USE DEF PhonesInv, CodesInv
  <1> DEFINE n == Len(sent')
  <1>2. /\ P!PhonesTypeOK' /\ UNCHANGED <<change, guesses, saves, now, stalled>>
        /\ OthersStay(c) /\ n = Len(sent) + 1 /\ request'[c].pc = "store" /\ request'[c].otp = n
    BY SendEffect
  <1>3. /\ Len(sent) \in Nat /\ MaxCodes \in Nat /\ n \in 1..MaxCodes
    <2>1. Len(sent) \in Nat /\ MaxCodes \in Nat /\ n <= MaxCodes
      BY <1>2, PhoneParts, PhoneConstants DEF P!PhonesTypeOK
    <2> HIDE DEF n
    <2> QED BY <1>2, <2>1
  <1>4. /\ \A u \in Users : change'[u] = change[u] /\ change[u].otp < n
        /\ guesses[n] = 0 /\ saves[n] = 0
    <2>1. \A u \in Users : change[u].otp \in Int
      BY ChangeFields, PhoneConstants
    <2> HIDE DEF n
    <2> QED BY <1>2, <1>3, <2>1 DEF CodesKnown
  <1>5. \A d \in Requests \ {c} :
           /\ request'[d] = request[d]
           /\ request[d].pc \in {"store", "save"} => request[d].otp \in 1..Len(sent) /\ request[d].otp < n
    <2> HIDE DEF n
    <2> QED BY <1>2, <1>3 DEF CodesKnown, OthersStay
  <1> HIDE DEF n
  <1>6. CodesKnown'
    <2>1. \A u \in Users : change'[u].otp <= n
      <3>1. \A u \in Users : change[u].otp \in Int
        BY ChangeFields, PhoneConstants
      <3> QED BY <1>3, <1>4, <3>1
    <2>2. \A d \in Requests : request'[d].pc \in {"store", "save"} => request'[d].otp \in 1..n
      BY <1>2, <1>3, <1>5
    <2>3. \A k \in 1..MaxCodes : k > n => guesses'[k] = 0 /\ saves'[k] = 0
      BY <1>2, <1>3 DEF CodesKnown
    <2> QED BY <2>1, <2>2, <2>3 DEF CodesKnown, n
  <1>7. StoredOnce'
    <2>1. \A u, v \in Users : change'[u].otp # 0 /\ change'[u].otp = change'[v].otp => u = v
      BY <1>4 DEF StoredOnce
    <2>2. ASSUME NEW d \in Requests, request'[d].pc = "store"
          PROVE  /\ \A u \in Users : change'[u].otp # request'[d].otp
                 /\ guesses'[request'[d].otp] = 0 /\ saves'[request'[d].otp] = 0
      <3>1. CASE d = c
        <4>1. \A u \in Users : change[u].otp \in Int /\ change[u].otp # n
          BY <1>3, <1>4, ChangeFields, PhoneConstants
        <4> QED BY <1>2, <1>4, <3>1, <4>1
      <3>2. CASE d # c
        BY <1>2, <1>4, <1>5, <2>2, <3>2 DEF StoredOnce
      <3> QED BY <3>1, <3>2
    <2>3. \A d, e \in Requests :
            request'[d].pc = "store" /\ request'[e].pc = "store" /\ request'[d].otp = request'[e].otp
            => d = e
      <3>1. \A d \in Requests \ {c} : request'[d].pc = "store" => request'[d].otp # n
        BY <1>3, <1>5
      <3>2. request'[c].otp = n
        BY <1>2
      <3> QED BY <1>5, <3>1, <3>2 DEF StoredOnce
    <2> QED BY <2>1, <2>2, <2>3 DEF StoredOnce
  <1>8. Counted'
    BY <1>2 DEF Counted
  <1>9. GuessesBounded' /\ CodeChangesOnce'
    BY <1>2 DEF GuessesBounded, CodeChangesOnce, P!GuessesBounded, P!CodeChangesOnce
  <1> QED BY <1>6, <1>7, <1>8, <1>9

(* The code of a lost answer stays nobody's.                                *)
LEMMA CodesOfLost ==
  ASSUME PhonesInv, NEW c \in Requests, P!AnswerLost(c)
  PROVE  CodesInv'
  <1> USE DEF PhonesInv, CodesInv
  <1> DEFINE n == Len(sent')
  <1>1. /\ UNCHANGED <<change, guesses, saves, now, stalled>>
        /\ OthersStay(c) /\ n = Len(sent) + 1 /\ request'[c].pc = "release"
    BY LostEffect
  <1>2. Len(sent) \in Nat
    BY PhoneParts
  <1>3. \A d \in Requests : request'[d].pc \in {"store", "save"} => request'[d] = request[d]
    BY <1>1 DEF OthersStay
  <1>4. \A u \in Users : change[u].otp \in Int
    BY ChangeFields, PhoneConstants
  <1> HIDE DEF n
  <1>5. CodesKnown'
    <2>1. \A u \in Users : change'[u].otp <= n
      BY <1>1, <1>2, <1>4 DEF CodesKnown
    <2>2. \A d \in Requests : request'[d].pc \in {"store", "save"} => request'[d].otp \in 1..n
      BY <1>1, <1>2, <1>3 DEF CodesKnown
    <2>3. \A k \in 1..MaxCodes : k > n => guesses'[k] = 0 /\ saves'[k] = 0
      BY <1>1, <1>2, PhoneConstants DEF CodesKnown
    <2> QED BY <2>1, <2>2, <2>3 DEF CodesKnown, n
  <1>6. StoredOnce' /\ Counted'
    BY <1>1, <1>3 DEF StoredOnce, Counted
  <1>7. GuessesBounded' /\ CodeChangesOnce'
    BY <1>1 DEF GuessesBounded, CodeChangesOnce, P!GuessesBounded, P!CodeChangesOnce
  <1> QED BY <1>5, <1>6, <1>7

(* The code stored is the request's own.                                    *)
LEMMA CodesOfStore ==
  ASSUME PhonesInv, NEW c \in Requests, P!StoreOtp(c)
  PROVE  CodesInv'
  <1> USE DEF PhonesInv, CodesInv
  <1> DEFINE u == request[c].user
             k == request[c].otp
  <1>1. /\ UNCHANGED <<sent, guesses, saves, now, stalled>> /\ OthersStay(c)
        /\ request[c].pc = "store" /\ request'[c].pc = "idle"
        /\ change'[u].otp = k /\ change'[u].failedAttempts = 0
        /\ \A v \in Users \ {u} : change'[v] = change[v]
    BY StoreEffect
  <1>2. u \in Users /\ k \in 1..Len(sent) /\ Len(sent) \in Nat
    BY <1>1, HoldsRequest, PhoneParts DEF CodesKnown
  <1>3. /\ \A v \in Users : change[v].otp # k
        /\ guesses[k] = 0 /\ saves[k] = 0
        /\ \A d \in Requests \ {c} : request[d].pc = "store" => request[d].otp # k
    BY <1>1 DEF StoredOnce
  <1>4. \A d \in Requests : request'[d].pc \in {"store", "save"} => d # c /\ request'[d] = request[d]
    BY <1>1 DEF OthersStay
  <1> HIDE DEF u, k
  <1>5. CodesKnown'
    BY <1>1, <1>2, <1>4 DEF CodesKnown
  <1>6. StoredOnce'
    <2>1. \A v, w \in Users : change'[v].otp # 0 /\ change'[v].otp = change'[w].otp => v = w
      BY <1>1, <1>2, <1>3 DEF StoredOnce
    <2>2. \A d \in Requests : request'[d].pc = "store" =>
            /\ \A v \in Users : change'[v].otp # request'[d].otp
            /\ guesses'[request'[d].otp] = 0 /\ saves'[request'[d].otp] = 0
      BY <1>1, <1>3, <1>4 DEF StoredOnce
    <2>3. \A d, e \in Requests :
            request'[d].pc = "store" /\ request'[e].pc = "store" /\ request'[d].otp = request'[e].otp
            => d = e
      BY <1>4 DEF StoredOnce
    <2> QED BY <2>1, <2>2, <2>3 DEF StoredOnce
  <1>7. Counted'
    BY <1>1, <1>2, <1>3 DEF Counted
  <1>8. GuessesBounded' /\ CodeChangesOnce'
    BY <1>1 DEF GuessesBounded, CodeChangesOnce, P!GuessesBounded, P!CodeChangesOnce
  <1> QED BY <1>5, <1>6, <1>7, <1>8

(* One comparison, one try: no other code is touched.                       *)
LEMMA CodesOfVerify ==
  ASSUME PhonesInv, NEW c \in Requests, NEW u \in Users, NEW p \in Numbers,
         NEW right \in BOOLEAN, P!VerifyOtp(c, u, p, right)
  PROVE  CodesInv'
  <1> USE DEF PhonesInv, CodesInv
  <1> DEFINE k == change[u].otp
             f == change[u].failedAttempts
  <1>1. /\ UNCHANGED <<sent, saves, now, stalled>>
        /\ k # 0 /\ change'[u].otp = k /\ f < MaxVerifyAttempts
        /\ change'[u].failedAttempts = f + 1
        /\ \A v \in Users \ {u} : change'[v] = change[v]
        /\ guesses' = [guesses EXCEPT ![k] = @ + 1]
        /\ \/ UNCHANGED request
           \/ /\ OthersStay(c) /\ request[c].pc = "idle" /\ request'[c].pc \in {"save", "clear"}
              /\ request'[c].otp = k
    BY VerifyEffect
  <1>2. /\ Len(sent) \in Nat /\ MaxCodes \in Nat /\ Len(sent) <= MaxCodes
        /\ k \in 1..Len(sent) /\ k \in 1..MaxCodes /\ f \in Nat
    <2>1. Len(sent) \in Nat /\ MaxCodes \in Nat /\ Len(sent) <= MaxCodes
      BY PhoneParts, PhoneConstants
    <2>2. k \in 0..MaxCodes /\ f \in Nat /\ k <= Len(sent)
      BY ChangeFields, PhoneConstants DEF CodesKnown
    <2> HIDE DEF k, f
    <2> QED BY <1>1, <2>1, <2>2
  <1>3. /\ guesses[k] \in Nat /\ guesses[k] <= f /\ saves[k] = 0
        /\ \A v \in Users \ {u} : change[v].otp # 0 => change[v].otp # k
        /\ \A d \in Requests : request[d].pc = "store" => request[d].otp # k
    BY <1>1, <1>2, PhoneParts DEF Counted, StoredOnce
  <1>4. /\ \A v \in Users : change'[v].otp = change[v].otp
        /\ \A d \in Requests : request'[d].pc = "store" => request'[d] = request[d]
    BY <1>1 DEF OthersStay
  <1>5. \A d \in Requests : request'[d].pc = "save" => request'[d] = request[d] \/ request'[d].otp = k
    BY <1>1 DEF OthersStay
  <1> HIDE DEF k, f
  <1>6. guesses'[k] = guesses[k] + 1 /\ \A i \in 1..MaxCodes \ {k} : guesses'[i] = guesses[i]
    BY <1>1, <1>2, PhoneParts
  <1>7. CodesKnown'
    BY <1>1, <1>2, <1>4, <1>5, <1>6 DEF CodesKnown
  <1>8. StoredOnce'
    <2>1. \A v, w \in Users : change'[v].otp # 0 /\ change'[v].otp = change'[w].otp => v = w
      BY <1>4 DEF StoredOnce
    <2>2. \A d \in Requests : request'[d].pc = "store" =>
            /\ \A v \in Users : change'[v].otp # request'[d].otp
            /\ guesses'[request'[d].otp] = 0 /\ saves'[request'[d].otp] = 0
      <3>1. \A d \in Requests : request'[d].pc = "store" =>
               /\ request[d].pc = "store" /\ request'[d].otp = request[d].otp
               /\ request[d].otp # k /\ request[d].otp \in 1..MaxCodes
        BY <1>2, <1>3, <1>4 DEF CodesKnown
      <3> QED BY <1>1, <1>4, <1>6, <3>1 DEF StoredOnce
    <2>3. \A d, e \in Requests :
            request'[d].pc = "store" /\ request'[e].pc = "store" /\ request'[d].otp = request'[e].otp
            => d = e
      BY <1>4 DEF StoredOnce
    <2> QED BY <2>1, <2>2, <2>3 DEF StoredOnce
  <1>9. Counted'
    <2> SUFFICES ASSUME NEW v \in Users, change'[v].otp # 0
                 PROVE  /\ guesses'[change'[v].otp] <= change'[v].failedAttempts
                        /\ saves'[change'[v].otp] = 0
      BY DEF Counted
    <2>1. CASE v = u
      BY <1>1, <1>2, <1>3, <1>6, <2>1
    <2>2. CASE v # u
      <3>1. change[v].otp \in 1..MaxCodes \ {k} /\ change'[v] = change[v]
        BY <1>1, <1>2, <1>3, <1>4, <2>2, ChangeFields
      <3> QED BY <1>1, <1>6, <3>1 DEF Counted
    <2> QED BY <2>1, <2>2
  <1>10. GuessesBounded'
    <2> SUFFICES ASSUME NEW i \in 1..MaxCodes
                 PROVE  guesses'[i] <= MaxVerifyAttempts
      BY DEF GuessesBounded, P!GuessesBounded
    <2>1. CASE i = k
      BY <1>1, <1>2, <1>3, <1>6, <2>1, PhoneConstants
    <2>2. CASE i # k
      BY <1>6, <2>2 DEF GuessesBounded, P!GuessesBounded
    <2> QED BY <2>1, <2>2
  <1>11. CodeChangesOnce'
    BY <1>1 DEF CodeChangesOnce, P!CodeChangesOnce
  <1> QED BY <1>7, <1>8, <1>9, <1>10, <1>11

(* The code that changes the number had changed nothing, and is pending no  *)
(* more.                                                                    *)
LEMMA CodesOfSave ==
  ASSUME PhonesInv, NEW c \in Requests, P!SavePhone(c)
  PROVE  CodesInv'
  <1> USE DEF PhonesInv, CodesInv
  <1> DEFINE u == request[c].user
             k == request[c].otp
  <1>1. /\ UNCHANGED <<sent, guesses, now, stalled>> /\ OthersStay(c)
        /\ request[c].pc = "save" /\ request'[c].pc = "idle"
        /\ \/ UNCHANGED <<change, saves>>
           \/ /\ change[u].otp = k /\ change'[u].otp = 0
              /\ \A v \in Users \ {u} : change'[v] = change[v]
              /\ saves' = [saves EXCEPT ![k] = @ + 1]
    BY SaveEffect
  <1>2. \A d \in Requests : request'[d].pc \in {"store", "save"} => request'[d] = request[d]
    BY <1>1 DEF OthersStay
  <1>3. CASE UNCHANGED <<change, saves>>
    BY <1>1, <1>2, <1>3, CodesKept
  <1>4. CASE /\ change[u].otp = k /\ change'[u].otp = 0
             /\ \A v \in Users \ {u} : change'[v] = change[v]
             /\ saves' = [saves EXCEPT ![k] = @ + 1]
    <2>1. /\ u \in Users /\ Len(sent) \in Nat /\ MaxCodes \in Nat /\ Len(sent) <= MaxCodes
          /\ k \in 1..Len(sent)
      BY <1>1, HoldsRequest, PhoneParts, PhoneConstants DEF CodesKnown
    <2>2. k \in 1..MaxCodes
      <3> HIDE DEF k
      <3> QED BY <2>1
    <2>3. /\ saves[k] = 0
          /\ \A v \in Users \ {u} : change[v].otp # 0 => change[v].otp # k
          /\ \A d \in Requests : request[d].pc = "store" => request[d].otp # k
      BY <1>4, <2>1 DEF Counted, StoredOnce
    <2> HIDE DEF u, k
    <2>4. saves'[k] = 1 /\ \A i \in 1..MaxCodes \ {k} : saves'[i] = saves[i]
      BY <1>4, <2>2, <2>3, PhoneParts
    <2>5. \A v \in Users : change'[v].otp # 0 => v # u /\ change'[v] = change[v] /\ change[v].otp # k
      BY <1>4, <2>3
    <2>6. CodesKnown'
      <3>1. \A v \in Users : change'[v].otp <= Len(sent)
        BY <1>4, <2>1 DEF CodesKnown
      <3>2. \A i \in 1..MaxCodes : i > Len(sent) => guesses'[i] = 0 /\ saves'[i] = 0
        BY <1>1, <2>1, <2>2, <2>4 DEF CodesKnown
      <3> QED BY <1>1, <1>2, <3>1, <3>2 DEF CodesKnown
    <2>7. StoredOnce'
      <3>1. \A v, w \in Users : change'[v].otp # 0 /\ change'[v].otp = change'[w].otp => v = w
        BY <2>5 DEF StoredOnce
      <3>2. \A d \in Requests : request'[d].pc = "store" =>
              /\ request[d].pc = "store" /\ request'[d].otp = request[d].otp
              /\ request[d].otp # k /\ request[d].otp \in 1..MaxCodes /\ request[d].otp # 0
        BY <1>2, <2>1, <2>3 DEF CodesKnown
      <3>3. \A d \in Requests : request'[d].pc = "store" =>
              /\ \A v \in Users : change'[v].otp # request'[d].otp
              /\ guesses'[request'[d].otp] = 0 /\ saves'[request'[d].otp] = 0
        BY <1>1, <2>4, <2>5, <3>2 DEF StoredOnce
      <3>4. \A d, e \in Requests :
              request'[d].pc = "store" /\ request'[e].pc = "store" /\ request'[d].otp = request'[e].otp
              => d = e
        BY <3>2 DEF StoredOnce
      <3> QED BY <3>1, <3>3, <3>4 DEF StoredOnce
    <2>8. Counted'
      <3> SUFFICES ASSUME NEW v \in Users, change'[v].otp # 0
                   PROVE  /\ guesses'[change'[v].otp] <= change'[v].failedAttempts
                          /\ saves'[change'[v].otp] = 0
        BY DEF Counted
      <3>1. change'[v] = change[v] /\ change[v].otp \in 1..MaxCodes \ {k}
        BY <2>1, <2>5, ChangeFields
      <3> QED BY <1>1, <2>4, <3>1 DEF Counted
    <2>9. GuessesBounded' /\ CodeChangesOnce'
      BY <1>1, <2>4 DEF GuessesBounded, CodeChangesOnce, P!GuessesBounded, P!CodeChangesOnce
    <2> QED BY <2>6, <2>7, <2>8, <2>9
  <1> QED BY <1>1, <1>3, <1>4
-----------------------------------------------------------------------------
(* The slots                                                                *)

(* The fields of a message.                                                 *)
LEMMA SentFields ==
  ASSUME P!PhonesTypeOK, NEW k \in DOMAIN sent
  PROVE  sent[k].to \in Users /\ sent[k].at \in Int /\ sent[k].known \in BOOLEAN
  <1>1. sent[k] \in P!Sent
    BY PhoneParts
  <1> QED BY <1>1 DEF P!Sent

(* A request on its way to a slot holds instants.                           *)
LEMMA SlotFields ==
  ASSUME InTime, NEW c \in Requests, Waits(c) \/ Holds(c)
  PROVE  /\ request[c].user \in Users /\ request[c].previous \in Int /\ request[c].at \in Nat
         /\ now \in Nat /\ request[c].at <= now /\ now <= request[c].at + Delay
         /\ change[request[c].user].lastSentAt \in Int
  <1>1. request[c].user \in Users /\ request[c].previous \in Int
    BY HoldsRequest DEF InTime, Waits, Holds
  <1>2. request[c].at \in Nat /\ request[c].at <= now /\ now <= request[c].at + Delay
    BY DEF InTime, SlotsInv, Timely
  <1>3. now \in Nat /\ change[request[c].user].lastSentAt \in Int
    BY <1>1, ChangeFields, PhoneParts DEF InTime
  <1> QED BY <1>1, <1>2, <1>3

(* They are numbers.                                                        *)
LEMMA InstantsType ==
  ASSUME InTime, NEW c \in Requests
  PROVE  Instants(c) \subseteq Int
  <1>1. \A k \in DOMAIN sent : sent[k].at \in Int
    BY SentFields DEF InTime
  <1>2. \A d \in Requests : Holds(d) => request[d].at \in Int
    BY SlotFields
  <1> QED BY <1>1, <1>2 DEF Instants, Known

(* A step that sends nothing, takes no slot and gives none back: requests   *)
(* on their way stay as they are, or drop out; a message may fail.          *)
LEMMA SlotsKept ==
  ASSUME InTime, UNCHANGED <<sent, now, stalled>>, SameSlots,
         \A d \in Requests : Waits(d)' => request'[d] = request[d],
         \A d \in Requests : Holds(d)' =>
             /\ Holds(d) /\ request'[d].user = request[d].user
             /\ request'[d].at = request[d].at /\ request'[d].previous = request[d].previous
  PROVE  SlotsInv'
  <1> USE DEF InTime, SlotsInv
  <1>1. \A d \in Requests : Waits(d)' => Waits(d)
    BY DEF Waits
  <1>2. Timely'
    BY <1>1 DEF Timely
  <1>3. LastKnown'
    BY SentFields DEF LastKnown, Known, SameSlots
  <1>4. SlotHeld'
    <2>1. \A d \in Requests : Holds(d)' => request[d].user \in Users
      BY SlotFields
    <2> QED BY <2>1 DEF SlotHeld, Known, SameSlots
  <1>5. ReadLast'
    <2> SUFFICES ASSUME NEW c \in Requests, Waits(c)', NEW t \in Instants(c)'
                 PROVE  Minds(c, t)'
      BY DEF ReadLast
    <2>1. request'[c] = request[c] /\ Waits(c)
      BY <1>1
    <2>2. t \in Instants(c)
      BY <2>1 DEF Instants, Known
    <2> QED BY <2>1, <2>2 DEF ReadLast, Minds
  <1>6. P!KnownSpaced'
    BY DEF P!KnownSpaced
  <1> QED BY <1>2, <1>3, <1>4, <1>5, <1>6

(* A new request has read the lastSentAt of now.                            *)
LEMMA SlotsOfRequest ==
  ASSUME InTime, NEW c \in Requests, NEW u \in Users, NEW p \in Numbers, P!RequestOtp(c, u, p)
  PROVE  SlotsInv'
  <1> USE DEF InTime, SlotsInv
  <1>1. /\ UNCHANGED <<change, sent, guesses, saves, now, stalled>>
        /\ OthersStay(c) /\ request'[c].pc = "window" /\ request'[c].user = u
        /\ request'[c].previous = change[u].lastSentAt /\ request'[c].at = now
    BY RequestEffect
  <1>2. now \in Nat /\ Delay \in Nat /\ change[u].lastSentAt \in Int
    BY PhoneParts, PhoneConstants, ChangeFields
  <1>3. /\ Waits(c)' /\ ~Holds(c)'
        /\ \A d \in Requests \ {c} :
              request'[d] = request[d] /\ Waits(d)' = Waits(d) /\ Holds(d)' = Holds(d)
    BY <1>1 DEF OthersStay, Waits, Holds
  <1>4. Timely'
    BY <1>1, <1>2, <1>3 DEF Timely
  <1>5. LastKnown'
    BY <1>1 DEF LastKnown, Known
  <1>6. SlotHeld'
    BY <1>1, <1>3 DEF SlotHeld, Known
  <1>7. ReadLast'
    <2> SUFFICES ASSUME NEW e \in Requests, Waits(e)', NEW t \in Instants(e)'
                 PROVE  Minds(e, t)'
      BY DEF ReadLast
    <2>1. CASE e = c
      <3>1. \A k \in Known : sent[k].to = u => sent[k].at <= change[u].lastSentAt
        BY DEF LastKnown
      <3>2. \A d \in Requests : Holds(d)' /\ request'[d].user = u =>
               request'[d].at = change[u].lastSentAt
        BY <1>3 DEF SlotHeld
      <3>3. t <= change[u].lastSentAt
        BY <1>1, <1>2, <2>1, <3>1, <3>2 DEF Instants, Known
      <3> QED BY <1>1, <2>1, <3>3 DEF Minds
    <2>2. CASE e # c
      <3>1. t \in Instants(e)
        BY <1>1, <1>3, <2>2 DEF Instants, Known
      <3> QED BY <1>3, <2>2, <3>1 DEF ReadLast, Minds
    <2> QED BY <2>1, <2>2
  <1>8. P!KnownSpaced'
    BY <1>1 DEF P!KnownSpaced
  <1> QED BY <1>4, <1>5, <1>6, <1>7, <1>8

(* The instant is at most Delay later than the read: what came after the    *)
(* read is less than an interval old.                                       *)
LEMMA SlotsOfOpen ==
  ASSUME InTime, NEW c \in Requests, P!OpenWindow(c)
  PROVE  SlotsInv'
  <1> USE DEF InTime, SlotsInv
  <1>1. /\ UNCHANGED <<sent, guesses, saves, now, stalled>> /\ SameSlots /\ OthersStay(c)
        /\ request[c].pc = "window" /\ request'[c].pc = "slot" /\ request'[c].at = now
        /\ request'[c].user = request[c].user /\ request'[c].previous = request[c].previous
    BY OpenEffect
  <1>2. /\ Waits(c) /\ Waits(c)' /\ ~Holds(c) /\ ~Holds(c)'
        /\ \A d \in Requests \ {c} :
              request'[d] = request[d] /\ Waits(d)' = Waits(d) /\ Holds(d)' = Holds(d)
    BY <1>1 DEF OthersStay, Waits, Holds
  <1>3. /\ now \in Nat /\ Delay \in Nat /\ ResendInterval \in Nat /\ 2 * Delay < ResendInterval
        /\ request[c].previous \in Int
        /\ request[c].at \in Nat /\ request[c].at <= now /\ now <= request[c].at + Delay
    BY <1>2, SlotFields, PhoneConstants
  <1>4. Timely'
    BY <1>1, <1>2, <1>3 DEF Timely
  <1>5. LastKnown'
    BY <1>1, SentFields DEF LastKnown, Known, SameSlots
  <1>6. SlotHeld'
    <2>1. \A d \in Requests : Holds(d) => request[d].user \in Users
      BY SlotFields
    <2> QED BY <1>1, <1>2, <2>1 DEF SlotHeld, Known, SameSlots
  <1>7. ReadLast'
    <2> SUFFICES ASSUME NEW e \in Requests, Waits(e)', NEW t \in Instants(e)'
                 PROVE  Minds(e, t)'
      BY DEF ReadLast
    <2>1. t \in Instants(e) /\ t \in Int /\ Waits(e)
      <3>1. t \in Instants(e)
        BY <1>1, <1>2 DEF Instants, Known
      <3> QED BY <1>2, <3>1, InstantsType
    <2>2. CASE e = c
      <3>1. t <= request[c].previous \/ t >= request[c].at - Delay
        BY <1>1, <2>1, <2>2 DEF ReadLast, Minds
      <3>2. t <= request[c].previous \/ t > now - ResendInterval
        BY <1>3, <2>1, <3>1
      <3> QED BY <1>1, <2>2, <3>2 DEF Minds
    <2>3. CASE e # c
      BY <1>2, <2>1, <2>3 DEF ReadLast, Minds
    <2> QED BY <2>2, <2>3
  <1>8. P!KnownSpaced'
    BY <1>1 DEF P!KnownSpaced
  <1> QED BY <1>4, <1>5, <1>6, <1>7, <1>8

(* The slot is claimed an interval after every message, and while no other  *)
(* request of the user holds one; those on their way will mind it.          *)
LEMMA SlotsOfClaim ==
  ASSUME InTime, NEW c \in Requests, P!ClaimSendSlot(c)
  PROVE  SlotsInv'
  <1> USE DEF InTime, SlotsInv
  <1> DEFINE u == request[c].user
             a == request[c].at
             last == change[u].lastSentAt
  <1>1. /\ UNCHANGED <<sent, guesses, saves, now, stalled>> /\ OthersStay(c) /\ request[c].pc = "slot"
        /\ \/ SameSlots /\ request'[c].pc = "idle"
           \/ /\ last <= a - ResendInterval /\ change'[u].lastSentAt = a
              /\ \A v \in Users \ {u} : change'[v].lastSentAt = change[v].lastSentAt
              /\ request'[c].pc = "sms" /\ request'[c].user = u
              /\ request'[c].previous = request[c].previous /\ request'[c].at = a
    BY ClaimEffect
  <1>2. \A d \in Requests \ {c} :
           request'[d] = request[d] /\ Waits(d)' = Waits(d) /\ Holds(d)' = Holds(d)
    BY <1>1 DEF OthersStay, Waits, Holds
  <1>3. Waits(c) /\ ~Holds(c) /\ ~Waits(c)'
    BY <1>1 DEF Waits, Holds
  <1>4. CASE SameSlots /\ request'[c].pc = "idle"
    <2>1. ~Holds(c)'
      BY <1>4 DEF Holds
    <2> QED BY <1>1, <1>2, <1>3, <1>4, <2>1, SlotsKept
  <1>5. CASE /\ last <= a - ResendInterval /\ change'[u].lastSentAt = a
             /\ \A v \in Users \ {u} : change'[v].lastSentAt = change[v].lastSentAt
             /\ request'[c].pc = "sms" /\ request'[c].user = u
             /\ request'[c].previous = request[c].previous /\ request'[c].at = a
    <2>1. /\ now \in Nat /\ Delay \in Nat /\ ResendInterval \in Nat /\ 2 * Delay < ResendInterval
          /\ u \in Users /\ last \in Int /\ request[c].previous \in Int
          /\ a \in Nat /\ a <= now /\ now <= a + Delay
      BY <1>3, SlotFields, PhoneConstants
    <2>2. \A k \in Known : sent[k].to \in Users /\ sent[k].at \in Int
      BY SentFields DEF Known
    <2>3. \A k \in Known : sent[k].to = u =>
             /\ sent[k].at <= a /\ sent[k].at + ResendInterval <= a
             /\ sent[k].at <= request[c].previous
      <3> SUFFICES ASSUME NEW k \in Known, sent[k].to = u
                   PROVE  /\ sent[k].at <= a /\ sent[k].at + ResendInterval <= a
                          /\ sent[k].at <= request[c].previous
        OBVIOUS
      <3>1. sent[k].at <= last
        BY DEF LastKnown
      <3>2. sent[k].at <= request[c].previous \/ sent[k].at > a - ResendInterval
        <4>1. Minds(c, sent[k].at)
          BY <1>3 DEF ReadLast, Instants
        <4> QED BY <1>1, <4>1 DEF Minds
      <3> HIDE DEF u, a, last
      <3> QED BY <1>5, <2>1, <2>2, <3>1, <3>2
    <2>4. \A d \in Requests : Holds(d) => request[d].user # u
      <3> SUFFICES ASSUME NEW d \in Requests, Holds(d), request[d].user = u
                   PROVE  FALSE
        OBVIOUS
      <3>1. request[d].at \in Nat /\ now <= request[d].at + Delay /\ last = request[d].at
        BY SlotFields DEF SlotHeld
      <3> HIDE DEF u, a, last
      <3> QED BY <1>5, <2>1, <3>1
    <2>5. Holds(c)'
      BY <1>5 DEF Holds
    <2>6. Timely'
      BY <1>1, <1>2, <1>5, <2>1 DEF Timely
    <2>7. LastKnown'
      BY <1>1, <1>5, <2>2, <2>3 DEF LastKnown, Known
    <2>8. SlotHeld'
      <3>1. \A d \in Requests \ {c} : Holds(d)' =>
               Holds(d) /\ request'[d] = request[d] /\ request[d].user \in Users \ {u}
        BY <1>2, <2>4, SlotFields
      <3>2. \A d, e \in Requests : Holds(d)' /\ Holds(e)' /\ request'[d].user = request'[e].user => d = e
        BY <1>5, <3>1 DEF SlotHeld
      <3>3. ASSUME NEW d \in Requests, Holds(d)'
            PROVE  /\ change'[request'[d].user].lastSentAt = request'[d].at
                   /\ \A k \in Known : sent[k].to = request'[d].user =>
                        /\ sent[k].at + ResendInterval <= request'[d].at
                        /\ sent[k].at <= request'[d].previous
        <4>1. CASE d = c
          BY <1>5, <2>3, <4>1
        <4>2. CASE d # c
          BY <1>5, <3>1, <3>3, <4>2 DEF SlotHeld
        <4> QED BY <4>1, <4>2
      <3> QED BY <1>1, <3>2, <3>3 DEF SlotHeld, Known
    <2>9. ReadLast'
      <3> SUFFICES ASSUME NEW e \in Requests, Waits(e)', NEW t \in Instants(e)'
                   PROVE  Minds(e, t)'
        BY DEF ReadLast
      <3>1. e # c /\ Waits(e) /\ request'[e] = request[e]
        BY <1>2, <1>3
      <3>2. t \in Instants(e) \/ t = a
        BY <1>1, <1>2, <1>5, <3>1 DEF Instants, Known
      <3>3. CASE t \in Instants(e)
        BY <3>1, <3>3 DEF ReadLast, Minds
      <3>4. CASE t = a
        <4>1. request[e].at \in Nat /\ request[e].at <= now
          BY <3>1, SlotFields
        <4>2. t >= request[e].at - Delay /\ t > request[e].at - ResendInterval
          <5> HIDE DEF a
          <5> QED BY <2>1, <3>4, <4>1
        <4> QED BY <3>1, <4>2 DEF Minds, Waits
      <3> QED BY <3>2, <3>3, <3>4
    <2>10. P!KnownSpaced'
      BY <1>1 DEF P!KnownSpaced
    <2> QED BY <2>6, <2>7, <2>8, <2>9, <2>10
  <1> QED BY <1>1, <1>4, <1>5

(* A message leaves from the slot its request holds.                        *)
LEMMA SpacedByDelivery ==
  ASSUME InTime, NEW c \in Requests, NEW known \in BOOLEAN, P!Deliver(c, known)
  PROVE  P!KnownSpaced'
  <1> USE DEF InTime, SlotsInv
  <1> DEFINE n == Len(sent')
  <1>1. /\ DOMAIN sent' = DOMAIN sent \cup {n} /\ request[c].pc = "sms"
        /\ \A k \in DOMAIN sent : k # n /\ k < n /\ sent'[k] = sent[k]
        /\ sent'[n].to = request[c].user /\ sent'[n].at = request[c].at
    BY DeliverEffect
  <1>2. \A k \in DOMAIN sent : sent[k].known /\ sent[k].to = request[c].user =>
            sent[k].at + ResendInterval <= request[c].at
    BY <1>1 DEF SlotHeld, Known, Holds
  <1>6. n \in Int /\ DOMAIN sent' \subseteq Int
    BY DeliverEffect
  <1> HIDE DEF n
  <1> SUFFICES ASSUME NEW j \in DOMAIN sent', NEW k \in DOMAIN sent', j < k,
                      sent'[j].to = sent'[k].to, sent'[j].known
               PROVE  sent'[k].at >= sent'[j].at + ResendInterval
    BY DEF P!KnownSpaced
  <1>3. j \in DOMAIN sent
    <2>1. CASE j = n
      <3>1. k = n \/ k \in DOMAIN sent
        BY <1>1
      <3>2. k \in DOMAIN sent => k < n
        BY <1>1
      <3>3. n \in Int /\ k \in Int
        BY <1>6
      <3> QED BY <2>1, <3>1, <3>2, <3>3
    <2> QED BY <1>1, <2>1
  <1>4. CASE k \in DOMAIN sent
    BY <1>1, <1>3, <1>4 DEF P!KnownSpaced
  <1>5. CASE k = n
    <2>1. sent[j].at + ResendInterval <= request[c].at /\ sent[j].at \in Int /\ request[c].at \in Int
      BY <1>1, <1>2, <1>3, <1>5, SentFields, HoldsRequest
    <2> QED BY <1>1, <1>3, <1>5, <2>1, PhoneConstants
  <1> QED BY <1>1, <1>4, <1>5

LEMMA SlotsOfSend ==
  ASSUME InTime, NEW c \in Requests, P!SendSms(c)
  PROVE  SlotsInv'
  <1> USE DEF InTime, SlotsInv
  <1> DEFINE u == request[c].user
             a == request[c].at
             n == Len(sent')
  <1>1. Holds(c) /\ ~Waits(c) /\ a \in Nat /\ u \in Users
    BY SlotFields DEF P!SendSms, P!Deliver, P!At, Holds, Waits
  <1>2. /\ UNCHANGED <<change, guesses, saves, now, stalled>> /\ OthersStay(c)
        /\ request'[c].pc = "store"
    BY SendEffect
  <1>3. /\ DOMAIN sent' = DOMAIN sent \cup {n}
        /\ \A k \in DOMAIN sent : k # n /\ sent'[k] = sent[k]
        /\ sent'[n].to = u /\ sent'[n].at = a
    BY DeliverEffect DEF P!SendSms
  <1>4. /\ \A d \in Requests \ {c} :
              request'[d] = request[d] /\ Waits(d)' = Waits(d) /\ Holds(d)' = Holds(d)
        /\ ~Waits(c)' /\ ~Holds(c)'
    BY Zenon, <1>2 DEF OthersStay, Waits, Holds
  <1>5. /\ change[u].lastSentAt = a
        /\ \A k \in Known : sent[k].to = u => sent[k].at + ResendInterval <= a
        /\ \A d \in Requests \ {c} : Holds(d) => request[d].user # u
    BY <1>1 DEF SlotHeld
  <1> HIDE DEF n
  <1>6. Known' \subseteq Known \cup {n} /\ \A k \in Known : k # n /\ sent'[k] = sent[k]
    BY <1>3 DEF Known
  <1>7. Timely'
    BY <1>2, <1>4 DEF Timely
  <1>8. LastKnown'
    BY <1>1, <1>2, <1>3, <1>5, <1>6 DEF LastKnown
  <1>9. SlotHeld'
    BY <1>2, <1>3, <1>4, <1>5, <1>6 DEF SlotHeld
  <1>10. ReadLast'
    <2> SUFFICES ASSUME NEW e \in Requests, Waits(e)', NEW t \in Instants(e)'
                 PROVE  Minds(e, t)'
      BY DEF ReadLast
    <2>1. e # c /\ Waits(e) /\ request'[e] = request[e]
      BY <1>4
    <2>2. t \in Instants(e)
      <3>1. CASE \E k \in Known' : sent'[k].to = request[e].user /\ t = sent'[k].at
        <4>1. PICK k \in Known' : sent'[k].to = request[e].user /\ t = sent'[k].at
          BY <3>1
        <4>2. CASE k \in Known
          BY <1>6, <4>1, <4>2 DEF Instants
        <4>3. CASE k = n
          BY <1>1, <1>3, <4>1, <4>3 DEF Instants
        <4> QED BY <1>6, <4>2, <4>3
      <3>2. CASE \E d \in Requests : Holds(d)' /\ request'[d].user = request[e].user
                                     /\ t = request'[d].at
        BY <1>4, <3>2 DEF Instants
      <3> QED BY <2>1, <3>1, <3>2 DEF Instants
    <2> QED BY <2>1, <2>2 DEF ReadLast, Minds
  <1>11. P!KnownSpaced'
    BY SpacedByDelivery DEF P!SendSms
  <1> QED BY <1>7, <1>8, <1>9, <1>10, <1>11

(* A message whose answer is lost is not known, and its slot still held.    *)
LEMMA SlotsOfLost ==
  ASSUME InTime, NEW c \in Requests, P!AnswerLost(c)
  PROVE  SlotsInv'
  <1> USE DEF InTime, SlotsInv
  <1>1. /\ UNCHANGED <<change, guesses, saves, now, stalled>> /\ OthersStay(c)
        /\ request[c].pc = "sms" /\ request'[c].pc = "release"
        /\ request'[c].user = request[c].user /\ request'[c].at = request[c].at
        /\ request'[c].previous = request[c].previous
    BY LostEffect
  <1>2. \A d \in Requests :
           /\ Waits(d)' = Waits(d) /\ Holds(d)' = Holds(d)
           /\ request'[d].user = request[d].user /\ request'[d].at = request[d].at
           /\ request'[d].previous = request[d].previous
           /\ Waits(d) => request'[d] = request[d]
    <2>1. ASSUME NEW d \in Requests
          PROVE  /\ Waits(d)' = Waits(d) /\ Holds(d)' = Holds(d)
                 /\ request'[d].user = request[d].user /\ request'[d].at = request[d].at
                 /\ request'[d].previous = request[d].previous
                 /\ Waits(d) => request'[d] = request[d]
      <3>1. CASE d = c
        BY <1>1, <3>1 DEF Waits, Holds
      <3>2. CASE d # c
        BY <1>1, <3>2 DEF OthersStay, Waits, Holds
      <3> QED BY <3>1, <3>2
    <2> QED BY <2>1
  <1>3. Known' = Known /\ \A k \in Known : sent'[k] = sent[k]
    <2> DEFINE n == Len(sent')
    <2>1. /\ DOMAIN sent' = DOMAIN sent \cup {n} /\ ~sent'[n].known
          /\ \A k \in DOMAIN sent : k # n /\ sent'[k] = sent[k]
      BY DeliverEffect DEF P!AnswerLost
    <2> HIDE DEF n
    <2> QED BY <2>1 DEF Known
  <1>4. Timely'
    BY <1>1, <1>2 DEF Timely
  <1>5. LastKnown'
    BY <1>1, <1>3 DEF LastKnown
  <1>6. SlotHeld'
    BY <1>1, <1>2, <1>3 DEF SlotHeld
  <1>7. ReadLast'
    <2> SUFFICES ASSUME NEW e \in Requests, Waits(e)', NEW t \in Instants(e)'
                 PROVE  Minds(e, t)'
      BY DEF ReadLast
    <2>1. Waits(e) /\ request'[e] = request[e]
      BY <1>2
    <2>2. t \in Instants(e)
      BY <1>2, <1>3 DEF Instants
    <2> QED BY <2>1, <2>2 DEF ReadLast, Minds
  <1>8. P!KnownSpaced'
    BY SpacedByDelivery DEF P!AnswerLost
  <1> QED BY <1>4, <1>5, <1>6, <1>7, <1>8

(* What is given back was read after every message.                         *)
LEMMA SlotsOfRelease ==
  ASSUME InTime, NEW c \in Requests, P!ReleaseSendSlot(c)
  PROVE  SlotsInv'
  <1> USE DEF InTime, SlotsInv
  <1> DEFINE u == request[c].user
  <1>1. /\ UNCHANGED <<sent, guesses, saves, now, stalled>> /\ OthersStay(c)
        /\ request[c].pc = "release" /\ request'[c].pc = "idle"
        /\ change'[u].lastSentAt = request[c].previous
        /\ \A v \in Users \ {u} : change'[v].lastSentAt = change[v].lastSentAt
    BY ReleaseEffect
  <1>2. /\ \A d \in Requests \ {c} :
              request'[d] = request[d] /\ Waits(d)' = Waits(d) /\ Holds(d)' = Holds(d)
        /\ Holds(c) /\ ~Waits(c)' /\ ~Holds(c)'
    BY <1>1 DEF OthersStay, Waits, Holds
  <1>3. /\ \A k \in Known : sent[k].to = u => sent[k].at <= request[c].previous
        /\ \A d \in Requests \ {c} : Holds(d) => request[d].user # u
    BY <1>2 DEF SlotHeld
  <1>4. Timely'
    BY <1>1, <1>2 DEF Timely
  <1>5. LastKnown'
    BY <1>1, <1>3, SentFields DEF LastKnown, Known
  <1>6. SlotHeld'
    <2>1. \A d \in Requests \ {c} : Holds(d) => request[d].user \in Users \ {u}
      BY <1>3, SlotFields
    <2> QED BY <1>1, <1>2, <2>1 DEF SlotHeld, Known
  <1>7. ReadLast'
    <2> SUFFICES ASSUME NEW e \in Requests, Waits(e)', NEW t \in Instants(e)'
                 PROVE  Minds(e, t)'
      BY DEF ReadLast
    <2>1. e # c /\ Waits(e) /\ request'[e] = request[e]
      BY <1>2
    <2>2. t \in Instants(e)
      BY <1>1, <1>2, <2>1 DEF Instants, Known
    <2> QED BY <2>1, <2>2 DEF ReadLast, Minds
  <1>8. P!KnownSpaced'
    BY <1>1 DEF P!KnownSpaced
  <1> QED BY <1>4, <1>5, <1>6, <1>7, <1>8

(* The clock passes no instant that is due.                                 *)
LEMMA SlotsOfTick ==
  ASSUME InTime, P!Tick, ~stalled'
  PROVE  SlotsInv'
  <1> USE DEF InTime, SlotsInv
  <1>1. /\ UNCHANGED <<change, request, sent>> /\ now' = now + 1
        /\ \A c \in Requests : Waits(c) \/ Holds(c) => ~(now >= request[c].at + Delay)
    BY TickEffect
  <1>2. Timely'
    <2>1. \A c \in Requests : /\ Waits(c)' = Waits(c) /\ Holds(c)' = Holds(c)
                              /\ request'[c] = request[c]
      BY <1>1 DEF Waits, Holds
    <2> QED BY <1>1, <2>1, SlotFields, PhoneConstants DEF Timely
  <1>3. LastKnown' /\ SlotHeld'
    BY <1>1 DEF LastKnown, Known, SlotHeld, Holds
  <1>4. ReadLast'
    BY <1>1 DEF ReadLast, Instants, Known, Minds, Waits, Holds
  <1>5. P!KnownSpaced'
    BY <1>1 DEF P!KnownSpaced
  <1> QED BY <1>2, <1>3, <1>4, <1>5
-----------------------------------------------------------------------------
(* At the start nothing was sent and no request is under way.               *)
LEMMA PhonesStart == P!Init => PhonesInv
  <1> SUFFICES ASSUME P!Init
               PROVE  PhonesInv
    OBVIOUS
  <1>1. /\ person = [u \in Users |-> [status |-> "absent", phone |-> NoNumber]]
        /\ change = [u \in Users |-> P!NoChange] /\ request = [c \in Requests |-> P!Idle]
        /\ sent = <<>> /\ guesses = [k \in 1..MaxCodes |-> 0]
        /\ saves = [k \in 1..MaxCodes |-> 0] /\ now = 0 /\ stalled = FALSE
    BY DEF P!Init
  <1>2. /\ 0 \in 0..MaxCodes /\ 0 \in 0..MaxVerifyAttempts /\ 0 \in 0..MaxTime
        /\ MaxVerifyAttempts \in Nat /\ MaxCodes \in Nat
    BY PhoneConstants
  <1>3. P!NoChange \in P!Change /\ P!NoChange.otp = 0
    BY <1>2, PhoneConstants DEF P!NoChange, P!Change
  <1>4. Len(sent) = 0 /\ sent \in Seq(P!Sent) /\ DOMAIN sent = {}
    BY <1>1
  <1>5. P!PhonesTypeOK
    <2>1. \A u \in Users : person[u] \in [status: P!Status, phone: Numbers \cup {NoNumber}]
      BY <1>1 DEF P!Status
    <2>2. request \in [Requests -> P!Held \cup {P!Idle}] /\ change \in [Users -> P!Change]
      <3>1. P!Idle \in P!Held \cup {P!Idle}
        OBVIOUS
      <3> QED BY Zenon, <1>1, <1>3, <3>1
    <2>3. /\ guesses \in [1..MaxCodes -> Nat] /\ saves \in [1..MaxCodes -> Nat]
          /\ now \in 0..MaxTime /\ stalled \in BOOLEAN /\ Len(sent) <= MaxCodes
      <3>1. guesses \in [1..MaxCodes -> Nat] /\ saves \in [1..MaxCodes -> Nat]
        BY <1>1
      <3>2. now \in 0..MaxTime /\ Len(sent) <= MaxCodes
        BY <1>1, <1>2, <1>4
      <3>3. stalled \in BOOLEAN
        BY <1>1
      <3> QED BY <3>1, <3>2, <3>3
    <2>4. person \in [Users -> [status: P!Status, phone: Numbers \cup {NoNumber}]]
      BY <1>1, <2>1
    <2> QED BY <1>4, <2>2, <2>3, <2>4 DEF P!PhonesTypeOK
  <1>6. /\ \A c \in Requests : request[c].pc = "idle"
        /\ \A u \in Users : change[u].otp = 0
        /\ \A k \in 1..MaxCodes : guesses[k] = 0 /\ saves[k] = 0
    BY <1>1, <1>3 DEF P!Idle
  <1>7. CodesInv
    BY <1>2, <1>4, <1>6 DEF CodesInv, CodesKnown, StoredOnce, Counted, GuessesBounded,
       CodeChangesOnce, P!GuessesBounded, P!CodeChangesOnce
  <1>8. SlotsInv
    BY <1>4, <1>6 DEF SlotsInv, Timely, LastKnown, Known, SlotHeld, ReadLast, Waits, Holds,
       P!KnownSpaced
  <1> QED BY <1>5, <1>7, <1>8 DEF PhonesInv

(* The operations that touch neither a code nor a slot.                     *)
LEMMA PhonesAlone ==
  ASSUME PhonesInv, P!PhonesTypeOK', UNCHANGED <<change, sent, guesses, saves, now, stalled>>,
         \/ UNCHANGED request
         \/ \E c \in Requests : OthersStay(c) /\ request'[c].pc \in {"create", "reject", "clear", "idle"}
  PROVE  PhonesInv'
  <1>1. \A d \in Requests :
           \/ request'[d] = request[d]
           \/ request'[d].pc \in {"create", "reject", "clear", "idle"}
    BY DEF OthersStay
  <1>2. CodesInv'
    BY <1>1, CodesKept
  <1>3. \A d \in Requests : Waits(d)' => request'[d] = request[d]
    BY <1>1 DEF Waits
  <1>4. \A d \in Requests : Holds(d)' => Holds(d) /\ request'[d] = request[d]
    BY <1>1 DEF Holds
  <1>5. stalled' \/ SlotsInv'
    BY <1>3, <1>4, SlotsKept DEF SameSlots, PhonesInv, InTime
  <1> QED BY <1>2, <1>5 DEF PhonesInv

(* One case per operation.                                                  *)
LEMMA PhonesNext == PhonesInv /\ [P!Next]_(P!pvars) => PhonesInv'
  <1> SUFFICES ASSUME PhonesInv, [P!Next]_(P!pvars)
               PROVE  PhonesInv'
    OBVIOUS
  <1> USE DEF PhonesInv, InTime
  <1>1. ASSUME NEW c \in Requests, NEW u \in Users, NEW p \in Numbers,
               \/ P!RegisterResident(c, u, p) \/ P!RegisterShipper(c, u, p)
               \/ P!CreateBuildingAdmin(c, u, p) \/ P!CreateResidentByAdmin(c, u, p)
               \/ P!RefusedAttempt(c, u, p)
        PROVE  PhonesInv'
    BY <1>1, RegisterEffect, PhonesAlone
  <1>2. ASSUME NEW c \in Requests, NEW u \in Users, NEW p \in Numbers, P!RequestOtp(c, u, p)
        PROVE  PhonesInv'
    <2>1. /\ P!PhonesTypeOK' /\ UNCHANGED <<change, sent, guesses, saves, now, stalled>>
          /\ OthersStay(c) /\ request'[c].pc = "window"
      BY <1>2, RequestEffect
    <2>2. CodesInv'
      BY <2>1, CodesKept DEF OthersStay
    <2> QED BY <1>2, <2>1, <2>2, SlotsOfRequest
  <1>3. ASSUME NEW c \in Requests, NEW u \in Users, NEW p \in Numbers, NEW right \in BOOLEAN,
               P!VerifyOtp(c, u, p, right)
        PROVE  PhonesInv'
    <2>1. /\ P!PhonesTypeOK' /\ UNCHANGED <<sent, saves, now, stalled>> /\ SameSlots
          /\ \A d \in Requests : request'[d] = request[d] \/ request'[d].pc \in {"save", "clear"}
      BY <1>3, VerifyEffect DEF OthersStay
    <2>2. /\ \A d \in Requests : Waits(d)' => request'[d] = request[d]
          /\ \A d \in Requests : Holds(d)' => Holds(d) /\ request'[d] = request[d]
      BY <2>1 DEF Waits, Holds
    <2> QED BY <1>3, <2>1, <2>2, CodesOfVerify, SlotsKept
  <1>4. ASSUME NEW c \in Requests, P!Create(c)
        PROVE  PhonesInv'
    BY <1>4, UserEffect, PhonesAlone
  <1>5. ASSUME NEW c \in Requests, P!OpenWindow(c)
        PROVE  PhonesInv'
    <2>1. /\ P!PhonesTypeOK' /\ UNCHANGED <<sent, guesses, saves, now, stalled>>
          /\ SameCodes /\ OthersStay(c) /\ request'[c].pc = "slot"
      BY <1>5, OpenEffect
    <2>2. CodesInv'
      BY <2>1, CodesKept DEF OthersStay, SameCodes
    <2> QED BY <1>5, <2>1, <2>2, SlotsOfOpen
  <1>6. ASSUME NEW c \in Requests, P!ClaimSendSlot(c)
        PROVE  PhonesInv'
    <2>1. /\ P!PhonesTypeOK' /\ UNCHANGED <<sent, guesses, saves, now, stalled>>
          /\ SameCodes /\ OthersStay(c) /\ request'[c].pc \in {"sms", "idle"}
      BY <1>6, ClaimEffect
    <2>2. CodesInv'
      BY <2>1, CodesKept DEF OthersStay, SameCodes
    <2> QED BY <1>6, <2>1, <2>2, SlotsOfClaim
  <1>7. ASSUME NEW c \in Requests, P!SendSms(c)
        PROVE  PhonesInv'
    BY <1>7, SendEffect, CodesOfSend, SlotsOfSend
  <1>8. ASSUME NEW c \in Requests, P!SmsFails(c) \/ P!RejectVerify(c)
        PROVE  PhonesInv'
    <2>1. /\ P!PhonesTypeOK' /\ UNCHANGED <<change, sent, guesses, saves, now, stalled>> /\ OthersStay(c)
          /\ \/ /\ request[c].pc = "sms" /\ request'[c].pc = "release"
                /\ request'[c].user = request[c].user /\ request'[c].at = request[c].at
                /\ request'[c].previous = request[c].previous
             \/ request[c].pc = "reject" /\ request'[c].pc \in {"clear", "idle"}
      BY <1>8, FailEffect
    <2>2. CodesInv'
      BY <2>1, CodesKept DEF OthersStay
    <2>3. /\ \A d \in Requests : Waits(d)' => request'[d] = request[d]
          /\ \A d \in Requests : Holds(d)' =>
                /\ Holds(d) /\ request'[d].user = request[d].user
                /\ request'[d].at = request[d].at /\ request'[d].previous = request[d].previous
      BY <2>1 DEF OthersStay, Waits, Holds
    <2>4. stalled' \/ SlotsInv'
      BY <2>1, <2>3, SlotsKept DEF SameSlots
    <2> QED BY <2>1, <2>2, <2>4
  <1>9. ASSUME NEW c \in Requests, P!ReleaseSendSlot(c)
        PROVE  PhonesInv'
    <2>1. /\ P!PhonesTypeOK' /\ UNCHANGED <<sent, guesses, saves, now, stalled>>
          /\ SameCodes /\ OthersStay(c) /\ request'[c].pc = "idle"
      BY <1>9, ReleaseEffect
    <2>2. CodesInv'
      BY <2>1, CodesKept DEF OthersStay, SameCodes
    <2> QED BY <1>9, <2>1, <2>2, SlotsOfRelease
  <1>10. ASSUME NEW c \in Requests, P!StoreOtp(c) \/ P!SavePhone(c)
         PROVE  PhonesInv'
    <2>1. /\ P!PhonesTypeOK' /\ UNCHANGED <<sent, now, stalled>> /\ SameSlots
          /\ OthersStay(c) /\ request'[c].pc = "idle"
      BY <1>10, StoreEffect, SaveEffect
    <2>2. /\ \A d \in Requests : Waits(d)' => request'[d] = request[d]
          /\ \A d \in Requests : Holds(d)' => Holds(d) /\ request'[d] = request[d]
      BY <2>1 DEF OthersStay, Waits, Holds
    <2>3. stalled' \/ SlotsInv'
      BY <2>1, <2>2, SlotsKept
    <2> QED BY <1>10, <2>1, <2>3, CodesOfStore, CodesOfSave
  <1>11. ASSUME NEW c \in Requests, P!ClearPendingOtp(c)
         PROVE  PhonesInv'
    <2>1. /\ P!PhonesTypeOK' /\ UNCHANGED <<sent, guesses, saves, now, stalled>> /\ SameSlots
          /\ OthersStay(c) /\ request'[c].pc = "idle"
          /\ \A v \in Users : change'[v].otp = 0 \/ change'[v] = change[v]
      BY <1>11, ClearEffect
    <2>2. /\ \A d \in Requests : Waits(d)' => request'[d] = request[d]
          /\ \A d \in Requests : Holds(d)' => Holds(d) /\ request'[d] = request[d]
      BY <2>1 DEF OthersStay, Waits, Holds
    <2>3. stalled' \/ SlotsInv'
      BY <2>1, <2>2, SlotsKept
    <2>4. CodesInv'
      BY <2>1, CodesKept DEF OthersStay
    <2> QED BY <2>1, <2>3, <2>4
  <1>12. ASSUME NEW u \in Users, NEW s \in P!Status, P!SetStatus(u, s)
         PROVE  PhonesInv'
    BY <1>12, UserEffect, PhonesAlone
  <1>13. CASE P!Tick
    BY <1>13, TickEffect, CodesKept, SlotsOfTick
  <1>14. ASSUME NEW c \in Requests, P!AnswerLost(c)
         PROVE  PhonesInv'
    BY <1>14, LostEffect, CodesOfLost, SlotsOfLost
  <1>15. CASE UNCHANGED P!pvars
    <2>1. P!PhonesTypeOK'
      BY <1>15 DEF P!pvars, P!PhonesTypeOK
    <2> QED BY <1>15, <2>1, PhonesAlone DEF P!pvars
  <1> QED
    BY <1>1, <1>2, <1>3, <1>4, <1>5, <1>6, <1>7, <1>8, <1>9, <1>10, <1>11, <1>12, <1>13, <1>14, <1>15
    DEF P!Next

(* The pending codes and the slots, for every number of users, requests,    *)
(* codes and every clock.                                                   *)
THEOREM PhonesInvariant == AccessSpec => []PhonesInv
  <1>1. P!Spec => []PhonesInv
    BY PhonesStart, PhonesNext, PTL DEF P!Spec
  <1> QED BY <1>1, PartsOfAccess, PTL

(* No code of a change of number is compared more often than the limit      *)
(* (user-phone-change.service.ts, verifyOtp), over all devices and resends.  *)
THEOREM CodesAreBounded == AccessSpec => []GuessesBounded
  <1>1. PhonesInv => GuessesBounded
    BY DEF PhonesInv, CodesInv
  <1> QED BY <1>1, PhonesInvariant, PTL

(* A code changes a number once, also when two devices enter it at the same *)
(* moment: the write asks for the code it was allowed by.                   *)
THEOREM EachCodeChangesOnce == AccessSpec => []CodeChangesOnce
  <1>1. PhonesInv => CodeChangesOnce
    BY DEF PhonesInv, CodesInv
  <1> QED BY <1>1, PhonesInvariant, PTL

(* As long as no request stalls, a message to a user is a resend interval    *)
(* later than every message before it that the server knows of, although a  *)
(* failed send gives its slot back: no other request can have taken the     *)
(* slot, for the interval is longer than two delays.                        *)
THEOREM MessagesAreSpaced == AccessSpec => []SendsSpaced
  <1>1. PhonesInv => SendsSpaced
    BY DEF PhonesInv, SlotsInv, SendsSpaced, P!SendsSpaced
  <1> QED BY <1>1, PhonesInvariant, PTL

(* The types of the four parts.                                             *)
THEOREM TypesOfAccess == AccessSpec => []AccessTypes
  <1>1. AccountInv /\ PhonesInv /\ SessionInv /\ PickupInv => AccessTypes
    BY DEF AccountInv, PhonesInv, SessionInv, PickupInv, AccessTypes
  <1>2. AccessSpec => []PickupInv
    BY PartsOfAccess, PickupInvariant, PTL
  <1> QED BY <1>1, <1>2, AccountInvariant, PhonesInvariant, SessionInvariant, PTL
=============================================================================
