----------------------------- MODULE PickupCodes -----------------------------
(***************************************************************************)
(* Who may open a box at one station: the PIN and the QR token of a         *)
(* package, the face of its resident, and the limiters that lock a resident *)
(* (or the camera of the station) out after too many refusals.              *)
(*                                                                          *)
(* The limiters are in memory and are read before the lookup and written    *)
(* after it, so requests of one key overlap.  What becomes of the box is    *)
(* DepositPickup's subject; fees, Payments'.                                *)
(***************************************************************************)
EXTENDS Integers, FiniteSets

CONSTANTS
    Packages, Pins, NoPin,
    Residents,      \* whose account or face a pickup is tried with
    Owner,          \* the resident of each package
    Camera,         \* the key of facePickupLimiter: the station
    Kiosk,          \* no key: PINs entered at the station are not counted
    Requests,       \* requests in flight
    MaxFailures,    \* APP_PICKUP_MAX_FAILURES, FACE_PICKUP_MAX_FAILURES
    Window,         \* APP_PICKUP_WINDOW_MS, FACE_PICKUP_WINDOW_MS
    Lock,           \* APP_PICKUP_LOCK_MS, FACE_PICKUP_LOCK_MS
    ReissueCooldown,\* OTP_REISSUE_COOLDOWN_MS
    Horizon         \* bound: the clock

ASSUME PickupAssumption ==
    /\ NoPin \notin Pins /\ Owner \in [Packages -> Residents]
    /\ Camera \notin Residents /\ Kiosk \notin Residents \cup {Camera}
    /\ MaxFailures \in Nat \ {0} /\ Window \in Nat /\ ReissueCooldown \in Nat /\ Horizon \in Nat
    /\ Lock \in Nat /\ Lock <= Window

VARIABLES
    pkg,        \* status, PIN and last reissue of each package
    due,        \* the packages that owe a fee
    face,       \* the residents whose faceAuth is enabled
    attempts,   \* the states of the limiters
    try,        \* each request: its place and what it holds
    wall        \* the clock

kvars == <<pkg, due, face, attempts, try, wall>>
----------------------------------------------------------------------------
Keys == Residents \cup {Camera}

(* Who calls pickupWithOtp and pickupWithQr, as PickupAuthGuard tells them  *)
(* apart: the kiosk by its API key, a resident by the token of the app.     *)
PickupCallers == Residents \cup {Kiosk}

Status == {"none", "PENDING_DEPOSIT", "WAITING_FOR_PICKUP", "PICKED_UP"}

Package == [status: Status, pin: Pins \cup {NoPin}, reissuedAt: Int]

Attempts == [failures: Nat, windowStartedAt: Int, lockedUntil: Int]

(* No record: neither a window nor a lock is running, which is why          *)
(* pruneExpired may forget a state that has run out.                        *)
NoAttempts == [failures |-> 0, windowStartedAt |-> 0 - Window, lockedUntil |-> 0]

Place == {"create", "reissue", "pin", "qr", "match", "fee", "claim", "unlocked", "enroll"}

(* code: a PIN, tried or chosen; pack: the package found or meant; at: when *)
(* a PIN was reissued.                                                      *)
Held == [pc: Place, key: Keys \cup {Kiosk}, pack: Packages, code: Pins \cup {NoPin},
         at: Nat]

Idle == [pc |-> "idle"]

PickupTypeOK ==
    /\ pkg \in [Packages -> Package]
    /\ due \subseteq Packages /\ face \subseteq Residents
    /\ attempts \in [Keys -> Attempts]
    /\ try \in [Requests -> Held \cup {Idle}]
    /\ wall \in 0..Horizon

Init ==
    /\ pkg = [p \in Packages |-> [status |-> "none", pin |-> NoPin,
                                  reissuedAt |-> 0 - ReissueCooldown]]
    /\ due = {}
    /\ face = {}
    /\ attempts = [k \in Keys |-> NoAttempts]
    /\ try = [r \in Requests |-> Idle]
    /\ wall = 0

(* STORED_STATUSES and PICKUPABLE_STATUSES; OVERDUE is told by the fee.     *)
Stored == {p \in Packages : pkg[p].status \in {"PENDING_DEPOSIT", "WAITING_FOR_PICKUP"}}
Pickupable == {p \in Packages : pkg[p].status = "WAITING_FOR_PICKUP"}

At(r, pc) == try[r].pc = pc

Begin(r, pc, key, p, code) ==
    /\ try[r] = Idle
    /\ try' = [try EXCEPT ![r] = [pc |-> pc, key |-> key, pack |-> p, code |-> code,
                                  at |-> IF pc = "reissue" THEN wall ELSE 0]]

GoTo(r, pc) == try' = [try EXCEPT ![r].pc = pc]

End(r) == try' = [try EXCEPT ![r] = Idle]

Found(r, p) == try' = [try EXCEPT ![r].pc = "fee", ![r].pack = p]

IsLockedOut(key) == key \in Keys /\ attempts[key].lockedUntil > wall
----------------------------------------------------------------------------
(* PINs: unused at the station when they are chosen, stored later.          *)

GenerateUniquePinCode(p, pin) == ~\E q \in Stored \ {p} : pkg[q].pin = pin

DropOff(r, p, pin) ==
    /\ pkg[p].status = "none" /\ GenerateUniquePinCode(p, pin)
    /\ Begin(r, "create", Kiosk, p, pin)
    /\ UNCHANGED <<pkg, due, face, attempts, wall>>

CreatePackage(r) ==
    LET p == try[r].pack
    IN  /\ At(r, "create")
        /\ pkg' = IF pkg[p].status # "none" THEN pkg
                  ELSE [pkg EXCEPT ![p].status = "PENDING_DEPOSIT", ![p].pin = try[r].code]
        /\ End(r)
        /\ UNCHANGED <<due, face, attempts, wall>>

ConfirmDeposit(p) ==
    /\ pkg[p].status = "PENDING_DEPOSIT"
    /\ pkg' = [pkg EXCEPT ![p].status = "WAITING_FOR_PICKUP"]
    /\ UNCHANGED <<due, face, attempts, try, wall>>

ResendOtp(r, p, pin) ==
    /\ p \in Pickupable /\ wall - pkg[p].reissuedAt >= ReissueCooldown
    /\ GenerateUniquePinCode(p, pin)
    /\ Begin(r, "reissue", Kiosk, p, pin)
    /\ UNCHANGED <<pkg, due, face, attempts, wall>>

StoreReissuedOtp(r) ==
    LET p == try[r].pack
    IN  /\ At(r, "reissue")
        /\ pkg' = IF p \in Pickupable
                  THEN [pkg EXCEPT ![p].pin = try[r].code, ![p].reissuedAt = try[r].at]
                  ELSE pkg
        /\ End(r)
        /\ UNCHANGED <<due, face, attempts, wall>>
----------------------------------------------------------------------------
(* The limiter *)

(* Mutant: the lock does not start a window of its own.                     *)
RecordFailureInWindow(key) ==
    LET current == IF wall - attempts[key].windowStartedAt < Window THEN attempts[key]
                   ELSE [failures |-> 0, windowStartedAt |-> wall, lockedUntil |-> 0]
        failures == current.failures + 1
    IN  attempts' = [attempts EXCEPT ![key] =
            IF failures < MaxFailures THEN [current EXCEPT !.failures = failures]
            ELSE [current EXCEPT !.failures = 0, !.lockedUntil = wall + Lock]]

RecordFailure(key) ==
    LET current == IF wall - attempts[key].windowStartedAt < Window THEN attempts[key]
                   ELSE [failures |-> 0, windowStartedAt |-> wall, lockedUntil |-> 0]
        failures == current.failures + 1
    IN  attempts' = [attempts EXCEPT ![key] =
            IF failures < MaxFailures THEN [current EXCEPT !.failures = failures]
            ELSE [failures |-> 0, windowStartedAt |-> wall, lockedUntil |-> wall + Lock]]

Reset(key) == attempts' = [attempts EXCEPT ![key] = NoAttempts]

Refuse(r) ==
    /\ IF try[r].key \in Keys THEN RecordFailure(try[r].key) ELSE UNCHANGED attempts
    /\ End(r)

Accept(r, p) ==
    /\ IF try[r].key \in Keys THEN Reset(try[r].key) ELSE UNCHANGED attempts
    /\ Found(r, p)
----------------------------------------------------------------------------
(* Picking up: the limiter is asked, the package looked up in a later step. *)

PickupWithOtp(r, key, pin) ==
    /\ key # Camera /\ ~IsLockedOut(key)
    /\ \E p \in Packages : Begin(r, "pin", key, p, pin)
    /\ UNCHANGED <<pkg, due, face, attempts, wall>>

FindByPin(r) ==
    LET matches == {p \in Pickupable : pkg[p].pin = try[r].code}
    IN  /\ At(r, "pin")
        /\ \/ matches = {} /\ Refuse(r)
           \/ \E p \in matches : Accept(r, p)
        /\ UNCHANGED <<pkg, due, face, wall>>

PickupWithQr(r, key, p) ==
    /\ key # Camera /\ ~IsLockedOut(key)
    /\ Begin(r, "qr", key, p, NoPin)
    /\ UNCHANGED <<pkg, due, face, attempts, wall>>

FindByQrToken(r) ==
    /\ At(r, "qr")
    /\ IF try[r].pack \in Pickupable THEN Accept(r, try[r].pack) ELSE Refuse(r)
    /\ UNCHANGED <<pkg, due, face, wall>>

VerifyFaceWithLockout(r) ==
    /\ ~IsLockedOut(Camera)
    /\ \E p \in Packages : Begin(r, "match", Camera, p, NoPin)
    /\ UNCHANGED <<pkg, due, face, attempts, wall>>

(* No face in the picture, or no package at the station: not a refusal.     *)
NothingToMatch(r) ==
    /\ At(r, "match")
    /\ End(r)
    /\ UNCHANGED <<pkg, due, face, attempts, wall>>

(* A forged face is refused before anything is looked up.                   *)
RejectForgery(r) ==
    /\ At(r, "match")
    /\ Refuse(r)
    /\ UNCHANGED <<pkg, due, face, wall>>

(* similar: the residents whose enrolled face comes near enough; the        *)
(* nearest is one of them.                                                  *)
VerifyAndUnlock(r, similar) ==
    LET matches == {p \in Pickupable : Owner[p] \in face \cap similar}
    IN  /\ At(r, "match") /\ Pickupable # {}
        /\ \/ matches = {} /\ Refuse(r)
           \/ \E p \in matches : Found(r, p) /\ UNCHANGED attempts
        /\ UNCHANGED <<pkg, due, face, wall>>

(* A package that owes a fee is answered with a payment order instead.      *)
BuildPaymentRequiredResult(r) ==
    /\ At(r, "fee") /\ try[r].key # Camera
    /\ IF try[r].pack \in due THEN End(r) ELSE GoTo(r, "claim")
    /\ UNCHANGED <<pkg, due, face, attempts, wall>>

(* So is it at the camera, where the answer counts as a success; an order   *)
(* that cannot be opened counts as nothing.                                 *)
RequirePaymentAtCamera(r) ==
    /\ At(r, "fee") /\ try[r].key = Camera
    /\ \/ try[r].pack \in due /\ End(r) /\ (Reset(Camera) \/ UNCHANGED attempts)
       \/ try[r].pack \notin due /\ GoTo(r, "claim") /\ UNCHANGED attempts
    /\ UNCHANGED <<pkg, due, face, wall>>

ClaimPackageForPickup(r) ==
    LET p == try[r].pack
    IN  /\ At(r, "claim")
        /\ IF p \in Pickupable
           THEN pkg' = [pkg EXCEPT ![p].status = "PICKED_UP"] /\ GoTo(r, "unlocked")
           ELSE UNCHANGED pkg /\ End(r)
        /\ UNCHANGED <<due, face, attempts, wall>>

CompletePickup(r) ==
    /\ At(r, "unlocked") /\ try[r].key # Camera
    /\ End(r)
    /\ UNCHANGED <<pkg, due, face, attempts, wall>>

(* The box is released and the log written, each of which may fail; only    *)
(* then the camera is cleared.                                              *)
CompleteFacePickup(r) ==
    /\ At(r, "unlocked") /\ try[r].key = Camera
    /\ Reset(Camera) \/ UNCHANGED attempts
    /\ End(r)
    /\ UNCHANGED <<pkg, due, face, wall>>

ChangeFee(p) ==
    /\ p \in Pickupable
    /\ due' = IF p \in due THEN due \ {p} ELSE due \cup {p}
    /\ UNCHANGED <<pkg, face, attempts, try, wall>>
----------------------------------------------------------------------------
(* Faces: the user is read, the picture examined, the user saved.           *)

EnrollFace(r, u) ==
    /\ \E p \in Packages : Begin(r, "enroll", u, p, NoPin)
    /\ UNCHANGED <<pkg, due, face, attempts, wall>>

SaveFace(r) ==
    /\ At(r, "enroll")
    /\ \E accepted \in BOOLEAN : face' = IF accepted THEN face \cup {try[r].key} ELSE face
    /\ End(r)
    /\ UNCHANGED <<pkg, due, attempts, wall>>

RemoveFace(u) ==
    /\ face' = face \ {u}
    /\ UNCHANGED <<pkg, due, attempts, try, wall>>

Tick ==
    /\ wall < Horizon
    /\ wall' = wall + 1
    /\ UNCHANGED <<pkg, due, face, attempts, try>>

Next ==
    \/ \E r \in Requests :
        \/ \E p \in Packages, pin \in Pins : DropOff(r, p, pin) \/ ResendOtp(r, p, pin)
        \/ \E key \in PickupCallers :
            \/ \E pin \in Pins : PickupWithOtp(r, key, pin)
            \/ \E p \in Packages : PickupWithQr(r, key, p)
        \/ \E similar \in SUBSET Residents : VerifyAndUnlock(r, similar)
        \/ \E u \in Residents : EnrollFace(r, u)
        \/ CreatePackage(r) \/ StoreReissuedOtp(r) \/ FindByPin(r) \/ FindByQrToken(r)
        \/ VerifyFaceWithLockout(r) \/ NothingToMatch(r) \/ RejectForgery(r)
        \/ BuildPaymentRequiredResult(r) \/ RequirePaymentAtCamera(r)
        \/ ClaimPackageForPickup(r) \/ CompletePickup(r) \/ CompleteFacePickup(r) \/ SaveFace(r)
    \/ \E p \in Packages : ConfirmDeposit(p) \/ ChangeFee(p)
    \/ \E u \in Residents : RemoveFace(u)
    \/ Tick

Spec == Init /\ [][Next]_kvars
----------------------------------------------------------------------------
(* A lock runs its time or is lifted by a success: no failure that arrives  *)
(* late, in a window that has run out by then, shortens it.                 *)
LockHolds ==
    [][\A k \in Keys : attempts[k].lockedUntil > wall =>
          \/ attempts'[k].lockedUntil >= attempts[k].lockedUntil
          \/ attempts'[k] = NoAttempts]_kvars
=============================================================================
