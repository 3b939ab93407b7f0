------------------------------- MODULE Access -------------------------------
(* Who gets in: an account's credentials, the phone numbers, the shipper's  *)
(* session and the pickup codes of a station.  The four share no state the  *)
(* properties tell apart, so a behaviour explores each on its own: "part"   *)
(* names the one of Parts that moves while the others stay in their initial *)
(* state.                                                                   *)
EXTENDS PickupCodes

CONSTANTS
    Parts,  \* of "account", "phones", "shipper" and "pickup", those explored
    Secrets, NoSecret, Codes, BatchOf, MaxEnds,
    Users, Numbers, NoNumber, ResendInterval, SendWindow, MaxSends, OtpTtl, Delay,
    MaxVerifyAttempts, MaxCodes, MaxTime,
    ShipperInterval, ShipperWindow, ShipperSends, ShipperOtpTtl, TokenTtl, ShipperTime

VARIABLES
    part,
    user, call, confirmed, fresh, ends,
    person, change, request, sent, guesses, saves, now, stalled,
    session, ask, codes, tries, clock

A == INSTANCE Accounts WITH Calls <- Requests
P == INSTANCE Phones WITH Calls <- Requests, user <- person, call <- request
S == INSTANCE ShipperSessions WITH Calls <- Requests,
        ResendInterval <- ShipperInterval, SendWindow <- ShipperWindow, MaxSends <- ShipperSends,
        OtpTtl <- ShipperOtpTtl, MaxTime <- ShipperTime

ASSUME AccessAssumption == A!AccountAssumption /\ P!PhoneAssumption /\ S!SessionAssumption

avars == <<user, call, confirmed, fresh, ends>>
pvars == <<person, change, request, sent, guesses, saves, now, stalled>>
svars == <<session, ask, codes, tries, clock>>

allvars == <<part,
          user, call, confirmed, fresh, ends,
          person, change, request, sent, guesses, saves, now, stalled,
          session, ask, codes, tries, clock,
          kvars>>

AccessInit ==
    /\ part \in Parts
    /\ A!Init /\ P!Init /\ S!Init /\ Init
    /\ part # "account" => user.status = "ACTIVE"

AccountMoves == part = "account" /\ A!Next /\ UNCHANGED <<part, pvars, svars, kvars>>
PhonesMove == part = "phones" /\ P!Next /\ UNCHANGED <<part, avars, svars, kvars>>
ShipperMoves == part = "shipper" /\ S!Next /\ UNCHANGED <<part, avars, pvars, kvars>>
PickupMoves == part = "pickup" /\ Next /\ UNCHANGED <<part, avars, pvars, svars>>

AccessNext == AccountMoves \/ PhonesMove \/ ShipperMoves \/ PickupMoves

AccessSpec == AccessInit /\ [][AccessNext]_allvars

(* The type invariants of the four parts.                                   *)
AccessTypes == A!AccountTypeOK /\ P!PhonesTypeOK /\ S!SessionTypeOK /\ PickupTypeOK

(* Accounts: the active second factor was confirmed.                        *)
ActiveSecretWasConfirmed == A!ActiveSecretWasConfirmed

(* Accounts: only an earlier refresh revives an ended session.              *)
RevivedOnlyByEarlierRefresh == A!RevivedOnlyByEarlierRefresh

(* Phones: no code is compared more often than the limit.                   *)
GuessesBounded == P!GuessesBounded

(* Phones: a code changes a number at most once.                            *)
CodeChangesOnce == P!CodeChangesOnce

(* Phones: what follows a message the server knows of is a resend interval  *)
(* later, as long as no request stalls.                                     *)
SendsSpaced == P!SendsSpaced

(* Shipper: requests in flight are all that can exceed the tries of a code. *)
TriesBounded == S!TriesBounded
=============================================================================
