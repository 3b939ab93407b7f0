------------------------------ MODULE Accounts ------------------------------
(***************************************************************************)
(* An account's credentials: its password, its session, the code of a       *)
(* forgotten password, its second factor and its approval status.           *)
(*                                                                          *)
(* Every operation reads the account, compares hashes and then writes       *)
(* fields by id, without repeating what it read: the operations of two      *)
(* devices and of the administrators interleave between the two.  Hashes,   *)
(* tokens and their signatures are left out: a session is the presence of   *)
(* refreshTokenHash, and a request presents what compares.                  *)
(***************************************************************************)
EXTENDS Integers, FiniteSets

CONSTANTS
    Calls,          \* requests in flight
    Secrets,        \* TOTP secrets; generateSecret never repeats one
    NoSecret,
    Codes,          \* recovery codes
    BatchOf,        \* codes given with a secret when it is enabled (eight)
    MaxEnds         \* bound: ended sessions

AccountAssumption ==
    /\ NoSecret \notin Secrets
    /\ BatchOf \in [Secrets -> SUBSET Codes]
    /\ MaxEnds \in Nat

VARIABLES
    user,       \* the document of the account
    call,       \* each request: its place and what it has read
    confirmed,  \* secrets whose code the user has entered
    fresh,      \* secrets not generated yet
    ends        \* times the session was ended

avars == <<user, call, confirmed, fresh, ends>>
----------------------------------------------------------------------------
Approval == {"PENDING", "ACTIVE", "REJECTED", "SUSPENDED"}

(* The age of the last code: younger than a minute, valid for ten, expired. *)
Age == {"never", "hot", "live", "expired"}

Account ==
    [exists: BOOLEAN, session: BOOLEAN, status: Approval,
     reset: BOOLEAN, age: Age,
     enabled: BOOLEAN, temp: Secrets \cup {NoSecret},
     secret: Secrets \cup {NoSecret}, codes: SUBSET Codes]

Place == {"idle", "second", "consume", "store", "refreshed", "password", "reset", "ask",
          "temp", "enable", "disable", "admin", "delete"}

(* What a request holds: the status it has read or is to write, the secret, *)
(* the codes left, and how many sessions had ended when it read.            *)
Held == [pc: Place, status: Approval, secret: Secrets \cup {NoSecret},
         rest: SUBSET Codes, ends: Nat]

AccountTypeOK ==
    /\ user \in Account
    /\ call \in [Calls -> Held]
    /\ confirmed \subseteq Secrets /\ fresh \subseteq Secrets
    /\ ends \in Nat

AtRest == [pc |-> "idle", status |-> "PENDING", secret |-> NoSecret, rest |-> {}, ends |-> 0]

Init ==
    \E s \in {"PENDING", "ACTIVE"} :
        /\ user = [exists |-> TRUE, session |-> FALSE, status |-> s,
                   reset |-> FALSE, age |-> "never", enabled |-> FALSE, temp |-> NoSecret,
                   secret |-> NoSecret, codes |-> {}]
        /\ call = [c \in Calls |-> AtRest]
        /\ confirmed = {} /\ fresh = Secrets
        /\ ends = 0

At(c, pc) == call[c].pc = pc

Begin(c, pc, status, secret) ==
    /\ At(c, "idle") /\ user.exists
    /\ call' = [call EXCEPT ![c] = [AtRest EXCEPT !.pc = pc, !.status = status, !.secret = secret]]

Finish(c) == call' = [call EXCEPT ![c] = AtRest]

(* findByIdAndUpdate and updateOne do nothing once the account is deleted.  *)
Write(new) == user' = IF user.exists THEN new ELSE user

EndSession == ends < MaxEnds /\ ends' = ends + 1
----------------------------------------------------------------------------
(* Sessions *)

(* assertAccountNotSuspended, of the status a request has read.             *)
NotSuspended(status) == status # "SUSPENDED"

(* A password that compares: with a second factor the request gets only a   *)
(* temporary token.                                                         *)
Login(c) ==
    /\ NotSuspended(user.status)
    /\ IF user.enabled THEN Begin(c, "second", "PENDING", NoSecret)
                       ELSE Begin(c, "store", "PENDING", NoSecret)
    /\ UNCHANGED <<user, confirmed, fresh, ends>>

(* The code of the authenticator is of the secret read here.                *)
AuthenticateTotp(c) ==
    /\ At(c, "second") /\ user.exists /\ user.enabled /\ user.secret # NoSecret
    /\ IF NotSuspended(user.status) THEN call' = [call EXCEPT ![c].pc = "store"]
                                     ELSE Finish(c)
    /\ UNCHANGED <<user, confirmed, fresh, ends>>

AuthenticateRecovery(c, k) ==
    /\ At(c, "second") /\ user.exists /\ user.enabled /\ k \in user.codes
    /\ call' = [call EXCEPT ![c].pc = "consume", ![c].status = user.status,
                            ![c].rest = user.codes \ {k}]
    /\ UNCHANGED <<user, confirmed, fresh, ends>>

(* The list read is written back without the code; only then the status is  *)
(* looked at.                                                               *)
ConsumeRecoveryCode(c) ==
    /\ At(c, "consume")
    /\ Write([user EXCEPT !.codes = call[c].rest])
    /\ IF NotSuspended(call[c].status)
       THEN call' = [call EXCEPT ![c] = [AtRest EXCEPT !.pc = "store"]]
       ELSE Finish(c)
    /\ UNCHANGED <<confirmed, fresh, ends>>

GiveUp(c) ==
    /\ At(c, "second")
    /\ Finish(c)
    /\ UNCHANGED <<user, confirmed, fresh, ends>>

(* Mutant: the token is only checked against its signature.                 *)
RefreshBySignature(c) ==
    /\ NotSuspended(user.status)
    /\ At(c, "idle") /\ user.exists
    /\ call' = [call EXCEPT ![c].pc = "refreshed", ![c].ends = ends]
    /\ UNCHANGED <<user, confirmed, fresh, ends>>

RefreshTokens(c) ==
    /\ user.session /\ NotSuspended(user.status)
    /\ At(c, "idle") /\ user.exists
    /\ call' = [call EXCEPT ![c].pc = "refreshed", ![c].ends = ends]
    /\ UNCHANGED <<user, confirmed, fresh, ends>>

UpdateRefreshTokenHash(c) ==
    /\ At(c, "store") \/ At(c, "refreshed")
    /\ Write([user EXCEPT !.session = TRUE])
    /\ Finish(c)
    /\ UNCHANGED <<confirmed, fresh, ends>>

(* The push token goes with a write of its own: see Notifications.          *)
Logout ==
    /\ user.exists /\ EndSession
    /\ user' = [user EXCEPT !.session = FALSE]
    /\ UNCHANGED <<call, confirmed, fresh>>
----------------------------------------------------------------------------
(* Passwords *)

(* With the current password and another one.                               *)
ChangePassword(c) ==
    /\ Begin(c, "password", "PENDING", NoSecret)
    /\ UNCHANGED <<user, confirmed, fresh, ends>>

WritePassword(c) ==
    /\ At(c, "password") /\ EndSession
    /\ Write([user EXCEPT !.session = FALSE])
    /\ Finish(c)
    /\ UNCHANGED <<confirmed, fresh>>

ForgotPassword(c) ==
    /\ user.age # "hot"
    /\ Begin(c, "ask", "PENDING", NoSecret)
    /\ UNCHANGED <<user, confirmed, fresh, ends>>

SetResetPasswordOtp(c) ==
    /\ At(c, "ask")
    /\ Write([user EXCEPT !.reset = TRUE, !.age = "hot"])
    /\ Finish(c)
    /\ UNCHANGED <<confirmed, fresh, ends>>

ResetOtpAges ==
    /\ user.age \in {"hot", "live"}
    /\ user' = [user EXCEPT !.age = IF @ = "hot" THEN "live" ELSE "expired"]
    /\ UNCHANGED <<call, confirmed, fresh, ends>>

ResetPassword(c) ==
    /\ user.reset /\ user.age \in {"hot", "live"}
    /\ Begin(c, "reset", "PENDING", NoSecret)
    /\ UNCHANGED <<user, confirmed, fresh, ends>>

UpdatePasswordAndClearResetOtp(c) ==
    /\ At(c, "reset") /\ EndSession
    /\ Write([user EXCEPT !.session = FALSE, !.reset = FALSE])
    /\ Finish(c)
    /\ UNCHANGED <<confirmed, fresh>>
----------------------------------------------------------------------------
(* The second factor *)

Generate2faSecret(c, s) ==
    /\ ~user.enabled /\ s \in fresh
    /\ Begin(c, "temp", "PENDING", s)
    /\ fresh' = fresh \ {s}
    /\ UNCHANGED <<user, confirmed, ends>>

SaveTempTwoFactorSecret(c) ==
    /\ At(c, "temp")
    /\ Write([user EXCEPT !.temp = call[c].secret])
    /\ Finish(c)
    /\ UNCHANGED <<confirmed, fresh, ends>>

(* The code entered is of the temporary secret read here.                   *)
TurnOn2fa(c) ==
    /\ user.temp # NoSecret
    /\ Begin(c, "enable", "PENDING", user.temp)
    /\ confirmed' = confirmed \cup {user.temp}
    /\ UNCHANGED <<user, fresh, ends>>

(* Mutant: the temporary secret becomes the secret where it lies.           *)
EnableStoredSecret(c) ==
    /\ At(c, "enable")
    /\ Write([user EXCEPT !.enabled = TRUE, !.secret = user.temp, !.temp = NoSecret,
                          !.codes = BatchOf[call[c].secret]])
    /\ Finish(c)
    /\ UNCHANGED <<confirmed, fresh, ends>>

EnableTwoFactor(c) ==
    /\ At(c, "enable")
    /\ Write([user EXCEPT !.enabled = TRUE, !.secret = call[c].secret, !.temp = NoSecret,
                          !.codes = BatchOf[call[c].secret]])
    /\ Finish(c)
    /\ UNCHANGED <<confirmed, fresh, ends>>

TurnOff2fa(c) ==
    /\ user.enabled
    /\ Begin(c, "disable", "PENDING", NoSecret)
    /\ UNCHANGED <<user, confirmed, fresh, ends>>

DisableTwoFactor(c) ==
    /\ At(c, "disable")
    /\ Write([user EXCEPT !.enabled = FALSE, !.secret = NoSecret, !.temp = NoSecret,
                          !.codes = {}])
    /\ Finish(c)
    /\ UNCHANGED <<confirmed, fresh, ends>>
----------------------------------------------------------------------------
(* Administrators *)

(* Approval and rejection write whatever the status is.                     *)
UpdateApprovalStatus(s) ==
    /\ user.exists /\ s \in {"ACTIVE", "REJECTED"}
    /\ user' = [user EXCEPT !.status = s]
    /\ UNCHANGED <<call, confirmed, fresh, ends>>

UpdateByAdmin(c, s) ==
    /\ s \in {"ACTIVE", "SUSPENDED"} \ {user.status}
    /\ user.status \in {"ACTIVE", "SUSPENDED"}
    /\ Begin(c, "admin", s, NoSecret)
    /\ UNCHANGED <<user, confirmed, fresh, ends>>

WriteByAdmin(c) ==
    /\ At(c, "admin")
    /\ IF call[c].status = "SUSPENDED"
       THEN EndSession /\ Write([user EXCEPT !.status = "SUSPENDED", !.session = FALSE])
       ELSE Write([user EXCEPT !.status = "ACTIVE"]) /\ UNCHANGED ends
    /\ Finish(c)
    /\ UNCHANGED <<confirmed, fresh>>

RemoveScoped(c) ==
    /\ Begin(c, "delete", "PENDING", NoSecret)
    /\ UNCHANGED <<user, confirmed, fresh, ends>>

FindByIdAndDelete(c) ==
    /\ At(c, "delete")
    /\ user' = [user EXCEPT !.exists = FALSE]
    /\ Finish(c)
    /\ UNCHANGED <<confirmed, fresh, ends>>

Next ==
    \/ \E c \in Calls :
        \/ Login(c) \/ AuthenticateTotp(c) \/ ConsumeRecoveryCode(c) \/ GiveUp(c)
        \/ (\E k \in Codes : AuthenticateRecovery(c, k))
        \/ RefreshTokens(c) \/ UpdateRefreshTokenHash(c)
        \/ ChangePassword(c) \/ WritePassword(c)
        \/ ForgotPassword(c) \/ SetResetPasswordOtp(c)
        \/ ResetPassword(c) \/ UpdatePasswordAndClearResetOtp(c)
        \/ (\E s \in Secrets : Generate2faSecret(c, s))
        \/ SaveTempTwoFactorSecret(c) \/ TurnOn2fa(c) \/ EnableTwoFactor(c)
        \/ TurnOff2fa(c) \/ DisableTwoFactor(c)
        \/ (\E s \in Approval : UpdateByAdmin(c, s))
        \/ WriteByAdmin(c) \/ RemoveScoped(c) \/ FindByIdAndDelete(c)
    \/ \E s \in Approval : UpdateApprovalStatus(s)
    \/ Logout \/ ResetOtpAges

Spec == Init /\ [][Next]_avars
----------------------------------------------------------------------------
(* Correctness *)

(* Two-factor authentication is on exactly when there is a secret, and the  *)
(* user has shown a code of that very secret, also when another device      *)
(* generated a new one meanwhile: nobody is locked out by a secret their    *)
(* authenticator does not hold.                                             *)
ActiveSecretWasConfirmed ==
    /\ user.enabled <=> user.secret # NoSecret
    /\ user.enabled => user.secret \in confirmed

(* A session that was ended is revived by a refresh only if that refresh    *)
(* had read the account before the session was ended.                       *)
RevivedOnlyByEarlierRefresh ==
    [][\A c \in Calls :
          ~user.session /\ user'.session /\ At(c, "refreshed") /\ call'[c].pc = "idle"
          => call[c].ends < ends]_avars
=============================================================================
