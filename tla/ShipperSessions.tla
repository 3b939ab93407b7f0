--------------------------- MODULE ShipperSessions ---------------------------
(***************************************************************************)
(* The trusted session of one shipper's phone number: a code sent by SMS,   *)
(* or an ID token of Firebase, verifies the number, and a session token is  *)
(* issued that every drop-off prolongs.                                     *)
(*                                                                          *)
(* Unlike the change of a resident's number (Phones), every handler here    *)
(* reads the session first and writes it in a later step, so requests of    *)
(* one number act on what they read.                                        *)
(***************************************************************************)
EXTENDS Integers, FiniteSets

CONSTANTS
    Calls,              \* requests in flight
    ResendInterval,     \* OTP_RESEND_INTERVAL_MS
    SendWindow,         \* OTP_SEND_WINDOW_MS
    MaxSends,           \* OTP_MAX_SENDS_PER_HOUR
    OtpTtl,             \* OTP_TTL_MS
    MaxFailures,        \* the five wrong codes
    TokenTtl,           \* the sixty days
    MaxCodes,           \* bound: codes sent
    MaxTime             \* bound: the clock

SessionAssumption ==
    /\ IsFiniteSet(Calls) /\ Calls # {}
    /\ \A n \in {ResendInterval, SendWindow, MaxSends, OtpTtl, TokenTtl, MaxTime} : n \in Nat
    /\ MaxFailures \in Nat \ {0} /\ MaxCodes \in Nat

VARIABLES
    session,    \* the document of the number, or NoSession
    ask,        \* each request: its place and what it has read of the session
    codes,      \* codes sent so far
    tries,      \* codes compared since failedAttempts was last 0
    clock

svars == <<session, ask, codes, tries, clock>>
----------------------------------------------------------------------------
Never == 0 - ResendInterval - SendWindow    \* an absent date

Session == [exists: BOOLEAN, otp: 0..MaxCodes, otpExpiresAt: Int, failedAttempts: Nat,
            lastResendAt: Int, sendCount: Nat, sendWindowStartedAt: Int,
            isVerified: BOOLEAN, sessionExpiresAt: Int]

NoSession == [exists |-> FALSE, otp |-> 0, otpExpiresAt |-> Never, failedAttempts |-> 0,
              lastResendAt |-> Never, sendCount |-> 0, sendWindowStartedAt |-> Never,
              isVerified |-> FALSE, sessionExpiresAt |-> Never]

Place == {"sms", "store", "unset", "count", "save", "firebase", "renew"}

(* What a request keeps of the session that findOne returned, and when.     *)
Asked == [pc: Place, at: Nat, otp: 0..MaxCodes, failedAttempts: Nat,
          sendCount: Nat, sendWindowStartedAt: Int]

Idle == [pc |-> "idle"]

SessionTypeOK ==
    /\ session \in Session
    /\ ask \in [Calls -> Asked \cup {Idle}]
    /\ codes \in 0..MaxCodes
    /\ tries \in Nat
    /\ clock \in 0..MaxTime

Init ==
    /\ session = NoSession
    /\ ask = [c \in Calls |-> Idle]
    /\ codes = 0
    /\ tries = 0
    /\ clock = 0

At(c, pc) == ask[c].pc = pc

Begin(c, pc) ==
    /\ ask[c] = Idle
    /\ ask' = [ask EXCEPT ![c] = [pc |-> pc, at |-> clock, otp |-> 0,
                   failedAttempts |-> session.failedAttempts, sendCount |-> session.sendCount,
                   sendWindowStartedAt |-> session.sendWindowStartedAt]]

End(c) == ask' = [ask EXCEPT ![c] = Idle]

WindowIsActive(s, at) == at - s.sendWindowStartedAt < SendWindow
----------------------------------------------------------------------------
(* Asking for a code: cooldown and quota are those of the session read.     *)
SendShipperOtp(c) ==
    /\ clock - session.lastResendAt >= ResendInterval
    /\ WindowIsActive(session, clock) => session.sendCount < MaxSends
    /\ Begin(c, "sms")
    /\ UNCHANGED <<session, codes, tries, clock>>

SendSms(c) ==
    /\ At(c, "sms") /\ codes < MaxCodes
    /\ codes' = codes + 1
    /\ ask' = [ask EXCEPT ![c].pc = "store", ![c].otp = codes']
    /\ UNCHANGED <<session, tries, clock>>

(* Mutant: a failed message gives a send back, though none was taken yet.   *)
SmsFailsAndReturns(c) ==
    /\ At(c, "sms")
    /\ session' = [session EXCEPT !.sendCount = @ - 1]
    /\ End(c)
    /\ UNCHANGED <<codes, tries, clock>>

(* A message the gateway took although the send failed carries a code that  *)
(* is stored nowhere.                                                       *)
SmsFails(c) ==
    /\ At(c, "sms")
    /\ End(c)
    /\ UNCHANGED <<session, codes, tries, clock>>

(* The upsert: a session that expired meanwhile is created again.           *)
StoreShipperOtp(c) ==
    LET read == ask[c]
        active == WindowIsActive(read, ask[c].at)
    IN  /\ At(c, "store")
        /\ session' = [session EXCEPT
                !.exists = TRUE, !.otp = ask[c].otp, !.otpExpiresAt = ask[c].at + OtpTtl,
                !.failedAttempts = 0, !.lastResendAt = ask[c].at,
                !.sendCount = (IF active THEN read.sendCount ELSE 0) + 1,
                !.sendWindowStartedAt = IF active THEN read.sendWindowStartedAt ELSE ask[c].at]
        /\ tries' = 0
        /\ End(c)
        /\ UNCHANGED <<codes, clock>>
----------------------------------------------------------------------------
(* Entering a code: what the session read says decides the write to come.   *)
VerifyShipperOtp(c, right) ==
    /\ session.otp # 0
    /\ \/ /\ session.failedAttempts >= MaxFailures
          /\ Begin(c, "unset") /\ UNCHANGED tries
       \/ /\ session.failedAttempts < MaxFailures /\ clock <= session.otpExpiresAt
          /\ Begin(c, IF right THEN "save" ELSE "count")
          /\ tries' = tries + 1
    /\ UNCHANGED <<session, codes, clock>>

UnsetOtp(c) ==
    /\ At(c, "unset")
    /\ session' = [session EXCEPT !.otp = 0, !.otpExpiresAt = Never]
    /\ End(c)
    /\ UNCHANGED <<codes, tries, clock>>

(* Mutant: the count that was read is written back, one higher.             *)
CountFromRead(c) ==
    /\ At(c, "count")
    /\ session' = IF session.exists
                  THEN [session EXCEPT !.failedAttempts = ask[c].failedAttempts + 1]
                  ELSE session
    /\ End(c)
    /\ UNCHANGED <<codes, tries, clock>>

(* $inc, on whatever code is pending by now.                                *)
CountFailure(c) ==
    /\ At(c, "count")
    /\ session' = IF session.exists THEN [session EXCEPT !.failedAttempts = @ + 1] ELSE session
    /\ End(c)
    /\ UNCHANGED <<codes, tries, clock>>

(* save() writes the paths that differ from the document that was read, and *)
(* throws when the document is gone.                                        *)
SaveSession(c) ==
    LET changed == ask[c].failedAttempts # 0
    IN  /\ At(c, "save")
        /\ session' = IF ~session.exists THEN session
                      ELSE [session EXCEPT !.isVerified = TRUE, !.otp = 0, !.otpExpiresAt = Never,
                               !.sessionExpiresAt = ask[c].at + TokenTtl,
                               !.failedAttempts = IF changed THEN 0 ELSE @]
        /\ tries' = IF session.exists /\ changed THEN 0 ELSE tries
        /\ End(c)
        /\ UNCHANGED <<codes, clock>>

(* Firebase answers for the number; the session is read, and written later. *)
VerifyFirebaseToken(c) ==
    /\ Begin(c, "firebase")
    /\ UNCHANGED <<session, codes, tries, clock>>

(* The upsert leaves the pending code: undefined fields are not written.    *)
StoreFirebaseSession(c) ==
    /\ At(c, "firebase")
    /\ session' = [session EXCEPT !.exists = TRUE, !.isVerified = TRUE, !.failedAttempts = 0,
                                  !.sessionExpiresAt = ask[c].at + TokenTtl]
    /\ tries' = 0
    /\ End(c)
    /\ UNCHANGED <<codes, clock>>

(* A drop-off with a valid token prolongs the session.                      *)
FindValidSession(c) ==
    /\ session.isVerified /\ session.sessionExpiresAt > clock
    /\ Begin(c, "renew")
    /\ UNCHANGED <<session, codes, tries, clock>>

RenewSession(c) ==
    /\ At(c, "renew")
    /\ session' = IF session.exists THEN [session EXCEPT !.sessionExpiresAt = ask[c].at + TokenTtl]
                  ELSE session
    /\ End(c)
    /\ UNCHANGED <<codes, tries, clock>>

(* The TTL index removes the document, its counters included.               *)
RemoveExpiredSession ==
    /\ session.isVerified /\ session.sessionExpiresAt <= clock
    /\ session' = NoSession
    /\ tries' = 0
    /\ UNCHANGED <<ask, codes, clock>>

Tick ==
    /\ clock < MaxTime
    /\ clock' = clock + 1
    /\ UNCHANGED <<session, ask, codes, tries>>

Next ==
    \/ \E c \in Calls :
        \/ SendShipperOtp(c) \/ SendSms(c) \/ SmsFails(c) \/ StoreShipperOtp(c)
        \/ \E right \in BOOLEAN : VerifyShipperOtp(c, right)
        \/ UnsetOtp(c) \/ CountFailure(c) \/ SaveSession(c)
        \/ VerifyFirebaseToken(c) \/ StoreFirebaseSession(c)
        \/ FindValidSession(c) \/ RenewSession(c)
    \/ RemoveExpiredSession
    \/ Tick

Spec == Init /\ [][Next]_svars
----------------------------------------------------------------------------
(* Between two resets of the counter codes are compared at most MaxFailures *)
(* times and once more for every other request in flight, although each     *)
(* comparison goes by a count read before the others were recorded.         *)
TriesBounded == tries <= MaxFailures + Cardinality(Calls) - 1
=============================================================================
