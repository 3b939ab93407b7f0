------------------------------- MODULE Phones -------------------------------
(***************************************************************************)
(* Phone numbers: who registers with one, and the change of one's number,   *)
(* proved by a code sent to the new number.                                 *)
(*                                                                          *)
(* A request for a code holds a slot before it sends the message and gives  *)
(* it back when the send fails, also when the gateway took the message and  *)
(* only its answer was lost; a verification takes an attempt before it      *)
(* compares.  Requests of one user overlap on several devices, and          *)
(* administrators suspend users meanwhile.                                  *)
(***************************************************************************)
EXTENDS Integers, Sequences, FiniteSets

CONSTANTS
    Users,
    Numbers,
    NoNumber,
    Calls,              \* requests in flight
    ResendInterval,     \* OTP_RESEND_INTERVAL_MS
    SendWindow,         \* OTP_SEND_WINDOW_MS
    MaxSends,           \* OTP_MAX_SENDS_PER_HOUR
    OtpTtl,             \* OTP_TTL_MS
    Delay,              \* how long a request takes from read to instant to slot's end
    MaxVerifyAttempts,  \* MAX_VERIFY_ATTEMPTS
    MaxCodes,           \* bound: codes sent
    MaxTime             \* bound: the clock

PhoneAssumption ==
    /\ NoNumber \notin Numbers
    /\ \A n \in {ResendInterval, SendWindow, MaxSends, OtpTtl, Delay,
                 MaxVerifyAttempts, MaxCodes, MaxTime} : n \in Nat
    /\ 2 * Delay < ResendInterval

VARIABLES
    user,       \* status and phone of each user
    change,     \* the phoneChange field of each user
    call,       \* each request: its place and what it holds
    sent,       \* the codes delivered: to whom, in which slot, known to the server?
    guesses,    \* comparisons made against each code
    saves,      \* changes made with each code
    now,
    stalled     \* has a request taken longer than Delay? (history)

pvars == <<user, change, call, sent, guesses, saves, now, stalled>>
----------------------------------------------------------------------------
Never == 0 - ResendInterval - SendWindow    \* an absent date, or new Date(0)

Change == [phone: Numbers \cup {NoNumber}, otp: 0..MaxCodes, expiresAt: Nat,
           failedAttempts: 0..MaxVerifyAttempts, sendCount: Int,
           lastSentAt: Int, sendWindowStartedAt: Int]

NoChange == [phone |-> NoNumber, otp |-> 0, expiresAt |-> 0, failedAttempts |-> 0,
             sendCount |-> 0, lastSentAt |-> Never, sendWindowStartedAt |-> Never]

Status == {"absent", "PENDING", "ACTIVE", "SUSPENDED"}

Place == {"create", "window", "slot", "sms", "release", "store", "reject", "clear", "save"}

(* previous: the lastSentAt that was read; at: when, then the slot's instant. *)
Held == [pc: Place, user: Users, phone: Numbers, status: Status,
         previous: Int, at: Int, otp: 0..MaxCodes]

Idle == [pc |-> "idle"]

Sent == [to: Users, at: Int, known: BOOLEAN]

PhonesTypeOK ==
    /\ user \in [Users -> [status: Status, phone: Numbers \cup {NoNumber}]]
    /\ change \in [Users -> Change]
    /\ call \in [Calls -> Held \cup {Idle}]
    /\ sent \in Seq(Sent) /\ Len(sent) <= MaxCodes
    /\ guesses \in [1..MaxCodes -> Nat] /\ saves \in [1..MaxCodes -> Nat]
    /\ now \in 0..MaxTime /\ stalled \in BOOLEAN

Init ==
    /\ user = [u \in Users |-> [status |-> "absent", phone |-> NoNumber]]
    /\ change = [u \in Users |-> NoChange]
    /\ call = [c \in Calls |-> Idle]
    /\ sent = <<>>
    /\ guesses = [k \in 1..MaxCodes |-> 0]
    /\ saves = [k \in 1..MaxCodes |-> 0]
    /\ now = 0
    /\ stalled = FALSE

At(c, pc) == call[c].pc = pc

Request(pc, u, p, status) ==
    [pc |-> pc, user |-> u, phone |-> p, status |-> status,
     previous |-> Never, at |-> Never, otp |-> 0]

Begin(c, r) ==
    /\ call[c] = Idle
    /\ call' = [call EXCEPT ![c] = r]

GoTo(c, pc) == call' = [call EXCEPT ![c].pc = pc]

End(c) == call' = [call EXCEPT ![c] = Idle]

Owned(p) == \E u \in Users : user[u].phone = p
----------------------------------------------------------------------------
(* Registration: the number is looked up, the user created later.           *)

Register(c, u, p, status) ==
    /\ user[u].status = "absent" /\ ~Owned(p)
    /\ Begin(c, Request("create", u, p, status))
    /\ UNCHANGED <<user, change, sent, guesses, saves, now, stalled>>

RegisterResident(c, u, p) == Register(c, u, p, "PENDING")
RegisterShipper(c, u, p) == Register(c, u, p, "ACTIVE")
CreateBuildingAdmin(c, u, p) == Register(c, u, p, "ACTIVE")
CreateResidentByAdmin(c, u, p) == Register(c, u, p, "ACTIVE")

(* The unique indexes refuse a second user of the e-mail or of the number.  *)
Create(c) ==
    LET u == call[c].user
    IN  /\ At(c, "create")
        /\ user' = IF user[u].status # "absent" \/ Owned(call[c].phone) THEN user
                   ELSE [user EXCEPT ![u] = [status |-> call[c].status, phone |-> call[c].phone]]
        /\ End(c)
        /\ UNCHANGED <<change, sent, guesses, saves, now, stalled>>

(* Approval and suspension; a rejected user is as good as a suspended one.  *)
(* The deletion of a user, who never comes back under the same id, is in    *)
(* Accounts.                                                                *)
SetStatus(u, s) ==
    /\ user[u].status # "absent" /\ s # user[u].status
    /\ s \in {"ACTIVE", "SUSPENDED"}
    /\ user' = [user EXCEPT ![u].status = s]
    /\ UNCHANGED <<change, call, sent, guesses, saves, now, stalled>>
----------------------------------------------------------------------------
(* Asking for a code *)

RequestOtp(c, u, p) ==
    /\ user[u].status = "ACTIVE" /\ ~Owned(p)
    /\ Begin(c, [pc |-> "window", user |-> u, phone |-> p, status |-> "ACTIVE",
                 previous |-> change[u].lastSentAt, at |-> now, otp |-> 0])
    /\ UNCHANGED <<user, change, sent, guesses, saves, now, stalled>>

(* The instant is taken here and used for the slot as well.                 *)
OpenWindow(c) ==
    LET u == call[c].user
    IN  /\ At(c, "window")
        /\ change' = IF change[u].sendWindowStartedAt <= now - SendWindow
                     THEN [change EXCEPT ![u].sendWindowStartedAt = now, ![u].sendCount = 0]
                     ELSE change
        /\ call' = [call EXCEPT ![c].pc = "slot", ![c].at = now]
        /\ UNCHANGED <<user, sent, guesses, saves, now, stalled>>

(* Mutant: only the number of messages is limited.                          *)
ClaimByCount(c) ==
    LET u == call[c].user
    IN  /\ At(c, "slot")
        /\ IF user[u].status = "ACTIVE" /\ change[u].sendCount < MaxSends
           THEN /\ change' = [change EXCEPT ![u].lastSentAt = call[c].at, ![u].sendCount = @ + 1]
                /\ GoTo(c, "sms")
           ELSE End(c) /\ UNCHANGED change
        /\ UNCHANGED <<user, sent, guesses, saves, now, stalled>>

ClaimSendSlot(c) ==
    LET u == call[c].user
    IN  /\ At(c, "slot")
        /\ IF /\ user[u].status = "ACTIVE" /\ change[u].sendCount < MaxSends
              /\ change[u].lastSentAt <= call[c].at - ResendInterval
           THEN /\ change' = [change EXCEPT ![u].lastSentAt = call[c].at, ![u].sendCount = @ + 1]
                /\ GoTo(c, "sms")
           ELSE End(c) /\ UNCHANGED change
        /\ UNCHANGED <<user, sent, guesses, saves, now, stalled>>

Deliver(c, known) ==
    /\ At(c, "sms") /\ Len(sent) < MaxCodes
    /\ sent' = Append(sent, [to |-> call[c].user, at |-> call[c].at, known |-> known])

SendSms(c) ==
    /\ Deliver(c, TRUE)
    /\ call' = [call EXCEPT ![c] = [Request("store", @.user, @.phone, "ACTIVE") EXCEPT
                                       !.otp = Len(sent')]]
    /\ UNCHANGED <<user, change, guesses, saves, now, stalled>>

SmsFails(c) ==
    /\ At(c, "sms")
    /\ GoTo(c, "release")
    /\ UNCHANGED <<user, change, sent, guesses, saves, now, stalled>>

(* The gateway took the message and sends it, but the request is given up   *)
(* for its timeout or an error of the network: the same failure to the code. *)
AnswerLost(c) ==
    /\ Deliver(c, FALSE)
    /\ GoTo(c, "release")
    /\ UNCHANGED <<user, change, guesses, saves, now, stalled>>

ReleaseSendSlot(c) ==
    LET u == call[c].user
    IN  /\ At(c, "release")
        /\ change' = [change EXCEPT ![u].sendCount = @ - 1, ![u].lastSentAt = call[c].previous]
        /\ End(c)
        /\ UNCHANGED <<user, sent, guesses, saves, now, stalled>>

StoreOtp(c) ==
    LET u == call[c].user
    IN  /\ At(c, "store")
        /\ change' = [change EXCEPT ![u].phone = call[c].phone, ![u].otp = call[c].otp,
                          ![u].expiresAt = now + OtpTtl, ![u].failedAttempts = 0]
        /\ End(c)
        /\ UNCHANGED <<user, sent, guesses, saves, now, stalled>>
----------------------------------------------------------------------------
(* Entering a code *)

Guess(u) == guesses' = [guesses EXCEPT ![change[u].otp] = @ + 1]

Attemptable(u, p) ==
    /\ user[u].status = "ACTIVE" /\ change[u].phone = p /\ change[u].otp # 0
    /\ change[u].expiresAt > now

(* Mutant: the attempts are not part of the filter.                         *)
ClaimAttemptAlways(c, u, p, right) ==
    /\ Attemptable(u, p) /\ call[c] = Idle
    /\ change' = [change EXCEPT ![u].failedAttempts = @ + 1]
    /\ Guess(u)
    /\ IF right THEN Begin(c, [Request("save", u, p, "ACTIVE") EXCEPT !.otp = change[u].otp])
       ELSE UNCHANGED call
    /\ UNCHANGED <<user, sent, saves, now, stalled>>

(* The attempt is taken and compared; a wrong code that was the last one    *)
(* leaves the pending code to be cleared.                                   *)
VerifyOtp(c, u, p, right) ==
    /\ Attemptable(u, p) /\ call[c] = Idle
    /\ change[u].failedAttempts < MaxVerifyAttempts
    /\ change' = [change EXCEPT ![u].failedAttempts = @ + 1]
    /\ Guess(u)
    /\ LET to(pc) == Begin(c, [Request(pc, u, p, "ACTIVE") EXCEPT !.otp = change[u].otp])
       IN  \/ right /\ to("save")
           \/ ~right /\ change'[u].failedAttempts >= MaxVerifyAttempts /\ to("clear")
           \/ ~right /\ change'[u].failedAttempts < MaxVerifyAttempts /\ UNCHANGED call
    /\ UNCHANGED <<user, sent, saves, now, stalled>>

(* No attempt could be taken of the pending code (expired, exhausted or for  *)
(* another number): the user is read again to say why.                      *)
RefusedAttempt(c, u, p) ==
    /\ user[u].status = "ACTIVE" /\ change[u].otp # 0
    /\ ~(Attemptable(u, p) /\ change[u].failedAttempts < MaxVerifyAttempts)
    /\ Begin(c, Request("reject", u, p, "ACTIVE"))
    /\ UNCHANGED <<user, change, sent, guesses, saves, now, stalled>>

RejectVerify(c) ==
    LET u == call[c].user
    IN  /\ At(c, "reject")
        /\ IF /\ user[u].status = "ACTIVE" /\ change[u].phone = call[c].phone
              /\ change[u].otp # 0 /\ change[u].failedAttempts >= MaxVerifyAttempts
           THEN GoTo(c, "clear") ELSE End(c)
        /\ UNCHANGED <<user, change, sent, guesses, saves, now, stalled>>

(* Whatever code is pending by now.                                         *)
ClearPendingOtp(c) ==
    /\ At(c, "clear")
    /\ change' = [change EXCEPT ![call[c].user].otp = 0, ![call[c].user].expiresAt = 0]
    /\ End(c)
    /\ UNCHANGED <<user, sent, guesses, saves, now, stalled>>

Saved(u, p) ==
    /\ user' = [user EXCEPT ![u].phone = p]
    /\ change' = [change EXCEPT ![u].phone = NoNumber, ![u].otp = 0, ![u].expiresAt = 0,
                                ![u].failedAttempts = 0]

(* Mutant: the write does not ask whether the code is still the stored one. *)
SavePhoneById(c) ==
    LET u == call[c].user
        p == call[c].phone
    IN  /\ At(c, "save")
        /\ IF user[u].status = "ACTIVE" /\ ~\E v \in Users \ {u} : user[v].phone = p
           THEN /\ Saved(u, p)
                /\ saves' = [saves EXCEPT ![call[c].otp] = @ + 1]
           ELSE UNCHANGED <<user, change, saves>>
        /\ End(c)
        /\ UNCHANGED <<sent, guesses, now, stalled>>

SavePhone(c) ==
    LET u == call[c].user
        p == call[c].phone
    IN  /\ At(c, "save")
        /\ IF /\ user[u].status = "ACTIVE" /\ change[u].otp = call[c].otp
              /\ ~\E v \in Users \ {u} : user[v].phone = p
           THEN /\ Saved(u, p)
                /\ saves' = [saves EXCEPT ![call[c].otp] = @ + 1]
           ELSE UNCHANGED <<user, change, saves>>
        /\ End(c)
        /\ UNCHANGED <<sent, guesses, now, stalled>>
----------------------------------------------------------------------------
(* Nothing bounds an update of the database.  That a request takes longer   *)
(* than Delay from its read to its instant, or from its instant until it    *)
(* keeps its slot or has given it back, is remembered.                      *)
Overdue(c) ==
    call[c].pc \in {"window", "slot", "sms", "release"} /\ now >= call[c].at + Delay

Tick ==
    /\ now < MaxTime
    /\ now' = now + 1
    /\ stalled' = (stalled \/ \E c \in Calls : Overdue(c))
    /\ UNCHANGED <<user, change, call, sent, guesses, saves>>

Next ==
    \/ \E c \in Calls :
        \/ \E u \in Users, p \in Numbers :
            \/ RegisterResident(c, u, p) \/ RegisterShipper(c, u, p)
            \/ CreateBuildingAdmin(c, u, p) \/ CreateResidentByAdmin(c, u, p)
            \/ RequestOtp(c, u, p) \/ RefusedAttempt(c, u, p)
            \/ \E right \in BOOLEAN : VerifyOtp(c, u, p, right)
        \/ Create(c) \/ OpenWindow(c) \/ ClaimSendSlot(c) \/ SendSms(c) \/ SmsFails(c)
        \/ AnswerLost(c) \/ ReleaseSendSlot(c) \/ StoreOtp(c) \/ RejectVerify(c)
        \/ ClearPendingOtp(c) \/ SavePhone(c)
    \/ \E u \in Users, s \in Status : SetStatus(u, s)
    \/ Tick

Spec == Init /\ [][Next]_pvars
----------------------------------------------------------------------------
(* Correctness *)

(* No code is compared more often than the limit, over all devices, resends *)
(* and verifications that overlap.                                          *)
GuessesBounded == \A k \in 1..MaxCodes : guesses[k] <= MaxVerifyAttempts

(* A code changes a number at most once, also when two devices enter it at  *)
(* the same moment.                                                         *)
CodeChangesOnce == \A k \in 1..MaxCodes : saves[k] <= 1

(* After a message the server knows of, the next one to the same user, known *)
(* or not, holds a slot ResendInterval later, although a failed send gives   *)
(* its slot back.                                                           *)
KnownSpaced ==
    \A j, k \in DOMAIN sent :
        j < k /\ sent[j].to = sent[k].to /\ sent[j].known =>
            sent[k].at >= sent[j].at + ResendInterval

(* ... as long as no request has stalled between its steps.                 *)
SendsSpaced == ~stalled => KnownSpaced
=============================================================================
