--------------------------- MODULE Notifications ---------------------------
(***************************************************************************)
(* Notices: the inbox of each user, the events emitted on sockets and the   *)
(* push service with its batches and its removal of dead device tokens.     *)
(*                                                                          *)
(* A notice is an event of some kind with its recipients.  Its dispatcher   *)
(* runs through the steps of its kind in order; the first step that throws  *)
(* ends it.  A push is handed to a sender of its own that nobody awaits.    *)
(* Expo answers a batch with one ticket per token, in the order sent.  Who  *)
(* sits in a room of the gateway is left out: nothing is kept for a client  *)
(* that was not there.                                                      *)
(***************************************************************************)
EXTENDS Integers, Sequences, FiniteSets, SequencesExt

CONSTANTS
    Users,
    Events,       \* notices that may be sent
    Tokens,       \* device tokens; Expo never registers a dead one again
    NoToken,
    BatchSize     \* EXPO_MAX_BATCH_SIZE

(* The steps of each kind of notice, in the order of its handler.            *)

NotifyPackageDropOff == <<"store", "socket", "push">>
NotifyPackageOtpReissued == <<"store", "push">>
NotifyPackageExpiring == <<"store", "socket", "push">>

(* Mutant: the device is alerted first, the inbox is written afterwards.    *)
PushThenStore == <<"socket", "push", "store">>

NotifyPackageOverdue == <<"store", "socket", "push">>
NotifyAdminsPackageOverdue == <<"store">>
NotifyAccountSuspended == <<"socket", "store", "push">>
NotifyResidentApprovalResult == <<"store", "socket", "push">>
BroadcastToBuilding == <<"store", "socket", "push">>
NotifyNewResident == <<"store", "socket">>
NotifyUsers == <<"store">>

Plan == [DROP_OFF |-> NotifyPackageDropOff,
         OTP_REISSUED |-> NotifyPackageOtpReissued,
         EXPIRING |-> NotifyPackageExpiring,
         OVERDUE |-> NotifyPackageOverdue,
         ADMINS_OVERDUE |-> NotifyAdminsPackageOverdue,
         SUSPENDED |-> NotifyAccountSuspended,
         APPROVAL |-> NotifyResidentApprovalResult,
         BROADCAST |-> BroadcastToBuilding,
         NEW_RESIDENT |-> NotifyNewResident,
         ISSUE |-> NotifyUsers]

Kinds == DOMAIN Plan

(* Kinds whose recipients come from a query.                                *)
ManyKinds == {"ADMINS_OVERDUE", "BROADCAST", "NEW_RESIDENT", "ISSUE"}

(* Kinds whose tokens are read together with the recipients.                *)
KnownTokenKinds == {"APPROVAL", "BROADCAST"}

(* Kinds whose text is a person's: the request accepts one of spaces only,  *)
(* the schema, which trims it first, does not.                              *)
FreeTextKinds == {"BROADCAST"}

NoticeAssumption ==
    /\ NoToken \notin Tokens /\ BatchSize \in Nat \ {0}
    /\ IsFiniteSet(Tokens)

VARIABLES
    mail,       \* the notification each event stored for each user
    token,      \* devicePushToken of each user
    live,       \* tokens Expo still knows
    heard,      \* events emitted to the rooms of the socket gateway
    notice,     \* the dispatcher of each event
    send,       \* the sender of each event: tokens left, the batch out, its dead
    pushed      \* tokens each event was delivered to

nvars == <<mail, token, live, heard, notice, send, pushed>>
----------------------------------------------------------------------------
MailState == {"none", "unread", "read", "deleted"}

Dispatch == [pc: {"run", "over"}, kind: Kinds, blank: BOOLEAN, to: SUBSET Users,
             step: Nat, known: SUBSET Tokens]

NotSent == [pc |-> "idle"]

Sender == [all: Seq(Tokens), at: Nat, tickets: Seq(BOOLEAN)]

NoSender == [all |-> <<>>, at |-> 0, tickets |-> <<>>]

NoticesTypeOK ==
    /\ mail \in [Events -> [Users -> MailState]]
    /\ token \in [Users -> Tokens \cup {NoToken}]
    /\ live \subseteq Tokens
    /\ heard \subseteq Events
    /\ notice \in [Events -> Dispatch \cup {NotSent}]
    /\ send \in [Events -> Sender]
    /\ pushed \subseteq Events \X Tokens

Init ==
    /\ mail = [e \in Events |-> [u \in Users |-> "none"]]
    /\ token = [u \in Users |-> NoToken]
    /\ live = Tokens
    /\ heard = {}
    /\ notice = [e \in Events |-> NotSent]
    /\ send = [e \in Events |-> NoSender]
    /\ pushed = {}

TokensOf(users) == {token[u] : u \in users} \ {NoToken}

(* The order in which the query returns the owners is any.                  *)
TokenOrders(tokens) ==
    {q \in [1..Cardinality(tokens) -> tokens] : ToSet(q) = tokens}
----------------------------------------------------------------------------
(* The dispatcher *)

Current(e, step) ==
    notice[e].pc = "run" /\ Plan[notice[e].kind][notice[e].step] = step

Advance(e) ==
    notice' = IF notice[e].step = Len(Plan[notice[e].kind])
              THEN [notice EXCEPT ![e].pc = "over"]
              ELSE [notice EXCEPT ![e].step = @ + 1]

(* A broadcast and the result of an approval carry the tokens read with the *)
(* recipients; the other kinds look theirs up when they push.               *)
Dispatched(e, k, blank, to) ==
    /\ notice[e] = NotSent
    /\ k \in ManyKinds \/ Cardinality(to) = 1
    /\ blank => k \in FreeTextKinds
    /\ notice' = [notice EXCEPT ![e] =
          [pc |-> "run", kind |-> k, blank |-> blank, to |-> to, step |-> 1,
           known |-> IF k \in KnownTokenKinds THEN TokensOf(to) ELSE {}]]
    /\ UNCHANGED <<mail, token, live, heard, send, pushed>>

(* insertMany is unordered and may store some of the notices only; then it  *)
(* throws, like a failed save, and the later steps are skipped.             *)
Store(e) ==
    /\ Current(e, "store")
    /\ ~notice[e].blank
    /\ \E stored \in SUBSET notice[e].to :
          /\ mail' = [mail EXCEPT ![e] =
                [u \in Users |-> IF u \in stored THEN "unread" ELSE @[u]]]
          /\ IF stored = notice[e].to \/ notice[e].kind = "ISSUE" THEN Advance(e)
             ELSE notice' = [notice EXCEPT ![e].pc = "over"]
    /\ UNCHANGED <<token, live, heard, send, pushed>>

(* An unordered insertMany leaves out the documents the schema refuses, and *)
(* does not throw.                                                          *)
DropBlank(e) ==
    /\ Current(e, "store")
    /\ notice[e].blank
    /\ Advance(e)
    /\ UNCHANGED <<mail, token, live, heard, send, pushed>>

Emit(e) ==
    /\ Current(e, "socket")
    /\ heard' = heard \cup {e}
    /\ Advance(e)
    /\ UNCHANGED <<mail, token, live, send, pushed>>

PushToUser(e) ==
    /\ Current(e, "push")
    /\ LET to == IF notice[e].known # {} THEN notice[e].known
                 ELSE IF notice[e].kind = "BROADCAST" THEN {} ELSE TokensOf(notice[e].to)
       IN  \E q \in TokenOrders(to) : send' = [send EXCEPT ![e].all = q]
    /\ Advance(e)
    /\ UNCHANGED <<mail, token, live, heard, pushed>>
----------------------------------------------------------------------------
(* The sender *)

Waiting(e) == send[e].at < Len(send[e].all) /\ send[e].tickets = <<>>

Batch(e) ==
    SubSeq(send[e].all, send[e].at + 1,
           IF send[e].at + BatchSize < Len(send[e].all) THEN send[e].at + BatchSize
                                                        ELSE Len(send[e].all))

(* fetch answers: the tokens Expo knows are delivered, a ticket says which  *)
(* of the batch it does not know.                                           *)
Deliver(e) ==
    /\ Waiting(e)
    /\ pushed' = pushed \cup {<<e, t>> : t \in ToSet(Batch(e)) \cap live}
    /\ send' = [send EXCEPT ![e].tickets =
                   [k \in DOMAIN Batch(e) |-> Batch(e)[k] \notin live]]
    /\ UNCHANGED <<mail, token, live, heard, notice>>

(* The HTTP status is an error: the next batch is tried.                    *)
BatchRefused(e) ==
    /\ Waiting(e)
    /\ send' = [send EXCEPT ![e].at = @ + BatchSize]
    /\ UNCHANGED <<mail, token, live, heard, notice, pushed>>

(* fetch throws: the remaining batches are given up.                        *)
SendFails(e) ==
    /\ Waiting(e)
    /\ send' = [send EXCEPT ![e] = NoSender]
    /\ UNCHANGED <<mail, token, live, heard, notice, pushed>>

(* Mutant: the tickets of a batch are matched with all the recipients.      *)
DeadOfAll(e) ==
    {send[e].all[k] : k \in {n \in DOMAIN send[e].tickets : send[e].tickets[n]}}

DeadTokens(e) ==
    {Batch(e)[k] : k \in {n \in DOMAIN send[e].tickets : send[e].tickets[n]}}

RemoveUnregisteredTokens(e) ==
    /\ send[e].tickets # <<>>
    /\ \/ token' = [u \in Users |-> IF token[u] \in DeadTokens(e) THEN NoToken ELSE token[u]]
       \/ DeadTokens(e) # {} /\ UNCHANGED token      \* the update failed: logged
    /\ send' = [send EXCEPT ![e].tickets = <<>>, ![e].at = @ + BatchSize]
    /\ UNCHANGED <<mail, live, heard, notice, pushed>>
----------------------------------------------------------------------------
(* Users and their devices *)

Uninstall(t) ==
    /\ t \in live
    /\ live' = live \ {t}
    /\ UNCHANGED <<mail, token, heard, notice, send, pushed>>

UpdatePushToken(u, t) ==
    /\ t \in live /\ token[u] # t
    /\ token' = [token EXCEPT ![u] = t]
    /\ UNCHANGED <<mail, live, heard, notice, send, pushed>>

ClearPushToken(u) ==
    /\ token[u] # NoToken
    /\ token' = [token EXCEPT ![u] = NoToken]
    /\ UNCHANGED <<mail, live, heard, notice, send, pushed>>

MarkAsRead(u, e) ==
    /\ mail[e][u] \in {"unread", "read"}
    /\ mail' = [mail EXCEPT ![e][u] = "read"]
    /\ UNCHANGED <<token, live, heard, notice, send, pushed>>

MarkAllAsRead(u) ==
    /\ mail' = [e \in Events |->
          [mail[e] EXCEPT ![u] = IF @ = "unread" THEN "read" ELSE @]]
    /\ UNCHANGED <<token, live, heard, notice, send, pushed>>

DeleteNotification(u, e) ==
    /\ mail[e][u] \in {"unread", "read"}
    /\ mail' = [mail EXCEPT ![e][u] = "deleted"]
    /\ UNCHANGED <<token, live, heard, notice, send, pushed>>

Next ==
    \/ \E e \in Events :
        \/ (\E k \in Kinds, blank \in BOOLEAN, to \in (SUBSET Users) \ {{}} :
              Dispatched(e, k, blank, to))
        \/ Store(e) \/ DropBlank(e) \/ Emit(e) \/ PushToUser(e)
        \/ Deliver(e) \/ BatchRefused(e) \/ SendFails(e) \/ RemoveUnregisteredTokens(e)
    \/ \E t \in Tokens : Uninstall(t)
    \/ \E u \in Users :
        \/ \E t \in Tokens : UpdatePushToken(u, t)
        \/ ClearPushToken(u) \/ MarkAllAsRead(u)
        \/ \E e \in Events : MarkAsRead(u, e) \/ DeleteNotification(u, e)

Spec == Init /\ [][Next]_nvars
----------------------------------------------------------------------------
(* Correctness *)

(* A device that was alerted finds the notice in the inbox of every         *)
(* recipient: a push whose notice failed to be stored is never sent, and    *)
(* only a suspension may be heard on a socket without being stored.  A      *)
(* notice whose text is blank is left out: insertMany drops it and does not *)
(* throw (DropBlank), so that its alert leads to an empty inbox.            *)
AlertIsStored ==
    \A e \in {n \in Events : notice[n] # NotSent /\ ~notice[n].blank} :
        \/ \E t \in Tokens : <<e, t>> \in pushed
        \/ notice[e].kind # "SUSPENDED" /\ e \in heard
        => \A u \in notice[e].to : mail[e][u] # "none"

(* The answers of Expo cost no user a token that Expo still knows, whatever *)
(* the batches, and however late the answer is handled.                     *)
LiveTokenKept ==
    [][\A u \in Users :
          token[u] \in live /\ token'[u] = NoToken => ClearPushToken(u)]_nvars
=============================================================================
