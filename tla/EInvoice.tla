------------------------------ MODULE EInvoice ------------------------------
(***************************************************************************)
(* The electronic invoice of a completed payment: claimed once, created at  *)
(* the invoice service, polled until it is issued, stored and mailed.       *)
(*                                                                          *)
(* issueForPayment may be called twice for one payment: by the webhook and  *)
(* by the kiosk or the retry that completes the same order.  Nobody awaits  *)
(* it; a restart loses it.  The invoice service is external: it refuses a   *)
(* second invoice with the same reference code, and an answer may be lost   *)
(* after it did what was asked.                                             *)
(***************************************************************************)
EXTENDS Integers, FiniteSets

CONSTANTS
    Orders,        \* completed payments
    Calls,         \* calls of issueForPayment
    PollAttempts,  \* POLL_ATTEMPTS
    MaxLosses      \* bound: restarts and failed writes

InvoiceAssumption == PollAttempts \in Nat \ {0} /\ MaxLosses \in Nat

VARIABLES
    eInvoice,   \* the eInvoice field of each payment
    call,       \* each call: its place, its payment, its polls
    series,     \* whether the client remembers the invoice series of this year
    remote,     \* what the invoice service holds under each reference code
    mails,      \* invoice e-mails sent for each payment
    lost,       \* payments whose call a restart or a failed write cut short
    losses

evars == <<eInvoice, call, series, remote, mails, lost, losses>>
----------------------------------------------------------------------------
Marks == {"absent", "PROCESSING", "EMAILED", "FAILED"}

RemoteStatus == {"none", "pending", "success", "rejected"}

Field == [status: Marks, number: BOOLEAN]

Call == [pc: {"claim", "series", "create", "poll", "store", "mail", "emailed", "failed"},
         order: Orders, polls: 0..PollAttempts]

Idle == [pc |-> "idle"]

InvoiceTypeOK ==
    /\ eInvoice \in [Orders -> Field]
    /\ call \in [Calls -> Call \cup {Idle}]
    /\ series \in BOOLEAN
    /\ remote \in [Orders -> RemoteStatus]
    /\ mails \in [Orders -> Nat]
    /\ lost \subseteq Orders
    /\ losses \in Nat

Init ==
    /\ eInvoice = [o \in Orders |-> [status |-> "absent", number |-> FALSE]]
    /\ call = [c \in Calls |-> Idle]
    /\ series = FALSE
    /\ remote = [o \in Orders |-> "none"]
    /\ mails = [o \in Orders |-> 0]
    /\ lost = {}
    /\ losses = 0

GoTo(c, pc) == call' = [call EXCEPT ![c].pc = pc]

End(c) == call' = [call EXCEPT ![c] = Idle]

At(c, pc) == call[c].pc = pc

(* Enabled client, payment with a resident and a resident with an e-mail:   *)
(* otherwise the call ends without a trace.                                 *)
Start(c, o) ==
    /\ call[c] = Idle
    /\ call' = [call EXCEPT ![c] = [pc |-> "claim", order |-> o, polls |-> 0]]
    /\ UNCHANGED <<eInvoice, series, remote, mails, lost, losses>>

(* Mutant: the claim does not ask whether the payment has an invoice.       *)
ClaimAgain(c) ==
    LET o == call[c].order
    IN  /\ At(c, "claim")
        /\ eInvoice' = [eInvoice EXCEPT ![o] = [status |-> "PROCESSING", number |-> FALSE]]
        /\ GoTo(c, "series")
        /\ UNCHANGED <<series, remote, mails, lost, losses>>

Claim(c) ==
    LET o == call[c].order
    IN  /\ At(c, "claim")
        /\ IF eInvoice[o].status = "absent"
           THEN /\ eInvoice' = [eInvoice EXCEPT ![o] =
                                   [status |-> "PROCESSING", number |-> FALSE]]
                /\ GoTo(c, "series")
           ELSE End(c) /\ UNCHANGED eInvoice
        /\ UNCHANGED <<series, remote, mails, lost, losses>>
----------------------------------------------------------------------------
(* A request to the service that brings no answer: no token can be had, the *)
(* answer is an error, or a 401 again after one retry with a new token.  It *)
(* throws into the try block of run.                                        *)
RequestFails(c) == GoTo(c, "failed")

(* The series is asked for once a year and remembered.                      *)
GetInvoiceSeries(c) ==
    /\ At(c, "series")
    /\ \/ series' = TRUE /\ GoTo(c, "create")
       \/ ~series /\ UNCHANGED series /\ RequestFails(c)
    /\ UNCHANGED <<eInvoice, remote, mails, lost, losses>>

(* What the invoice service does when it is asked to create.                *)
CreatedAt(o) ==
    \/ remote[o] = "none" /\ remote' = [remote EXCEPT ![o] = "pending"]
    \/ remote[o] # "none" /\ UNCHANGED remote      \* EINVOICE_DOCUMENT_EXISTED

CreateOrReuse(c) ==
    /\ At(c, "create")
    /\ \/ CreatedAt(call[c].order) /\ GoTo(c, "poll")
       \/ CreatedAt(call[c].order) /\ RequestFails(c)     \* the answer is lost
       \/ UNCHANGED remote /\ RequestFails(c)             \* refused
    /\ UNCHANGED <<eInvoice, series, mails, lost, losses>>

ProviderDecides(o) ==
    /\ remote[o] = "pending"
    /\ \E s \in {"success", "rejected"} : remote' = [remote EXCEPT ![o] = s]
    /\ UNCHANGED <<eInvoice, call, series, mails, lost, losses>>

(* Mutant: the last poll gives up without an error.                         *)
PollQuietly(c) ==
    LET o == call[c].order
    IN  /\ At(c, "poll")
        /\ \/ RequestFails(c)
           \/ remote[o] = "rejected" /\ GoTo(c, "failed")
           \/ remote[o] = "success" /\ GoTo(c, "store")
           \/ remote[o] = "pending" /\ call[c].polls + 1 < PollAttempts
              /\ call' = [call EXCEPT ![c].polls = @ + 1]
           \/ remote[o] = "pending" /\ call[c].polls + 1 = PollAttempts /\ End(c)
        /\ UNCHANGED <<eInvoice, series, remote, mails, lost, losses>>

(* A rejected invoice, a failed request and the last pending answer are     *)
(* errors of the try block.                                                 *)
WaitUntilIssued(c) ==
    LET o == call[c].order
    IN  /\ At(c, "poll")
        /\ \/ RequestFails(c)
           \/ remote[o] = "rejected" /\ GoTo(c, "failed")
           \/ remote[o] = "success" /\ GoTo(c, "store")
           \/ remote[o] = "pending" /\ call[c].polls + 1 < PollAttempts
              /\ call' = [call EXCEPT ![c].polls = @ + 1]
           \/ remote[o] = "pending" /\ call[c].polls + 1 = PollAttempts
              /\ GoTo(c, "failed")
        /\ UNCHANGED <<eInvoice, series, remote, mails, lost, losses>>

StoreNumber(c) ==
    /\ At(c, "store")
    /\ eInvoice' = [eInvoice EXCEPT ![call[c].order].number = TRUE]
    /\ GoTo(c, "mail")
    /\ UNCHANGED <<series, remote, mails, lost, losses>>

(* The PDF is attached when it can be had; the mail is sent without it too. *)
SendMail(c) ==
    /\ At(c, "mail")
    /\ \/ mails' = [mails EXCEPT ![call[c].order] = @ + 1] /\ GoTo(c, "emailed")
       \/ GoTo(c, "failed") /\ UNCHANGED mails
    /\ UNCHANGED <<eInvoice, series, remote, lost, losses>>

Mark(c) ==
    /\ At(c, "emailed") \/ At(c, "failed")
    /\ eInvoice' = [eInvoice EXCEPT ![call[c].order].status =
                       IF At(c, "emailed") THEN "EMAILED" ELSE "FAILED"]
    /\ End(c)
    /\ UNCHANGED <<series, remote, mails, lost, losses>>

(* A write of the try block fails: the catch marks the payment FAILED, also *)
(* when the mail is out.  The catch's own write fails: the mark stays.      *)
WriteFails(c) ==
    /\ losses < MaxLosses
    /\ At(c, "store") \/ At(c, "emailed") \/ At(c, "failed")
    /\ IF At(c, "failed") THEN End(c) /\ lost' = lost \cup {call[c].order}
       ELSE GoTo(c, "failed") /\ UNCHANGED lost
    /\ losses' = losses + 1
    /\ UNCHANGED <<eInvoice, series, remote, mails>>

Restart ==
    /\ losses < MaxLosses
    /\ call' = [c \in Calls |-> Idle]
    /\ series' = FALSE
    /\ lost' = lost \cup {call[c].order : c \in {d \in Calls : call[d] # Idle}}
    /\ losses' = losses + 1
    /\ UNCHANGED <<eInvoice, remote, mails>>

Next ==
    \/ \E c \in Calls :
        \/ \E o \in Orders : Start(c, o)
        \/ Claim(c) \/ GetInvoiceSeries(c) \/ CreateOrReuse(c) \/ WaitUntilIssued(c)
        \/ StoreNumber(c) \/ SendMail(c) \/ Mark(c) \/ WriteFails(c)
    \/ \E o \in Orders : ProviderDecides(o)
    \/ Restart

Spec == Init /\ [][Next]_evars
----------------------------------------------------------------------------
(* Correctness *)

(* A resident gets at most one invoice e-mail for a payment, however often  *)
(* its completion is reported, and EMAILED is true: the mail is out and the *)
(* invoice it shows is issued and kept.                                     *)
MailedOnce ==
    \A o \in Orders :
        /\ mails[o] <= 1
        /\ mails[o] = 1 => remote[o] = "success" /\ eInvoice[o].number
        /\ eInvoice[o].status = "EMAILED" => mails[o] = 1

(* PROCESSING is never left behind: one call works on the payment, or a     *)
(* restart or a failed write has cut it short.                              *)
ProcessingHasACall ==
    \A o \in Orders :
        eInvoice[o].status = "PROCESSING" =>
            \/ o \in lost
            \/ Cardinality({c \in Calls : call[c] # Idle /\ ~At(c, "claim")
                                          /\ call[c].order = o}) = 1
=============================================================================
