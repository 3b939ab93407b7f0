---------------------------- MODULE OfficeProofs ----------------------------
(***************************************************************************)
(* The work of the office of a building: tickets, notices and e-invoices,   *)
(* for any number of each and of the requests that work on them.            *)
(***************************************************************************)
EXTENDS BuildingProofs, SequenceTheorems, FiniteSetTheorems

(* Invoices                                                                 *)

(* The library's facts about the size of a set hold for the instance's.     *)
LEMMA SameCount == ASSUME NEW T PROVE E!Cardinality(T) = Cardinality(T)
  BY DEF E!Cardinality, Cardinality, E!IsFiniteSet, IsFiniteSet

(* Call c has claimed the payment it was called for.                        *)
Claimed(c) == call[c] # E!Idle /\ call[c].pc # "claim"

(* Claimed calls work on different payments, and theirs are PROCESSING.     *)
OwnPayment ==
    \A c \in Calls : Claimed(c) =>
        /\ eInvoice[call[c].order].status = "PROCESSING"
        /\ \A d \in Calls : Claimed(d) /\ call[d].order = call[c].order => d = c

(* A payment that is PROCESSING has its call, or lost it.                   *)
NotForgotten ==
    \A o \in Orders : eInvoice[o].status = "PROCESSING" =>
        o \in lost \/ \E c \in Calls : Claimed(c) /\ call[c].order = o

(* How far a call has come says what is issued, kept and mailed.            *)
Progress ==
    \A c \in Calls :
        /\ call[c].pc \in {"series", "create", "poll", "store", "mail"} => mails[call[c].order] = 0
        /\ call[c].pc \in {"store", "mail"} => remote[call[c].order] = "success"
        /\ call[c].pc = "mail" => eInvoice[call[c].order].number
        /\ call[c].pc = "emailed" => mails[call[c].order] = 1

(* An unclaimed payment has no mail.                                        *)
Unclaimed == \A o \in Orders : eInvoice[o].status = "absent" => mails[o] = 0

InvoiceInv ==
    /\ E!InvoiceTypeOK
    /\ OwnPayment /\ NotForgotten /\ Progress /\ Unclaimed
    /\ MailedOnce

Places == {"claim", "series", "create", "poll", "store", "mail", "emailed", "failed"}

(* A call that is not idle has a place, a payment and its polls.            *)
LEMMA CallShape ==
  ASSUME E!InvoiceTypeOK, NEW c \in Calls, call[c].pc # "idle"
  PROVE  /\ call[c] \in E!Call /\ call[c] # E!Idle
         /\ call[c].order \in Orders /\ call[c].pc \in Places
  BY DEF E!InvoiceTypeOK, E!Call, E!Idle, Places

(* A call goes on to its next place: it keeps its payment, and the others   *)
(* stay where they are.                                                     *)
LEMMA CallGoesOn ==
  ASSUME E!InvoiceTypeOK, NEW c \in Calls, call[c].pc # "idle", NEW pc \in Places, E!GoTo(c, pc)
  PROVE  /\ call' \in [Calls -> E!Call \cup {E!Idle}]
         /\ call'[c].pc = pc /\ call'[c].order = call[c].order /\ call'[c] # E!Idle
         /\ \A d \in Calls : d # c => call'[d] = call[d]
  BY CallShape DEF E!InvoiceTypeOK, E!Call, E!Idle, E!GoTo, Places

(* A call ends.                                                             *)
LEMMA CallEnds ==
  ASSUME E!InvoiceTypeOK, NEW c \in Calls, E!End(c)
  PROVE  /\ call' \in [Calls -> E!Call \cup {E!Idle}]
         /\ call'[c] = E!Idle
         /\ \A d \in Calls : d # c => call'[d] = call[d]
  BY DEF E!InvoiceTypeOK, E!End

(* The service holds no fewer invoices after a request, and an issued one   *)
(* stays issued.                                                            *)
LEMMA CreatedType ==
  ASSUME E!InvoiceTypeOK, NEW o \in Orders, E!CreatedAt(o) \/ UNCHANGED remote
  PROVE  /\ remote' \in [Orders -> E!RemoteStatus]
         /\ \A q \in Orders : remote[q] = "success" => remote'[q] = "success"
  BY DEF E!InvoiceTypeOK, E!CreatedAt, E!RemoteStatus

(* A call that goes on without a claim, a mark or a mail keeps the          *)
(* invariant, if what its new place says is true.                           *)
LEMMA CallKeepsInv ==
  ASSUME InvoiceInv, NEW c \in Calls, Claimed(c), NEW pc \in Places \ {"claim"}, E!GoTo(c, pc),
         eInvoice' \in [Orders -> E!Field],
         \A o \in Orders : /\ eInvoice'[o].status = eInvoice[o].status
                           /\ eInvoice[o].number => eInvoice'[o].number,
         remote' \in [Orders -> E!RemoteStatus],
         \A o \in Orders : remote[o] = "success" => remote'[o] = "success",
         series' \in BOOLEAN, UNCHANGED <<mails, lost>>, losses' \in Nat,
         pc \in {"series", "create", "poll", "store", "mail"} => mails[call[c].order] = 0,
         pc \in {"store", "mail"} => remote'[call[c].order] = "success",
         pc = "mail" => eInvoice'[call[c].order].number,
         pc = "emailed" => mails[call[c].order] = 1
  PROVE  InvoiceInv'
  <1> USE DEF InvoiceInv
  <1>0. call[c].pc # "idle" /\ call[c].order \in Orders
    BY CallShape DEF Claimed, E!InvoiceTypeOK, E!Call, E!Idle
  <1>1. /\ call' \in [Calls -> E!Call \cup {E!Idle}]
        /\ call'[c].pc = pc /\ call'[c].order = call[c].order /\ call'[c] # E!Idle
        /\ \A d \in Calls : d # c => call'[d] = call[d]
    BY <1>0, CallGoesOn
  <1>2. E!InvoiceTypeOK'
    BY <1>1 DEF E!InvoiceTypeOK
  <1>3. \A d \in Calls : Claimed(d)' <=> Claimed(d)
    BY <1>1 DEF Claimed
  <1>4. OwnPayment'
    BY <1>0, <1>1, <1>3, CallShape DEF OwnPayment, Claimed, E!InvoiceTypeOK, E!Call, E!Idle
  <1>5. NotForgotten'
    BY <1>1, <1>3 DEF NotForgotten
  <1>6. Progress'
    BY <1>0, <1>1, CallShape DEF Progress
  <1>7. Unclaimed' /\ MailedOnce'
    BY <1>0 DEF Unclaimed, MailedOnce, E!MailedOnce
  <1> QED BY <1>2, <1>4, <1>5, <1>6, <1>7

(* A call begins.                                                           *)
LEMMA StartStep == ASSUME InvoiceInv, NEW c \in Calls, NEW o \in Orders, E!Start(c, o) PROVE InvoiceInv'
  <1> USE DEF InvoiceInv
  <1>1. /\ call' \in [Calls -> E!Call \cup {E!Idle}]
        /\ call[c] = E!Idle /\ call'[c].pc = "claim"
        /\ \A d \in Calls : d # c => call'[d] = call[d]
    BY BuildingAssumption DEF E!InvoiceAssumption, E!Start, E!InvoiceTypeOK, E!Call
  <1>2. E!InvoiceTypeOK'
    BY <1>1 DEF E!Start, E!InvoiceTypeOK
  <1>3. \A d \in Calls : Claimed(d)' <=> Claimed(d)
    BY <1>1 DEF Claimed
  <1>4. OwnPayment' /\ NotForgotten' /\ Progress'
    BY <1>1, <1>3 DEF E!Start, OwnPayment, NotForgotten, Progress, Claimed
  <1>5. Unclaimed' /\ MailedOnce'
    BY DEF E!Start, Unclaimed, MailedOnce, E!MailedOnce
  <1> QED BY <1>2, <1>4, <1>5

(* The first call claims the payment, a later one ends.                     *)
LEMMA ClaimStep == ASSUME InvoiceInv, NEW c \in Calls, E!Claim(c) PROVE InvoiceInv'
  <1> USE DEF InvoiceInv
  <1>0. call[c].pc = "claim" /\ call[c].order \in Orders /\ ~Claimed(c)
    BY CallShape DEF E!Claim, E!At, Claimed
  <1>1. CASE eInvoice[call[c].order].status = "absent"
    <2>1. /\ call' \in [Calls -> E!Call \cup {E!Idle}]
          /\ call'[c].pc = "series" /\ call'[c].order = call[c].order /\ call'[c] # E!Idle
          /\ \A d \in Calls : d # c => call'[d] = call[d]
      BY <1>0, <1>1, CallGoesOn DEF E!Claim, Places
    <2>2. /\ eInvoice' \in [Orders -> E!Field]
          /\ eInvoice'[call[c].order] = [status |-> "PROCESSING", number |-> FALSE]
          /\ \A o \in Orders : o # call[c].order => eInvoice'[o] = eInvoice[o]
      <3> DEFINE claim == [status |-> "PROCESSING", number |-> FALSE]
      <3>1. claim \in E!Field
        BY DEF E!Field, E!Marks
      <3>2. eInvoice' = [eInvoice EXCEPT ![call[c].order] = claim]
        BY <1>1 DEF E!Claim
      <3> HIDE DEF claim
      <3>3. eInvoice' \in [Orders -> E!Field] /\ eInvoice'[call[c].order] = claim
            /\ \A o \in Orders : o # call[c].order => eInvoice'[o] = eInvoice[o]
        BY <1>0, <3>1, <3>2 DEF E!InvoiceTypeOK
      <3> QED BY <3>3 DEF claim
    <2>3. UNCHANGED <<series, remote, mails, lost, losses>>
      BY DEF E!Claim
    <2>4. E!InvoiceTypeOK'
      BY <2>1, <2>2, <2>3 DEF E!InvoiceTypeOK
    <2>5. \A d \in Calls : Claimed(d)' <=> d = c \/ Claimed(d)
      BY <2>1 DEF Claimed
    <2>6. \A d \in Calls : Claimed(d) => call[d].order # call[c].order
      BY <1>1 DEF OwnPayment
    <2>7. OwnPayment'
      BY <1>0, <2>1, <2>2, <2>5, <2>6, CallShape DEF OwnPayment, Claimed, E!InvoiceTypeOK, E!Call, E!Idle
    <2>8. NotForgotten'
      BY <1>0, <2>1, <2>2, <2>3, <2>5 DEF NotForgotten
    <2>9. Progress'
      BY <1>0, <1>1, <2>1, <2>2, <2>3, <2>6, CallShape
      DEF Progress, Unclaimed, Claimed, E!Idle, Places
    <2>10. Unclaimed' /\ MailedOnce'
      BY <1>0, <1>1, <2>2, <2>3 DEF Unclaimed, MailedOnce, E!MailedOnce
    <2> QED BY <2>4, <2>7, <2>8, <2>9, <2>10
  <1>2. CASE eInvoice[call[c].order].status # "absent"
    <2>1. /\ call' \in [Calls -> E!Call \cup {E!Idle}] /\ call'[c] = E!Idle
          /\ \A d \in Calls : d # c => call'[d] = call[d]
      BY <1>2, CallEnds DEF E!Claim
    <2>2. UNCHANGED <<eInvoice, series, remote, mails, lost, losses>>
      BY <1>2 DEF E!Claim
    <2>3. E!InvoiceTypeOK'
      BY <2>1, <2>2 DEF E!InvoiceTypeOK
    <2>4. \A d \in Calls : (Claimed(d)' <=> Claimed(d)) /\ (Claimed(d) => d # c)
      BY <1>0, <2>1 DEF Claimed, E!Idle
    <2>5. OwnPayment' /\ NotForgotten'
      BY <2>1, <2>2, <2>4 DEF OwnPayment, NotForgotten
    <2>6. Progress' /\ Unclaimed' /\ MailedOnce'
      BY <2>1, <2>2 DEF Progress, Unclaimed, MailedOnce, E!MailedOnce, E!Idle
    <2> QED BY <2>3, <2>5, <2>6
  <1> QED BY <1>1, <1>2

(* The requests to the invoice service and the writes of a claimed call.    *)
LEMMA ServiceSteps ==
  ASSUME InvoiceInv, NEW c \in Calls,
         E!GetInvoiceSeries(c) \/ E!CreateOrReuse(c) \/ E!StoreNumber(c)
  PROVE  InvoiceInv'
  <1> USE DEF InvoiceInv
  <1>0. Claimed(c) /\ call[c].order \in Orders
    BY CallShape DEF E!GetInvoiceSeries, E!CreateOrReuse, E!StoreNumber, E!At, Claimed
  <1>1. CASE E!GetInvoiceSeries(c)
    <2>1. /\ UNCHANGED <<eInvoice, remote, mails, lost, losses>> /\ series' \in BOOLEAN
          /\ mails[call[c].order] = 0
      BY <1>1 DEF E!GetInvoiceSeries, E!At, Progress, E!InvoiceTypeOK
    <2>2. E!GoTo(c, "create") \/ E!GoTo(c, "failed")
      BY <1>1 DEF E!GetInvoiceSeries, E!RequestFails
    <2> QED BY <1>0, <2>1, <2>2, CallKeepsInv DEF E!InvoiceTypeOK, Places
  <1>2. CASE E!CreateOrReuse(c)
    <2>1. /\ UNCHANGED <<eInvoice, series, mails, lost, losses>>
          /\ mails[call[c].order] = 0
      BY <1>2 DEF E!CreateOrReuse, E!At, Progress
    <2>2. E!CreatedAt(call[c].order) \/ UNCHANGED remote
      BY <1>2 DEF E!CreateOrReuse
    <2>3. E!GoTo(c, "poll") \/ E!GoTo(c, "failed")
      BY <1>2 DEF E!CreateOrReuse, E!RequestFails
    <2> QED BY <1>0, <2>1, <2>2, <2>3, CreatedType, CallKeepsInv DEF E!InvoiceTypeOK, Places
  <1>3. CASE E!StoreNumber(c)
    <2>1. /\ UNCHANGED <<series, remote, mails, lost, losses>>
          /\ mails[call[c].order] = 0 /\ remote[call[c].order] = "success"
      BY <1>3 DEF E!StoreNumber, E!At, Progress
    <2>2. E!GoTo(c, "mail")
      BY <1>3 DEF E!StoreNumber
    <2>3. /\ eInvoice' \in [Orders -> E!Field]
          /\ eInvoice'[call[c].order].number
          /\ \A o \in Orders : /\ eInvoice'[o].status = eInvoice[o].status
                               /\ eInvoice[o].number => eInvoice'[o].number
      BY ZenonT(60), <1>0, <1>3 DEF E!StoreNumber, E!InvoiceTypeOK, E!Field
    <2> QED BY <1>0, <2>1, <2>2, <2>3, CallKeepsInv DEF E!InvoiceTypeOK, Places
  <1> QED BY <1>1, <1>2, <1>3

(* The answers to the polls.                                                *)
LEMMA PollStep == ASSUME InvoiceInv, NEW c \in Calls, E!WaitUntilIssued(c) PROVE InvoiceInv'
  <1> USE DEF InvoiceInv
  <1>0. /\ Claimed(c) /\ call[c].order \in Orders /\ call[c] \in E!Call
        /\ mails[call[c].order] = 0
    BY CallShape DEF E!WaitUntilIssued, E!At, Claimed, Progress
  <1>1. UNCHANGED <<eInvoice, series, remote, mails, lost, losses>>
    BY DEF E!WaitUntilIssued
  <1>2. CASE E!GoTo(c, "failed")
    BY <1>0, <1>1, <1>2, CallKeepsInv DEF E!InvoiceTypeOK, Places
  <1>3. CASE remote[call[c].order] = "success" /\ E!GoTo(c, "store")
    BY <1>0, <1>1, <1>3, CallKeepsInv DEF E!InvoiceTypeOK, Places
  <1>4. CASE call[c].polls + 1 < PollAttempts /\ call' = [call EXCEPT ![c].polls = @ + 1]
    <2>1. /\ call' \in [Calls -> E!Call \cup {E!Idle}]
          /\ call'[c].pc = call[c].pc /\ call'[c].order = call[c].order /\ call'[c] # E!Idle
          /\ \A d \in Calls : d # c => call'[d] = call[d]
      BY <1>0, <1>4, BuildingAssumption DEF E!InvoiceAssumption, E!InvoiceTypeOK, E!Call, E!Idle
    <2>2. \A d \in Calls : Claimed(d)' <=> Claimed(d)
      BY <1>0, <2>1 DEF Claimed
    <2>3. E!InvoiceTypeOK'
      BY <1>1, <2>1 DEF E!InvoiceTypeOK
    <2>4. OwnPayment' /\ NotForgotten'
      BY <1>1, <2>1, <2>2 DEF OwnPayment, NotForgotten
    <2>5. Progress' /\ Unclaimed' /\ MailedOnce'
      BY <1>1, <2>1 DEF Progress, Unclaimed, MailedOnce, E!MailedOnce
    <2> QED BY <2>3, <2>4, <2>5
  <1> QED
    BY <1>2, <1>3, <1>4 DEF E!WaitUntilIssued, E!RequestFails

(* The mail goes out, once: the call is the only one of its payment.        *)
LEMMA MailStep == ASSUME InvoiceInv, NEW c \in Calls, E!SendMail(c) PROVE InvoiceInv'
  <1> USE DEF InvoiceInv
  <1>0. /\ Claimed(c) /\ call[c].order \in Orders
        /\ mails[call[c].order] = 0 /\ remote[call[c].order] = "success"
        /\ eInvoice[call[c].order].number
        /\ eInvoice[call[c].order].status = "PROCESSING"
        /\ \A d \in Calls : Claimed(d) /\ call[d].order = call[c].order => d = c
    BY CallShape DEF E!SendMail, E!At, Claimed, Progress, OwnPayment
  <1>1. UNCHANGED <<eInvoice, series, remote, lost, losses>>
    BY DEF E!SendMail
  <1>2. CASE E!GoTo(c, "failed") /\ UNCHANGED mails
    BY <1>0, <1>1, <1>2, CallKeepsInv DEF E!InvoiceTypeOK, Places
  <1>3. CASE mails' = [mails EXCEPT ![call[c].order] = @ + 1] /\ E!GoTo(c, "emailed")
    <2>1. /\ call' \in [Calls -> E!Call \cup {E!Idle}]
          /\ call'[c].pc = "emailed" /\ call'[c].order = call[c].order /\ call'[c] # E!Idle
          /\ \A d \in Calls : d # c => call'[d] = call[d]
      BY <1>0, <1>3, CallGoesOn DEF Claimed, Places, E!SendMail, E!At
    <2>2. /\ mails' \in [Orders -> Nat] /\ mails'[call[c].order] = 1
          /\ \A o \in Orders : o # call[c].order => mails'[o] = mails[o]
      BY <1>0, <1>3 DEF E!InvoiceTypeOK
    <2>3. \A d \in Calls : Claimed(d)' <=> Claimed(d)
      BY <1>0, <2>1 DEF Claimed
    <2>4. E!InvoiceTypeOK'
      BY <1>1, <2>1, <2>2 DEF E!InvoiceTypeOK
    <2>5. OwnPayment' /\ NotForgotten'
      BY <1>1, <2>1, <2>3 DEF OwnPayment, NotForgotten
    <2>6. \A d \in Calls : d # c /\ call[d].pc \notin {"idle", "claim"} =>
              call[d].order \in Orders /\ call[d].order # call[c].order
      BY <1>0, CallShape DEF Claimed
    <2>7. Progress'
      BY <1>0, <1>1, <2>1, <2>2, <2>6 DEF Progress
    <2>8. Unclaimed' /\ MailedOnce'
      BY <1>0, <1>1, <2>2 DEF Unclaimed, MailedOnce, E!MailedOnce
    <2> QED BY <2>4, <2>5, <2>7, <2>8
  <1> QED
    BY <1>2, <1>3 DEF E!SendMail

(* A call that ends leaves its payment marked or lost.                      *)
LEMMA EndKeepsInv ==
  ASSUME InvoiceInv, NEW c \in Calls, Claimed(c), E!End(c),
         eInvoice' \in [Orders -> E!Field],
         \A o \in Orders : o # call[c].order => eInvoice'[o] = eInvoice[o],
         eInvoice'[call[c].order].number = eInvoice[call[c].order].number,
         eInvoice'[call[c].order].status \in {"PROCESSING", "FAILED", "EMAILED"},
         eInvoice'[call[c].order].status = "EMAILED" => mails[call[c].order] = 1,
         lost' \subseteq Orders, lost \subseteq lost',
         eInvoice'[call[c].order].status = "PROCESSING" => call[c].order \in lost',
         UNCHANGED <<series, remote, mails>>, losses' \in Nat
  PROVE  InvoiceInv'
  <1> USE DEF InvoiceInv
  <1>0. call[c].order \in Orders
    BY CallShape DEF Claimed, E!InvoiceTypeOK, E!Call, E!Idle
  <1>1. /\ call' \in [Calls -> E!Call \cup {E!Idle}] /\ call'[c] = E!Idle
        /\ \A d \in Calls : d # c => call'[d] = call[d]
    BY CallEnds
  <1>2. \A d \in Calls : Claimed(d)' <=> d # c /\ Claimed(d)
    BY <1>1 DEF Claimed
  <1>3. \A d \in Calls : d # c /\ call[d].pc \notin {"idle", "claim"} =>
            call[d].order \in Orders /\ call[d].order # call[c].order
    BY CallShape DEF Claimed, OwnPayment
  <1>4. E!InvoiceTypeOK'
    BY <1>1 DEF E!InvoiceTypeOK
  <1>5. OwnPayment'
    BY <1>1, <1>2, <1>3, CallShape DEF OwnPayment, Claimed, E!InvoiceTypeOK, E!Call, E!Idle
  <1>6. NotForgotten'
    BY <1>0, <1>1, <1>2 DEF NotForgotten
  <1>7. Progress'
    BY <1>1, <1>3 DEF Progress, E!Idle
  <1>8. Unclaimed' /\ MailedOnce'
    BY <1>0 DEF Unclaimed, MailedOnce, E!MailedOnce
  <1> QED BY <1>4, <1>5, <1>6, <1>7, <1>8

(* The mark of a call that ends; writes that fail.                          *)
LEMMA EndSteps == ASSUME InvoiceInv, NEW c \in Calls, E!Mark(c) \/ E!WriteFails(c) PROVE InvoiceInv'
  <1> USE DEF InvoiceInv
  <1>0. /\ Claimed(c) /\ call[c].order \in Orders
        /\ eInvoice[call[c].order].status = "PROCESSING"
        /\ call[c].pc = "emailed" => mails[call[c].order] = 1
    BY CallShape DEF E!Mark, E!WriteFails, E!At, Claimed, OwnPayment, Progress
  <1>1. CASE E!Mark(c)
    <2> DEFINE mark == IF E!At(c, "emailed") THEN "EMAILED" ELSE "FAILED"
    <2>1. /\ eInvoice' = [eInvoice EXCEPT ![call[c].order].status = mark]
          /\ UNCHANGED <<series, remote, mails, lost, losses>> /\ E!End(c)
      BY <1>1 DEF E!Mark
    <2>2. mark \in {"EMAILED", "FAILED"} /\ (mark = "EMAILED" => call[c].pc = "emailed")
      BY DEF E!At
    <2> HIDE DEF mark
    <2>3. /\ eInvoice' \in [Orders -> E!Field]
          /\ eInvoice'[call[c].order].status = mark
          /\ eInvoice'[call[c].order].number = eInvoice[call[c].order].number
          /\ \A o \in Orders : o # call[c].order => eInvoice'[o] = eInvoice[o]
      BY <1>0, <2>1, <2>2 DEF E!InvoiceTypeOK, E!Field, E!Marks
    <2> QED BY <1>0, <2>1, <2>2, <2>3, EndKeepsInv DEF E!InvoiceTypeOK
  <1>2. CASE E!WriteFails(c)
    <2>1. losses' \in Nat /\ UNCHANGED <<eInvoice, series, remote, mails>>
      BY <1>2 DEF E!WriteFails, E!InvoiceTypeOK
    <2>2. CASE E!At(c, "failed")
      BY <1>0, <1>2, <2>1, <2>2, EndKeepsInv DEF E!WriteFails, E!InvoiceTypeOK
    <2>3. CASE ~E!At(c, "failed")
      BY <1>0, <1>2, <2>1, <2>3, CallKeepsInv DEF E!WriteFails, E!InvoiceTypeOK, Places
    <2> QED BY <2>2, <2>3
  <1> QED BY <1>1, <1>2

(* The service decides; the server restarts.                                *)
LEMMA OutsideSteps ==
  ASSUME InvoiceInv, (\E o \in Orders : E!ProviderDecides(o)) \/ E!Restart
  PROVE  InvoiceInv'
  <1> USE DEF InvoiceInv
  <1>1. ASSUME NEW o \in Orders, E!ProviderDecides(o) PROVE InvoiceInv'
    <2>1. /\ remote' \in [Orders -> E!RemoteStatus]
          /\ \A q \in Orders : remote[q] = "success" => remote'[q] = "success"
      BY <1>1 DEF E!ProviderDecides, E!InvoiceTypeOK, E!RemoteStatus
    <2>2. UNCHANGED <<eInvoice, call, series, mails, lost, losses>>
      BY <1>1 DEF E!ProviderDecides
    <2>3. E!InvoiceTypeOK'
      BY <2>1, <2>2 DEF E!InvoiceTypeOK
    <2>4. OwnPayment' /\ NotForgotten' /\ Unclaimed'
      BY <2>2 DEF OwnPayment, NotForgotten, Unclaimed, Claimed
    <2>5. Progress' /\ MailedOnce'
      BY <2>1, <2>2, CallShape DEF Progress, MailedOnce, E!MailedOnce
    <2> QED BY <2>3, <2>4, <2>5
  <1>2. CASE E!Restart
    <2>1. /\ call' = [c \in Calls |-> E!Idle] /\ losses' \in Nat
          /\ UNCHANGED <<eInvoice, remote, mails>> /\ series' = FALSE
          /\ lost' = lost \cup {call[c].order : c \in {d \in Calls : call[d] # E!Idle}}
      BY <1>2 DEF E!Restart, E!InvoiceTypeOK
    <2>2. lost' \subseteq Orders
      BY <2>1, CallShape DEF E!InvoiceTypeOK, E!Call, E!Idle
    <2>3. E!InvoiceTypeOK'
      BY <2>1, <2>2 DEF E!InvoiceTypeOK
    <2>4. \A c \in Calls : ~Claimed(c)' /\ call'[c].pc = "idle"
      BY <2>1 DEF Claimed, E!Idle
    <2>5. NotForgotten'
      BY <2>1 DEF NotForgotten, Claimed
    <2>6. OwnPayment' /\ Progress' /\ Unclaimed' /\ MailedOnce'
      BY <2>1, <2>4 DEF OwnPayment, Progress, Unclaimed, MailedOnce, E!MailedOnce
    <2> QED BY <2>3, <2>5, <2>6
  <1> QED BY <1>1, <1>2

(* Every step of the invoices keeps the invariant.                          *)
LEMMA InvoiceStep == InvoiceInv /\ [E!Next]_(E!evars) => InvoiceInv'
  <1> SUFFICES ASSUME InvoiceInv, [E!Next]_(E!evars) PROVE InvoiceInv'
    OBVIOUS
  <1>1. CASE UNCHANGED E!evars
    BY <1>1 DEF E!evars, InvoiceInv, E!InvoiceTypeOK, OwnPayment, NotForgotten, Progress,
                Unclaimed, Claimed, MailedOnce, E!MailedOnce
  <1> QED
    BY <1>1, StartStep, ClaimStep, ServiceSteps, PollStep, MailStep, EndSteps, OutsideSteps
    DEF E!Next

(* For any number of payments, calls, polls and restarts, a call works on   *)
(* its payment alone and what its place says is true.                       *)
THEOREM InvoicesInvariant == BuildingSpec => []InvoiceInv
  <1>1. E!Init => InvoiceInv
    <2> SUFFICES ASSUME E!Init PROVE InvoiceInv
      OBVIOUS
    <2>1. [status |-> "absent", number |-> FALSE] \in E!Field
      BY DEF E!Field, E!Marks
    <2>2. E!InvoiceTypeOK
      BY <2>1 DEF E!Init, E!InvoiceTypeOK, E!RemoteStatus
    <2>3. \A o \in Orders : eInvoice[o].status = "absent" /\ mails[o] = 0
      BY DEF E!Init
    <2>4. \A c \in Calls : call[c].pc = "idle" /\ ~Claimed(c)
      BY DEF E!Init, E!Idle, Claimed
    <2>5. OwnPayment /\ NotForgotten /\ Progress /\ Unclaimed /\ MailedOnce
      BY <2>3, <2>4 DEF OwnPayment, NotForgotten, Progress, Unclaimed, MailedOnce, E!MailedOnce
    <2> QED BY <2>2, <2>5 DEF InvoiceInv
  <1> QED
    BY <1>1, InvoiceStep, PartsOfBuilding, PTL DEF E!Spec

(* A resident gets at most one invoice e-mail for a payment, and EMAILED is *)
(* true, for any number of payments, calls, polls and restarts.             *)
THEOREM InvoiceIsMailedOnce == BuildingSpec => []MailedOnce
  BY InvoicesInvariant, PTL DEF InvoiceInv

(* PROCESSING is never left behind, for any number of the same.             *)
THEOREM ProcessingIsWorkedOn == BuildingSpec => []ProcessingHasACall
  <1> DEFINE Workers(o) ==
        {c \in Calls : call[c] # E!Idle /\ ~E!At(c, "claim") /\ call[c].order = o}
  <1>1. ASSUME InvoiceInv, NEW o \in Orders, eInvoice[o].status = "PROCESSING"
        PROVE  o \in lost \/ E!Cardinality(Workers(o)) = 1
    <2>1. CASE \E c \in Calls : Claimed(c) /\ call[c].order = o
      <3>1. PICK c \in Calls : Claimed(c) /\ call[c].order = o
        BY <2>1
      <3>2. Workers(o) = {c}
        BY <1>1, <3>1 DEF InvoiceInv, OwnPayment, Claimed, E!At
      <3> QED BY <3>2, FS_Singleton, SameCount
    <2> QED BY <1>1, <2>1 DEF InvoiceInv, NotForgotten
  <1>2. InvoiceInv => ProcessingHasACall
    BY <1>1 DEF ProcessingHasACall, E!ProcessingHasACall
  <1> QED
    BY <1>2, InvoicesInvariant, PTL

-----------------------------------------------------------------------------
(* Tickets                                                                  *)

(* What a request read allowed what it is about to write.                   *)
ReadsFollowTable ==
    \A a \in D!Staff :
        /\ req[a].pc # "idle" => D!Reported(req[a].issue)
        /\ req[a].pc = "status" =>
              /\ req[a].to \in D!Transitions[req[a].read]
              /\ req[a].read = "ESCALATED" => a \in SystemAdmins

(* Every timeline has its first entry.                                      *)
TimelineBegun == \A i \in Issues : D!Reported(i) => Len(issue[i].timeline) >= 1

DeskInv == D!TypeOK /\ ReadsFollowTable /\ TimelineBegun /\ HistoryFollowsTable

(* A timeline that is prolonged by an entry the table allows follows it.    *)
LEMMA TimelineGrows ==
  ASSUME DeskInv, NEW i \in Issues, D!Reported(i), NEW e \in D!Entry,
         issue' \in [Issues -> D!Issue \cup {D!NotReported}],
         issue'[i] # D!NotReported,
         issue'[i].timeline = Append(issue[i].timeline, e), issue'[i].status = e.to,
         \A j \in Issues : j # i => issue'[j] = issue[j],
         \/ e.to \in D!Transitions[issue[i].status] /\ e.from = issue[i].status
         \/ e.to = "ESCALATED" /\ issue[i].status \in D!Escalatable,
         issue[i].status = "ESCALATED" => e.by \in SystemAdmins
  PROVE  TimelineBegun' /\ HistoryFollowsTable'
  <1> DEFINE t == issue[i].timeline
             u == issue'[i].timeline
  <1>1. issue[i] \in D!Issue
    BY DEF DeskInv, D!TypeOK, D!Reported
  <1>2. t \in Seq(D!Entry) /\ Len(t) \in Nat /\ Len(t) >= 1 /\ t[Len(t)].to = issue[i].status
    BY <1>1 DEF DeskInv, TimelineBegun, HistoryFollowsTable, D!HistoryFollowsTable, D!Issue
  <1>3. /\ Len(u) = Len(t) + 1 /\ u[Len(t) + 1] = e
        /\ \A k \in 1..Len(t) : u[k] = t[k]
    BY <1>2
  <1>4. \A j \in Issues : D!Reported(j)' <=> D!Reported(j)
    BY DEF D!Reported
  <1>5. TimelineBegun'
    BY <1>2, <1>3, <1>4 DEF DeskInv, TimelineBegun
  <1>6. /\ u[Len(u)].to = issue'[i].status
        /\ \A k \in 2..Len(u) :
             /\ \/ u[k].to \in D!Transitions[u[k-1].to] /\ u[k].from = u[k-1].to
                \/ u[k].to = "ESCALATED" /\ u[k-1].to \in D!Escalatable
             /\ u[k-1].to = "ESCALATED" => u[k].by \in SystemAdmins
    <2>1. \A k \in 2..Len(t) :
             /\ \/ t[k].to \in D!Transitions[t[k-1].to] /\ t[k].from = t[k-1].to
                \/ t[k].to = "ESCALATED" /\ t[k-1].to \in D!Escalatable
             /\ t[k-1].to = "ESCALATED" => t[k].by \in SystemAdmins
      BY DEF DeskInv, HistoryFollowsTable, D!HistoryFollowsTable, D!Steps
    <2> HIDE DEF t, u
    <2>2. ASSUME NEW k \in 2..Len(u)
          PROVE  /\ \/ u[k].to \in D!Transitions[u[k-1].to] /\ u[k].from = u[k-1].to
                    \/ u[k].to = "ESCALATED" /\ u[k-1].to \in D!Escalatable
                 /\ u[k-1].to = "ESCALATED" => u[k].by \in SystemAdmins
      <3>1. CASE k = Len(t) + 1
        <4>1. u[k] = e /\ u[k-1] = t[Len(t)]
          BY <1>2, <1>3, <3>1
        <4> QED BY <1>2, <4>1
      <3>2. CASE k # Len(t) + 1
        <4>1. k \in 2..Len(t) /\ u[k] = t[k] /\ u[k-1] = t[k-1]
          BY <1>2, <1>3, <3>2
        <4> QED BY <2>1, <4>1
      <3> QED BY <3>1, <3>2
    <2> QED BY <1>2, <1>3, <2>2 DEF u
  <1>7. HistoryFollowsTable'
    <2> SUFFICES ASSUME NEW j \in Issues, D!Reported(j)'
                 PROVE  LET w == issue'[j].timeline
                        IN  /\ w[Len(w)].to = issue'[j].status
                            /\ \A k \in 2..Len(w) :
                                 /\ \/ w[k].to \in D!Transitions[w[k-1].to] /\ w[k].from = w[k-1].to
                                    \/ w[k].to = "ESCALATED" /\ w[k-1].to \in D!Escalatable
                                 /\ w[k-1].to = "ESCALATED" => w[k].by \in SystemAdmins
      BY DEF HistoryFollowsTable, D!HistoryFollowsTable, D!Steps
    <2>1. CASE j = i
      BY <1>6, <2>1
    <2>2. CASE j # i
      BY <1>4, <2>2 DEF DeskInv, HistoryFollowsTable, D!HistoryFollowsTable, D!Steps
    <2> QED BY <2>1, <2>2
  <1> QED BY <1>5, <1>7

(* A request begins or ends: the timelines stay.                            *)
LEMMA RequestKeepsDesk ==
  ASSUME DeskInv, NEW a \in D!Staff, NEW r, r \in D!Request \cup {D!NoRequest},
         req' = [req EXCEPT ![a] = r], UNCHANGED <<seq, issue, create>>,
         r.pc # "idle" => D!Reported(r.issue),
         r.pc = "status" => /\ r.to \in D!Transitions[r.read]
                            /\ r.read = "ESCALATED" => a \in SystemAdmins
  PROVE  DeskInv'
  <1>1. D!TypeOK'
    BY DEF DeskInv, D!TypeOK
  <1>2. ReadsFollowTable'
    BY DEF DeskInv, D!TypeOK, ReadsFollowTable, D!Reported
  <1>3. TimelineBegun' /\ HistoryFollowsTable'
    BY DEF DeskInv, TimelineBegun, D!Reported, HistoryFollowsTable, D!HistoryFollowsTable, D!Steps
  <1> QED BY <1>1, <1>2, <1>3 DEF DeskInv

(* The steps of a report before it is stored.                               *)
LEMMA ReportSteps ==
  ASSUME DeskInv, NEW i \in Issues,
         (\E b \in Buildings : D!Locate(i, b)) \/ D!UploadFails(i) \/ D!NextTicketCode(i)
  PROVE  DeskInv'
  <1>1. UNCHANGED <<issue, req>>
    BY DEF D!Locate, D!UploadFails, D!NextTicketCode
  <1>2. create[i].pc # "idle" => create[i] \in D!Create
    BY DEF DeskInv, D!TypeOK, D!NoRequest
  <1>3. D!TypeOK'
    <2>1. CASE \E b \in Buildings : D!Locate(i, b)
      BY <1>1, <2>1 DEF DeskInv, D!TypeOK, D!Locate, D!Create
    <2>2. CASE D!UploadFails(i)
      BY <1>1, <1>2, <2>2 DEF DeskInv, D!TypeOK, D!UploadFails, D!Create
    <2>3. CASE D!NextTicketCode(i)
      <3> DEFINE d == [create[i] EXCEPT !.pc = "coded", !.code = seq + 1]
      <3>1. create' = [create EXCEPT ![i] = d] /\ seq' = seq + 1
        BY <2>3 DEF D!NextTicketCode
      <3>2. d \in D!Create
        <4>1. create[i] \in D!Create /\ seq + 1 \in Nat
          BY <1>2, <2>3 DEF DeskInv, D!TypeOK, D!NextTicketCode
        <4> QED BY <4>1 DEF D!Create
      <3> HIDE DEF d
      <3> QED BY <1>1, <3>1, <3>2 DEF DeskInv, D!TypeOK
    <2> QED BY <2>1, <2>2, <2>3
  <1>4. ReadsFollowTable' /\ TimelineBegun' /\ HistoryFollowsTable'
    BY <1>1 DEF DeskInv, ReadsFollowTable, TimelineBegun, D!Reported,
                HistoryFollowsTable, D!HistoryFollowsTable, D!Steps
  <1> QED BY <1>3, <1>4 DEF DeskInv

(* A ticket is stored with the first entry of its timeline.                 *)
LEMMA InsertStep == ASSUME DeskInv, NEW i \in Issues, D!Insert(i) PROVE DeskInv'
  <1> DEFINE first == [by |-> Reporter, from |-> "NONE", to |-> "PENDING"]
             new == [code |-> create[i].code, building |-> create[i].building,
                     status |-> "PENDING", assignee |-> NoOne, escalated |-> FALSE,
                     timeline |-> <<first>>]
  <1>1. create[i] \in D!Create /\ issue' = [issue EXCEPT ![i] = new]
        /\ create' = [create EXCEPT ![i].pc = "over"] /\ UNCHANGED <<seq, req>>
    BY DEF DeskInv, D!TypeOK, D!NoRequest, D!Insert
  <1>2. first \in D!Entry
    BY DEF D!Entry, D!Status
  <1>3. <<first>> \in Seq(D!Entry) /\ Len(<<first>>) = 1 /\ <<first>>[1] = first
    BY <1>2
  <1>4. new \in D!Issue
    BY <1>1, <1>3 DEF D!Issue, D!Create, D!Status
  <1>5. new # D!NotReported /\ new.timeline = <<first>> /\ new.status = "PENDING"
    BY DEF D!NotReported
  <1> HIDE DEF new
  <1>6. D!TypeOK'
    BY <1>1, <1>4 DEF DeskInv, D!TypeOK, D!Create
  <1>7. /\ issue'[i] = new /\ \A j \in Issues : j # i => issue'[j] = issue[j]
        /\ \A j \in Issues : D!Reported(j) => D!Reported(j)'
    BY <1>1, <1>5 DEF DeskInv, D!TypeOK, D!Reported
  <1>8. ReadsFollowTable'
    BY <1>1, <1>7 DEF DeskInv, ReadsFollowTable, D!TypeOK, D!Request, D!NoRequest
  <1>9. TimelineBegun'
    BY <1>3, <1>5, <1>7 DEF DeskInv, TimelineBegun, D!Reported
  <1>10. HistoryFollowsTable'
    <2> SUFFICES ASSUME NEW j \in Issues, D!Reported(j)'
                 PROVE  LET w == issue'[j].timeline
                        IN  /\ w[Len(w)].to = issue'[j].status
                            /\ \A k \in 2..Len(w) :
                                 /\ \/ w[k].to \in D!Transitions[w[k-1].to] /\ w[k].from = w[k-1].to
                                    \/ w[k].to = "ESCALATED" /\ w[k-1].to \in D!Escalatable
                                 /\ w[k-1].to = "ESCALATED" => w[k].by \in SystemAdmins
      BY DEF HistoryFollowsTable, D!HistoryFollowsTable, D!Steps
    <2>1. CASE j = i
      <3>1. /\ issue'[j].timeline = <<first>> /\ issue'[j].status = "PENDING"
            /\ first.to = "PENDING"
        BY <1>5, <1>7, <2>1
      <3> HIDE DEF first
      <3> QED BY <1>3, <3>1
    <2>2. CASE j # i
      BY <1>7, <2>2 DEF DeskInv, HistoryFollowsTable, D!HistoryFollowsTable, D!Reported, D!Steps
    <2> QED BY <2>1, <2>2
  <1> QED BY <1>6, <1>8, <1>9, <1>10 DEF DeskInv

(* An administrator reads a ticket, or finds that its write does not match. *)
LEMMA AdminReads ==
  ASSUME DeskInv, NEW a \in D!Staff,
         \/ \E i \in Issues, to \in D!Status : D!ReadForStatus(a, i, to)
         \/ \E i \in Issues : D!ReadForEscalation(a, i)
         \/ D!Conflict(a)
  PROVE  DeskInv'
  <1>1. ASSUME NEW i \in Issues, NEW to \in D!Status, D!ReadForStatus(a, i, to) PROVE DeskInv'
    <2> DEFINE r == [pc |-> "status", issue |-> i, read |-> issue[i].status,
                     unassigned |-> issue[i].assignee = NoOne, to |-> to]
    <2>1. issue[i] \in D!Issue
      BY <1>1 DEF DeskInv, D!TypeOK, D!ReadForStatus, D!Reported
    <2>2. r \in D!Request
      BY <2>1 DEF D!Request, D!Issue
    <2>3. r.to \in D!Transitions[r.read] /\ (r.read = "ESCALATED" => a \in SystemAdmins)
      BY <1>1 DEF D!ReadForStatus
    <2>4. req' = [req EXCEPT ![a] = r] /\ UNCHANGED <<seq, issue, create>> /\ D!Reported(r.issue)
      BY <1>1 DEF D!ReadForStatus
    <2> HIDE DEF r
    <2> QED BY <2>2, <2>3, <2>4, RequestKeepsDesk
  <1>2. ASSUME NEW i \in Issues, D!ReadForEscalation(a, i) PROVE DeskInv'
    <2> DEFINE r == [pc |-> "escalate", issue |-> i, read |-> issue[i].status,
                     unassigned |-> issue[i].assignee = NoOne, to |-> "ESCALATED"]
    <2>1. issue[i] \in D!Issue
      BY <1>2 DEF DeskInv, D!TypeOK, D!ReadForEscalation, D!Reported
    <2>2. r \in D!Request /\ r.pc # "status"
      BY <2>1 DEF D!Request, D!Issue, D!Status
    <2>3. req' = [req EXCEPT ![a] = r] /\ UNCHANGED <<seq, issue, create>> /\ D!Reported(r.issue)
      BY <1>2 DEF D!ReadForEscalation
    <2> HIDE DEF r
    <2> QED BY <2>2, <2>3, RequestKeepsDesk
  <1>3. CASE D!Conflict(a)
    BY <1>3, RequestKeepsDesk DEF D!Conflict, D!NoRequest
  <1> QED BY <1>1, <1>2, <1>3

(* The write of a status and the write of an escalation.                    *)
LEMMA AdminWrites ==
  ASSUME DeskInv, NEW a \in D!Staff, D!WriteStatus(a) \/ D!Escalate(a) PROVE DeskInv'
  <1> DEFINE r == req[a]
             i == r.issue
  <1>0. r \in D!Request /\ i \in Issues /\ D!Reported(i) /\ issue[i] \in D!Issue
    <2>1. /\ req \in [D!Staff -> D!Request \cup {D!NoRequest}]
          /\ issue \in [Issues -> D!Issue \cup {D!NotReported}] /\ ReadsFollowTable
      BY DEF DeskInv, D!TypeOK
    <2>2. r.pc \in {"status", "escalate"}
      BY DEF D!WriteStatus, D!Escalate
    <2>3. r \in D!Request /\ i \in Issues
      BY <2>1, <2>2 DEF D!NoRequest, D!Request
    <2>4. D!Reported(i)
      BY <2>1, <2>2, <2>3 DEF ReadsFollowTable
    <2> QED
      BY <2>1, <2>3, <2>4 DEF D!Reported
  <1>1. req' = [req EXCEPT ![a] = D!NoRequest] /\ UNCHANGED <<seq, create>>
    BY DEF D!WriteStatus, D!Escalate
  <1>2. ASSUME NEW d \in D!Issue, NEW e \in D!Entry, issue' = [issue EXCEPT ![i] = d],
               d.timeline = Append(issue[i].timeline, e), d.status = e.to,
               \/ e.to \in D!Transitions[issue[i].status] /\ e.from = issue[i].status
               \/ e.to = "ESCALATED" /\ issue[i].status \in D!Escalatable,
               issue[i].status = "ESCALATED" => e.by \in SystemAdmins
        PROVE  DeskInv'
    <2>1. d # D!NotReported
      BY DEF D!Issue, D!NotReported
    <2>2. /\ issue' \in [Issues -> D!Issue \cup {D!NotReported}] /\ issue'[i] = d
          /\ \A j \in Issues : j # i => issue'[j] = issue[j]
      BY <1>0, <1>2 DEF DeskInv, D!TypeOK
    <2>3. TimelineBegun' /\ HistoryFollowsTable'
      <3> HIDE DEF i, r
      <3> QED BY <1>0, <1>2, <2>1, <2>2, TimelineGrows
    <2>4. D!TypeOK'
      BY <1>1, <2>2 DEF DeskInv, D!TypeOK
    <2>5. \A j \in Issues : D!Reported(j)' <=> D!Reported(j)
      BY <1>0, <2>1, <2>2 DEF D!Reported
    <2>6. ReadsFollowTable'
      BY <1>1, <2>5 DEF DeskInv, ReadsFollowTable, D!TypeOK, D!Request, D!NoRequest
    <2> QED BY <2>3, <2>4, <2>6 DEF DeskInv
  <1>3. issue[i].timeline \in Seq(D!Entry)
    BY <1>0 DEF D!Issue
  <1>4. CASE D!WriteStatus(a)
    <2> DEFINE e == [by |-> a, from |-> r.read, to |-> r.to]
               d == [issue[i] EXCEPT !.status = r.to,
                        !.assignee = IF r.to = "IN_PROGRESS" /\ r.unassigned THEN a ELSE @,
                        !.timeline = Append(issue[i].timeline, e)]
    <2>1. /\ r.to \in D!Transitions[r.read] /\ issue[i].status = r.read
          /\ r.read = "ESCALATED" => a \in SystemAdmins
      BY <1>4 DEF D!WriteStatus, DeskInv, ReadsFollowTable
    <2>2. e \in D!Entry
      BY <1>0 DEF D!Entry, D!Request
    <2>3. Append(issue[i].timeline, e) \in Seq(D!Entry)
      BY <1>3, <2>2
    <2>4. d \in D!Issue /\ d.timeline = Append(issue[i].timeline, e) /\ d.status = e.to
      <3> HIDE DEF e
      <3>1. e.to = r.to
        BY DEF e
      <3> QED BY <1>0, <2>3, <3>1 DEF D!Issue, D!Request
    <2>5. issue' = [issue EXCEPT ![i] = d]
      BY <1>4 DEF D!WriteStatus, D!Push
    <2>6. e.to = r.to /\ e.from = r.read /\ e.by = a
      OBVIOUS
    <2> HIDE DEF d, e
    <2> QED BY <1>2, <2>1, <2>2, <2>4, <2>5, <2>6
  <1>5. CASE D!Escalate(a)
    <2> DEFINE e == [by |-> a, from |-> r.read, to |-> "ESCALATED"]
               d == [issue[i] EXCEPT !.status = "ESCALATED", !.escalated = TRUE,
                        !.timeline = Append(issue[i].timeline, e)]
    <2>1. issue[i].status \in D!Escalatable /\ issue[i].status # "ESCALATED"
      BY <1>5 DEF D!Escalate, D!Escalatable
    <2>2. e \in D!Entry
      BY <1>0 DEF D!Entry, D!Request, D!Status
    <2>3. Append(issue[i].timeline, e) \in Seq(D!Entry)
      BY <1>3, <2>2
    <2>4. d \in D!Issue /\ d.timeline = Append(issue[i].timeline, e) /\ d.status = "ESCALATED"
      <3> HIDE DEF e
      <3> QED BY <1>0, <2>3 DEF D!Issue, D!Status
    <2>5. issue' = [issue EXCEPT ![i] = d]
      BY <1>5 DEF D!Escalate, D!Push
    <2>6. e.to = "ESCALATED"
      OBVIOUS
    <2> HIDE DEF d, e
    <2> QED BY <1>2, <2>1, <2>2, <2>4, <2>5, <2>6
  <1> QED BY <1>4, <1>5

(* Every step of the desk keeps the invariant.                              *)
LEMMA DeskStep == DeskInv /\ [D!Next]_(D!vars) => DeskInv'
  <1> SUFFICES ASSUME DeskInv, [D!Next]_(D!vars) PROVE DeskInv'
    OBVIOUS
  <1>1. CASE UNCHANGED D!vars
    BY <1>1 DEF D!vars, DeskInv, D!TypeOK, ReadsFollowTable, TimelineBegun, D!Reported,
                HistoryFollowsTable, D!HistoryFollowsTable, D!Steps
  <1> QED
    BY <1>1, ReportSteps, InsertStep, AdminReads, AdminWrites DEF D!Next

(* What a request read allowed what it writes, and every timeline has a     *)
(* beginning, for any number of tickets and administrators.                 *)
THEOREM DeskInvariant == BuildingSpec => []DeskInv
  <1>1. D!Init => DeskInv
    BY DEF D!Init, DeskInv, D!TypeOK, D!NoRequest, ReadsFollowTable, TimelineBegun, D!Reported,
           HistoryFollowsTable, D!HistoryFollowsTable
  <1> QED
    BY <1>1, DeskStep, PartsOfBuilding, PTL DEF D!Spec

(* Administrators acting on stale reads never skip a step of the table, for *)
(* any number of tickets, administrators and entries.                       *)
THEOREM TimelineFollowsTable == BuildingSpec => []HistoryFollowsTable
  BY DeskInvariant, PTL DEF DeskInv

-----------------------------------------------------------------------------
(* Notices                                                                  *)

(* Every recipient of notice e has it, or had it, in the inbox, unless its  *)
(* text is blank.                                                           *)
Stored(e) == notice[e].blank \/ \A u \in notice[e].to : mail[e][u] # "none"

(* The dispatcher of e is past a step that stores.                          *)
PastStore(e) == \E n \in 1..(notice[e].step - 1) : N!Plan[notice[e].kind][n] = "store"

(* What left the server was stored before: the dispatcher goes on past a    *)
(* failed store for no kind that alerts, and hands over to a sender last.   *)
StoredFirst ==
    \A e \in Events :
        /\ notice[e].pc # "over" => send[e] = N!NoSender
        /\ notice[e].pc = "run" => /\ notice[e].step \in 1..Len(N!Plan[notice[e].kind])
                                   /\ PastStore(e) => Stored(e)
        /\ send[e].all # <<>> => Stored(e)
        /\ \A t \in Tokens : <<e, t>> \in pushed => notice[e] # N!NotSent /\ Stored(e)
        /\ e \in heard => /\ notice[e] # N!NotSent
                          /\ notice[e].kind = "SUSPENDED" \/ Stored(e)

(* The tokens a ticket calls dead are: no token comes back to life.         *)
DeadStayDead == \A e \in Events : N!DeadTokens(e) \cap live = {}

NoticeInv == N!NoticesTypeOK /\ StoredFirst /\ DeadStayDead

(* What holds of the plan of every kind: its first step is the first, a     *)
(* push is the last and comes after a store, and so does an event on a      *)
(* socket, unless the account is suspended.                                 *)
LEMMA PlanFacts ==
  \A k \in N!Kinds :
      /\ Len(N!Plan[k]) \in Nat \ {0}
      /\ k = "ISSUE" => Len(N!Plan[k]) = 1
      /\ \A n \in 1..Len(N!Plan[k]) :
           /\ N!Plan[k][n] = "push" => n = Len(N!Plan[k])
           /\ N!Plan[k][n] = "push" \/ (N!Plan[k][n] = "socket" /\ k # "SUSPENDED") =>
                \E m \in 1..(n - 1) : N!Plan[k][m] = "store"
  <1> USE DEF N!Plan, N!NotifyPackageDropOff, N!NotifyPackageOtpReissued, N!NotifyPackageExpiring,
        N!NotifyPackageOverdue, N!NotifyAdminsPackageOverdue, N!NotifyAccountSuspended,
        N!NotifyResidentApprovalResult, N!BroadcastToBuilding, N!NotifyNewResident, N!NotifyUsers
  <1>1. N!Kinds = {"DROP_OFF", "OTP_REISSUED", "EXPIRING", "OVERDUE", "ADMINS_OVERDUE",
                   "SUSPENDED", "APPROVAL", "BROADCAST", "NEW_RESIDENT", "ISSUE"}
    BY DEF N!Kinds
  <1>2. \A k \in N!Kinds :
            \/ k # "ISSUE" /\ N!Plan[k] = <<"store", "socket", "push">>
            \/ k # "ISSUE" /\ N!Plan[k] = <<"store", "push">>
            \/ k # "ISSUE" /\ N!Plan[k] = <<"store", "socket">>
            \/ N!Plan[k] = <<"store">>
            \/ k = "SUSPENDED" /\ N!Plan[k] = <<"socket", "store", "push">>
    BY <1>1
  <1> HIDE DEF N!Plan
  <1> DEFINE AfterStore(q, n) == \E m \in 1..(n - 1) : q[m] = "store"
             Last(q) == \A n \in 1..Len(q) : q[n] = "push" => n = Len(q) /\ AfterStore(q, n)
             Stores(q) == \A n \in 1..Len(q) : q[n] = "socket" => AfterStore(q, n)
  <1>3. ASSUME NEW k \in N!Kinds
        PROVE  /\ Len(N!Plan[k]) \in Nat \ {0}
               /\ k = "ISSUE" => Len(N!Plan[k]) = 1
               /\ Last(N!Plan[k])
               /\ k # "SUSPENDED" => Stores(N!Plan[k])
    <2>1. CASE k # "ISSUE" /\ N!Plan[k] = <<"store", "socket", "push">>
      BY <2>1
    <2>2. CASE k # "ISSUE" /\ N!Plan[k] = <<"store", "push">>
      BY <2>2
    <2>3. CASE k # "ISSUE" /\ N!Plan[k] = <<"store", "socket">>
      BY <2>3
    <2>4. CASE N!Plan[k] = <<"store">>
      BY <2>4
    <2>5. CASE k = "SUSPENDED" /\ N!Plan[k] = <<"socket", "store", "push">>
      BY <2>5
    <2> QED BY <1>2, <2>1, <2>2, <2>3, <2>4, <2>5
  <1> QED
    BY <1>3

(* The dispatcher goes on: its notice keeps its kind and its recipients.    *)
LEMMA DispatcherGoesOn ==
  ASSUME NoticeInv, NEW e \in Events, notice[e].pc = "run", N!Advance(e)
  PROVE  LET n == notice[e] m == notice'[e] IN
         /\ notice' \in [Events -> N!Dispatch \cup {N!NotSent}]
         /\ n # N!NotSent /\ n.kind \in N!Kinds /\ n.to \subseteq Users
         /\ m # N!NotSent /\ m.kind = n.kind /\ m.to = n.to /\ m.blank = n.blank
         /\ \/ m.pc = "over" /\ n.step = Len(N!Plan[n.kind])
            \/ m.pc = "run" /\ m.step = n.step + 1 /\ m.step \in 1..Len(N!Plan[n.kind])
         /\ \A f \in Events : f # e => notice'[f] = notice[f]
  <1>1. /\ notice[e] \in N!Dispatch /\ notice[e] # N!NotSent /\ notice[e].kind \in N!Kinds
        /\ notice[e].to \subseteq Users
        /\ notice[e].step \in 1..Len(N!Plan[notice[e].kind])
    BY DEF NoticeInv, N!NoticesTypeOK, StoredFirst, N!Dispatch, N!NotSent
  <1>2. Len(N!Plan[notice[e].kind]) \in Nat
    BY <1>1, PlanFacts
  <1>3. CASE notice[e].step = Len(N!Plan[notice[e].kind])
    <2>1. notice' = [notice EXCEPT ![e].pc = "over"]
      BY <1>3 DEF N!Advance
    <2> QED BY <1>1, <1>3, <2>1 DEF NoticeInv, N!NoticesTypeOK, N!Dispatch, N!NotSent
  <1>4. CASE notice[e].step # Len(N!Plan[notice[e].kind])
    <2> DEFINE d == [notice[e] EXCEPT !.step = notice[e].step + 1]
    <2>1. notice' = [notice EXCEPT ![e] = d]
      BY <1>4 DEF N!Advance
    <2>2. notice[e].step + 1 \in 1..Len(N!Plan[notice[e].kind])
      BY <1>1, <1>2, <1>4
    <2>3. /\ d \in N!Dispatch /\ d.pc = "run" /\ d.step = notice[e].step + 1
          /\ d.kind = notice[e].kind /\ d.to = notice[e].to /\ d # N!NotSent
          /\ d.blank = notice[e].blank
      BY <1>1, <1>2, <2>2 DEF N!Dispatch, N!NotSent
    <2> HIDE DEF d
    <2> QED BY <1>1, <2>1, <2>2, <2>3 DEF NoticeInv, N!NoticesTypeOK
  <1> QED BY <1>3, <1>4

(* Users and their devices: what they do unstores no notice and revives no  *)
(* token.                                                                   *)
LEMMA UserSteps ==
  ASSUME NoticeInv,
         \/ \E t \in Tokens : N!Uninstall(t)
         \/ \E u \in Users :
              \/ \E t \in Tokens : N!UpdatePushToken(u, t)
              \/ N!ClearPushToken(u) \/ N!MarkAllAsRead(u)
              \/ \E e \in Events : N!MarkAsRead(u, e) \/ N!DeleteNotification(u, e)
  PROVE  NoticeInv'
  <1>1. UNCHANGED <<heard, notice, send, pushed>> /\ live' \subseteq live
    BY DEF N!Uninstall, N!UpdatePushToken, N!ClearPushToken, N!MarkAllAsRead, N!MarkAsRead,
           N!DeleteNotification
  <1>2. token' \in [Users -> Tokens \cup {NoToken}]
    BY DEF NoticeInv, N!NoticesTypeOK, N!Uninstall, N!UpdatePushToken, N!ClearPushToken,
           N!MarkAllAsRead, N!MarkAsRead, N!DeleteNotification
  <1> DEFINE MailKept ==
        /\ mail' \in [Events -> [Users -> N!MailState]]
        /\ \A e \in Events, u \in Users : mail[e][u] # "none" => mail'[e][u] # "none"
  <1>3. MailKept
    <2>1. ASSUME NEW u \in Users, NEW e \in Events, NEW m \in {"read", "deleted"},
                 mail' = [mail EXCEPT ![e][u] = m]
          PROVE  MailKept
      <3>1. mail \in [Events -> [Users -> N!MailState]] /\ m \in N!MailState /\ m # "none"
        BY DEF NoticeInv, N!NoticesTypeOK, N!MailState
      <3> QED BY <2>1, <3>1
    <2>2. ASSUME NEW u \in Users, N!MarkAllAsRead(u) PROVE MailKept
      BY <2>2 DEF NoticeInv, N!NoticesTypeOK, N!MarkAllAsRead, N!MailState
    <2>3. CASE UNCHANGED mail
      BY <2>3 DEF NoticeInv, N!NoticesTypeOK
    <2> HIDE DEF MailKept
    <2> QED
      BY <2>1, <2>2, <2>3
      DEF N!Uninstall, N!UpdatePushToken, N!ClearPushToken, N!MarkAsRead, N!DeleteNotification
  <1>4. N!NoticesTypeOK'
    BY <1>1, <1>2, <1>3 DEF NoticeInv, N!NoticesTypeOK
  <1>5. \A e \in Events : notice[e] # N!NotSent => (Stored(e) => Stored(e)')
    BY <1>1, <1>3 DEF NoticeInv, N!NoticesTypeOK, N!Dispatch, Stored
  <1>6. \A e \in Events : PastStore(e)' <=> PastStore(e)
    BY <1>1 DEF PastStore
  <1>7. \A e \in Events : send[e].all # <<>> => notice[e] # N!NotSent
    BY DEF NoticeInv, StoredFirst, N!NotSent, N!NoSender
  <1>8. StoredFirst'
    BY <1>1, <1>5, <1>6, <1>7 DEF NoticeInv, StoredFirst, N!NotSent
  <1>9. DeadStayDead'
    <2>1. \A e \in Events : N!DeadTokens(e)' = N!DeadTokens(e)
      BY <1>1 DEF N!DeadTokens, N!Batch
    <2> QED BY <1>1, <2>1 DEF NoticeInv, DeadStayDead
  <1> QED BY <1>4, <1>8, <1>9 DEF NoticeInv

(* A step of the dispatcher that goes on: what it stored, emitted or handed *)
(* over is what the invariant says of its next step.                        *)
LEMMA DispatcherKeepsInv ==
  ASSUME NoticeInv, NEW e \in Events, notice[e].pc = "run", N!Advance(e),
         mail' \in [Events -> [Users -> N!MailState]],
         \A f \in Events, u \in Users : mail[f][u] # "none" => mail'[f][u] # "none",
         UNCHANGED <<token, live, pushed>>,
         send' \in [Events -> N!Sender],
         \A f \in Events : f # e => send'[f] = send[f],
         send'[e].tickets = <<>>,
         send'[e] = N!NoSender \/ (notice'[e].pc = "over" /\ Stored(e)),
         heard' \subseteq heard \cup {e}, heard \subseteq heard',
         e \in heard' => e \in heard \/ notice[e].kind = "SUSPENDED" \/ Stored(e),
         (PastStore(e) \/ N!Plan[notice[e].kind][notice[e].step] = "store") =>
             \/ \A u \in notice[e].to : mail'[e][u] # "none"
             \/ notice[e].blank
             \/ notice'[e].pc = "over"
  PROVE  NoticeInv'
  <1> DEFINE n == notice[e]
             m == notice'[e]
  <1>1. /\ notice' \in [Events -> N!Dispatch \cup {N!NotSent}]
        /\ n # N!NotSent /\ n.kind \in N!Kinds /\ n.to \subseteq Users
        /\ m # N!NotSent /\ m.kind = n.kind /\ m.to = n.to /\ m.blank = n.blank
        /\ m.pc = "over" \/ (/\ m.pc = "run" /\ m.step = n.step + 1
                             /\ m.step \in 1..Len(N!Plan[n.kind]))
        /\ \A f \in Events : f # e => notice'[f] = notice[f]
    BY DispatcherGoesOn
  <1>2. N!NoticesTypeOK'
    BY <1>1 DEF NoticeInv, N!NoticesTypeOK
  <1>3. \A f \in Events : notice[f] # N!NotSent => (Stored(f) => Stored(f)')
    BY SMTT(30), <1>1 DEF NoticeInv, N!NoticesTypeOK, N!Dispatch, Stored
  <1>4. \A f \in Events : f # e => (PastStore(f)' <=> PastStore(f))
    BY <1>1 DEF PastStore
  <1>5. m.pc = "run" => (PastStore(e)' =>
            PastStore(e) \/ N!Plan[notice[e].kind][notice[e].step] = "store")
    BY <1>1 DEF PastStore, NoticeInv, StoredFirst
  <1>6. m.pc = "run" => (PastStore(e)' => Stored(e)')
    BY <1>1, <1>5 DEF Stored
  <1>7. \A f \in Events : send[f].all # <<>> => notice[f] # N!NotSent
    BY DEF NoticeInv, StoredFirst, N!NotSent, N!NoSender
  <1>8. ASSUME NEW f \in Events, f # e
        PROVE  /\ notice'[f].pc # "over" => send'[f] = N!NoSender
               /\ notice'[f].pc = "run" => /\ notice'[f].step \in 1..Len(N!Plan[notice'[f].kind])
                                           /\ PastStore(f)' => Stored(f)'
               /\ send'[f].all # <<>> => Stored(f)'
               /\ \A t \in Tokens : <<f, t>> \in pushed' => notice'[f] # N!NotSent /\ Stored(f)'
               /\ f \in heard' => /\ notice'[f] # N!NotSent
                                  /\ notice'[f].kind = "SUSPENDED" \/ Stored(f)'
    BY <1>1, <1>3, <1>4, <1>7, <1>8 DEF NoticeInv, StoredFirst, N!NotSent
  <1>9. /\ m.pc # "over" => send'[e] = N!NoSender
        /\ m.pc = "run" => /\ m.step \in 1..Len(N!Plan[m.kind])
                           /\ PastStore(e)' => Stored(e)'
        /\ send'[e].all # <<>> => Stored(e)'
        /\ \A t \in Tokens : <<e, t>> \in pushed' => m # N!NotSent /\ Stored(e)'
        /\ e \in heard' => /\ m # N!NotSent
                           /\ m.kind = "SUSPENDED" \/ Stored(e)'
    BY <1>1, <1>3, <1>6 DEF NoticeInv, StoredFirst, N!NoSender
  <1>10. StoredFirst'
    BY <1>8, <1>9 DEF StoredFirst
  <1>11. DeadStayDead'
    <2>1. \A f \in Events : f # e => N!DeadTokens(f)' = N!DeadTokens(f)
      <3>1. \A f \in Events : f # e => send'[f] = send[f]
        BY <1>8
      <3>2. \A f \in Events : f # e => N!Batch(f)' = N!Batch(f)
        BY <3>1 DEF N!Batch
      <3> QED BY <3>1, <3>2 DEF N!DeadTokens
    <2>2. N!DeadTokens(e)' = {}
      BY DEF N!DeadTokens
    <2> QED BY <2>1, <2>2 DEF NoticeInv, DeadStayDead
  <1> QED BY <1>2, <1>10, <1>11 DEF NoticeInv

(* A notice is dispatched.                                                  *)
LEMMA DispatchedStep ==
  ASSUME NoticeInv, NEW e \in Events, NEW k \in N!Kinds, NEW blank \in BOOLEAN,
         NEW to \in (SUBSET Users) \ {{}}, N!Dispatched(e, k, blank, to)
  PROVE  NoticeInv'
  <1> DEFINE d == [pc |-> "run", kind |-> k, blank |-> blank, to |-> to, step |-> 1,
                   known |-> IF k \in N!KnownTokenKinds THEN N!TokensOf(to) ELSE {}]
  <1>1. notice[e] = N!NotSent /\ notice' = [notice EXCEPT ![e] = d]
        /\ UNCHANGED <<mail, token, live, heard, send, pushed>>
    BY DEF N!Dispatched
  <1>2. N!TokensOf(to) \subseteq Tokens
    BY DEF NoticeInv, N!NoticesTypeOK, N!TokensOf
  <1>3. d \in N!Dispatch /\ d # N!NotSent /\ d.pc = "run" /\ d.step = 1 /\ d.kind = k
    BY <1>2 DEF N!Dispatch, N!NotSent
  <1> HIDE DEF d
  <1>4. N!NoticesTypeOK' /\ notice'[e] = d /\ \A f \in Events : f # e => notice'[f] = notice[f]
    BY <1>1, <1>3 DEF NoticeInv, N!NoticesTypeOK
  <1>5. ~PastStore(e)'
    BY <1>3, <1>4 DEF PastStore
  <1>6. \A f \in Events : f # e => (PastStore(f)' <=> PastStore(f)) /\ (Stored(f)' <=> Stored(f))
    BY <1>1, <1>4 DEF PastStore, Stored
  <1>7. 1 \in 1..Len(N!Plan[k])
    BY PlanFacts
  <1>8. StoredFirst'
    <2>1. send[e] = N!NoSender /\ e \notin heard /\ \A t \in Tokens : <<e, t>> \notin pushed
      BY <1>1 DEF NoticeInv, StoredFirst, N!NotSent
    <2>2. send[e].all = <<>>
      BY <2>1 DEF N!NoSender
    <2> QED BY <1>1, <1>3, <1>4, <1>5, <1>6, <1>7, <2>1, <2>2 DEF NoticeInv, StoredFirst
  <1>9. DeadStayDead'
    <2>1. \A f \in Events : N!DeadTokens(f)' = N!DeadTokens(f)
      BY <1>1 DEF N!DeadTokens, N!Batch
    <2> QED BY <1>1, <2>1 DEF NoticeInv, DeadStayDead
  <1> QED BY <1>4, <1>8, <1>9 DEF NoticeInv

(* The steps of a dispatcher.                                               *)
LEMMA DispatcherSteps ==
  ASSUME NoticeInv, NEW e \in Events,
         N!Store(e) \/ N!DropBlank(e) \/ N!Emit(e) \/ N!PushToUser(e)
  PROVE  NoticeInv'
  <1> DEFINE n == notice[e]
             step == N!Plan[n.kind][n.step]
  <1>1. /\ n.pc = "run" /\ n # N!NotSent /\ n.kind \in N!Kinds /\ n.to \subseteq Users
        /\ n.step \in 1..Len(N!Plan[n.kind]) /\ send[e] = N!NoSender
        /\ PastStore(e) => Stored(e)
    BY DEF N!Store, N!DropBlank, N!Emit, N!PushToUser, N!Current, NoticeInv, StoredFirst, N!NoticesTypeOK,
           N!Dispatch, N!NotSent
  <1>2. step = "push" \/ (step = "socket" /\ n.kind # "SUSPENDED") => PastStore(e)
    BY <1>1, PlanFacts DEF PastStore
  <1>3. step = "push" => n.step = Len(N!Plan[n.kind])
    BY <1>1, PlanFacts
  <1>4. send \in [Events -> N!Sender] /\ send[e].tickets = <<>>
    BY <1>1 DEF NoticeInv, N!NoticesTypeOK, N!NoSender
  <1>5. CASE N!Store(e)
    <2>1. PICK stored \in SUBSET n.to :
            /\ mail' = [mail EXCEPT ![e] = [u \in Users |-> IF u \in stored THEN "unread"
                                                            ELSE mail[e][u]]]
            /\ IF stored = n.to \/ n.kind = "ISSUE" THEN N!Advance(e)
               ELSE notice' = [notice EXCEPT ![e].pc = "over"]
      BY <1>5 DEF N!Store
    <2>2. UNCHANGED <<token, live, heard, send, pushed>>
      BY <1>5 DEF N!Store
    <2>3. /\ mail' \in [Events -> [Users -> N!MailState]]
          /\ \A f \in Events, u \in Users : mail[f][u] # "none" => mail'[f][u] # "none"
          /\ \A u \in stored : mail'[e][u] # "none"
      BY <1>1, <2>1 DEF NoticeInv, N!NoticesTypeOK, N!MailState
    <2>4. CASE N!Advance(e)
      <3>1. n.kind = "ISSUE" => notice'[e].pc = "over"
        BY <1>1, <2>4, PlanFacts, DispatcherGoesOn
      <3>2. \/ \A u \in n.to : mail'[e][u] # "none"
            \/ notice'[e].pc = "over"
        <4>1. CASE stored = n.to
          BY <2>3, <4>1
        <4>2. CASE n.kind = "ISSUE"
          BY <3>1, <4>2
        <4>3. CASE stored # n.to /\ n.kind # "ISSUE"
          BY <1>1, <2>1, <4>3 DEF NoticeInv, N!NoticesTypeOK, N!Dispatch
        <4> QED BY <4>1, <4>2, <4>3
      <3>3. e \in heard => e \in heard \/ n.kind = "SUSPENDED" \/ Stored(e)
        OBVIOUS
      <3> QED BY <1>1, <1>4, <2>2, <2>3, <2>4, <3>2, DispatcherKeepsInv
    <2>5. CASE notice' = [notice EXCEPT ![e].pc = "over"]
      <3>1. /\ notice' \in [Events -> N!Dispatch \cup {N!NotSent}]
            /\ notice'[e].pc = "over" /\ notice'[e].to = n.to /\ notice'[e].kind = n.kind
            /\ notice'[e].blank = n.blank
            /\ notice'[e] # N!NotSent
            /\ \A f \in Events : f # e => notice'[f] = notice[f]
        BY Zenon, <1>1, <2>5 DEF NoticeInv, N!NoticesTypeOK, N!Dispatch, N!NotSent
      <3>2. N!NoticesTypeOK'
        BY <2>2, <2>3, <3>1 DEF NoticeInv, N!NoticesTypeOK
      <3>3. \A f \in Events : notice[f] # N!NotSent => (Stored(f) => Stored(f)')
        BY ZenonT(60), <1>1, <2>3, <3>1 DEF NoticeInv, N!NoticesTypeOK, N!Dispatch, Stored
      <3>4. \A f \in Events : f # e => (PastStore(f)' <=> PastStore(f))
        BY <3>1 DEF PastStore
      <3>5. \A f \in Events : send[f].all # <<>> => notice[f] # N!NotSent
        BY DEF NoticeInv, StoredFirst, N!NotSent, N!NoSender
      <3>6. StoredFirst'
        BY <1>1, <2>2, <3>1, <3>3, <3>4, <3>5 DEF NoticeInv, StoredFirst, N!NotSent
      <3>7. DeadStayDead'
        <4>1. \A f \in Events : N!DeadTokens(f)' = N!DeadTokens(f)
          BY <2>2 DEF N!DeadTokens, N!Batch
        <4> QED BY <2>2, <4>1 DEF NoticeInv, DeadStayDead
      <3> QED BY <3>2, <3>6, <3>7 DEF NoticeInv
    <2> QED BY <2>1, <2>4, <2>5
  <1>6. CASE N!Emit(e)
    <2>1. /\ step = "socket" /\ N!Advance(e) /\ heard' = heard \cup {e}
          /\ UNCHANGED <<mail, token, live, send, pushed>>
      BY <1>6 DEF N!Emit, N!Current
    <2>2. n.kind = "SUSPENDED" \/ Stored(e)
      BY <1>1, <1>2, <2>1
    <2>3. PastStore(e) => n.blank \/ \A u \in n.to : mail'[e][u] # "none"
      BY <1>1, <2>1 DEF Stored
    <2>4. mail' \in [Events -> [Users -> N!MailState]]
      BY <2>1 DEF NoticeInv, N!NoticesTypeOK
    <2> QED BY <1>1, <1>4, <2>1, <2>2, <2>3, <2>4, DispatcherKeepsInv
  <1>7. CASE N!PushToUser(e)
    <2>1. step = "push" /\ N!Advance(e) /\ UNCHANGED <<mail, token, live, heard, pushed>>
      BY <1>7 DEF N!PushToUser, N!Current
    <2>2. PICK to, q : /\ to \subseteq Tokens
                       /\ q \in [1..N!Cardinality(to) -> to]
                       /\ send' = [send EXCEPT ![e].all = q]
      <3>1. N!TokensOf(n.to) \subseteq Tokens /\ n.known \subseteq Tokens
        BY <1>1 DEF NoticeInv, N!NoticesTypeOK, N!TokensOf, N!Dispatch
      <3> QED BY <1>7, <3>1 DEF N!PushToUser, N!TokenOrders
    <2>3. N!Cardinality(to) \in Nat
      BY <2>2, BuildingAssumption, FS_Subset, FS_CardinalityType
      DEF N!NoticeAssumption, N!Cardinality, Cardinality, N!IsFiniteSet, IsFiniteSet
    <2>4. q \in Seq(Tokens)
      BY <2>2, <2>3
    <2>5. /\ send' \in [Events -> N!Sender] /\ send'[e].tickets = <<>>
          /\ \A f \in Events : f # e => send'[f] = send[f]
      BY <1>4, <2>2, <2>4 DEF N!Sender
    <2>6. Stored(e)
      BY <1>1, <1>2, <2>1
    <2>7. notice'[e].pc = "over"
      <3>1. notice' = [notice EXCEPT ![e].pc = "over"]
        BY <1>3, <2>1 DEF N!Advance
      <3> QED BY <1>1, <3>1 DEF NoticeInv, N!NoticesTypeOK, N!Dispatch, N!NotSent
    <2>8. mail' \in [Events -> [Users -> N!MailState]]
      BY <2>1 DEF NoticeInv, N!NoticesTypeOK
    <2> QED BY <1>1, <2>1, <2>5, <2>6, <2>7, <2>8, DispatcherKeepsInv
  <1>8. CASE N!DropBlank(e)
    <2>1. n.blank /\ N!Advance(e) /\ UNCHANGED <<mail, token, live, heard, send, pushed>>
      BY <1>8 DEF N!DropBlank
    <2>2. mail' \in [Events -> [Users -> N!MailState]]
      BY <2>1 DEF NoticeInv, N!NoticesTypeOK
    <2> QED BY <1>1, <1>4, <2>1, <2>2, DispatcherKeepsInv
  <1> QED BY <1>5, <1>6, <1>7, <1>8

(* The batch a sender is at is a sequence of tokens.                        *)
LEMMA BatchType ==
  ASSUME NoticeInv, NEW e \in Events, N!Waiting(e)
  PROVE  N!Batch(e) \in Seq(Tokens)
  <1> DEFINE s == send[e].all
             last == IF send[e].at + BatchSize < Len(s) THEN send[e].at + BatchSize ELSE Len(s)
  <1>1. s \in Seq(Tokens) /\ send[e].at \in Nat /\ Len(s) \in Nat /\ BatchSize \in Nat
    BY BuildingAssumption DEF N!NoticeAssumption, NoticeInv, N!NoticesTypeOK, N!Sender
  <1>2. last \in Int /\ last <= Len(s) /\ send[e].at + 1 \in Int
    BY <1>1
  <1>3. \A i \in send[e].at + 1..last : s[i] \in Tokens
    BY SMT, <1>1, <1>2
  <1>4. N!Batch(e) = SubSeq(s, send[e].at + 1, last)
    BY DEF N!Batch
  <1> HIDE DEF last, s
  <1> QED BY <1>2, <1>3, <1>4, SubSeqProperties

(* The steps of a sender.                                                   *)
LEMMA SenderSteps ==
  ASSUME NoticeInv, NEW e \in Events,
         N!Deliver(e) \/ N!BatchRefused(e) \/ N!SendFails(e) \/ N!RemoveUnregisteredTokens(e)
  PROVE  NoticeInv'
  <1>1. UNCHANGED <<mail, live, heard, notice>>
    BY DEF N!Deliver, N!BatchRefused, N!SendFails, N!RemoveUnregisteredTokens
  <1>2. send[e] # N!NoSender
    BY DEF N!Deliver, N!BatchRefused, N!SendFails, N!RemoveUnregisteredTokens, N!Waiting, N!NoSender
  <1>3. /\ send[e] \in N!Sender /\ notice[e].pc = "over" /\ notice[e] # N!NotSent
        /\ BatchSize \in Nat
    BY <1>2, BuildingAssumption
    DEF NoticeInv, N!NoticesTypeOK, StoredFirst, N!NoticeAssumption, N!NotSent
  <1>4. \A f \in Events : (PastStore(f)' <=> PastStore(f)) /\ (Stored(f)' <=> Stored(f))
    BY <1>1 DEF PastStore, Stored
  <1>5. ASSUME NEW d \in N!Sender, send' = [send EXCEPT ![e] = d], d.all \in {send[e].all, <<>>},
               token' \in [Users -> Tokens \cup {NoToken}],
               pushed' \subseteq Events \X Tokens,
               \A f \in Events, t \in Tokens :
                   <<f, t>> \in pushed' => <<f, t>> \in pushed \/ (f = e /\ Stored(e)),
               d.tickets = <<>> \/ \A k \in DOMAIN d.tickets :
                                       d.tickets[k] => N!Batch(e)'[k] \notin live
        PROVE  NoticeInv'
    <2>1. /\ send' \in [Events -> N!Sender] /\ send'[e] = d
          /\ \A f \in Events : f # e => send'[f] = send[f]
      BY <1>5 DEF NoticeInv, N!NoticesTypeOK
    <2>2. N!NoticesTypeOK'
      BY <1>1, <1>5, <2>1 DEF NoticeInv, N!NoticesTypeOK
    <2>3. StoredFirst'
      BY <1>1, <1>3, <1>4, <1>5, <2>1 DEF NoticeInv, StoredFirst
    <2>4. DeadStayDead'
      <3>1. \A f \in Events : f # e => N!DeadTokens(f)' = N!DeadTokens(f)
        BY ZenonT(60), <2>1 DEF N!DeadTokens, N!Batch
      <3>2. N!DeadTokens(e)' \cap live = {}
        BY <1>5, <2>1 DEF N!DeadTokens
      <3> QED BY <1>1, <3>1, <3>2 DEF NoticeInv, DeadStayDead
    <2> QED BY <2>2, <2>3, <2>4 DEF NoticeInv
  <1>6. token \in [Users -> Tokens \cup {NoToken}] /\ pushed \subseteq Events \X Tokens
    BY DEF NoticeInv, N!NoticesTypeOK
  <1>7. CASE N!Deliver(e)
    <2> DEFINE b == N!Batch(e)
               tickets == [k \in DOMAIN b |-> b[k] \notin live]
               d == [send[e] EXCEPT !.tickets = tickets]
    <2>1. /\ send' = [send EXCEPT ![e] = d] /\ UNCHANGED token /\ N!Waiting(e)
          /\ pushed' = pushed \cup {<<e, t>> : t \in N!ToSet(b) \cap live}
      BY <1>7 DEF N!Deliver
    <2>2. b \in Seq(Tokens)
      BY <2>1, BatchType
    <2>3. tickets \in Seq(BOOLEAN)
      <3> HIDE DEF b
      <3>1. DOMAIN b = 1..Len(b) /\ Len(b) \in Nat
        BY <2>2
      <3>2. tickets \in [1..Len(b) -> BOOLEAN]
        BY <3>1
      <3> HIDE DEF tickets
      <3> QED BY <3>1, <3>2
    <2>4. d \in N!Sender /\ d.all = send[e].all /\ d.tickets = tickets /\ d.at = send[e].at
      <3> HIDE DEF tickets
      <3> QED BY <1>3, <2>3 DEF N!Sender
    <2>5. N!Batch(e)' = b
      <3> HIDE DEF d
      <3>1. send'[e].all = send[e].all /\ send'[e].at = send[e].at
        BY <2>1, <2>4 DEF NoticeInv, N!NoticesTypeOK
      <3> QED BY <3>1 DEF N!Batch
    <2>6. \A k \in DOMAIN d.tickets : d.tickets[k] => N!Batch(e)'[k] \notin live
      <3> HIDE DEF d, b
      <3> QED BY <2>4, <2>5
    <2>7. Stored(e)
      <3>1. send[e].all # <<>>
        BY <1>3, <2>1 DEF N!Waiting, N!Sender
      <3> QED BY <3>1 DEF NoticeInv, StoredFirst
    <2> HIDE DEF d, b
    <2>8. /\ pushed' \subseteq Events \X Tokens
          /\ \A f \in Events, t \in Tokens :
                <<f, t>> \in pushed' => <<f, t>> \in pushed \/ (f = e /\ Stored(e))
      BY <1>6, <2>1, <2>7 DEF NoticeInv, N!NoticesTypeOK
    <2> QED BY <1>5, <1>6, <2>1, <2>4, <2>6, <2>8
  <1>8. CASE N!BatchRefused(e)
    <2> DEFINE d == [send[e] EXCEPT !.at = send[e].at + BatchSize]
    <2>1. /\ send' = [send EXCEPT ![e] = d] /\ UNCHANGED <<token, pushed>>
          /\ send[e].tickets = <<>>
      BY <1>8 DEF N!BatchRefused, N!Waiting
    <2>2. d \in N!Sender /\ d.all = send[e].all /\ d.tickets = <<>>
      BY <1>3, <2>1 DEF N!Sender
    <2> HIDE DEF d
    <2> QED BY <1>5, <1>6, <2>1, <2>2
  <1>9. CASE N!SendFails(e)
    <2>1. send' = [send EXCEPT ![e] = N!NoSender] /\ UNCHANGED <<token, pushed>>
      BY <1>9 DEF N!SendFails
    <2>2. N!NoSender \in N!Sender /\ N!NoSender.all = <<>> /\ N!NoSender.tickets = <<>>
      BY DEF N!Sender, N!NoSender
    <2> QED BY <1>5, <1>6, <2>1, <2>2
  <1>10. CASE N!RemoveUnregisteredTokens(e)
    <2> DEFINE d == [send[e] EXCEPT !.tickets = <<>>, !.at = send[e].at + BatchSize]
    <2>1. send' = [send EXCEPT ![e] = d] /\ UNCHANGED pushed
      BY <1>10 DEF N!RemoveUnregisteredTokens
    <2>2. token' \in [Users -> Tokens \cup {NoToken}]
      BY <1>6, <1>10 DEF N!RemoveUnregisteredTokens
    <2>3. d \in N!Sender /\ d.all = send[e].all /\ d.tickets = <<>>
      <3>1. send[e].at + BatchSize \in Nat /\ <<>> \in Seq(BOOLEAN)
        BY <1>3 DEF N!Sender
      <3> QED BY <1>3, <3>1 DEF N!Sender
    <2> HIDE DEF d
    <2> QED BY <1>5, <1>6, <2>1, <2>2, <2>3
  <1> QED BY <1>7, <1>8, <1>9, <1>10

(* Every step of the notices keeps the invariant.                           *)
LEMMA NoticeStep == NoticeInv /\ [N!Next]_(N!nvars) => NoticeInv'
  <1> SUFFICES ASSUME NoticeInv, [N!Next]_(N!nvars) PROVE NoticeInv'
    OBVIOUS
  <1>1. CASE UNCHANGED N!nvars
    BY ZenonT(60), <1>1 DEF N!nvars, NoticeInv, N!NoticesTypeOK, StoredFirst, Stored, PastStore,
                DeadStayDead, N!DeadTokens, N!Batch
  <1> QED
    BY <1>1, DispatchedStep, DispatcherSteps, SenderSteps, UserSteps DEF N!Next

(* Notices are stored before they alert, and no ticket calls a living token *)
(* dead, for any number of users, devices, notices and any size of batch.   *)
THEOREM NoticesInvariant == BuildingSpec => []NoticeInv
  <1>1. N!Init => NoticeInv
    <2> SUFFICES ASSUME N!Init PROVE NoticeInv
      OBVIOUS
    <2>1. N!NoSender \in N!Sender
      BY DEF N!NoSender, N!Sender
    <2>2. N!NoticesTypeOK
      BY <2>1 DEF N!Init, N!NoticesTypeOK, N!MailState
    <2>3. StoredFirst
      BY DEF N!Init, StoredFirst, N!NotSent, N!NoSender
    <2>4. DeadStayDead
      BY DEF N!Init, DeadStayDead, N!DeadTokens, N!NoSender
    <2> QED BY <2>2, <2>3, <2>4 DEF NoticeInv
  <1> QED
    BY <1>1, NoticeStep, PartsOfBuilding, PTL DEF N!Spec

(* A device that was alerted of a notice whose text the schema accepts      *)
(* finds it in the inbox, for any number of notices, recipients and devices. *)
THEOREM AlertedFindIt == BuildingSpec => []AlertIsStored
  <1>1. NoticeInv => AlertIsStored
    BY DEF NoticeInv, StoredFirst, Stored, AlertIsStored, N!AlertIsStored
  <1> QED BY <1>1, NoticesInvariant, PTL

(* No answer of Expo, however late, costs a user a token that still lives,  *)
(* for any number of devices and any size of batch.                         *)
THEOREM LiveTokensStay == BuildingSpec => LiveTokenKept
  <1> DEFINE Keeps == \A u \in Users :
                token[u] \in live /\ token'[u] = NoToken => N!ClearPushToken(u)
  <1>1. ASSUME NoticeInv, [N!Next]_(N!nvars) PROVE [Keeps]_(N!nvars)
    <2>0. /\ token \in [Users -> Tokens \cup {NoToken}] /\ live \subseteq Tokens
          /\ NoToken \notin Tokens
      BY <1>1, BuildingAssumption DEF NoticeInv, N!NoticesTypeOK, N!NoticeAssumption
    <2>1. CASE UNCHANGED token
      BY <2>0, <2>1
    <2>2. ASSUME NEW e \in Events, N!RemoveUnregisteredTokens(e) PROVE Keeps
      <3>1. N!DeadTokens(e) \cap live = {}
        BY <1>1 DEF NoticeInv, DeadStayDead
      <3> QED BY <2>0, <2>2, <3>1 DEF N!RemoveUnregisteredTokens
    <2>3. ASSUME NEW v \in Users, NEW t \in Tokens, N!UpdatePushToken(v, t) PROVE Keeps
      BY <2>0, <2>3 DEF N!UpdatePushToken
    <2>4. ASSUME NEW v \in Users, N!ClearPushToken(v) PROVE Keeps
      <3>1. \A u \in Users : u # v => token'[u] = token[u]
        BY <2>0, <2>4 DEF N!ClearPushToken
      <3> QED BY <2>0, <2>4, <3>1
    <2> HIDE DEF Keeps
    <2>5. CASE UNCHANGED N!nvars
      BY <2>5
    <2>6. CASE N!Next
      <3>1. \/ UNCHANGED token
            \/ \E e \in Events : N!RemoveUnregisteredTokens(e)
            \/ \E u \in Users : N!ClearPushToken(u) \/ \E t \in Tokens : N!UpdatePushToken(u, t)
        BY <2>6 DEF N!Next, N!Dispatched, N!Store, N!DropBlank, N!Emit, N!PushToUser, N!Deliver, N!BatchRefused,
              N!SendFails, N!Uninstall, N!MarkAllAsRead, N!MarkAsRead, N!DeleteNotification
      <3> QED BY <2>1, <2>2, <2>3, <2>4, <3>1
    <2> QED BY <1>1, <2>5, <2>6
  <1>2. NoticeInv /\ [N!Next]_(N!nvars) => [Keeps]_(N!nvars)
    BY <1>1
  <1> QED
    BY <1>2, NoticesInvariant, PartsOfBuilding, PTL DEF N!Spec, LiveTokenKept, N!LiveTokenKept
-----------------------------------------------------------------------------
(* Every variable of every part of the building keeps its type: the type    *)
(* invariant of each part is part of its inductive invariant.               *)
THEOREM TypesOfTheBuilding == BuildingSpec => []BuildingTypes
  <1>1. /\ DeskInv /\ NoticeInv /\ InvoiceInv /\ StationInv /\ DeadlineInv /\ TypeOK
        => BuildingTypes
    BY DEF DeskInv, NoticeInv, InvoiceInv, StationInv, StationTypes, DeadlineInv, DeadlineTypes,
           BuildingTypes
  <1> QED
    BY <1>1, DeskInvariant, NoticesInvariant, InvoicesInvariant, StationInvariant,
       DeadlineInvariant, PartsOfBuilding, TypeCorrect, PTL
=============================================================================
