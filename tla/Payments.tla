------------------------------ MODULE Payments ------------------------------
(***************************************************************************)
(* Payment orders of one resident: the storage fee of one package and the   *)
(* monthly plan.  Intents open, reuse or replace an order; webhooks record  *)
(* bank transfers and settle it; a paid order is then fulfilled, by the     *)
(* webhook or by the kiosk that waits for it.                               *)
(*                                                                          *)
(* Every await on the database is a step of its own.  Orders, the package   *)
(* and the subscription survive a restart, the requests and webhooks in     *)
(* flight do not.  What the fee is, is StoragePricing's: here an intent     *)
(* finds any fee of Fees.  Who pays for a package is its resident, also     *)
(* where a manager asked for the intent.  Access checks, QR codes and the   *)
(* content of logs are left out.                                            *)
(***************************************************************************)
EXTENDS Integers, Sequences, FiniteSets, FiniteSetsExt

CONSTANTS
    Requests,     \* createPaymentIntent and createSubscriptionIntent in flight
    Transfers,    \* bank transactions; the gateway may repeat each at any time
    Kinds,        \* of the orders of this instance
    Fees,         \* fees an intent may find due
    Amounts,      \* amounts a payer transfers
    MaxOrders,    \* bound: orders created
    MaxFaults     \* bound: calls that throw and restarts

(* createPaymentIntent takes the paymentType it is given: an order with a   *)
(* packageId may be one for the monthly plan.                               *)
ASSUME KindsAssumption == Kinds \subseteq {"package", "planOnPackage", "subscription"}

ASSUME AmountsAssumption ==
    /\ Fees \subseteq Nat \ {0} /\ Amounts \subseteq Nat \ {0}
    /\ MaxOrders \in Nat /\ MaxFaults \in Nat

ASSUME FiniteAssumption == IsFiniteSet(Requests) /\ IsFiniteSet(Transfers)

VARIABLES
    order,       \* the payments collection; the order code is the index
    request,     \* the intents in flight
    transfer,    \* the transfers payers have made
    hook,        \* the webhook that recorded each transfer and still has to settle
    run,         \* what completes an order: its settling call, and the kiosk's
    pkg,         \* the package the fees are for
    extended,    \* thirty-day extensions of the subscription
    faults

vars == <<order, request, transfer, hook, run, pkg, extended, faults>>
----------------------------------------------------------------------------
OrderCodes == 1 .. MaxOrders

Flows == {"kiosk", "remote"}      \* isKiosk
FlowOptions == Flows \cup {"unset"}

(* EXPIRED is declared too, and never written.                              *)
PaymentStatus == {"PENDING", "PAID", "CANCELLED"}

(* The orders an intent of this kind looks for: those with the packageId,   *)
(* or those of the resident with the paymentType of the plan.               *)
Sought(kind) == IF kind = "subscription" THEN {"subscription", "planOnPackage"}
                ELSE {"package", "planOnPackage"}

(* The receipts of an order: how often each transaction id is in the list.  *)
Receipts == [Transfers -> Nat]
NoReceipts == [t \in Transfers |-> 0]

(* relabelled is history: the flow was changed after the order was paid, or *)
(* under a call of the device that had read it.                             *)
Order == [kind: Kinds, status: PaymentStatus, amount: Nat, flow: Flows,
          relabelled: BOOLEAN, received: Nat, receipts: Receipts]

Request == [pc: {"idle", "find", "save", "collect", "cancel", "create", "settle"},
            kind: Kinds \cup {"none"}, fee: Nat, flow: FlowOptions,
            target: OrderCodes \cup {0}, credit: Nat, receipts: Receipts]

NoRequest == [pc |-> "idle", kind |-> "none", fee |-> 0, flow |-> "unset",
              target |-> 0, credit |-> 0, receipts |-> NoReceipts]

Transfer == [order: OrderCodes, amount: Nat, gateway: BOOLEAN]
NotMade == [order |-> 0, amount |-> 0, gateway |-> FALSE]

Callers == {"webhook", "device"}

PackageStatus == {"WAITING_FOR_PICKUP", "OVERDUE", "PICKED_UP", "RETURNED"}
PickupableStatuses == {"WAITING_FOR_PICKUP", "OVERDUE"}

Run == [pc: {"none", "subscriber", "saveSubscriber", "kiosk", "claim",
             "remote", "update", "fallback", "done"},
        flow: FlowOptions, status: PackageStatus, extended: Nat]

NoRun == [pc |-> "none", flow |-> "unset", status |-> "OVERDUE", extended |-> 0]

TypeOK ==
    /\ order \in Seq(Order) /\ Len(order) <= MaxOrders
    /\ request \in [Requests -> Request]
    /\ transfer \in [Transfers -> Transfer \cup {NotMade}]
    /\ hook \in [Transfers -> {"none", "settle"}]
    /\ run \in [OrderCodes \X Callers -> Run]
    /\ pkg \in [status: PackageStatus, extended: Nat, totalFeePaid: Nat]
    /\ extended \in Nat
    /\ faults \in Nat

Init ==
    /\ order = <<>>
    /\ request = [r \in Requests |-> NoRequest]
    /\ transfer = [t \in Transfers |-> NotMade]
    /\ hook = [t \in Transfers |-> "none"]
    /\ run = [c \in OrderCodes \X Callers |-> NoRun]
    /\ pkg = [status |-> "WAITING_FOR_PICKUP", extended |-> 0, totalFeePaid |-> 0]
    /\ extended = 0
    /\ faults = 0
----------------------------------------------------------------------------
(* Mutant: any money settles an order.                                      *)
IsPaidAtAll(amount, received) == received > 0

(* Mutant: the exact amount is not enough.                                  *)
IsPaidBeyond(amount, received) == received > amount

IsFullyPaid(amount, received) == received >= amount

Pending(kind) ==
    {o \in DOMAIN order : order[o].status = "PENDING" /\ order[o].kind \in Sought(kind)}

(* What settles an order starts completePaidPayment in the same call; the   *)
(* flow is the one of the document the settlement returned.  The log of the *)
(* payment, which comes first, is part of the first read of the completion. *)
Completion(o) ==
    [NoRun EXCEPT !.pc = IF order[o].kind = "package" THEN order[o].flow
                         ELSE "subscriber",
                  !.flow = order[o].flow]

Settled(o, received) ==
    /\ order' = [order EXCEPT ![o].status = "PAID", ![o].received = received]
    /\ run' = [run EXCEPT ![<<o, "webhook">>] = Completion(o)]
----------------------------------------------------------------------------
(* createPaymentIntent and createSubscriptionIntent                         *)

StartIntent(r, kind, flow) ==
    /\ request[r] = NoRequest
    /\ kind \in Kinds
    /\ Len(order) + Cardinality({q \in Requests : request[q] # NoRequest}) < MaxOrders
    /\ \E fee \in Fees :
         request' = [request EXCEPT ![r] = [NoRequest EXCEPT !.pc = "find",
                                            !.kind = kind, !.fee = fee, !.flow = flow]]
    /\ UNCHANGED <<order, transfer, hook, run, pkg, extended, faults>>

(* The reads: the fee due.  The package's status is not looked at.  Lockers *)
(* and cameras ask for the fee of the package, the app for any paymentType. *)
CreatePaymentIntent(r) ==
    \/ \E flow \in FlowOptions : StartIntent(r, "package", flow)
    \/ StartIntent(r, "planOnPackage", "unset")

(* The fee of the plan is the building's, which its managers may change.    *)
CreateSubscriptionIntent(r) == StartIntent(r, "subscription", "unset")

(* The latest pending order: reused when its amount is the fee, replaced    *)
(* when it is not.  The save writes isKiosk only if it changes it.          *)
FindPending(r) ==
    LET q == request[r] IN
    /\ q.pc = "find"
    /\ \/ /\ Pending(q.kind) = {}
          /\ request' = [request EXCEPT ![r].pc = "create"]
       \/ \E o \in Pending(q.kind) :
            /\ \A p \in Pending(q.kind) : p <= o
            /\ request' = [request EXCEPT ![r] =
                 IF order[o].amount # q.fee THEN [q EXCEPT !.pc = "collect"]
                 ELSE [q EXCEPT !.pc = "save", !.target = o,
                         !.flow = IF q.flow = order[o].flow THEN "unset" ELSE q.flow]]
    /\ UNCHANGED <<order, transfer, hook, run, pkg, extended, faults>>

(* Its flow has been read already: by a settlement or a call of the device. *)
IsInUse(o) == order[o].status = "PAID" \/ run[<<o, "device">>].pc \in {"kiosk", "claim"}

SavePending(r) ==
    LET q == request[r] IN
    /\ q.pc = "save" /\ q.kind # "subscription"
    /\ order' = IF q.flow \in {"unset", order[q.target].flow} THEN order
                ELSE [order EXCEPT ![q.target].flow = q.flow,
                                   ![q.target].relabelled = @ \/ IsInUse(q.target)]
    /\ request' = [request EXCEPT ![r] = NoRequest]
    /\ UNCHANGED <<transfer, hook, run, pkg, extended, faults>>

(* A subscription order is renewed: its deadline and its building, which    *)
(* nothing that settles it looks at.                                        *)
RenewSubscription(r) ==
    /\ request[r].pc = "save" /\ request[r].kind = "subscription"
    /\ request' = [request EXCEPT ![r] = NoRequest]
    /\ UNCHANGED <<order, transfer, hook, run, pkg, extended, faults>>

(* What the orders have received, and for which transfers.                  *)
SumCredit(orders) ==
    [received |-> SumFunction([o \in orders |-> order[o].received]),
     receipts |-> [t \in Transfers |-> SumFunction([o \in orders |-> order[o].receipts[t]])]]

(* cancelPendingAndCollectCredit: find, then updateMany.                    *)
CollectCredit(r) ==
    LET credit == SumCredit(Pending(request[r].kind)) IN
    /\ request[r].pc = "collect"
    /\ request' = [request EXCEPT ![r].pc = "cancel", ![r].credit = credit.received,
                                  ![r].receipts = credit.receipts]
    /\ UNCHANGED <<order, transfer, hook, run, pkg, extended, faults>>

(* Mutant: updateMany without the status in its filter.                     *)
CancelAll(r) ==
    LET q == request[r] IN
    /\ q.pc = "cancel"
    /\ order' = [o \in DOMAIN order |-> IF order[o].kind \in Sought(q.kind)
                                        THEN [order[o] EXCEPT !.status = "CANCELLED"]
                                        ELSE order[o]]
    /\ request' = [request EXCEPT ![r].pc = "create"]
    /\ UNCHANGED <<transfer, hook, run, pkg, extended, faults>>

(* Mutant: a status the schema does not have.                               *)
CancelAsReplaced(r) ==
    LET q == request[r] IN
    /\ q.pc = "cancel"
    /\ order' = [o \in DOMAIN order |-> IF o \in Pending(q.kind)
                                        THEN [order[o] EXCEPT !.status = "REPLACED"]
                                        ELSE order[o]]
    /\ request' = [request EXCEPT ![r].pc = "create"]
    /\ UNCHANGED <<transfer, hook, run, pkg, extended, faults>>

CancelPending(r) ==
    LET q == request[r] IN
    /\ q.pc = "cancel"
    /\ order' = [o \in DOMAIN order |-> IF o \in Pending(q.kind)
                                        THEN [order[o] EXCEPT !.status = "CANCELLED"]
                                        ELSE order[o]]
    /\ request' = [request EXCEPT ![r].pc = "create"]
    /\ UNCHANGED <<transfer, hook, run, pkg, extended, faults>>

(* The documents the two intents create.                                    *)
PackageOrder(q) ==
    [kind |-> q.kind, status |-> "PENDING", amount |-> q.fee,
     flow |-> IF q.flow = "unset" THEN "remote" ELSE q.flow, relabelled |-> FALSE,
     received |-> q.credit, receipts |-> q.receipts]

SubscriptionOrder(q) ==
    [kind |-> "subscription", status |-> "PENDING", amount |-> q.fee, flow |-> "remote",
     relabelled |-> FALSE, received |-> q.credit, receipts |-> q.receipts]

NewOrder(q) == IF q.kind = "subscription" THEN SubscriptionOrder(q) ELSE PackageOrder(q)

(* Mutant: an order created with enough credit waits for a webhook.         *)
CreateUnsettled(r) ==
    LET q == request[r] IN
    /\ q.pc = "create"
    /\ order' = Append(order, NewOrder(q))
    /\ request' = [request EXCEPT ![r] = NoRequest]
    /\ UNCHANGED <<transfer, hook, run, pkg, extended, faults>>

CreateOrder(r) ==
    LET q == request[r] IN
    /\ q.pc = "create"
    /\ order' = Append(order, NewOrder(q))
    /\ request' = [request EXCEPT ![r] =
         IF IsFullyPaid(q.fee, q.credit)
         THEN [NoRequest EXCEPT !.pc = "settle", !.target = Len(order) + 1]
         ELSE NoRequest]
    /\ UNCHANGED <<transfer, hook, run, pkg, extended, faults>>

(* Mutant: the order is settled and what it bought forgotten.               *)
SettleCreditOnly(r) ==
    LET o == request[r].target IN
    /\ request[r].pc = "settle"
    /\ request' = [request EXCEPT ![r] = NoRequest]
    /\ order' = [order EXCEPT ![o].status = IF @ = "PENDING" THEN "PAID" ELSE @]
    /\ UNCHANGED <<transfer, hook, run, pkg, extended, faults>>

(* settleIfFullyPaid                                                        *)
SettleCredit(r) ==
    LET o == request[r].target IN
    /\ request[r].pc = "settle"
    /\ request' = [request EXCEPT ![r] = NoRequest]
    /\ \/ /\ order[o].status = "PENDING" /\ IsFullyPaid(order[o].amount, order[o].received)
          /\ Settled(o, order[o].received)
       \/ /\ order[o].status # "PENDING"
          /\ UNCHANGED <<order, run>>
    /\ UNCHANGED <<transfer, hook, pkg, extended, faults>>
----------------------------------------------------------------------------
(* handleSepayWebhook                                                       *)

(* A payer transfers to any order code shown so far; the payment gateway    *)
(* only confirms the exact amount of the order.                             *)
MakeTransfer(t) ==
    /\ transfer[t] = NotMade
    /\ \E o \in DOMAIN order, gateway \in BOOLEAN :
       \E amount \in IF gateway THEN {order[o].amount} ELSE Amounts :
         transfer' = [transfer EXCEPT ![t] = [order |-> o, amount |-> amount,
                                              gateway |-> gateway]]
    /\ UNCHANGED <<order, request, hook, run, pkg, extended, faults>>

(* The transfer is added to a pending order that does not list it yet; the  *)
(* webhook of a transfer that is not added only answers.                    *)
RecordTransfer(t) ==
    LET o == transfer[t].order
        received == order[o].received + transfer[t].amount
    IN
    /\ transfer[t] # NotMade
    /\ order[o].status = "PENDING"
    /\ order[o].receipts[t] = 0
    /\ order' = [order EXCEPT ![o].received = received, ![o].receipts[t] = @ + 1]
    /\ hook' = [hook EXCEPT ![t] =
                  IF transfer[t].gateway \/ IsFullyPaid(order[o].amount, received)
                  THEN "settle" ELSE "none"]
    /\ UNCHANGED <<request, transfer, run, pkg, extended, faults>>

SettleOrder(t) ==
    LET o == transfer[t].order IN
    /\ hook[t] = "settle"
    /\ hook' = [hook EXCEPT ![t] = "none"]
    /\ \/ /\ order[o].status = "PENDING"
          /\ Settled(o, Max({order[o].received, order[o].amount}))
       \/ /\ order[o].status # "PENDING"
          /\ UNCHANGED <<order, run>>
    /\ UNCHANGED <<request, transfer, pkg, extended, faults>>
----------------------------------------------------------------------------
(* completePaidPayment.  c is the call that runs: <<order, caller>>         *)

ReadSubscriber(c) ==
    /\ run[c].pc = "subscriber"
    /\ run' = [run EXCEPT ![c].pc = "saveSubscriber", ![c].extended = extended]
    /\ UNCHANGED <<order, request, transfer, hook, pkg, extended, faults>>

SaveSubscriber(c) ==
    /\ run[c].pc = "saveSubscriber"
    /\ extended' = run[c].extended + 1
    /\ run' = [run EXCEPT ![c].pc = "done"]
    /\ UNCHANGED <<order, request, transfer, hook, pkg, faults>>

(* completeKioskPickupForDevice: the device asks for an order of its kiosk, *)
(* which may have been opened for the plan; flow and kind are not read      *)
(* again.                                                                   *)
DeviceCall(o) ==
    LET c == <<o, "device">> IN
    /\ order[o].kind # "subscription"
    /\ order[o].flow = "kiosk"
    /\ run[c].pc \in {"none", "done"}
    /\ run' = [run EXCEPT ![c].pc = "kiosk", ![c].flow = "kiosk"]
    /\ UNCHANGED <<order, request, transfer, hook, pkg, extended, faults>>

(* completeKioskPickup: the order is paid and the package not picked up.    *)
CheckKioskOrder(c) ==
    /\ run[c].pc = "kiosk"
    /\ run' = [run EXCEPT ![c].pc =
                  IF order[c[1]].status = "PAID" /\ pkg.status # "PICKED_UP"
                  THEN "claim" ELSE "done"]
    /\ UNCHANGED <<order, request, transfer, hook, pkg, extended, faults>>

(* Mutant: the package is claimed by its id alone.                          *)
KioskClaimById(c) ==
    /\ run[c].pc = "claim"
    /\ pkg' = [pkg EXCEPT !.status = "PICKED_UP", !.totalFeePaid = @ + order[c[1]].amount]
    /\ run' = [run EXCEPT ![c].pc = "done"]
    /\ UNCHANGED <<order, request, transfer, hook, extended, faults>>

(* claimPackageForPickup, with the fee.  Freeing the box is DepositPickup's. *)
KioskClaim(c) ==
    /\ run[c].pc = "claim"
    /\ pkg' = IF pkg.status \in PickupableStatuses
              THEN [pkg EXCEPT !.status = "PICKED_UP", !.totalFeePaid = @ + order[c[1]].amount]
              ELSE pkg
    /\ run' = [run EXCEPT ![c].pc = "done"]
    /\ UNCHANGED <<order, request, transfer, hook, extended, faults>>

ReadPackage(c) ==
    /\ run[c].pc = "remote"
    /\ run' = [run EXCEPT ![c].pc = "update", ![c].status = pkg.status,
                          ![c].extended = pkg.extended]
    /\ UNCHANGED <<order, request, transfer, hook, pkg, extended, faults>>

(* Mutant: the update does not look at the package's status.                *)
ExtendAnyPackage(c) ==
    /\ run[c].pc = "update"
    /\ pkg' = [status |-> IF run[c].status = "OVERDUE" THEN "WAITING_FOR_PICKUP"
                          ELSE pkg.status,
               extended |-> run[c].extended + 1,
               totalFeePaid |-> pkg.totalFeePaid + order[c[1]].amount]
    /\ run' = [run EXCEPT ![c].pc = "done"]
    /\ UNCHANGED <<order, request, transfer, hook, extended, faults>>

(* The update spares a package picked up meanwhile, and only that one.      *)
ExtendPackage(c) ==
    /\ run[c].pc = "update"
    /\ \/ /\ pkg.status # "PICKED_UP"
          /\ pkg' = [status |-> IF run[c].status = "OVERDUE" THEN "WAITING_FOR_PICKUP"
                                ELSE pkg.status,
                     extended |-> run[c].extended + 1,
                     totalFeePaid |-> pkg.totalFeePaid + order[c[1]].amount]
          /\ run' = [run EXCEPT ![c].pc = "done"]
       \/ /\ pkg.status = "PICKED_UP"
          /\ run' = [run EXCEPT ![c].pc = "fallback"]
          /\ UNCHANGED pkg
    /\ UNCHANGED <<order, request, transfer, hook, extended, faults>>

RecordFeeOnly(c) ==
    /\ run[c].pc = "fallback"
    /\ pkg' = [pkg EXCEPT !.extended = run[c].extended + 1,
                          !.totalFeePaid = @ + order[c[1]].amount]
    /\ run' = [run EXCEPT ![c].pc = "done"]
    /\ UNCHANGED <<order, request, transfer, hook, extended, faults>>
----------------------------------------------------------------------------
(* The rest of the system *)

PackageChanges(from, to) ==
    /\ pkg.status \in from
    /\ pkg' = [pkg EXCEPT !.status = to]
    /\ UNCHANGED <<order, request, transfer, hook, run, extended, faults>>

PickupWithoutFee == PackageChanges(PickupableStatuses, "PICKED_UP")
ReturnToStorage == PackageChanges(PickupableStatuses, "RETURNED")
MarkOverdue == PackageChanges({"WAITING_FOR_PICKUP"}, "OVERDUE")

(* A call to the database throws, without effect: the intent, the webhook   *)
(* before its settlement or the completion ends there.  The gateway's next  *)
(* attempt finds the receipt, or a paid order, and only answers.            *)
CallFails ==
    /\ faults < MaxFaults
    /\ faults' = faults + 1
    /\ \/ /\ \E r \in Requests : /\ request[r] # NoRequest
                                 /\ request' = [request EXCEPT ![r] = NoRequest]
          /\ UNCHANGED <<hook, run>>
       \/ /\ \E t \in Transfers : /\ hook[t] = "settle"
                                  /\ hook' = [hook EXCEPT ![t] = "none"]
          /\ UNCHANGED <<request, run>>
       \/ /\ \E c \in OrderCodes \X Callers : /\ run[c].pc \notin {"none", "done"}
                                              /\ run' = [run EXCEPT ![c] = NoRun]
          /\ UNCHANGED <<request, hook>>
    /\ UNCHANGED <<order, transfer, pkg, extended>>

(* The documents survive, whatever was under way does not.                  *)
ServerRestart ==
    /\ faults < MaxFaults
    /\ faults' = faults + 1
    /\ request' = [r \in Requests |-> NoRequest]
    /\ hook' = [t \in Transfers |-> "none"]
    /\ run' = [c \in OrderCodes \X Callers |->
                 IF run[c].pc \in {"none", "done"} THEN run[c] ELSE NoRun]
    /\ UNCHANGED <<order, transfer, pkg, extended>>
----------------------------------------------------------------------------
RequestStep(r) ==
    \/ FindPending(r) \/ SavePending(r) \/ RenewSubscription(r)
    \/ CollectCredit(r) \/ CancelPending(r)
    \/ CreateOrder(r) \/ SettleCredit(r)

RunStep(c) ==
    \/ ReadSubscriber(c) \/ SaveSubscriber(c)
    \/ CheckKioskOrder(c) \/ KioskClaim(c)
    \/ ReadPackage(c) \/ ExtendPackage(c) \/ RecordFeeOnly(c)

Next ==
    \/ \E r \in Requests :
         CreatePaymentIntent(r) \/ CreateSubscriptionIntent(r) \/ RequestStep(r)
    \/ \E t \in Transfers : MakeTransfer(t) \/ RecordTransfer(t) \/ SettleOrder(t)
    \/ \E o \in DOMAIN order : DeviceCall(o)
    \/ \E c \in OrderCodes \X Callers : RunStep(c)
    \/ PickupWithoutFee \/ ReturnToStorage \/ MarkOverdue
    \/ CallFails \/ ServerRestart

Spec == Init /\ [][Next]_vars

(* A started handler runs on.  Nobody is obliged to pay or to ask again.    *)
Fairness ==
    /\ \A r \in Requests : WF_vars(RequestStep(r))
    /\ \A t \in Transfers : WF_vars(SettleOrder(t))
    /\ \A c \in OrderCodes \X Callers : WF_vars(RunStep(c))

FairSpec == Spec /\ Fairness
----------------------------------------------------------------------------
(* The promise about orders that the intents and the webhooks implement     *)

(* A call that will settle the order is in flight.                          *)
Settling(o) ==
    \/ \E r \in Requests : request[r].pc = "settle" /\ request[r].target = o
    \/ \E t \in Transfers : hook[t] = "settle" /\ transfer[t].order = o

(* How far an order has come, read from its document and from the calls.    *)
OrderStage(o) ==
    IF o \notin DOMAIN order THEN "new"
    ELSE LET delivery == run[<<o, "webhook">>].pc IN
         CASE order[o].status = "CANCELLED" -> "void"
           [] order[o].status = "PAID" -> IF delivery = "none" THEN "lost"
                                          ELSE IF delivery = "done" THEN "served" ELSE "paid"
           [] OTHER -> IF order[o].received < order[o].amount THEN "open"
                       ELSE IF Settling(o) THEN "covered" ELSE "stuck"

Due(o) == IF o \in DOMAIN order THEN order[o].amount ELSE 0
Got(o) == IF o \in DOMAIN order THEN order[o].received ELSE 0

Book == INSTANCE OrderBook
          WITH Orders <- OrderCodes, stage <- [o \in OrderCodes |-> OrderStage(o)],
               due <- [o \in OrderCodes |-> Due(o)], got <- [o \in OrderCodes |-> Got(o)]

(* Every handler step is a step of OrderBook: an order whose money is       *)
(* complete always has a call that settles it, a paid one a completion that *)
(* runs, whatever intent, webhook or credit got it there; only a call that  *)
(* throws or a restart leaves it without.                                   *)
ImplementsOrderBook == Book!Spec
----------------------------------------------------------------------------
(* Properties *)

ReceiptTotal(o) ==
    SumFunction([t \in Transfers |-> order[o].receipts[t] * transfer[t].amount])

(* receivedAmount is what the receipts of the order add up to, through      *)
(* every credit carried over, and a paid order has been paid for.           *)
LedgerAgrees ==
    \A o \in DOMAIN order :
      /\ order[o].received = ReceiptTotal(o)
      /\ order[o].status = "PAID" => ReceiptTotal(o) >= order[o].amount

(* A paid order is never cancelled by a later intent, and a cancelled order *)
(* is never paid, whatever webhook was between recording and settling.      *)
OrderEndsOnce ==
    [][\A o \in DOMAIN order : order[o].status # "PENDING"
         => order'[o].status = order[o].status]_vars

(* A package picked up while its fee is being paid stays picked up: no      *)
(* payment that completes late puts it back in the locker.                  *)
PickedUpIsFinal == [][pkg.status = "PICKED_UP" => pkg'.status = "PICKED_UP"]_vars

(* The remote orders of the package that have been fulfilled.               *)
RemoteDone ==
    {o \in DOMAIN order : LET w == run[<<o, "webhook">>] IN
       w.pc = "done" /\ w.flow = "remote" /\ order[o].kind = "package"}

RemoteFees == SumFunction([o \in RemoteDone |-> order[o].amount])

(* totalFeePaid counts every remote order once, however many complete at    *)
(* the same time, and at most one more: the paid kiosk order that opened    *)
(* the box.  That one is not among the remote orders, unless an intent      *)
(* relabelled it while it was in use: only then a fee is added twice.       *)
FeesAddUp ==
    \/ pkg.totalFeePaid = RemoteFees
    \/ /\ pkg.status = "PICKED_UP"
       /\ \E o \in DOMAIN order :
            /\ order[o].status = "PAID"
            /\ pkg.totalFeePaid = RemoteFees + order[o].amount
            /\ \/ order[o].flow = "kiosk" /\ o \notin RemoteDone
               \/ order[o].relabelled

HasStatus(o, status) == o \in DOMAIN order /\ order[o].status = status

(* Without a throw or a restart, an order whose money has arrived does not  *)
(* stay pending: the call that saw it complete settles it.                  *)
CoveredOrderSettles ==
    \A o \in OrderCodes :
      (HasStatus(o, "PENDING") /\ order[o].received >= order[o].amount)
        ~> (~HasStatus(o, "PENDING") \/ faults > 0)

(* Without a throw or a restart, the completion of a paid order runs to its *)
(* end: the plan is extended, the storage extended or the package claimed,  *)
(* unless the package was picked up or returned meanwhile.                  *)
PaidOrderIsFulfilled ==
    \A o \in OrderCodes :
      HasStatus(o, "PAID")
        ~> (run[<<o, "webhook">>].pc = "done" \/ faults > 0)

(* What the code says and does not keep:                                    *)

(* A transfer counts for one live order: the comments of                    *)
(* cancelPendingAndCollectCredit and of its caller.                         *)
TransferCountsOnce ==
    \A t \in Transfers :
      Cardinality({o \in DOMAIN order : /\ order[o].status # "CANCELLED"
                                        /\ order[o].receipts[t] > 0}) <= 1

(* A payment makes a package wait again only if it was overdue: the comment *)
(* of completePaidPayment.                                                  *)
RestoresOnlyOverdue ==
    [][pkg'.status = "WAITING_FOR_PICKUP" => pkg.status \in PickupableStatuses]_vars
=============================================================================
