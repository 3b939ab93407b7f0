--------------------------- MODULE StoragePricing ---------------------------
(***************************************************************************)
(* The storage fee of one package: what calculateStorageFee asks for at any *)
(* moment of the stay, the table of tiers shown to residents, the orders    *)
(* that intents open for it, and their payments, which buy twenty-four more *)
(* hours.                                                                   *)
(*                                                                          *)
(* Time is counted in units, UnitsPerHour to the hour, so that the rounding *)
(* up of a started hour is seen.  Amounts are integers.  An order is paid   *)
(* in full or not at all: transfers, receipts and credit are Payments'.     *)
(***************************************************************************)
EXTENDS Integers

CONSTANTS
    Policies,        \* pricing policies of buildings
    UnitsPerHour,
    ExtensionHours,  \* extensionHours of a package's order
    PaidPolicies,    \* bound: those under which intents ask for the fee
    Intents,         \* createPaymentIntent calls in flight
    MaxOrders,       \* bound: orders created
    MaxTime          \* bound: the clock stops here

Policy == [perUseFee: Nat, subscriberFreeHours: Nat, t1Hours: Nat, t2Hours: Nat,
           t3Hours: Nat, feeX1: Nat, feeX2: Nat, maxOverdueFeeCap: Nat]

(* Limits in any order: update refuses T1 >= T2 >= T3, create does not.     *)
ASSUME PolicyAssumption == Policies \subseteq Policy

ASSUME UnitAssumption ==
    UnitsPerHour \in Nat \ {0} /\ ExtensionHours \in Nat \ {0}

ASSUME BoundsAssumption == MaxOrders \in Nat /\ MaxTime \in Nat

VARIABLES
    policy,         \* of the package's building
    subscriber,     \* hasActiveSubscription of its resident
    elapsed,        \* now - droppedOffAt
    paidUntil,      \* counted like elapsed; Never when absent
    totalFeePaid,
    intent,         \* the calls in flight
    order,          \* the orders of the package, in the order of creation
    overlapped      \* history: an order was created beside an open one, or for
                    \* a fee that a payment has lowered since it was read

feeVars == <<intent, order, overlapped>>

vars == <<policy, subscriber, elapsed, paidUntil, totalFeePaid, feeVars>>

Never == -1

OrderCodes == 1 .. MaxOrders

(* paid is history: the total when the fee was read.                        *)
Intent == [pc: {"find", "cancel", "create"}, fee: Nat \ {0}, paid: Nat]
NoIntent == [pc |-> "idle", fee |-> 0, paid |-> 0]

(* READ and COUNTED: of a paid order, completePaidPayment has read the      *)
(* package, with the end of the extension it is about to store, or is done. *)
Order == [status: {"PENDING", "CANCELLED", "PAID", "READ", "COUNTED"},
          amount: Nat \ {0}, until: Nat]
NoOrder == [status |-> "NONE", amount |-> 0, until |-> 0]

TypeOK ==
    /\ policy \in Policies
    /\ subscriber \in BOOLEAN
    /\ elapsed \in Nat
    /\ paidUntil \in Nat \cup {Never}
    /\ totalFeePaid \in Nat
    /\ intent \in [Intents -> Intent \cup {NoIntent}]
    /\ order \in [OrderCodes -> Order \cup {NoOrder}]
    /\ overlapped \in BOOLEAN
----------------------------------------------------------------------------
Least(a, b) == IF a <= b THEN a ELSE b
Greatest(a, b) == IF a >= b THEN a ELSE b

HoursElapsed(units) == (units + UnitsPerHour - 1) \div UnitsPerHour

(* Mutant: the plan's own free hours, even when they are fewer.             *)
FreeHoursOfPlan(p, sub) == IF sub THEN p.subscriberFreeHours ELSE p.t1Hours

FreeUntilHours(p, sub) ==
    IF sub THEN Greatest(p.t1Hours, p.subscriberFreeHours) ELSE p.t1Hours

BaseFee(p, sub) == IF sub THEN 0 ELSE p.perUseFee

IsPendingRetrieval(p, hours) == hours >= p.t3Hours

InPaidWindow(units, until) == until # Never /\ units <= until

(* The tier of a package no payment protects.                               *)
Tier(p, sub, hours) ==
    IF IsPendingRetrieval(p, hours) THEN "RETRIEVAL"
    ELSE IF hours <= FreeUntilHours(p, sub) THEN "FREE"
    ELSE IF hours <= p.t2Hours THEN "TIER_1" ELSE "TIER_2"

(* Mutant: retrieval asks for its own surcharge only.                       *)
OverdueFeeOfLastTier(p, sub, tier) ==
    CASE tier = "FREE" -> 0
      [] tier = "TIER_1" -> p.feeX1
      [] tier = "TIER_2" -> IF sub THEN p.feeX1 ELSE p.feeX1 + p.feeX2
      [] tier = "RETRIEVAL" -> p.feeX2

OverdueFee(p, sub, tier) ==
    CASE tier = "FREE" -> 0
      [] tier = "TIER_1" -> p.feeX1
      [] tier = "TIER_2" -> IF sub THEN p.feeX1 ELSE p.feeX1 + p.feeX2
      [] tier = "RETRIEVAL" -> p.feeX1 + p.feeX2

(* Mutant: what was paid is not deducted.                                   *)
FeeOfTierInFull(p, sub, tier, paid) ==
    LET base == BaseFee(p, sub) IN
    IF tier = "FREE" THEN base
    ELSE Least(base + OverdueFee(p, sub, tier), base + p.maxOverdueFeeCap)

(* What has been paid is deducted, except during the free hours.            *)
FeeOfTier(p, sub, tier, paid) ==
    LET base == BaseFee(p, sub) IN
    IF tier = "FREE" THEN base
    ELSE Greatest(0, Least(base + OverdueFee(p, sub, tier) - paid,
                           base + p.maxOverdueFeeCap))

(* calculateStorageFee                                                      *)
FeeDue(p, sub, units, until, paid) ==
    IF InPaidWindow(units, until) THEN 0
    ELSE FeeOfTier(p, sub, Tier(p, sub, HoursElapsed(units)), paid)

(* buildPricingTiers: the table, a row for each tier.  The last has no end. *)
PricingTiers(p) ==
    LET capped == Least(p.feeX1 + p.feeX2, p.maxOverdueFeeCap)
        free == Greatest(p.t1Hours, p.subscriberFreeHours)
    IN {[tier |-> "FREE", fromHours |-> 0, toHours |-> p.t1Hours,
         subscriberFee |-> 0, retailFee |-> p.perUseFee],
        [tier |-> "TIER_1", fromHours |-> p.t1Hours, toHours |-> p.t2Hours,
         subscriberFee |-> IF free >= p.t2Hours THEN 0 ELSE p.feeX1,
         retailFee |-> p.perUseFee + p.feeX1],
        [tier |-> "TIER_2", fromHours |-> p.t2Hours, toHours |-> p.t3Hours,
         subscriberFee |-> IF free >= p.t3Hours THEN 0 ELSE p.feeX1,
         retailFee |-> p.perUseFee + capped],
        [tier |-> "RETRIEVAL", fromHours |-> p.t3Hours, toHours |-> Never,
         subscriberFee |-> capped, retailFee |-> p.perUseFee + capped]}

(* An hour at T1 or T2 ends the row before the limit, one at T3 begins the  *)
(* row after it.                                                            *)
Covers(row, hours) ==
    /\ \/ row.fromHours < hours
       \/ row.fromHours = hours /\ row.tier \in {"FREE", "RETRIEVAL"}
    /\ \/ row.toHours = Never
       \/ hours < row.toHours
       \/ hours = row.toHours /\ row.tier # "TIER_2"
----------------------------------------------------------------------------
Fee == FeeDue(policy, subscriber, elapsed, paidUntil, totalFeePaid)

Having(status) == {o \in OrderCodes : order[o].status = status}

(* Still payable, or paid and not yet counted.                              *)
Open == {o \in OrderCodes : order[o].status \in {"PENDING", "PAID", "READ"}}

Init ==
    /\ policy \in Policies
    /\ subscriber \in BOOLEAN
    /\ elapsed = 0
    /\ paidUntil = Never
    /\ totalFeePaid = 0
    /\ intent = [i \in Intents |-> NoIntent]
    /\ order = [o \in OrderCodes |-> NoOrder]
    /\ overlapped = FALSE

Wait ==
    /\ elapsed < MaxTime
    /\ elapsed' = elapsed + 1
    /\ UNCHANGED <<policy, subscriber, paidUntil, totalFeePaid, feeVars>>

(* createPaymentIntent: the fee is computed from the package as it was read. *)
AskFee(i) ==
    /\ intent[i] = NoIntent
    /\ policy \in PaidPolicies
    /\ Fee > 0
    /\ ~IsPendingRetrieval(policy, HoursElapsed(elapsed))
    /\ intent' = [intent EXCEPT ![i] = [pc |-> "find", fee |-> Fee, paid |-> totalFeePaid]]
    /\ UNCHANGED <<policy, subscriber, elapsed, paidUntil, totalFeePaid, order, overlapped>>

(* The latest pending order is reused, when its amount is the fee.          *)
FindPending(i) ==
    /\ intent[i].pc = "find"
    /\ intent' = [intent EXCEPT ![i] =
         IF Having("PENDING") = {} THEN [@ EXCEPT !.pc = "create"]
         ELSE IF \E o \in Having("PENDING") :
                   /\ \A p \in Having("PENDING") : p <= o
                   /\ order[o].amount = @.fee
              THEN NoIntent
         ELSE [@ EXCEPT !.pc = "cancel"]]
    /\ UNCHANGED <<policy, subscriber, elapsed, paidUntil, totalFeePaid, order, overlapped>>

(* cancelPendingAndCollectCredit                                            *)
CancelPending(i) ==
    /\ intent[i].pc = "cancel"
    /\ order' = [o \in OrderCodes |-> IF o \in Having("PENDING")
                                      THEN [order[o] EXCEPT !.status = "CANCELLED"]
                                      ELSE order[o]]
    /\ intent' = [intent EXCEPT ![i].pc = "create"]
    /\ UNCHANGED <<policy, subscriber, elapsed, paidUntil, totalFeePaid, overlapped>>

CreateOrder(i) ==
    /\ intent[i].pc = "create"
    /\ \E o \in Having("NONE") :
         /\ \A p \in Having("NONE") : o <= p
         /\ order' = [order EXCEPT ![o] = [status |-> "PENDING", amount |-> intent[i].fee,
                                           until |-> 0]]
    /\ overlapped' = (overlapped \/ Open # {} \/ intent[i].paid # totalFeePaid)
    /\ intent' = [intent EXCEPT ![i] = NoIntent]
    /\ UNCHANGED <<policy, subscriber, elapsed, paidUntil, totalFeePaid>>

(* A webhook finds a pending order paid in full, whenever that is.          *)
SettleOrder(o) ==
    /\ order[o].status = "PENDING"
    /\ order' = [order EXCEPT ![o].status = "PAID"]
    /\ UNCHANGED <<policy, subscriber, elapsed, paidUntil, totalFeePaid, intent, overlapped>>

(* completePaidPayment of a remote order: it reads the package, and then    *)
(* stores what it computed from it.                                         *)
ReadPackage(o) ==
    /\ order[o].status = "PAID"
    /\ order' = [order EXCEPT ![o].status = "READ",
                   ![o].until = Greatest(paidUntil, elapsed) + ExtensionHours * UnitsPerHour]
    /\ UNCHANGED <<policy, subscriber, elapsed, paidUntil, totalFeePaid, intent, overlapped>>

ExtendPackage(o) ==
    /\ order[o].status = "READ"
    /\ order' = [order EXCEPT ![o].status = "COUNTED"]
    /\ paidUntil' = order[o].until
    /\ totalFeePaid' = totalFeePaid + order[o].amount
    /\ UNCHANGED <<policy, subscriber, elapsed, intent, overlapped>>

(* The monthly plan is bought, or runs out.                                 *)
ChangePlan ==
    /\ subscriber' = ~subscriber
    /\ UNCHANGED <<policy, elapsed, paidUntil, totalFeePaid, feeVars>>

Next ==
    \/ Wait \/ ChangePlan
    \/ \E i \in Intents : AskFee(i) \/ FindPending(i) \/ CancelPending(i) \/ CreateOrder(i)
    \/ \E o \in OrderCodes : SettleOrder(o) \/ ReadPackage(o) \/ ExtendPackage(o)

Spec == Init /\ [][Next]_vars
----------------------------------------------------------------------------
(* Properties *)

(* The limits as update accepts them.                                       *)
LimitsInOrder == policy.t1Hours < policy.t2Hours /\ policy.t2Hours < policy.t3Hours

(* The table speaks of a package for which nothing has been paid.           *)
TableApplies ==
    LimitsInOrder /\ policy.feeX1 <= policy.maxOverdueFeeCap /\ totalFeePaid = 0 /\ paidUntil = Never

(* The free hours of the plan do not end within a row.                      *)
PlanEndsWithARow ==
    FreeUntilHours(policy, TRUE) \in {policy.t1Hours, policy.t2Hours}
      \/ FreeUntilHours(policy, TRUE) >= policy.t3Hours

ChargedAsPublished ==
    \A row \in PricingTiers(policy) :
      Covers(row, HoursElapsed(elapsed))
        => Fee = IF subscriber THEN row.subscriberFee ELSE row.retailFee

(* The table residents see is what they are charged: at every hour of a     *)
(* stay nothing was paid for, the fee is the one published in the row whose *)
(* hours hold it.  For the plan's holder, only where the plan's free hours  *)
(* end with a row.                                                          *)
FeeMatchesTable ==
    (TableApplies /\ (subscriber => PlanEndsWithARow)) => ChargedAsPublished

(* At no moment of a stay, and whatever was paid before, does the monthly   *)
(* plan cost more than having none.                                         *)
PlanNeverCostsMore ==
    FeeDue(policy, TRUE, elapsed, paidUntil, totalFeePaid)
      <= FeeDue(policy, FALSE, elapsed, paidUntil, totalFeePaid)

(* Waiting without paying never makes the stay cheaper.                     *)
WaitingIsNeverCheaper ==
    [][(elapsed' > elapsed /\ totalFeePaid = 0) => Fee' >= Fee]_vars

(* All the payments of a stay never exceed one base fee and both            *)
(* surcharges, however time, plan, intents and late webhooks interleave, as *)
(* long as no order is created beside an open one or for a fee that was     *)
(* paid meanwhile, and a bought extension outlasts the free hours.          *)
NoFeePaidTwice ==
    (~overlapped /\ policy.t1Hours <= ExtensionHours)
      => totalFeePaid <= policy.perUseFee + policy.feeX1 + policy.feeX2
=============================================================================
