--------------------------- MODULE BuildingProofs ---------------------------
(***************************************************************************)
(* For every building, whatever its sizes and bounds.                       *)
(*                                                                          *)
(* A behaviour of the building is a behaviour of each of its parts, so what *)
(* is proved of a part holds of the building.  Here: the storage fees, the  *)
(* storage deadlines and the station; OfficeProofs has the tickets, the     *)
(* notices and the invoices.                                                *)
(*                                                                          *)
(* Storage fees: the monthly plan never costs more than having none, and no *)
(* fee of a stay is paid twice.                                             *)
(*                                                                          *)
(* Deadlines: a notice goes out in a later step than the write that allows  *)
(* it, so the invariants also speak of the notices still to come: Announced *)
(* and Owed.                                                                *)
(*                                                                          *)
(* Station: likewise the entry of the log that a handler is about to write: *)
(* Unlogged.                                                                *)
(***************************************************************************)
EXTENDS Building, FiniteSetTheorems, TLAPS

(* A building is its parts: each of them runs by its own specification.     *)
THEOREM PartsOfBuilding ==
    BuildingSpec => /\ D!Spec /\ N!Spec /\ E!Spec /\ L!Spec /\ S!Spec /\ Spec
  <1>1. BuildingInit => D!Init /\ N!Init /\ E!Init /\ L!Init /\ S!Init /\ Init
    BY DEF BuildingInit
  <1>2. [BuildingNext]_allvars =>
            /\ [D!Next]_(D!vars) /\ [N!Next]_(N!nvars) /\ [E!Next]_(E!evars)
            /\ [L!Next]_(L!lvars) /\ [S!Next]_(S!dvars) /\ [Next]_vars
    <2> USE DEF allvars, ivars, nvars, evars, lvars, dvars,
                D!vars, N!nvars, E!evars, L!lvars, S!dvars
    <2>1. CASE IssuesMove
      BY <2>1 DEF IssuesMove
    <2>2. CASE NoticesMove
      BY <2>2 DEF NoticesMove
    <2>3. CASE InvoicesMove
      BY <2>3 DEF InvoicesMove
    <2>4. CASE StationMoves
      BY <2>4 DEF StationMoves
    <2>5. CASE DeadlinesMove
      BY <2>5 DEF DeadlinesMove
    <2>6. CASE FeesMove
      BY <2>6 DEF FeesMove
    <2>7. CASE UNCHANGED allvars
      BY <2>7
    <2> QED BY <2>1, <2>2, <2>3, <2>4, <2>5, <2>6, <2>7 DEF BuildingNext
  <1> QED
    BY <1>1, <1>2, PTL DEF BuildingSpec, D!Spec, N!Spec, E!Spec, L!Spec, S!Spec, Spec, allvars
-----------------------------------------------------------------------------
(* Hours are integers, whatever the unit.                                   *)
LEMMA HoursType == ASSUME NEW u \in Int PROVE HoursElapsed(u) \in Int
  BY UnitAssumption DEF HoursElapsed

(* A package of at most k hours has stayed at most k hours of units.        *)
LEMMA HoursRoundUp ==
  ASSUME NEW u \in Nat, NEW k \in Nat, HoursElapsed(u) <= k
  PROVE  u <= k * UnitsPerHour
  BY UnitAssumption DEF HoursElapsed

(* A fee is an amount, and no less.                                         *)
LEMMA FeeType ==
  ASSUME NEW p \in Policy, NEW sub \in BOOLEAN, NEW u \in Int,
         NEW until \in Int, NEW paid \in Nat
  PROVE  FeeDue(p, sub, u, until, paid) \in Nat
  <1> DEFINE tier == Tier(p, sub, HoursElapsed(u))
  <1>1. OverdueFee(p, sub, tier) \in Nat
    BY DEF Policy, Tier, OverdueFee
  <1>2. BaseFee(p, sub) \in Nat
    BY DEF Policy, BaseFee
  <1>3. FeeOfTier(p, sub, tier, paid) \in Nat
    <2> HIDE DEF tier
    <2> QED BY <1>1, <1>2 DEF Policy, FeeOfTier, Greatest, Least
  <1> QED BY <1>3 DEF FeeDue

(* The tier of a plan's holder is never dearer than the tier without it.    *)
LEMMA PlanIsCheaper ==
  ASSUME NEW p \in Policy, NEW u \in Int, NEW until \in Int, NEW paid \in Nat
  PROVE  FeeDue(p, TRUE, u, until, paid) <= FeeDue(p, FALSE, u, until, paid)
  <1> DEFINE h == HoursElapsed(u)
  <1>1. h \in Int
    BY HoursType
  <1> HIDE DEF h
  <1>2. FeeOfTier(p, TRUE, Tier(p, TRUE, h), paid) <= FeeOfTier(p, FALSE, Tier(p, FALSE, h), paid)
    <2>1. CASE IsPendingRetrieval(p, h)
      BY <1>1, <2>1 DEF Policy, Tier, FeeOfTier, OverdueFee, BaseFee, Greatest, Least
    <2>2. CASE ~IsPendingRetrieval(p, h)
      <3>1. CASE h <= FreeUntilHours(p, TRUE)
        BY <1>1, <2>2, <3>1
        DEF Policy, Tier, FeeOfTier, OverdueFee, BaseFee, FreeUntilHours, Greatest, Least
      <3>2. CASE ~(h <= FreeUntilHours(p, TRUE))
        BY <1>1, <2>2, <3>2
        DEF Policy, Tier, FeeOfTier, OverdueFee, BaseFee, FreeUntilHours, Greatest, Least
      <3> QED BY <3>1, <3>2
    <2> QED BY <2>1, <2>2
  <1>3. CASE InPaidWindow(u, until)
    BY <1>3 DEF FeeDue
  <1>4. CASE ~InPaidWindow(u, until)
    BY <1>2, <1>4 DEF FeeDue, h
  <1> QED BY <1>3, <1>4
-----------------------------------------------------------------------------
(* Every state of a stay keeps its type: no fee and no total is negative.   *)
THEOREM TypeCorrect == Spec => []TypeOK
  <1>1. Init => TypeOK
    <2> SUFFICES ASSUME Init PROVE TypeOK
      OBVIOUS
    <2>1. intent \in [Intents -> Intent \cup {NoIntent}]
      BY DEF Init
    <2>2. order \in [OrderCodes -> Order \cup {NoOrder}]
      BY DEF Init
    <2> QED BY <2>1, <2>2 DEF Init, TypeOK, Never
  <1>2. TypeOK /\ [Next]_vars => TypeOK'
    <2> SUFFICES ASSUME TypeOK, [Next]_vars PROVE TypeOK'
      OBVIOUS
    <2> USE UnitAssumption
    <2>1. Fee \in Nat
      BY PolicyAssumption, FeeType DEF Fee, TypeOK, Never
    <2>2. CASE Wait
      BY <2>2 DEF Wait, feeVars, TypeOK
    <2>3. CASE ChangePlan
      BY <2>3 DEF ChangePlan, feeVars, TypeOK
    <2>4. ASSUME NEW i \in Intents, AskFee(i) PROVE TypeOK'
      <3>1. [pc |-> "find", fee |-> Fee, paid |-> totalFeePaid] \in Intent
        BY <2>1, <2>4 DEF AskFee, TypeOK, Intent
      <3> QED BY <2>4, <3>1 DEF AskFee, TypeOK
    <2>5. ASSUME NEW i \in Intents, FindPending(i) PROVE TypeOK'
      <3>1. intent[i] \in Intent
        BY <2>5 DEF FindPending, TypeOK, NoIntent
      <3>2. /\ [intent[i] EXCEPT !.pc = "create"] \in Intent
            /\ [intent[i] EXCEPT !.pc = "cancel"] \in Intent
        BY <3>1 DEF Intent
      <3>3. intent' \in [Intents -> Intent \cup {NoIntent}]
        BY <2>5, <3>2 DEF FindPending, TypeOK
      <3> QED BY <2>5, <3>3 DEF FindPending, TypeOK
    <2>6. ASSUME NEW i \in Intents, CancelPending(i) PROVE TypeOK'
      <3>1. intent[i] \in Intent
        BY <2>6 DEF CancelPending, TypeOK, NoIntent
      <3>2. [intent[i] EXCEPT !.pc = "create"] \in Intent
        BY <3>1 DEF Intent
      <3>3. \A o \in Having("PENDING") : [order[o] EXCEPT !.status = "CANCELLED"] \in Order
        BY DEF Having, TypeOK, Order, NoOrder
      <3>4. order' \in [OrderCodes -> Order \cup {NoOrder}]
        BY <2>6, <3>3 DEF CancelPending, TypeOK
      <3>5. intent' \in [Intents -> Intent \cup {NoIntent}]
        BY <2>6, <3>2 DEF CancelPending, TypeOK
      <3> QED BY <2>6, <3>4, <3>5 DEF CancelPending, TypeOK
    <2>7. ASSUME NEW i \in Intents, CreateOrder(i) PROVE TypeOK'
      <3>1. intent[i].fee \in Nat \ {0}
        BY <2>7 DEF CreateOrder, TypeOK, NoIntent, Intent
      <3>2. [status |-> "PENDING", amount |-> intent[i].fee, until |-> 0] \in Order
        BY <3>1 DEF Order
      <3>3. order' \in [OrderCodes -> Order \cup {NoOrder}]
        BY <2>7, <3>2 DEF CreateOrder, TypeOK
      <3>4. overlapped' \in BOOLEAN
        BY <2>7 DEF CreateOrder, TypeOK
      <3> QED BY <2>7, <3>3, <3>4 DEF CreateOrder, TypeOK
    <2>8. ASSUME NEW o \in OrderCodes, SettleOrder(o) PROVE TypeOK'
      <3>1. [order[o] EXCEPT !.status = "PAID"] \in Order
        BY <2>8 DEF SettleOrder, TypeOK, NoOrder, Order
      <3> QED BY <2>8, <3>1 DEF SettleOrder, TypeOK
    <2>9. ASSUME NEW o \in OrderCodes, ReadPackage(o) PROVE TypeOK'
      <3> DEFINE until == Greatest(paidUntil, elapsed) + ExtensionHours * UnitsPerHour
      <3>1. until \in Nat
        BY DEF TypeOK, Greatest, Never
      <3> HIDE DEF until
      <3>2. [order[o] EXCEPT !.status = "READ", !.until = until] \in Order
        <4>1. order[o] \in Order
          BY <2>9 DEF ReadPackage, TypeOK, NoOrder
        <4> QED BY <3>1, <4>1 DEF Order
      <3>3. order' \in [OrderCodes -> Order \cup {NoOrder}]
        BY <2>9, <3>2 DEF ReadPackage, TypeOK, until
      <3> QED BY <2>9, <3>3 DEF ReadPackage, TypeOK
    <2>10. ASSUME NEW o \in OrderCodes, ExtendPackage(o) PROVE TypeOK'
      <3>1. order[o] \in Order
        BY <2>10 DEF ExtendPackage, TypeOK, NoOrder
      <3>2. /\ [order[o] EXCEPT !.status = "COUNTED"] \in Order
            /\ order[o].until \in Nat /\ totalFeePaid + order[o].amount \in Nat
        BY <3>1 DEF TypeOK, Order
      <3> QED BY <2>10, <3>2 DEF ExtendPackage, TypeOK
    <2>11. CASE UNCHANGED vars
      BY <2>11 DEF vars, feeVars, TypeOK
    <2> QED BY <2>2, <2>3, <2>4, <2>5, <2>6, <2>7, <2>8, <2>9, <2>10, <2>11 DEF Next
  <1> QED BY <1>1, <1>2, PTL DEF Spec

(* At any moment of any stay the monthly plan is never the dearer choice.   *)
THEOREM PlanIsWorthIt == Spec => []PlanNeverCostsMore
  <1>1. ASSUME TypeOK PROVE PlanNeverCostsMore
    <2>1. policy \in Policy /\ elapsed \in Int /\ paidUntil \in Int /\ totalFeePaid \in Nat
      BY <1>1, PolicyAssumption DEF TypeOK, Never
    <2> QED BY <2>1, PlanIsCheaper DEF PlanNeverCostsMore
  <1> QED BY <1>1, TypeCorrect, PTL
-----------------------------------------------------------------------------
(* What makes NoFeePaidTwice inductive: there is one open order at a time,  *)
(* it counts as well, and so does the fee an intent is about to ask, unless *)
(* a payment has lowered it; and a first payment protects the package past  *)
(* its free hours.                                                          *)
Limit == policy.perUseFee + policy.feeX1 + policy.feeX2

Protected == ExtensionHours * UnitsPerHour

Account ==
    /\ \A o, p \in Open : o = p
    /\ \A o \in Open : totalFeePaid + order[o].amount <= Limit
    /\ totalFeePaid <= Limit
    /\ totalFeePaid > 0 => paidUntil >= Protected
    /\ \A o \in Having("READ") : order[o].until >= Protected
    /\ \A i \in Intents :
         (intent[i].pc # "idle" /\ intent[i].paid = totalFeePaid)
           => totalFeePaid + intent[i].fee <= Limit

PaidAndAsked ==
    /\ \A i \in Intents : intent[i].paid <= totalFeePaid
    /\ (~overlapped /\ policy.t1Hours <= ExtensionHours) => Account

(* A fee asked for tops the payments up to the base fee and both surcharges *)
(* at most.                                                                 *)
LEMMA FeeTopsUp ==
  ASSUME TypeOK, policy.t1Hours <= ExtensionHours, Fee > 0,
         totalFeePaid > 0 => paidUntil >= Protected
  PROVE  totalFeePaid + Fee <= Limit
  <1> DEFINE h == HoursElapsed(elapsed)
             tier == Tier(policy, subscriber, h)
  <1>0. policy \in Policy /\ h \in Int
    BY PolicyAssumption, HoursType DEF TypeOK
  <1>1. Fee = FeeOfTier(policy, subscriber, tier, totalFeePaid)
    BY DEF Fee, FeeDue
  <1>2. CASE tier = "FREE"
    <2>1. Fee = policy.perUseFee /\ ~subscriber
      BY <1>0, <1>1, <1>2 DEF FeeOfTier, BaseFee, TypeOK
    <2>2. h <= policy.t1Hours
      BY <1>0, <1>2, <2>1 DEF Tier, FreeUntilHours
    <2>3. elapsed <= policy.t1Hours * UnitsPerHour
      BY <1>0, <2>2, HoursRoundUp DEF TypeOK, Policy
    <2>4. policy.t1Hours * UnitsPerHour <= ExtensionHours * UnitsPerHour
      BY <1>0, UnitAssumption DEF Policy
    <2>5. ~InPaidWindow(elapsed, paidUntil)
      BY DEF Fee, FeeDue
    <2>6. totalFeePaid = 0
      <3> SUFFICES ASSUME totalFeePaid > 0 PROVE FALSE
        BY DEF TypeOK
      <3>1. paidUntil >= ExtensionHours * UnitsPerHour
        BY DEF Protected
      <3>2. ExtensionHours * UnitsPerHour \in Nat /\ policy.t1Hours * UnitsPerHour \in Nat
        BY <1>0, UnitAssumption DEF Policy
      <3> QED BY <2>3, <2>4, <2>5, <3>1, <3>2 DEF InPaidWindow, TypeOK, Never
    <2> QED BY <1>0, <2>1, <2>6 DEF Policy, Limit
  <1>3. CASE tier # "FREE"
    <2>1. OverdueFee(policy, subscriber, tier) \in Nat
      BY <1>0, <1>3 DEF Policy, Tier, OverdueFee
    <2>2. OverdueFee(policy, subscriber, tier) <= policy.feeX1 + policy.feeX2
      BY <1>0, <1>3 DEF Policy, Tier, OverdueFee
    <2>3. BaseFee(policy, subscriber) \in Nat /\ BaseFee(policy, subscriber) <= policy.perUseFee
      BY <1>0 DEF Policy, BaseFee
    <2> HIDE DEF tier
    <2>4. Fee <= BaseFee(policy, subscriber) + OverdueFee(policy, subscriber, tier) - totalFeePaid
      BY <1>0, <1>1, <1>3, <2>1, <2>3 DEF FeeOfTier, Greatest, Least, TypeOK, Policy
    <2>5. Fee \in Nat
      BY <1>0, FeeType DEF Fee, TypeOK, Never
    <2> QED BY <1>0, <2>1, <2>2, <2>3, <2>4, <2>5 DEF TypeOK, Policy, Limit
  <1> QED BY <1>2, <1>3

(* An order that is created alone asks for no more than is left of the      *)
(* limit.                                                                   *)
LEMMA AccountOfCreation ==
  ASSUME TypeOK, PaidAndAsked, NEW i \in Intents, CreateOrder(i),
         ~overlapped', policy.t1Hours <= ExtensionHours
  PROVE  Account'
  <1>1. Account /\ Open = {} /\ intent[i].pc = "create" /\ intent[i].paid = totalFeePaid
    BY DEF CreateOrder, PaidAndAsked
  <1>2. UNCHANGED <<policy, totalFeePaid, paidUntil>>
    BY DEF CreateOrder
  <1>3. PICK o \in OrderCodes :
          order' = [order EXCEPT ![o] = [status |-> "PENDING", amount |-> intent[i].fee,
                                         until |-> 0]]
    BY DEF CreateOrder, Having
  <1>4. order'[o] = [status |-> "PENDING", amount |-> intent[i].fee, until |-> 0]
    BY <1>3 DEF TypeOK
  <1>5. \A p \in OrderCodes \ {o} : order'[p] = order[p]
    BY <1>3 DEF TypeOK
  <1>6. Open' = {o}
    BY <1>1, <1>4, <1>5 DEF Open
  <1>7. Having("READ")' = {}
    BY <1>1, <1>4, <1>5 DEF Open, Having
  <1>8. totalFeePaid + intent[i].fee <= Limit
    BY <1>1 DEF Account
  <1>9. \A p \in Open' : (totalFeePaid + order[p].amount <= Limit)'
    BY <1>2, <1>4, <1>6, <1>8 DEF Limit
  <1>10. intent' = [intent EXCEPT ![i] = NoIntent]
    BY DEF CreateOrder
  <1>11. \A j \in Intents : intent'[j].pc # "idle" => intent'[j] = intent[j]
    BY <1>10 DEF TypeOK, NoIntent
  <1>12. \A j \in Intents : (intent'[j].pc # "idle" /\ intent'[j].paid = totalFeePaid)
                            => totalFeePaid + intent'[j].fee <= Limit
    BY <1>1, <1>11 DEF Account
  <1> QED BY <1>1, <1>2, <1>6, <1>7, <1>9, <1>12 DEF Account, Limit, Protected

(* A payment that is counted uses up its order; a fee read before it is one *)
(* it has lowered.                                                          *)
LEMMA AccountOfPayment ==
  ASSUME TypeOK, PaidAndAsked, NEW o \in OrderCodes, ExtendPackage(o), Account
  PROVE  Account'
  <1>1. order[o].status = "READ" /\ o \in Open /\ o \in Having("READ")
    BY DEF ExtendPackage, Open, Having
  <1>2. order[o].amount \in Nat \ {0} /\ order[o].until \in Nat
    BY <1>1 DEF TypeOK, Order, NoOrder
  <1>3. order' = [order EXCEPT ![o].status = "COUNTED"]
    BY DEF ExtendPackage
  <1>4. order'[o].status = "COUNTED" /\ \A p \in OrderCodes \ {o} : order'[p] = order[p]
    BY <1>3 DEF TypeOK
  <1>5. Open' = {}
    BY <1>1, <1>4 DEF Open, Account
  <1>6. Having("READ")' = {}
    BY <1>5 DEF Open, Having
  <1>7. /\ totalFeePaid' = totalFeePaid + order[o].amount
        /\ paidUntil' = order[o].until /\ UNCHANGED <<policy, intent>>
    BY DEF ExtendPackage
  <1>8. totalFeePaid' <= Limit /\ paidUntil' >= Protected
    BY <1>1, <1>7 DEF Account
  <1>9. \A i \in Intents : intent[i].paid \in Nat /\ intent[i].paid < totalFeePaid'
    BY <1>2, <1>7 DEF PaidAndAsked, TypeOK, Intent, NoIntent
  <1>10. \A i \in Intents : intent'[i].paid # totalFeePaid'
    BY <1>7, <1>9 DEF TypeOK
  <1> QED BY <1>5, <1>6, <1>7, <1>8, <1>10 DEF Account, Limit, Protected

(* No order becomes open, and no intent is further than it was.             *)
LEMMA AccountKept ==
  ASSUME Account, UNCHANGED <<policy, totalFeePaid, paidUntil>>,
         \A o \in OrderCodes : order'[o].amount = order[o].amount,
         Open' \subseteq Open,
         \A o \in Having("READ")' : order'[o].until >= Protected,
         \A i \in Intents : intent'[i].pc # "idle"
                             => /\ intent[i].pc # "idle"
                                /\ intent'[i].fee = intent[i].fee
                                /\ intent'[i].paid = intent[i].paid
  PROVE  Account'
  <1>1. \A o, p \in Open' : o = p
    BY DEF Account
  <1>2. \A o \in Open' : totalFeePaid + order'[o].amount <= Limit
    BY DEF Account, Open
  <1>3. \A i \in Intents : (intent'[i].pc # "idle" /\ intent'[i].paid = totalFeePaid)
                           => totalFeePaid + intent'[i].fee <= Limit
    BY DEF Account
  <1> QED BY <1>1, <1>2, <1>3 DEF Account, Limit, Protected

(* All the payments of a stay stay within one base fee and both surcharges, *)
(* for any number of intents and orders, of which none overlap.             *)
THEOREM NothingPaidTwice == Spec => []NoFeePaidTwice
  <1>1. Init => PaidAndAsked
    <2> SUFFICES ASSUME Init PROVE PaidAndAsked
      OBVIOUS
    <2>1. \A i \in Intents : intent[i].pc = "idle" /\ intent[i].paid = 0
      BY DEF Init, NoIntent
    <2>2. Open = {} /\ Having("READ") = {}
      BY DEF Init, Open, Having, NoOrder
    <2>3. Limit \in Nat /\ totalFeePaid = 0
      BY PolicyAssumption DEF Init, Limit, Policy
    <2> QED BY <2>1, <2>2, <2>3 DEF PaidAndAsked, Account
  <1>2. TypeOK /\ PaidAndAsked /\ [Next]_vars => PaidAndAsked'
    <2> SUFFICES ASSUME TypeOK, PaidAndAsked, [Next]_vars PROVE PaidAndAsked'
      OBVIOUS
    <2>1. CASE Wait \/ ChangePlan \/ UNCHANGED vars
      <3>1. UNCHANGED <<policy, paidUntil, totalFeePaid, intent, order, overlapped>>
        BY <2>1 DEF Wait, ChangePlan, vars, feeVars
      <3> QED BY <3>1 DEF PaidAndAsked, Account, Limit, Protected, Open, Having
    <2>2. ASSUME NEW i \in Intents, AskFee(i) PROVE PaidAndAsked'
      <3>1. /\ Fee > 0 /\ UNCHANGED <<policy, paidUntil, totalFeePaid, order, overlapped>>
            /\ intent'[i] = [pc |-> "find", fee |-> Fee, paid |-> totalFeePaid]
            /\ \A j \in Intents \ {i} : intent'[j] = intent[j]
        BY <2>2 DEF AskFee, TypeOK
      <3>2. \A j \in Intents : intent'[j].paid <= totalFeePaid
        BY <3>1 DEF PaidAndAsked, TypeOK
      <3>3. ASSUME Account, policy.t1Hours <= ExtensionHours PROVE Account'
        <4>1. totalFeePaid + Fee <= Limit
          BY <3>1, <3>3, FeeTopsUp DEF Account
        <4>2. \A j \in Intents : (intent'[j].pc # "idle" /\ intent'[j].paid = totalFeePaid)
                                 => totalFeePaid + intent'[j].fee <= Limit
          BY <3>1, <3>3, <4>1 DEF Account
        <4> QED BY <3>1, <3>3, <4>2 DEF Account, Limit, Protected, Open, Having
      <3> QED BY <3>1, <3>2, <3>3 DEF PaidAndAsked
    <2>3. ASSUME NEW i \in Intents, FindPending(i) PROVE PaidAndAsked'
      <3>1. /\ UNCHANGED <<policy, paidUntil, totalFeePaid, order, overlapped>>
            /\ intent[i].pc = "find"
            /\ \A j \in Intents \ {i} : intent'[j] = intent[j]
        BY <2>3 DEF FindPending, TypeOK
      <3>2. intent[i] \in Intent
        BY <3>1 DEF TypeOK, NoIntent
      <3>3. intent'[i] \in {NoIntent, [intent[i] EXCEPT !.pc = "create"],
                            [intent[i] EXCEPT !.pc = "cancel"]}
        BY <2>3 DEF FindPending, TypeOK
      <3>4. intent'[i].pc # "idle" => intent'[i].fee = intent[i].fee /\ intent'[i].paid = intent[i].paid
        BY <3>2, <3>3 DEF NoIntent, Intent
      <3>5. intent'[i].paid <= totalFeePaid
        BY <3>2, <3>3 DEF NoIntent, Intent, PaidAndAsked, TypeOK
      <3>6. Account => Account'
        <4>1. Open' = Open /\ Having("READ")' = Having("READ")
          BY <3>1 DEF Open, Having
        <4>2. Account => \A o \in Having("READ")' : order'[o].until >= Protected
          BY <3>1, <4>1 DEF Account
        <4>3. \A j \in Intents : intent'[j].pc # "idle"
                                 => /\ intent[j].pc # "idle"
                                    /\ intent'[j].fee = intent[j].fee
                                    /\ intent'[j].paid = intent[j].paid
          BY <3>1, <3>4
        <4> QED BY <3>1, <4>1, <4>2, <4>3, AccountKept
      <3> QED BY <3>1, <3>5, <3>6 DEF PaidAndAsked
    <2>4. ASSUME NEW i \in Intents, CancelPending(i) PROVE PaidAndAsked'
      <3>1. /\ UNCHANGED <<policy, paidUntil, totalFeePaid, overlapped>>
            /\ intent[i].pc = "cancel"
            /\ intent' = [intent EXCEPT ![i].pc = "create"]
            /\ \A o \in OrderCodes :
                 order'[o] = IF o \in Having("PENDING")
                             THEN [order[o] EXCEPT !.status = "CANCELLED"] ELSE order[o]
        BY <2>4 DEF CancelPending
      <3>2. \A j \in Intents : intent'[j].fee = intent[j].fee /\ intent'[j].paid = intent[j].paid
        BY <3>1 DEF TypeOK
      <3>3. \A j \in Intents : intent'[j].pc # "idle" => intent[j].pc # "idle"
        BY <3>1 DEF TypeOK
      <3>4. \A o \in OrderCodes :
              /\ order'[o].amount = order[o].amount /\ order'[o].until = order[o].until
              /\ order'[o].status \in {order[o].status, "CANCELLED"}
        BY <3>1 DEF TypeOK, Order, NoOrder
      <3>5. Open' \subseteq Open /\ Having("READ")' \subseteq Having("READ")
        BY <3>4 DEF Open, Having
      <3>6. Account => \A o \in Having("READ")' : order'[o].until >= Protected
        BY <3>4, <3>5 DEF Account, Having
      <3>7. Account => Account'
        BY <3>1, <3>2, <3>3, <3>4, <3>5, <3>6, AccountKept
      <3> QED BY <3>1, <3>2, <3>7 DEF PaidAndAsked
    <2>5. ASSUME NEW i \in Intents, CreateOrder(i) PROVE PaidAndAsked'
      <3>1. UNCHANGED <<policy, totalFeePaid>> /\ intent' = [intent EXCEPT ![i] = NoIntent]
        BY <2>5 DEF CreateOrder
      <3>2. \A j \in Intents : intent'[j].paid <= totalFeePaid
        BY <3>1 DEF PaidAndAsked, TypeOK, NoIntent
      <3> QED BY <2>5, <3>1, <3>2, AccountOfCreation DEF PaidAndAsked
    <2>6. ASSUME NEW o \in OrderCodes, SettleOrder(o) PROVE PaidAndAsked'
      <3>1. /\ UNCHANGED <<policy, paidUntil, totalFeePaid, intent, overlapped>>
            /\ order[o].status = "PENDING"
            /\ order' = [order EXCEPT ![o].status = "PAID"]
        BY <2>6 DEF SettleOrder
      <3>2. /\ order'[o].status = "PAID" /\ order'[o].amount = order[o].amount
            /\ \A p \in OrderCodes \ {o} : order'[p] = order[p]
        BY <3>1 DEF TypeOK, Order, NoOrder
      <3>3. Open' \subseteq Open /\ Having("READ")' \subseteq Having("READ")
        BY <3>1, <3>2 DEF Open, Having
      <3>4. Account => \A p \in Having("READ")' : order'[p].until >= Protected
        BY <3>2, <3>3 DEF Account, Having
      <3>5. Account => Account'
        BY <3>1, <3>2, <3>3, <3>4, AccountKept
      <3> QED BY <3>1, <3>5 DEF PaidAndAsked
    <2>7. ASSUME NEW o \in OrderCodes, ReadPackage(o) PROVE PaidAndAsked'
      <3> DEFINE until == Greatest(paidUntil, elapsed) + Protected
      <3>1. /\ UNCHANGED <<policy, paidUntil, totalFeePaid, intent, overlapped>>
            /\ order[o].status = "PAID"
            /\ order' = [order EXCEPT ![o].status = "READ", ![o].until = until]
        BY <2>7 DEF ReadPackage, Protected
      <3>2. until >= Protected
        BY UnitAssumption DEF TypeOK, Greatest, Never, Protected
      <3> HIDE DEF until
      <3>3. /\ order'[o].status = "READ" /\ order'[o].amount = order[o].amount
            /\ order'[o].until = until
            /\ \A p \in OrderCodes \ {o} : order'[p] = order[p]
        BY <3>1 DEF TypeOK, Order, NoOrder
      <3>4. Open' \subseteq Open
        BY <3>1, <3>3 DEF Open
      <3>5. Account => \A p \in Having("READ")' : order'[p].until >= Protected
        BY <3>2, <3>3 DEF Account, Having
      <3>6. Account => Account'
        BY <3>1, <3>3, <3>4, <3>5, AccountKept
      <3> QED BY <3>1, <3>6 DEF PaidAndAsked
    <2>8. ASSUME NEW o \in OrderCodes, ExtendPackage(o) PROVE PaidAndAsked'
      <3>1. /\ UNCHANGED <<policy, intent, overlapped>>
            /\ totalFeePaid' = totalFeePaid + order[o].amount
            /\ order[o].amount \in Nat
        BY <2>8 DEF ExtendPackage, TypeOK, Order, NoOrder
      <3>2. \A i \in Intents : intent'[i].paid <= totalFeePaid'
        BY <3>1 DEF PaidAndAsked, TypeOK, Intent, NoIntent
      <3> QED BY <2>8, <3>1, <3>2, AccountOfPayment DEF PaidAndAsked
    <2> QED BY <2>1, <2>2, <2>3, <2>4, <2>5, <2>6, <2>7, <2>8 DEF Next
  <1>3. PaidAndAsked => NoFeePaidTwice
    BY DEF PaidAndAsked, Account, NoFeePaidTwice, Limit
  <1> QED BY <1>1, <1>2, <1>3, TypeCorrect, PTL DEF Spec
-----------------------------------------------------------------------------
(* The hours begun never run backwards.                                     *)
LEMMA HoursGrow ==
  ASSUME NEW u \in Nat, NEW v \in Nat, u <= v
  PROVE  HoursElapsed(u) <= HoursElapsed(v)
  BY UnitAssumption DEF HoursElapsed

(* Later tiers of a stay nothing was paid for are not cheaper.              *)
LEMMA TiersGrow ==
  ASSUME NEW p \in Policy, NEW sub \in BOOLEAN, NEW h \in Int, NEW k \in Int, h <= k
  PROVE  FeeOfTier(p, sub, Tier(p, sub, h), 0) <= FeeOfTier(p, sub, Tier(p, sub, k), 0)
  <1>1. CASE IsPendingRetrieval(p, k)
    BY <1>1 DEF Policy, Tier, IsPendingRetrieval, FeeOfTier, OverdueFee, BaseFee, Greatest, Least
  <1>2. CASE ~IsPendingRetrieval(p, k)
    <2>1. ~IsPendingRetrieval(p, h)
      BY <1>2 DEF IsPendingRetrieval, Policy
    <2>2. FreeUntilHours(p, sub) \in Int
      BY DEF FreeUntilHours, Greatest, Policy
    <2> QED
      BY <1>2, <2>1, <2>2 DEF Policy, Tier, FeeOfTier, OverdueFee, BaseFee, Greatest, Least
  <1> QED BY <1>1, <1>2

(* A step of the clock leaves everything else of the stay alone.            *)
LEMMA OnlyWaitMovesTime ==
  ASSUME TypeOK, [Next]_vars, elapsed' > elapsed
  PROVE  Wait
  <1>1. elapsed' # elapsed
    BY DEF TypeOK
  <1>2. ~ChangePlan /\ ~UNCHANGED vars
    BY <1>1 DEF ChangePlan, vars
  <1>3. ~ \E i \in Intents : AskFee(i) \/ FindPending(i) \/ CancelPending(i) \/ CreateOrder(i)
    BY <1>1 DEF AskFee, FindPending, CancelPending, CreateOrder
  <1>4. ~ \E o \in OrderCodes : SettleOrder(o) \/ ReadPackage(o) \/ ExtendPackage(o)
    BY <1>1 DEF SettleOrder, ReadPackage, ExtendPackage
  <1> QED BY <1>2, <1>3, <1>4 DEF Next

(* Waiting without having paid never lowers the fee, for every policy.      *)
THEOREM WaitingCosts == Spec => WaitingIsNeverCheaper
  <1>1. TypeOK /\ [Next]_vars => [(elapsed' > elapsed /\ totalFeePaid = 0) => Fee' >= Fee]_vars
    <2> SUFFICES ASSUME TypeOK, [Next]_vars, elapsed' > elapsed, totalFeePaid = 0
                 PROVE  Fee' >= Fee
      OBVIOUS
    <2>1. /\ elapsed' = elapsed + 1
          /\ UNCHANGED <<policy, subscriber, paidUntil, totalFeePaid>>
      BY OnlyWaitMovesTime DEF Wait
    <2>2. /\ policy \in Policy /\ subscriber \in BOOLEAN /\ elapsed \in Nat
          /\ paidUntil \in Int /\ elapsed + 1 \in Nat
      BY PolicyAssumption DEF TypeOK, Never
    <2> DEFINE h == HoursElapsed(elapsed)
               k == HoursElapsed(elapsed + 1)
    <2>3. h \in Int /\ k \in Int /\ h <= k
      BY <2>2, HoursType, HoursGrow
    <2>4. Fee' = FeeDue(policy, subscriber, elapsed + 1, paidUntil, 0)
      BY <2>1 DEF Fee
    <2>5. Fee = FeeDue(policy, subscriber, elapsed, paidUntil, 0)
      BY DEF Fee
    <2>6. Fee \in Nat /\ FeeDue(policy, subscriber, elapsed + 1, paidUntil, 0) \in Nat
      BY <2>2, <2>5, FeeType
    <2>7. CASE InPaidWindow(elapsed, paidUntil)
      BY <2>4, <2>5, <2>6, <2>7 DEF FeeDue
    <2>8. CASE ~InPaidWindow(elapsed, paidUntil)
      <3>1. ~InPaidWindow(elapsed + 1, paidUntil)
        BY <2>2, <2>8 DEF InPaidWindow
      <3>2. FeeOfTier(policy, subscriber, Tier(policy, subscriber, h), 0)
              <= FeeOfTier(policy, subscriber, Tier(policy, subscriber, k), 0)
        BY <2>2, <2>3, TiersGrow
      <3>3. Fee <= Fee'
        BY <2>4, <2>5, <2>8, <3>1, <3>2 DEF FeeDue
      <3> QED BY <2>4, <2>6, <3>3
    <2> QED BY <2>7, <2>8
  <1> QED BY <1>1, TypeCorrect, PTL DEF Spec, WaitingIsNeverCheaper

(* The fee of an hour of the stay before anything is paid, row by row.      *)
LEMMA FeeOfRow ==
  ASSUME NEW p \in Policy, NEW sub \in BOOLEAN, NEW h \in Int,
         p.t1Hours < p.t2Hours, p.t2Hours < p.t3Hours, p.feeX1 <= p.maxOverdueFeeCap,
         sub => \/ FreeUntilHours(p, TRUE) \in {p.t1Hours, p.t2Hours}
                \/ FreeUntilHours(p, TRUE) >= p.t3Hours,
         NEW row \in PricingTiers(p), Covers(row, h)
  PROVE  FeeOfTier(p, sub, Tier(p, sub, h), 0)
           = IF sub THEN row.subscriberFee ELSE row.retailFee
  <1> USE DEF Policy, Tier, IsPendingRetrieval, FreeUntilHours, BaseFee, Greatest, Least
  <1> DEFINE free == Greatest(p.t1Hours, p.subscriberFreeHours)
             capped == Least(p.feeX1 + p.feeX2, p.maxOverdueFeeCap)
  <1>0. \A r \in PricingTiers(p) : r.tier \in {"FREE", "TIER_1", "TIER_2", "RETRIEVAL"}
    BY DEF PricingTiers
  <1>1. CASE row.tier = "FREE"
    <2>1. /\ row.toHours = p.t1Hours /\ row.subscriberFee = 0 /\ row.retailFee = p.perUseFee
      BY <1>1 DEF PricingTiers
    <2>2. h <= p.t1Hours
      BY <1>1, <2>1 DEF Covers, Never
    <2>3. Tier(p, sub, h) = "FREE"
      BY <2>2
    <2> QED BY <2>1, <2>3 DEF FeeOfTier
  <1>2. CASE row.tier = "TIER_1"
    <2>1. /\ row.fromHours = p.t1Hours /\ row.toHours = p.t2Hours
          /\ row.subscriberFee = (IF free >= p.t2Hours THEN 0 ELSE p.feeX1)
          /\ row.retailFee = p.perUseFee + p.feeX1
      BY <1>2 DEF PricingTiers
    <2>2. p.t1Hours < h /\ h <= p.t2Hours
      BY <1>2, <2>1 DEF Covers, Never
    <2>3. CASE sub /\ free >= p.t2Hours
      <3>1. Tier(p, sub, h) = "FREE"
        BY <2>2, <2>3
      <3> QED BY <2>1, <2>3, <3>1 DEF FeeOfTier
    <2>4. CASE ~(sub /\ free >= p.t2Hours)
      <3>1. Tier(p, sub, h) = "TIER_1"
        BY <2>2, <2>4
      <3> QED BY <2>1, <2>4, <3>1 DEF FeeOfTier, OverdueFee
    <2> QED BY <2>3, <2>4
  <1>3. CASE row.tier = "TIER_2"
    <2>1. /\ row.fromHours = p.t2Hours /\ row.toHours = p.t3Hours
          /\ row.subscriberFee = (IF free >= p.t3Hours THEN 0 ELSE p.feeX1)
          /\ row.retailFee = p.perUseFee + capped
      BY <1>3 DEF PricingTiers
    <2>2. p.t2Hours < h /\ h < p.t3Hours
      BY <1>3, <2>1 DEF Covers, Never
    <2>3. CASE sub /\ free >= p.t3Hours
      <3>1. Tier(p, sub, h) = "FREE"
        BY <2>2, <2>3
      <3> QED BY <2>1, <2>3, <3>1 DEF FeeOfTier
    <2>4. CASE ~(sub /\ free >= p.t3Hours)
      <3>1. Tier(p, sub, h) = "TIER_2"
        BY <2>2, <2>4
      <3> QED BY <2>1, <2>4, <3>1 DEF FeeOfTier, OverdueFee
    <2> QED BY <2>3, <2>4
  <1>4. CASE row.tier = "RETRIEVAL"
    <2>1. /\ row.fromHours = p.t3Hours
          /\ row.subscriberFee = capped /\ row.retailFee = p.perUseFee + capped
      BY <1>4 DEF PricingTiers
    <2>2. h >= p.t3Hours
      BY <1>4, <2>1 DEF Covers
    <2>3. Tier(p, sub, h) = "RETRIEVAL"
      BY <2>2
    <2> QED BY <2>1, <2>3 DEF FeeOfTier, OverdueFee
  <1> QED BY <1>0, <1>1, <1>2, <1>3, <1>4

(* The table residents see names, in the row whose published hours hold the *)
(* hour of the stay, the fee they are charged: for every policy whose       *)
(* limits are in order, whose cap does not lie below the first surcharge    *)
(* and, for holders of the plan, whose free hours end with a row.           *)
THEOREM TableIsCharged == Spec => []FeeMatchesTable
  <1>1. ASSUME TypeOK PROVE FeeMatchesTable
    <2> DEFINE h == HoursElapsed(elapsed)
    <2> SUFFICES ASSUME TableApplies, subscriber => PlanEndsWithARow,
                        NEW row \in PricingTiers(policy), Covers(row, h)
                 PROVE  Fee = IF subscriber THEN row.subscriberFee ELSE row.retailFee
      BY DEF FeeMatchesTable, ChargedAsPublished
    <2>1. policy \in Policy /\ subscriber \in BOOLEAN /\ h \in Int
      BY <1>1, PolicyAssumption, HoursType DEF TypeOK
    <2>2. Fee = FeeOfTier(policy, subscriber, Tier(policy, subscriber, h), 0)
      BY DEF TableApplies, Fee, FeeDue, InPaidWindow
    <2> HIDE DEF h
    <2> QED BY <2>1, <2>2, FeeOfRow DEF TableApplies, LimitsInOrder, PlanEndsWithARow
  <1> QED BY <1>1, TypeCorrect, PTL
-----------------------------------------------------------------------------
(* Deadlines                                                                *)

(* Every write of the threshold writes one an administrator chose.          *)
DeadlineTypes ==
    /\ S!DeadlineTypeOK
    /\ \A a \in Admins : edit[a].pc = "write" => edit[a].next \in Limits

Job == [kind: {"none", "overdue", "expiring"}, list: SUBSET Packages, tell: SUBSET Packages]

Edit == [pc: {"idle", "write", "resync", "restore", "mark"}, previous: Nat, next: Nat, at: Nat]

Extended == [until: Nat \cup {S!Never}, restore: BOOLEAN]

(* At the start nothing is claimed and nobody works.                        *)
LEMMA DeadlineStart == ASSUME S!Init PROVE DeadlineTypes
  <1> USE BuildingAssumption DEF S!DeadlineAssumption
  <1>1. limit \in Limits /\ limit \in Nat
    BY DEF S!Init
  <1>2. parcel \in [Packages -> S!Parcel]
    BY <1>1 DEF S!Init, S!Parcel, S!Status, S!Never
  <1>3. job \in [Jobs -> Job] /\ edit \in [Admins -> Edit]
    BY DEF S!Init, S!Quiet, S!NoJob, S!NoEdit, Job, Edit
  <1>4. confirm \in [Packages -> Limits \cup {S!Never}] /\ pay \in [Packages -> Extended]
    <2>1. S!NoPay \in Extended
      BY DEF S!NoPay, Extended
    <2> QED BY <2>1 DEF S!Init, S!Quiet
  <1>5. \A a \in Admins : edit[a].pc # "write"
    BY DEF S!Init, S!Quiet, S!NoEdit
  <1>6. \A count \in {spells, told, warned} : count \in [Packages -> Nat]
    BY DEF S!Init
  <1>7. events \in 0..MaxEvents /\ hour \in 0..LastHour
    BY DEF S!Init
  <1> QED BY <1>1, <1>2, <1>3, <1>4, <1>5, <1>6, <1>7
          DEF DeadlineTypes, S!DeadlineTypeOK, Job, Edit, Extended

(* The counters grow by one for some packages and stay for the others.      *)
LEMMA CountersGrow ==
  ASSUME NEW f \in [Packages -> Nat], NEW P
  PROVE  [p \in Packages |-> IF p \in P THEN f[p] + 1 ELSE f[p]] \in [Packages -> Nat]
  OBVIOUS

(* Deposits, pickups and payments write documents of packages.              *)
LEMMA PackageTypes ==
  ASSUME DeadlineTypes, NEW p \in Packages,
         \/ S!ReadPolicy(p) \/ S!ConfirmDeposit(p) \/ S!PickUp(p)
         \/ S!ReadForExtension(p) \/ S!SaveExtension(p)
  PROVE  DeadlineTypes'
  <1> USE BuildingAssumption DEF S!DeadlineAssumption
  <1>0. /\ parcel \in [Packages -> S!Parcel] /\ parcel[p] \in S!Parcel
        /\ confirm \in [Packages -> Limits \cup {S!Never}]
        /\ pay \in [Packages -> Extended] /\ pay[p] \in Extended
        /\ limit \in Limits /\ Limits \subseteq Nat /\ hour \in Nat
        /\ events \in 0..MaxEvents /\ MaxEvents \in Nat /\ LastHour \in Nat
    BY DEF DeadlineTypes, S!DeadlineTypeOK, Extended
  <1>1. CASE S!ReadPolicy(p)
    BY <1>0, <1>1 DEF DeadlineTypes, S!DeadlineTypeOK, S!ReadPolicy
  <1>2. CASE S!ConfirmDeposit(p)
    <2> DEFINE d == [parcel[p] EXCEPT !.status = "WAITING_FOR_PICKUP", !.droppedOffAt = hour,
                                      !.expiredAt = hour + confirm[p]]
    <2>0. hour + confirm[p] \in Int /\ hour \in Int
      BY <1>0, <1>2 DEF S!ConfirmDeposit
    <2>1. d \in S!Parcel
      BY <1>0, <2>0 DEF S!Parcel, S!Status
    <2>2. parcel' = [parcel EXCEPT ![p] = d]
      BY <1>0, <1>2 DEF S!ConfirmDeposit
    <2> HIDE DEF d
    <2>3. parcel' \in [Packages -> S!Parcel]
      BY <1>0, <2>1, <2>2
    <2>4. confirm' \in [Packages -> Limits \cup {S!Never}]
      <3>1. confirm' = [confirm EXCEPT ![p] = S!Never]
        BY <1>2 DEF S!ConfirmDeposit
      <3> QED BY <1>0, <3>1
    <2> QED BY <1>2, <2>3, <2>4 DEF DeadlineTypes, S!DeadlineTypeOK, S!ConfirmDeposit
  <1>3. CASE S!PickUp(p)
    <2>1. parcel' \in [Packages -> S!Parcel]
      BY <1>0, <1>3 DEF S!PickUp, S!Parcel, S!Status
    <2> QED BY <1>3, <2>1 DEF DeadlineTypes, S!DeadlineTypeOK, S!PickUp
  <1>4. CASE S!ReadForExtension(p)
    <2> DEFINE base == IF parcel[p].paidUntil > hour THEN parcel[p].paidUntil ELSE hour
               r == [until |-> base + Extension, restore |-> parcel[p].status = "OVERDUE"]
    <2>1. base + Extension \in Nat
      BY <1>0 DEF S!Parcel
    <2>2. r \in Extended
      BY <2>1 DEF Extended
    <2>3. pay' = [pay EXCEPT ![p] = r] /\ events' \in 0..MaxEvents
      BY <1>0, <1>4 DEF S!ReadForExtension, S!Event
    <2> HIDE DEF r, base
    <2>4. pay' \in [Packages -> Extended]
      BY <1>0, <2>2, <2>3
    <2> QED BY <1>4, <2>3, <2>4 DEF DeadlineTypes, S!DeadlineTypeOK, S!ReadForExtension, Extended
  <1>5. CASE S!SaveExtension(p)
    <2> DEFINE st == IF pay[p].restore /\ parcel[p].status # "PICKED_UP"
                     THEN "WAITING_FOR_PICKUP" ELSE parcel[p].status
               d == [parcel[p] EXCEPT !.paidUntil = pay[p].until, !.status = st]
    <2>1. st \in S!Status /\ pay[p].until \in Int
      BY <1>0 DEF S!Parcel, S!Status, Extended, S!Never
    <2> HIDE DEF st
    <2>2. d \in S!Parcel
      BY <1>0, <2>1 DEF S!Parcel
    <2>3. parcel' = [parcel EXCEPT ![p] = d]
      BY <1>0, <1>5 DEF S!SaveExtension, st
    <2> HIDE DEF d
    <2>4. parcel' \in [Packages -> S!Parcel]
      BY <1>0, <2>2, <2>3
    <2>5. S!NoPay \in Extended
      BY DEF S!NoPay, Extended
    <2>6. pay' \in [Packages -> Extended]
      BY <1>0, <1>5, <2>5 DEF S!SaveExtension
    <2> QED BY <1>5, <2>4, <2>6 DEF DeadlineTypes, S!DeadlineTypeOK, S!SaveExtension, Extended
  <1> QED BY <1>1, <1>2, <1>3, <1>4, <1>5

(* Changes of the threshold.                                                *)
LEMMA EditTypes ==
  ASSUME DeadlineTypes, NEW a \in Admins,
         \/ \E l \in Limits : S!UpdateBuilding(a, l)
         \/ S!WriteBuilding(a) \/ S!ResyncExpiry(a) \/ S!RestoreWaiting(a) \/ S!MarkOverdue(a)
  PROVE  DeadlineTypes'
  <1> USE BuildingAssumption DEF S!DeadlineAssumption
  <1>0. /\ parcel \in [Packages -> S!Parcel] /\ \A p \in Packages : parcel[p] \in S!Parcel
        /\ edit \in [Admins -> Edit] /\ edit[a] \in Edit
        /\ limit \in Limits /\ Limits \subseteq Nat /\ hour \in Nat
        /\ events \in 0..MaxEvents /\ MaxEvents \in Nat /\ spells \in [Packages -> Nat]
        /\ \A b \in Admins : edit[b].pc = "write" => edit[b].next \in Limits
        /\ S!NoEdit \in Edit /\ S!NoEdit.pc # "write"
    <2>1. S!NoEdit \in Edit /\ S!NoEdit.pc # "write"
      BY DEF Edit, S!NoEdit
    <2>2. parcel \in [Packages -> S!Parcel] /\ \A p \in Packages : parcel[p] \in S!Parcel
      BY DEF DeadlineTypes, S!DeadlineTypeOK
    <2>3. /\ limit \in Limits /\ Limits \subseteq Nat /\ hour \in Nat
          /\ events \in 0..MaxEvents /\ MaxEvents \in Nat /\ spells \in [Packages -> Nat]
      <3>1. Limits \subseteq Nat /\ MaxEvents \in Nat /\ LastHour \in Nat
        OBVIOUS
      <3>2. spells \in [Packages -> Nat]
        BY DEF DeadlineTypes, S!DeadlineTypeOK
      <3>3. limit \in Limits /\ events \in 0..MaxEvents /\ hour \in 0..LastHour
        BY DEF DeadlineTypes, S!DeadlineTypeOK
      <3> QED BY <3>1, <3>2, <3>3
    <2>4. /\ edit \in [Admins -> Edit] /\ edit[a] \in Edit
          /\ \A b \in Admins : edit[b].pc = "write" => edit[b].next \in Limits
      BY DEF DeadlineTypes, S!DeadlineTypeOK, Edit
    <2> QED BY <2>1, <2>2, <2>3, <2>4
  <1>1. CASE \E l \in Limits : S!UpdateBuilding(a, l)
    <2>1. PICK l \in Limits : S!UpdateBuilding(a, l)
      BY <1>1
    <2> DEFINE r == [pc |-> "write", previous |-> limit, next |-> l, at |-> hour]
    <2>2. r \in Edit /\ r.next \in Limits
      BY <1>0 DEF Edit
    <2>3. edit' = [edit EXCEPT ![a] = r] /\ events' \in 0..MaxEvents
      BY <1>0, <2>1 DEF S!UpdateBuilding, S!Event
    <2> HIDE DEF r
    <2>4. /\ edit' \in [Admins -> Edit]
          /\ \A b \in Admins : edit'[b].pc = "write" => edit'[b].next \in Limits
      BY <1>0, <2>2, <2>3
    <2> QED BY <2>1, <2>3, <2>4 DEF DeadlineTypes, S!DeadlineTypeOK, S!UpdateBuilding, Edit
  <1>2. CASE S!WriteBuilding(a)
    <2> DEFINE r == IF edit[a].previous # edit[a].next THEN [edit[a] EXCEPT !.pc = "resync"]
                    ELSE S!NoEdit
    <2>1. r \in Edit /\ r.pc # "write"
      BY <1>0 DEF Edit
    <2>2. edit' = [edit EXCEPT ![a] = r] /\ limit' \in Limits
      BY <1>0, <1>2 DEF S!WriteBuilding
    <2> HIDE DEF r
    <2>3. /\ edit' \in [Admins -> Edit]
          /\ \A b \in Admins : edit'[b].pc = "write" => edit'[b].next \in Limits
      BY <1>0, <2>1, <2>2
    <2> QED BY <1>2, <2>2, <2>3 DEF DeadlineTypes, S!DeadlineTypeOK, S!WriteBuilding, Edit
  <1>3. CASE S!ResyncExpiry(a)
    <2> DEFINE dated(p) == [parcel[p] EXCEPT !.expiredAt = parcel[p].droppedOffAt + edit[a].next]
    <2>1. \A p \in Packages : dated(p) \in S!Parcel
      BY <1>0 DEF S!Parcel, Edit
    <2>2. parcel' = [p \in Packages |-> IF S!Pickupable(p) THEN dated(p) ELSE parcel[p]]
      BY <1>3 DEF S!ResyncExpiry
    <2> HIDE DEF dated
    <2>3. parcel' \in [Packages -> S!Parcel]
      BY <1>0, <2>1, <2>2
    <2>4. /\ edit' \in [Admins -> Edit]
          /\ \A b \in Admins : edit'[b].pc = "write" => edit'[b].next \in Limits
      BY <1>0, <1>3 DEF S!ResyncExpiry, Edit
    <2> QED BY <1>3, <2>3, <2>4 DEF DeadlineTypes, S!DeadlineTypeOK, S!ResyncExpiry, Edit
  <1>4. CASE S!RestoreWaiting(a)
    <2> DEFINE waiting(p) == [parcel[p] EXCEPT !.status = "WAITING_FOR_PICKUP"]
    <2>1. \A p \in Packages : waiting(p) \in S!Parcel
      BY <1>0 DEF S!Parcel, S!Status
    <2>2. parcel' = [p \in Packages |-> IF parcel[p].status = "OVERDUE" /\ parcel[p].expiredAt > hour
                                        THEN waiting(p) ELSE parcel[p]]
      BY <1>4 DEF S!RestoreWaiting
    <2> HIDE DEF waiting
    <2>3. parcel' \in [Packages -> S!Parcel]
      BY <1>0, <2>1, <2>2
    <2> DEFINE r == [edit[a] EXCEPT !.pc = "mark", !.at = hour]
    <2>4. r \in Edit /\ r.pc # "write" /\ edit' = [edit EXCEPT ![a] = r]
      BY <1>0, <1>4 DEF S!RestoreWaiting, Edit
    <2> HIDE DEF r
    <2>5. /\ edit' \in [Admins -> Edit]
          /\ \A b \in Admins : edit'[b].pc = "write" => edit'[b].next \in Limits
      BY <1>0, <2>4
    <2> QED BY <1>4, <2>3, <2>5 DEF DeadlineTypes, S!DeadlineTypeOK, S!RestoreWaiting, Edit
  <1>5. CASE S!MarkOverdue(a)
    <2> DEFINE late == S!OverdueAt(edit[a].at)
               overdue(p) == [parcel[p] EXCEPT !.status = "OVERDUE"]
    <2>1. \A p \in Packages : overdue(p) \in S!Parcel
      BY <1>0 DEF S!Parcel, S!Status
    <2>2. /\ parcel' = [p \in Packages |-> IF p \in late THEN overdue(p) ELSE parcel[p]]
          /\ spells' = [p \in Packages |-> IF p \in late THEN spells[p] + 1 ELSE spells[p]]
      BY <1>5 DEF S!MarkOverdue, S!Begun
    <2> HIDE DEF late, overdue
    <2>3. parcel' \in [Packages -> S!Parcel] /\ spells' \in [Packages -> Nat]
      BY <1>0, <2>1, <2>2, CountersGrow
    <2>4. /\ edit' \in [Admins -> Edit]
          /\ \A b \in Admins : edit'[b].pc = "write" => edit'[b].next \in Limits
      BY <1>0, <1>5 DEF S!MarkOverdue
    <2> QED BY <1>5, <2>3, <2>4 DEF DeadlineTypes, S!DeadlineTypeOK, S!MarkOverdue, Edit
  <1> QED BY <1>1, <1>2, <1>3, <1>4, <1>5

(* The steps of the jobs.                                                   *)
LEMMA JobTypes ==
  ASSUME DeadlineTypes, NEW j \in Jobs,
         \/ S!HandleOverduePackagesCron(j) \/ S!HandleExpiringPackagesCron(j)
         \/ S!NotifyResidentOverdue(j) \/ S!NotifyPackageExpiring(j)
         \/ \E p \in Packages : S!MoveOverdue(j, p) \/ S!ClaimWarning(j, p)
  PROVE  DeadlineTypes'
  <1> USE BuildingAssumption DEF S!DeadlineAssumption
  <1>0. /\ parcel \in [Packages -> S!Parcel]
        /\ job \in [Jobs -> Job] /\ job[j] \in Job /\ S!NoJob \in Job
    BY DEF DeadlineTypes, S!DeadlineTypeOK, Job, S!NoJob
  <1>8. /\ spells \in [Packages -> Nat] /\ told \in [Packages -> Nat] /\ warned \in [Packages -> Nat]
        /\ hour \in Int
    <2>1. hour \in 0..LastHour /\ \A count \in {spells, told, warned} : count \in [Packages -> Nat]
      BY DEF DeadlineTypes, S!DeadlineTypeOK
    <2>2. LastHour \in Int
      OBVIOUS
    <2>3. hour \in Int
      BY <2>1, <2>2
    <2> QED BY <2>1, <2>3, Zenon
  <1>1. CASE S!HandleOverduePackagesCron(j)
    <2>1. job' \in [Jobs -> Job]
      BY <1>0, <1>1 DEF S!HandleOverduePackagesCron, S!OverdueAt, Job
    <2> QED BY <1>1, <2>1 DEF DeadlineTypes, S!DeadlineTypeOK, S!HandleOverduePackagesCron, Job
  <1>2. CASE S!HandleExpiringPackagesCron(j)
    <2>1. job' \in [Jobs -> Job]
      BY <1>0, <1>2 DEF S!HandleExpiringPackagesCron, S!ExpiringAt, Job
    <2> QED BY <1>2, <2>1 DEF DeadlineTypes, S!DeadlineTypeOK, S!HandleExpiringPackagesCron, Job
  <1>3. CASE S!NotifyResidentOverdue(j)
    <2>1. job' \in [Jobs -> Job]
      BY <1>0, <1>3 DEF S!NotifyResidentOverdue, S!Told, Job
    <2>2. told' \in [Packages -> Nat]
      BY <1>8, <1>3 DEF S!NotifyResidentOverdue
    <2> QED BY <1>3, <2>1, <2>2 DEF DeadlineTypes, S!DeadlineTypeOK, S!NotifyResidentOverdue, Job
  <1>4. CASE S!NotifyPackageExpiring(j)
    <2>1. job' \in [Jobs -> Job]
      BY <1>0, <1>4 DEF S!NotifyPackageExpiring, S!Told, Job
    <2>2. warned' \in [Packages -> Nat]
      BY <1>8, <1>4 DEF S!NotifyPackageExpiring
    <2> QED BY <1>4, <2>1, <2>2 DEF DeadlineTypes, S!DeadlineTypeOK, S!NotifyPackageExpiring, Job
  <1>5. ASSUME NEW p \in Packages, NEW tells \in BOOLEAN, S!Worked(j, p, tells)
        PROVE  job' \in [Jobs -> Job]
    <2> DEFINE r == IF job[j].list = {p} /\ ~tells THEN S!NoJob
                    ELSE [job[j] EXCEPT !.list = job[j].list \ {p},
                                        !.tell = IF tells THEN {p} ELSE {}]
    <2>1. r \in Job
      BY <1>0 DEF Job
    <2>2. job' = [job EXCEPT ![j] = r]
      BY <1>0, <1>5 DEF S!Worked
    <2> HIDE DEF r
    <2> QED BY <1>0, <2>1, <2>2
  <1>6. CASE \E p \in Packages : S!MoveOverdue(j, p)
    <2>1. PICK p \in Packages : S!MoveOverdue(j, p)
      BY <1>6
    <2>2. job' \in [Jobs -> Job]
      BY <1>5, <2>1 DEF S!MoveOverdue
    <2>3. parcel' \in [Packages -> S!Parcel]
      BY <1>0, <2>1 DEF S!MoveOverdue, S!Parcel, S!Status
    <2>4. spells' \in [Packages -> Nat]
      BY <1>8, <2>1, CountersGrow DEF S!MoveOverdue, S!Begun
    <2> QED BY <2>1, <2>2, <2>3, <2>4 DEF DeadlineTypes, S!DeadlineTypeOK, S!MoveOverdue, Job
  <1>7. CASE \E p \in Packages : S!ClaimWarning(j, p)
    <2>1. PICK p \in Packages : S!ClaimWarning(j, p)
      BY <1>7
    <2>2. job' \in [Jobs -> Job]
      BY <1>5, <2>1 DEF S!ClaimWarning
    <2>3. parcel' \in [Packages -> S!Parcel]
      BY <1>0, <1>8, <2>1 DEF S!ClaimWarning, S!Parcel, S!Status
    <2> QED BY <2>1, <2>2, <2>3 DEF DeadlineTypes, S!DeadlineTypeOK, S!ClaimWarning, Job
  <1> QED BY <1>1, <1>2, <1>3, <1>4, <1>6, <1>7

(* A restart forgets what was in flight.                                    *)
LEMMA RestartTypes == ASSUME DeadlineTypes, S!Restart PROVE DeadlineTypes'
  <1> USE BuildingAssumption DEF S!DeadlineAssumption
  <1>1. /\ S!NoJob \in Job /\ S!NoEdit \in Edit /\ S!NoEdit.pc # "write" /\ S!NoPay \in Extended
        /\ events' \in 0..MaxEvents
    BY DEF S!NoJob, S!NoEdit, S!NoPay, Job, Edit, Extended, S!Restart, S!Event,
           DeadlineTypes, S!DeadlineTypeOK
  <1>2. /\ confirm' \in [Packages -> Limits \cup {S!Never}] /\ pay' \in [Packages -> Extended]
        /\ edit' \in [Admins -> Edit] /\ job' \in [Jobs -> Job]
        /\ \A a \in Admins : edit'[a].pc # "write"
    BY <1>1 DEF S!Restart
  <1> QED BY <1>1, <1>2 DEF DeadlineTypes, S!DeadlineTypeOK, S!Restart, Job, Edit, Extended

(* Time passes.                                                             *)
LEMMA TickTypes == ASSUME DeadlineTypes, S!Tick PROVE DeadlineTypes'
  BY BuildingAssumption DEF S!DeadlineAssumption, DeadlineTypes, S!DeadlineTypeOK, S!Tick

(* The documents, the jobs and the edits of the deadlines keep their types. *)
LEMMA DeadlineTypesKept == ASSUME DeadlineTypes, [S!Next]_(S!dvars) PROVE DeadlineTypes'
  <1>1. CASE UNCHANGED S!dvars
    BY <1>1 DEF S!dvars, DeadlineTypes, S!DeadlineTypeOK
  <1>2. CASE S!Next
    BY <1>2, PackageTypes, EditTypes, JobTypes, RestartTypes, TickTypes DEF S!Next
  <1> QED BY <1>1, <1>2
-----------------------------------------------------------------------------
(* Job j is about to announce package p as expiring, or as overdue.         *)
Tells(j, p) == job[j].kind = "expiring" /\ p \in job[j].tell

Alerts(j, p) == job[j].kind = "overdue" /\ p \in job[j].tell

(* Nobody is about to announce package p.                                   *)
Silent(p) == \A j \in Jobs : ~Tells(j, p)

(* An announcement follows a claim, no two follow the same one, and after   *)
(* it none is to come.                                                      *)
Announced ==
    \A p \in Packages :
        /\ warned[p] = 0 \/ (warned[p] = 1 /\ Silent(p))
        /\ \A i, j \in Jobs : Tells(i, p) /\ Tells(j, p) => i = j
        /\ parcel[p].expiryWarnedAt = S!Never => warned[p] = 0 /\ Silent(p)

(* The jobs about to tell the resident of package p that it is overdue.     *)
Tellers(p) == {j \in Jobs : Alerts(j, p)}

(* What was told and what is still to be told: no more than p became        *)
(* overdue.                                                                 *)
Owed ==
    \A p \in Packages :
        /\ IsFiniteSet(Tellers(p))
        /\ told[p] + Cardinality(Tellers(p)) <= spells[p]

DeadlineInv == DeadlineTypes /\ Announced /\ Owed

(* A part of a finite set is finite, and no larger.                         *)
LEMMA NoMore ==
  ASSUME NEW X, IsFiniteSet(X), NEW Y \in SUBSET X
  PROVE  /\ IsFiniteSet(Y) /\ Cardinality(Y) \in Nat /\ Cardinality(X) \in Nat
         /\ Cardinality(Y) <= Cardinality(X)
  BY FS_Subset, FS_CardinalityType

(* A step that claims nothing, announces nothing and adds no announcement.  *)
LEMMA NothingAnnounced ==
  ASSUME DeadlineTypes, Announced, UNCHANGED warned,
         \A p \in Packages : parcel'[p].expiryWarnedAt = parcel[p].expiryWarnedAt,
         \A j \in Jobs, p \in Packages : Tells(j, p)' => Tells(j, p)
  PROVE  Announced'
  BY DEF Announced, Silent

(* A step that tells nobody of an overdue package and has nobody told.      *)
LEMMA NothingOwed ==
  ASSUME DeadlineTypes, Owed, UNCHANGED told,
         \A p \in Packages : spells'[p] \in Nat /\ spells'[p] >= spells[p],
         \A j \in Jobs, p \in Packages : Alerts(j, p)' => Alerts(j, p)
  PROVE  Owed'
  <1> SUFFICES ASSUME NEW p \in Packages
               PROVE  /\ IsFiniteSet(Tellers(p)')
                      /\ told'[p] + Cardinality(Tellers(p)') <= spells'[p]
    BY DEF Owed
  <1>1. told[p] \in Nat /\ spells[p] \in Nat
    BY DEF DeadlineTypes, S!DeadlineTypeOK
  <1>2. Tellers(p)' \in SUBSET Tellers(p)
    BY DEF Tellers
  <1>3. IsFiniteSet(Tellers(p)) /\ told[p] + Cardinality(Tellers(p)) <= spells[p]
    BY DEF Owed
  <1>4. /\ IsFiniteSet(Tellers(p)') /\ Cardinality(Tellers(p)') \in Nat
        /\ Cardinality(Tellers(p)) \in Nat /\ Cardinality(Tellers(p)') <= Cardinality(Tellers(p))
    BY <1>2, <1>3, NoMore
  <1> QED BY <1>1, <1>3, <1>4

(* At the start nobody has anything to tell.                                *)
LEMMA NothingDue == ASSUME S!Init PROVE Announced /\ Owed
  <1>1. \A j \in Jobs, p \in Packages : ~Tells(j, p) /\ ~Alerts(j, p)
    BY DEF S!Init, S!Quiet, S!NoJob, Tells, Alerts
  <1>2. Announced
    BY <1>1 DEF S!Init, Announced, Silent
  <1>3. ASSUME NEW p \in Packages
        PROVE  IsFiniteSet(Tellers(p)) /\ told[p] + Cardinality(Tellers(p)) <= spells[p]
    <2>1. Tellers(p) = {}
      BY <1>1 DEF Tellers
    <2>2. IsFiniteSet({}) /\ Cardinality({}) = 0
      BY FS_EmptySet
    <2> QED BY <2>1, <2>2 DEF S!Init
  <1> QED BY <1>2, <1>3 DEF Owed

(* Deposits, pickups, payments and changes of the threshold leave the jobs  *)
(* and the date of the warning alone.                                       *)
LEMMA DatesKept ==
  ASSUME DeadlineTypes,
         \/ \E p \in Packages :
              \/ S!ReadPolicy(p) \/ S!ConfirmDeposit(p) \/ S!PickUp(p)
              \/ S!ReadForExtension(p) \/ S!SaveExtension(p)
         \/ \E a \in Admins :
              \/ \E l \in Limits : S!UpdateBuilding(a, l)
              \/ S!WriteBuilding(a) \/ S!ResyncExpiry(a) \/ S!RestoreWaiting(a) \/ S!MarkOverdue(a)
  PROVE  /\ \A q \in Packages : parcel'[q].expiryWarnedAt = parcel[q].expiryWarnedAt
         /\ UNCHANGED <<job, told, warned>>
  <1>0. /\ parcel \in [Packages -> S!Parcel] /\ \A q \in Packages : parcel[q] \in S!Parcel
    BY DEF DeadlineTypes, S!DeadlineTypeOK
  <1>1. CASE \E p \in Packages : S!ReadPolicy(p) \/ S!ReadForExtension(p)
    BY <1>1 DEF S!ReadPolicy, S!ReadForExtension
  <1>2. CASE \E p \in Packages : S!ConfirmDeposit(p)
    <2>1. PICK p \in Packages : S!ConfirmDeposit(p)
      BY <1>2
    <2> DEFINE d == [parcel[p] EXCEPT !.status = "WAITING_FOR_PICKUP", !.droppedOffAt = hour,
                                      !.expiredAt = hour + confirm[p]]
    <2>2. d.expiryWarnedAt = parcel[p].expiryWarnedAt
      BY <1>0 DEF S!Parcel
    <2>3. parcel' = [parcel EXCEPT ![p] = d]
      BY <1>0, <2>1 DEF S!ConfirmDeposit
    <2> HIDE DEF d
    <2>4. \A q \in Packages : parcel'[q].expiryWarnedAt = parcel[q].expiryWarnedAt
      BY <1>0, <2>2, <2>3
    <2> QED BY <2>1, <2>4 DEF S!ConfirmDeposit
  <1>3. CASE \E p \in Packages : S!PickUp(p)
    BY <1>0, <1>3 DEF S!PickUp, S!Parcel
  <1>4. CASE \E p \in Packages : S!SaveExtension(p)
    BY <1>0, <1>4 DEF S!SaveExtension, S!Parcel
  <1>5. CASE \E a \in Admins : S!WriteBuilding(a) \/ \E l \in Limits : S!UpdateBuilding(a, l)
    BY <1>5 DEF S!WriteBuilding, S!UpdateBuilding
  <1>6. CASE \E a \in Admins : S!ResyncExpiry(a)
    BY <1>0, <1>6 DEF S!ResyncExpiry, S!Parcel
  <1>7. CASE \E a \in Admins : S!RestoreWaiting(a)
    BY <1>0, <1>7 DEF S!RestoreWaiting, S!Parcel
  <1>8. CASE \E a \in Admins : S!MarkOverdue(a)
    BY <1>0, <1>8 DEF S!MarkOverdue, S!Parcel
  <1> QED BY <1>1, <1>2, <1>3, <1>4, <1>5, <1>6, <1>7, <1>8

(* A package that is marked became overdue once more.                       *)
LEMMA SpellsGrow ==
  ASSUME DeadlineTypes, NEW P, S!Begun(P) \/ UNCHANGED spells
  PROVE  \A p \in Packages : spells'[p] \in Nat /\ spells'[p] >= spells[p]
  <1>1. spells \in [Packages -> Nat]
    BY DEF DeadlineTypes, S!DeadlineTypeOK
  <1> QED BY <1>1 DEF S!Begun

(* Those steps, a restart and the clock.                                    *)
LEMMA OthersTell ==
  ASSUME DeadlineInv,
         \/ \E p \in Packages :
              \/ S!ReadPolicy(p) \/ S!ConfirmDeposit(p) \/ S!PickUp(p)
              \/ S!ReadForExtension(p) \/ S!SaveExtension(p)
         \/ \E a \in Admins :
              \/ \E l \in Limits : S!UpdateBuilding(a, l)
              \/ S!WriteBuilding(a) \/ S!ResyncExpiry(a) \/ S!RestoreWaiting(a) \/ S!MarkOverdue(a)
         \/ S!Restart \/ S!Tick
  PROVE  Announced' /\ Owed'
  <1>0. DeadlineTypes /\ Announced /\ Owed
    BY DEF DeadlineInv
  <1>1. \A p \in Packages : spells'[p] \in Nat /\ spells'[p] >= spells[p]
    <2>1. CASE \E a \in Admins : S!MarkOverdue(a)
      BY <1>0, <2>1, SpellsGrow DEF S!MarkOverdue
    <2>2. CASE ~\E a \in Admins : S!MarkOverdue(a)
      <3>1. UNCHANGED spells
        BY <2>2 DEF S!ReadPolicy, S!ConfirmDeposit, S!PickUp, S!ReadForExtension, S!SaveExtension,
                    S!UpdateBuilding, S!WriteBuilding, S!ResyncExpiry, S!RestoreWaiting, S!Restart, S!Tick
      <3> QED BY <1>0, <3>1, SpellsGrow
    <2> QED BY <2>1, <2>2
  <1>2. CASE S!Restart
    <2>1. \A j \in Jobs, p \in Packages : ~Tells(j, p)' /\ ~Alerts(j, p)'
      BY <1>2 DEF S!Restart, S!NoJob, Tells, Alerts
    <2> QED BY <1>0, <1>1, <1>2, <2>1, NothingAnnounced, NothingOwed DEF S!Restart
  <1>3. CASE ~S!Restart
    <2>1. /\ \A q \in Packages : parcel'[q].expiryWarnedAt = parcel[q].expiryWarnedAt
          /\ UNCHANGED <<job, told, warned>>
      BY <1>0, <1>3, DatesKept DEF S!Tick
    <2>2. \A j \in Jobs, p \in Packages : Tells(j, p)' = Tells(j, p) /\ Alerts(j, p)' = Alerts(j, p)
      BY <2>1 DEF Tells, Alerts
    <2> QED BY <1>0, <1>1, <2>1, <2>2, NothingAnnounced, NothingOwed
  <1> QED BY <1>2, <1>3
-----------------------------------------------------------------------------
(* A job reads its list and has nobody to tell yet.                         *)
LEMMA ListsTell ==
  ASSUME DeadlineInv, NEW j \in Jobs,
         S!HandleOverduePackagesCron(j) \/ S!HandleExpiringPackagesCron(j)
  PROVE  Announced' /\ Owed'
  <1>0. DeadlineTypes /\ Announced /\ Owed /\ job \in [Jobs -> Job]
    BY DEF DeadlineInv, DeadlineTypes, S!DeadlineTypeOK, Job
  <1>1. UNCHANGED <<parcel, spells, told, warned>>
    BY DEF S!HandleOverduePackagesCron, S!HandleExpiringPackagesCron
  <1>2. \A i \in Jobs, p \in Packages : (Tells(i, p)' => Tells(i, p)) /\ (Alerts(i, p)' => Alerts(i, p))
    BY <1>0 DEF S!HandleOverduePackagesCron, S!HandleExpiringPackagesCron, Tells, Alerts
  <1>3. \A p \in Packages : spells'[p] \in Nat /\ spells'[p] >= spells[p]
    BY <1>0, <1>1, SpellsGrow
  <1> QED BY <1>0, <1>1, <1>2, <1>3, NothingAnnounced, NothingOwed

(* A job that has worked on p has p alone to tell of, or nobody.            *)
LEMMA WorkedOn ==
  ASSUME DeadlineTypes, NEW j \in Jobs, NEW p \in Packages, NEW tells \in BOOLEAN,
         NEW kind, job[j].kind = kind, kind # "none", S!Worked(j, p, tells)
  PROVE  /\ \A i \in Jobs \ {j} : job'[i] = job[i]
         /\ job'[j].tell = IF tells THEN {p} ELSE {}
         /\ job'[j].tell # {} => job'[j].kind = kind
  <1>1. job \in [Jobs -> Job] /\ job[j] \in Job
    BY DEF DeadlineTypes, S!DeadlineTypeOK, Job
  <1> QED BY <1>1 DEF S!Worked, S!NoJob, Job

(* Who has told has nobody left to tell.                                    *)
LEMMA ToldOff ==
  ASSUME DeadlineTypes, NEW j \in Jobs, S!Told(j)
  PROVE  /\ \A i \in Jobs \ {j} : job'[i] = job[i]
         /\ job'[j].tell = {}
  <1>1. job \in [Jobs -> Job] /\ job[j] \in Job
    BY DEF DeadlineTypes, S!DeadlineTypeOK, Job
  <1> QED BY <1>1 DEF S!Told, S!NoJob, Job

(* The move to OVERDUE: one spell more, and one resident to tell of it.     *)
LEMMA MoveTells ==
  ASSUME DeadlineInv, DeadlineTypes', NEW j \in Jobs, NEW p \in Packages, S!MoveOverdue(j, p)
  PROVE  Announced' /\ Owed'
  <1> DEFINE waits == parcel[p].status = "WAITING_FOR_PICKUP"
  <1>0. /\ DeadlineTypes /\ Announced /\ Owed /\ parcel \in [Packages -> S!Parcel]
        /\ \A q \in Packages : parcel[q] \in S!Parcel
    BY DEF DeadlineInv, DeadlineTypes, S!DeadlineTypeOK
  <1>9. /\ told \in [Packages -> Nat] /\ spells \in [Packages -> Nat]
    BY <1>0 DEF DeadlineTypes, S!DeadlineTypeOK
  <1>1. /\ job[j].kind = "overdue" /\ job[j].tell = {} /\ UNCHANGED <<told, warned>>
        /\ \A i \in Jobs \ {j} : job'[i] = job[i]
        /\ job'[j].tell = IF waits THEN {p} ELSE {}
        /\ job'[j].tell # {} => job'[j].kind = "overdue"
    <2>1. /\ job[j].kind = "overdue" /\ job[j].tell = {} /\ UNCHANGED <<told, warned>>
          /\ S!Worked(j, p, waits) /\ waits \in BOOLEAN
      BY DEF S!MoveOverdue, S!NextListed
    <2> HIDE DEF waits
    <2>2. DeadlineTypes
      BY <1>0
    <2> QED BY ZenonT(60), <2>1, <2>2, WorkedOn
  <1>2. Announced'
    <2>1. \A i \in Jobs, q \in Packages : Tells(i, q)' => Tells(i, q)
      BY <1>1 DEF Tells
    <2>2. \A q \in Packages : parcel'[q].expiryWarnedAt = parcel[q].expiryWarnedAt
      BY <1>0 DEF S!MoveOverdue, S!Parcel
    <2> QED BY <1>0, <1>1, <2>1, <2>2, NothingAnnounced
  <1>3. spells' = [q \in Packages |-> IF waits /\ q = p THEN spells[q] + 1 ELSE spells[q]]
    BY DEF S!MoveOverdue, S!Begun
  <1>4. ASSUME NEW q \in Packages
        PROVE  IsFiniteSet(Tellers(q)') /\ told'[q] + Cardinality(Tellers(q)') <= spells'[q]
    <2>0. /\ IsFiniteSet(Tellers(q)) /\ told[q] + Cardinality(Tellers(q)) <= spells[q]
          /\ told[q] \in Nat /\ spells[q] \in Nat /\ told'[q] = told[q]
          /\ Cardinality(Tellers(q)) \in Nat
      BY <1>0, <1>9, <1>1, FS_CardinalityType DEF Owed
    <2>1. CASE waits /\ q = p
      <3>1. Tellers(q)' = Tellers(q) \cup {j} /\ j \notin Tellers(q)
        BY <1>1, <2>1 DEF Tellers, Alerts
      <3>2. IsFiniteSet(Tellers(q)') /\ Cardinality(Tellers(q)') = Cardinality(Tellers(q)) + 1
        BY <2>0, <3>1, FS_AddElement
      <3>3. spells'[q] = spells[q] + 1
        BY <1>3, <2>1
      <3> QED BY <2>0, <3>2, <3>3
    <2>2. CASE ~(waits /\ q = p)
      <3>1. Tellers(q)' = Tellers(q)
        BY <1>1, <2>2 DEF Tellers, Alerts
      <3>2. spells'[q] = spells[q]
        BY <1>3, <2>2
      <3> QED BY <2>0, <3>1, <3>2
    <2> QED BY <2>1, <2>2
  <1> QED BY <1>2, <1>4 DEF Owed

(* The resident is told: what was owed is paid.                             *)
LEMMA OverdueTold ==
  ASSUME DeadlineInv, NEW j \in Jobs, S!NotifyResidentOverdue(j)
  PROVE  Announced' /\ Owed'
  <1>0. DeadlineTypes /\ Announced /\ Owed
    BY DEF DeadlineInv
  <1>9. /\ told \in [Packages -> Nat] /\ spells \in [Packages -> Nat]
    BY <1>0 DEF DeadlineTypes, S!DeadlineTypeOK
  <1>1. /\ job[j].kind = "overdue" /\ UNCHANGED <<parcel, spells, warned>>
        /\ \A i \in Jobs \ {j} : job'[i] = job[i]
        /\ job'[j].tell = {}
        /\ told' = [p \in Packages |-> IF p \in job[j].tell THEN told[p] + 1 ELSE told[p]]
    BY <1>0, ToldOff DEF S!NotifyResidentOverdue
  <1>2. Announced'
    <2>1. \A i \in Jobs, q \in Packages : Tells(i, q)' => Tells(i, q)
      BY <1>1 DEF Tells
    <2> QED BY <1>0, <1>1, <2>1, NothingAnnounced
  <1>3. ASSUME NEW q \in Packages
        PROVE  IsFiniteSet(Tellers(q)') /\ told'[q] + Cardinality(Tellers(q)') <= spells'[q]
    <2>0. /\ IsFiniteSet(Tellers(q)) /\ told[q] + Cardinality(Tellers(q)) <= spells[q]
          /\ told[q] \in Nat /\ spells[q] \in Nat /\ spells'[q] = spells[q]
          /\ Cardinality(Tellers(q)) \in Nat
      BY <1>0, <1>9, <1>1, FS_CardinalityType DEF Owed
    <2>1. CASE q \in job[j].tell
      <3>1. Tellers(q)' = Tellers(q) \ {j} /\ j \in Tellers(q)
        BY <1>1, <2>1 DEF Tellers, Alerts
      <3>2. IsFiniteSet(Tellers(q)') /\ Cardinality(Tellers(q)') = Cardinality(Tellers(q)) - 1
        BY <2>0, <3>1, FS_RemoveElement
      <3>3. told'[q] = told[q] + 1
        BY <1>1, <2>1
      <3> QED BY <2>0, <3>2, <3>3
    <2>2. CASE q \notin job[j].tell
      <3>1. Tellers(q)' = Tellers(q)
        BY <1>1, <2>2 DEF Tellers, Alerts
      <3>2. told'[q] = told[q]
        BY <1>1, <2>2
      <3> QED BY <2>0, <3>1, <3>2
    <2> QED BY <2>1, <2>2
  <1> QED BY <1>2, <1>3 DEF Owed

(* A claim: only the package that had no date of a warning is announced.    *)
LEMMA ClaimTells ==
  ASSUME DeadlineInv, NEW j \in Jobs, NEW p \in Packages, S!ClaimWarning(j, p)
  PROVE  Announced' /\ Owed'
  <1> DEFINE claims == parcel[p].expiryWarnedAt = S!Never
  <1>0. /\ DeadlineTypes /\ Announced /\ Owed /\ parcel \in [Packages -> S!Parcel]
        /\ \A q \in Packages : parcel[q] \in S!Parcel
    BY DEF DeadlineInv, DeadlineTypes, S!DeadlineTypeOK
  <1>1. /\ job[j].kind = "expiring" /\ job[j].tell = {} /\ UNCHANGED <<spells, told, warned>>
        /\ \A i \in Jobs \ {j} : job'[i] = job[i]
        /\ job'[j].tell = IF claims THEN {p} ELSE {}
        /\ job'[j].tell # {} => job'[j].kind = "expiring"
    <2>1. /\ job[j].kind = "expiring" /\ job[j].tell = {} /\ UNCHANGED <<spells, told, warned>>
          /\ S!Worked(j, p, claims) /\ claims \in BOOLEAN
      BY DEF S!ClaimWarning, S!NextListed
    <2> HIDE DEF claims
    <2>2. DeadlineTypes
      BY <1>0
    <2> QED BY ZenonT(60), <2>1, <2>2, WorkedOn
  <1>2. Owed'
    <2>1. \A i \in Jobs, q \in Packages : Alerts(i, q)' => Alerts(i, q)
      BY <1>1 DEF Alerts
    <2> QED BY <1>0, <1>1, <2>1, SpellsGrow, NothingOwed
  <1>3. CASE ~claims
    <2>1. \A i \in Jobs, q \in Packages : Tells(i, q)' => Tells(i, q)
      BY <1>1, <1>3 DEF Tells
    <2> QED BY <1>0, <1>1, <1>2, <1>3, <2>1, NothingAnnounced DEF S!ClaimWarning
  <1>4. CASE claims
    <2>1. /\ \A q \in Packages \ {p} : parcel'[q] = parcel[q]
          /\ parcel'[p].expiryWarnedAt # S!Never
      <3>1. hour # S!Never
        BY <1>0, BuildingAssumption DEF DeadlineTypes, S!DeadlineTypeOK, S!Never, S!DeadlineAssumption
      <3> QED BY <1>0, <1>4, <3>1 DEF S!ClaimWarning, S!Parcel
    <2>2. warned[p] = 0 /\ Silent(p)
      BY <1>0, <1>4 DEF Announced
    <2>3. \A i \in Jobs, q \in Packages : Tells(i, q)' => Tells(i, q) \/ (i = j /\ q = p)
      BY <1>1, <1>4 DEF Tells
    <2>4. Announced'
      BY <1>0, <1>1, <2>1, <2>2, <2>3 DEF Announced, Silent
    <2> QED BY <1>2, <2>4
  <1> QED BY <1>3, <1>4

(* The notice that was to come goes out, and no other is to come.           *)
LEMMA ExpiryTold ==
  ASSUME DeadlineInv, NEW j \in Jobs, S!NotifyPackageExpiring(j)
  PROVE  Announced' /\ Owed'
  <1>0. DeadlineTypes /\ Announced /\ Owed
    BY DEF DeadlineInv
  <1>9. warned \in [Packages -> Nat]
    BY <1>0 DEF DeadlineTypes, S!DeadlineTypeOK
  <1>1. /\ job[j].kind = "expiring" /\ UNCHANGED <<parcel, spells, told>>
        /\ \A i \in Jobs \ {j} : job'[i] = job[i]
        /\ job'[j].tell = {}
        /\ warned' = [p \in Packages |-> IF p \in job[j].tell THEN warned[p] + 1 ELSE warned[p]]
    BY <1>0, ToldOff DEF S!NotifyPackageExpiring
  <1>2. Owed'
    <2>1. \A i \in Jobs, q \in Packages : Alerts(i, q)' => Alerts(i, q)
      BY <1>1 DEF Alerts
    <2> QED BY <1>0, <1>1, <2>1, SpellsGrow, NothingOwed
  <1>3. \A i \in Jobs, p \in Packages : Tells(i, p)' => Tells(i, p) /\ i # j
    BY <1>1 DEF Tells
  <1>4. ASSUME NEW p \in Packages, p \notin job[j].tell
        PROVE  /\ warned'[p] = 0 \/ (warned'[p] = 1 /\ Silent(p)')
               /\ parcel'[p].expiryWarnedAt = S!Never => warned'[p] = 0 /\ Silent(p)'
    BY <1>0, <1>1, <1>3, <1>4 DEF Announced, Silent
  <1>5. ASSUME NEW p \in Packages, p \in job[j].tell
        PROVE  /\ warned'[p] = 1 /\ Silent(p)'
               /\ parcel'[p].expiryWarnedAt # S!Never
    <2>1. Tells(j, p)
      BY <1>1, <1>5 DEF Tells
    <2>2. warned[p] = 0 /\ parcel[p].expiryWarnedAt # S!Never
      BY <1>0, <2>1 DEF Announced, Silent
    <2>3. Silent(p)'
      BY <1>0, <1>3, <2>1 DEF Announced, Silent
    <2> QED BY <1>1, <1>5, <2>2, <2>3
  <1>6. Announced'
    BY <1>0, <1>3, <1>4, <1>5 DEF Announced
  <1> QED BY <1>2, <1>6
-----------------------------------------------------------------------------
(* The documents keep their types, a claim has one announcement and a spell *)
(* one notice, of every number of jobs that overlap and edits in between.   *)
THEOREM DeadlineInvariant == BuildingSpec => []DeadlineInv
  <1>1. S!Init => DeadlineInv
    BY DeadlineStart, NothingDue DEF DeadlineInv
  <1>2. DeadlineInv /\ [S!Next]_(S!dvars) => DeadlineInv'
    <2> SUFFICES ASSUME DeadlineInv, [S!Next]_(S!dvars) PROVE DeadlineInv'
      OBVIOUS
    <2>0. DeadlineTypes'
      BY DeadlineTypesKept DEF DeadlineInv
    <2>1. CASE UNCHANGED S!dvars
      BY <2>1 DEF S!dvars, DeadlineInv, DeadlineTypes, S!DeadlineTypeOK, Announced, Owed, Silent,
                  Tells, Tellers, Alerts
    <2>2. CASE S!Next
      <3>1. Announced' /\ Owed'
        BY <2>0, <2>2, OthersTell, ListsTell, MoveTells, OverdueTold, ClaimTells, ExpiryTold DEF S!Next
      <3> QED BY <2>0, <3>1 DEF DeadlineInv
    <2> QED BY <2>1, <2>2
  <1>3. S!Spec => []DeadlineInv
    BY <1>1, <1>2, PTL DEF S!Spec
  <1> QED BY <1>3, PartsOfBuilding, PTL

(* A package is announced as expiring at most once, whatever jobs overlap,  *)
(* deadlines are changed, extensions are paid and restarts happen between   *)
(* the claim (expiryWarnedAt) and its notice (packages.service.ts:1100).    *)
THEOREM AnnouncedOnce == BuildingSpec => []WarnedOnce
  <1>1. DeadlineInv => WarnedOnce
    BY DEF DeadlineInv, Announced, WarnedOnce, S!WarnedOnce
  <1> QED BY <1>1, DeadlineInvariant, PTL

(* A resident is told of an overdue package no more often than it became    *)
(* overdue, although every job works off a list it read long before.        *)
THEOREM OverdueToldPerSpell == BuildingSpec => []ToldPerSpell
  <1>1. ASSUME DeadlineInv PROVE ToldPerSpell
    <2> SUFFICES ASSUME NEW p \in Packages PROVE told[p] <= spells[p]
      BY DEF ToldPerSpell, S!ToldPerSpell
    <2>1. told[p] \in Nat /\ spells[p] \in Nat
      BY <1>1 DEF DeadlineInv, DeadlineTypes, S!DeadlineTypeOK
    <2>2. IsFiniteSet(Tellers(p)) /\ told[p] + Cardinality(Tellers(p)) <= spells[p]
      BY <1>1 DEF DeadlineInv, Owed
    <2>3. Cardinality(Tellers(p)) \in Nat
      BY <2>2, FS_CardinalityType
    <2> QED BY <2>1, <2>2, <2>3
  <1> QED BY <1>1, DeadlineInvariant, PTL
-----------------------------------------------------------------------------
(* Station                                                                  *)

(* The handlers about to log a loss of connection, and a return.            *)
Droppers == {h \in Handlers : handler[h].pc = "logDrop"}

Returners == {h \in Handlers : handler[h].pc = "logBack"}

(* What is logged and what is about to be logged: no more than happened.    *)
Unlogged ==
    /\ IsFiniteSet(Droppers) /\ IsFiniteSet(Returners)
    /\ logs.offline + Cardinality(Droppers) <= drops
    /\ logs.online + Cardinality(Returners) <= backs

(* A station whose boxes are being inserted exists, and so does one that a  *)
(* handler has found.                                                       *)
StationTypes ==
    /\ L!StationTypeOK
    /\ \A c \in Creators : creator[c] = "boxes" => station # L!Absent

Station == [status: {"ABSENT", "ONLINE", "OFFLINE", "MAINTENANCE"},
            lastHeartbeatAt: Nat \cup {L!Never}, boxes: BOOLEAN]

Handler == [pc: {"ready", "offline", "online", "logDrop", "logBack", "beat"},
            now: Nat \cup {L!Never}]

StationInv == StationTypes /\ Unlogged

(* At the start there is no station and nobody works.                       *)
LEMMA StationStart == ASSUME L!Init PROVE StationInv
  <1> USE BuildingAssumption DEF L!StationAssumption
  <1>1. L!Absent \in Station /\ L!Ready \in Handler /\ L!Ready.pc = "ready"
    BY DEF L!Absent, L!Ready, Station, Handler
  <1>2. handler \in [Handlers -> Handler] /\ \A h \in Handlers : handler[h].pc = "ready"
    BY <1>1 DEF L!Init
  <1>3. creator \in [Creators -> {"idle", "insert", "boxes", "done"}]
        /\ \A c \in Creators : creator[c] # "boxes"
    BY DEF L!Init
  <1>4. logs \in [offline: Nat, online: Nat] /\ logs.offline = 0 /\ logs.online = 0
    BY DEF L!Init
  <1>5. unlock \in [Unlockers -> {"idle", "recent", "publish", "sent", "failed"}]
    BY DEF L!Init
  <1>6. StationTypes
    BY <1>1, <1>2, <1>3, <1>4, <1>5 DEF StationTypes, L!StationTypeOK, L!Init, Station, Handler
  <1>7. Droppers = {} /\ Returners = {}
    BY <1>2 DEF Droppers, Returners
  <1>8. Unlogged
    BY <1>4, <1>7, FS_EmptySet DEF Unlogged, L!Init
  <1> QED BY <1>6, <1>8 DEF StationInv

(* A written document is one of a station, and of an existing one.          *)
LEMMA StationWritten ==
  ASSUME StationTypes, NEW s \in Station, s.status # "ABSENT", station' = s, UNCHANGED creator,
         handler' \in [Handlers -> Handler], logs' = logs,
         drops' \in Nat, backs' \in Nat, messages' \in 0..MaxMessages,
         UNCHANGED <<connected, unlock, opened, moment>>
  PROVE  StationTypes'
  <1>1. station' # L!Absent /\ station'.status # "ABSENT"
    BY DEF L!Absent
  <1> QED BY <1>1 DEF StationTypes, L!StationTypeOK, Station, Handler

(* The creation of the station.                                             *)
LEMMA CreationTypes ==
  ASSUME StationTypes, NEW c \in Creators, L!Create(c) \/ L!InsertLocker(c) \/ L!InsertBoxes(c)
  PROVE  StationTypes'
  <1>0. /\ station \in Station /\ (station.status = "ABSENT" => station = L!Absent)
        /\ creator \in [Creators -> {"idle", "insert", "boxes", "done"}]
        /\ \A d \in Creators : creator[d] = "boxes" => station # L!Absent
    BY DEF StationTypes, L!StationTypeOK, Station
  <1>1. CASE L!Create(c)
    <2>1. /\ creator' \in [Creators -> {"idle", "insert", "boxes", "done"}]
          /\ \A d \in Creators : creator'[d] = "boxes" => creator[d] = "boxes"
      BY <1>0, <1>1 DEF L!Create
    <2> QED BY <1>0, <1>1, <2>1 DEF StationTypes, L!StationTypeOK, L!Create
  <1>2. CASE L!InsertLocker(c)
    <2>1. creator' \in [Creators -> {"idle", "insert", "boxes", "done"}]
      BY <1>0, <1>2 DEF L!InsertLocker
    <2>2. station' \in Station /\ station'.status # "ABSENT" /\ station' # L!Absent
      BY <1>0, <1>2 DEF L!InsertLocker, Station, L!Absent
    <2> QED BY <1>2, <2>1, <2>2 DEF StationTypes, L!StationTypeOK, L!InsertLocker, Station
  <1>3. CASE L!InsertBoxes(c)
    <2>1. /\ creator' \in [Creators -> {"idle", "insert", "boxes", "done"}]
          /\ station # L!Absent
      BY <1>0, <1>3 DEF L!InsertBoxes
    <2>2. station' \in Station /\ station'.status # "ABSENT" /\ station' # L!Absent
      BY <1>0, <1>3, <2>1 DEF L!InsertBoxes, Station, L!Absent
    <2> QED BY <1>3, <2>1, <2>2 DEF StationTypes, L!StationTypeOK, L!InsertBoxes, Station
  <1> QED BY <1>1, <1>2, <1>3

(* Edits of administrators, the connection, unlocks and the clock.          *)
LEMMA SurroundingTypes ==
  ASSUME StationTypes,
         \/ \E status \in {"ONLINE", "OFFLINE", "MAINTENANCE"} : L!Update(status)
         \/ L!Connect \/ L!Tick
         \/ \E u \in Unlockers :
              L!UnlockBox(u) \/ L!RecentlyOpened(u) \/ L!PublishDoorUnlock(u) \/ L!RecordLockerAction(u)
  PROVE  StationTypes'
  <1> USE BuildingAssumption DEF L!StationAssumption
  <1>0. /\ station \in Station /\ (station.status = "ABSENT" => station = L!Absent)
        /\ handler \in [Handlers -> Handler] /\ messages \in 0..MaxMessages
        /\ unlock \in [Unlockers -> {"idle", "recent", "publish", "sent", "failed"}]
        /\ moment \in Nat /\ drops \in Nat /\ backs \in Nat
    BY DEF StationTypes, L!StationTypeOK, Station, Handler
  <1>1. ASSUME NEW status \in {"ONLINE", "OFFLINE", "MAINTENANCE"}, L!Update(status)
        PROVE  StationTypes'
    <2> DEFINE s == [station EXCEPT !.status = status]
    <2>1. s \in Station /\ s.status # "ABSENT" /\ station' = s
      BY <1>0, <1>1 DEF L!Update, Station
    <2> HIDE DEF s
    <2>2. messages' \in 0..MaxMessages
      BY <1>0, <1>1 DEF L!Update, L!Message
    <2> QED BY <1>0, <1>1, <2>1, <2>2, StationWritten DEF L!Update
  <1>2. CASE L!Connect \/ L!Tick
    <2>0. LastMoment \in Nat /\ moment \in 0..LastMoment /\ connected \in BOOLEAN
      BY DEF StationTypes, L!StationTypeOK
    <2>1. connected' \in BOOLEAN /\ moment' \in 0..LastMoment
      <3>1. CASE L!Connect
        <4>1. moment' = moment /\ connected' = ~connected
          BY <3>1 DEF L!Connect
        <4> QED BY <2>0, <4>1, Zenon
      <3>2. CASE L!Tick
        BY <2>0, <3>2 DEF L!Tick
      <3> QED BY <1>2, <3>1, <3>2
    <2>2. UNCHANGED <<station, creator, handler, unlock, opened, logs, drops, backs, messages>>
      BY <1>2 DEF L!Connect, L!Tick
    <2> QED BY <2>1, <2>2 DEF StationTypes, L!StationTypeOK
  <1>3. ASSUME NEW u \in Unlockers,
               L!UnlockBox(u) \/ L!RecentlyOpened(u) \/ L!PublishDoorUnlock(u) \/ L!RecordLockerAction(u)
        PROVE  StationTypes'
    <2>1. unlock' \in [Unlockers -> {"idle", "recent", "publish", "sent", "failed"}]
      BY <1>0, <1>3 DEF L!UnlockBox, L!RecentlyOpened, L!PublishDoorUnlock, L!RecordLockerAction
    <2>2. opened' \in Nat \cup {L!Never}
      BY <1>0, <1>3 DEF L!UnlockBox, L!RecentlyOpened, L!PublishDoorUnlock, L!RecordLockerAction,
                        StationTypes, L!StationTypeOK
    <2>3. UNCHANGED <<station, creator, connected, handler, logs, drops, backs, messages, moment>>
      BY <1>3 DEF L!UnlockBox, L!RecentlyOpened, L!PublishDoorUnlock, L!RecordLockerAction
    <2> QED BY <2>1, <2>2, <2>3 DEF StationTypes, L!StationTypeOK
  <1> QED BY <1>1, <1>2, <1>3

(* The handlers of the station's messages.                                  *)
LEMMA HandlerTypes ==
  ASSUME StationTypes, NEW h \in Handlers,
         \/ \E event \in {"offline", "online"} : L!HandleIncomingMessage(h, event)
         \/ L!WriteOffline(h) \/ L!WriteOnline(h)
         \/ L!LogDrop(h) \/ L!LogBack(h) \/ L!BeatInMaintenance(h)
  PROVE  StationTypes'
  <1> USE BuildingAssumption DEF L!StationAssumption
  <1>0. /\ station \in Station /\ (station.status = "ABSENT" => station = L!Absent)
        /\ handler \in [Handlers -> Handler] /\ handler[h] \in Handler /\ L!Ready \in Handler
        /\ messages \in 0..MaxMessages /\ moment \in Nat /\ drops \in Nat /\ backs \in Nat
        /\ logs \in [offline: Nat, online: Nat]
    BY DEF StationTypes, L!StationTypeOK, Station, Handler, L!Ready
  <1>1. ASSUME NEW event \in {"offline", "online"}, L!HandleIncomingMessage(h, event)
        PROVE  StationTypes'
    <2> DEFINE r == [pc |-> event, now |-> IF event = "online" THEN moment ELSE L!Never]
    <2>1. r \in Handler
      BY <1>0 DEF Handler
    <2>2. handler' = [handler EXCEPT ![h] = r] /\ messages' \in 0..MaxMessages
      BY <1>0, <1>1 DEF L!HandleIncomingMessage, L!Message
    <2> HIDE DEF r
    <2>3. handler' \in [Handlers -> Handler]
      BY <1>0, <2>1, <2>2
    <2> QED BY <1>1, <2>2, <2>3 DEF StationTypes, L!StationTypeOK, L!HandleIncomingMessage, Handler
  <1>2. CASE L!WriteOffline(h)
    <2> DEFINE r == [handler[h] EXCEPT !.pc = "logDrop"]
               s == [station EXCEPT !.status = "OFFLINE"]
    <2>1. r \in Handler /\ s \in Station /\ s.status # "ABSENT"
      BY <1>0 DEF Handler, Station
    <2> HIDE DEF r, s
    <2>2. CASE station.status = "ONLINE"
      <3>1. /\ station' = s /\ handler' = [handler EXCEPT ![h] = r] /\ drops' \in Nat
            /\ UNCHANGED <<creator, connected, unlock, opened, logs, backs, messages, moment>>
        BY <1>0, <1>2, <2>2 DEF L!WriteOffline, r, s
      <3>2. handler' \in [Handlers -> Handler]
        BY <1>0, <2>1, <3>1
      <3> QED BY <1>0, <2>1, <3>1, <3>2, StationWritten
    <2>3. CASE station.status # "ONLINE"
      <3>1. /\ handler' \in [Handlers -> Handler]
            /\ UNCHANGED <<station, drops, creator, connected, unlock, opened, logs, backs,
                           messages, moment>>
        BY <1>0, <1>2, <2>3 DEF L!WriteOffline
      <3> QED BY <3>1 DEF StationTypes, L!StationTypeOK, Handler
    <2> QED BY <2>2, <2>3
  <1>3. CASE L!WriteOnline(h)
    <2> DEFINE r == [handler[h] EXCEPT !.pc = IF station.status = "OFFLINE" THEN "logBack" ELSE "beat"]
               s == [station EXCEPT !.status = "ONLINE", !.lastHeartbeatAt = handler[h].now]
    <2>1. r \in Handler /\ s \in Station /\ s.status # "ABSENT"
      BY <1>0 DEF Handler, Station
    <2>2. handler' = [handler EXCEPT ![h] = r] /\ backs' \in Nat
      BY <1>0, <1>3 DEF L!WriteOnline
    <2> HIDE DEF r
    <2>3. handler' \in [Handlers -> Handler]
      BY <1>0, <2>1, <2>2
    <2>4. CASE station.status \in {"ONLINE", "OFFLINE"}
      <3>1. station' = s
        BY <1>3, <2>4 DEF L!WriteOnline
      <3> HIDE DEF s
      <3> QED BY <1>0, <1>3, <2>1, <2>2, <2>3, <3>1, StationWritten DEF L!WriteOnline
    <2>5. CASE station.status \notin {"ONLINE", "OFFLINE"}
      BY <1>3, <2>2, <2>3, <2>5 DEF StationTypes, L!StationTypeOK, L!WriteOnline, Handler
    <2> QED BY <2>4, <2>5
  <1>4. CASE L!LogDrop(h) \/ L!LogBack(h)
    <2>1. handler' \in [Handlers -> Handler]
      BY <1>0, <1>4 DEF L!LogDrop, L!LogBack, Handler
    <2>2. logs' \in [offline: Nat, online: Nat]
      BY <1>0, <1>4 DEF L!LogDrop, L!LogBack
    <2>3. UNCHANGED <<station, creator, connected, unlock, opened, drops, backs, messages, moment>>
      BY <1>4 DEF L!LogDrop, L!LogBack
    <2> QED BY <2>1, <2>2, <2>3 DEF StationTypes, L!StationTypeOK, Handler
  <1>5. CASE L!BeatInMaintenance(h)
    <2>1. handler' \in [Handlers -> Handler]
      BY <1>0, <1>5 DEF L!BeatInMaintenance
    <2>2. CASE station.status = "MAINTENANCE"
      <3> DEFINE s == [station EXCEPT !.lastHeartbeatAt = handler[h].now]
      <3>1. s \in Station /\ s.status # "ABSENT" /\ station' = s
        BY <1>0, <1>5, <2>2 DEF L!BeatInMaintenance, Handler, Station
      <3> HIDE DEF s
      <3> QED BY <1>0, <1>5, <2>1, <3>1, StationWritten DEF L!BeatInMaintenance
    <2>3. CASE station.status # "MAINTENANCE"
      BY <1>5, <2>1, <2>3 DEF StationTypes, L!StationTypeOK, L!BeatInMaintenance, Handler
    <2> QED BY <2>2, <2>3
  <1> QED BY <1>1, <1>2, <1>3, <1>4, <1>5
-----------------------------------------------------------------------------
(* A handler that is done with an entry of the log.                         *)
LEMMA OneLess ==
  ASSUME NEW X, IsFiniteSet(X), NEW x \in X, NEW Y, Y = X \ {x}
  PROVE  IsFiniteSet(Y) /\ Cardinality(X) \in Nat /\ Cardinality(Y) + 1 = Cardinality(X)
  <1>1. IsFiniteSet(Y) /\ Cardinality(Y) = Cardinality(X) - 1
    BY FS_RemoveElement
  <1>2. Cardinality(X) \in Nat
    BY FS_CardinalityType
  <1> QED BY <1>1, <1>2

(* A handler that takes one on.                                             *)
LEMMA OneMore ==
  ASSUME NEW X, IsFiniteSet(X), NEW x, x \notin X, NEW Y, Y = X \cup {x}
  PROVE  IsFiniteSet(Y) /\ Cardinality(X) \in Nat /\ Cardinality(Y) = Cardinality(X) + 1
  BY FS_AddElement, FS_CardinalityType

(* No other step changes who is about to log, or what was logged.           *)
LEMMA OthersLog ==
  ASSUME Unlogged, UNCHANGED <<handler, logs, drops, backs>>
  PROVE  Unlogged'
  BY DEF Unlogged, Droppers, Returners

(* Each write of the status owes one entry; each entry is written once.     *)
LEMMA HandlersLog ==
  ASSUME StationInv, NEW h \in Handlers,
         \/ \E event \in {"offline", "online"} : L!HandleIncomingMessage(h, event)
         \/ L!WriteOffline(h) \/ L!WriteOnline(h)
         \/ L!LogDrop(h) \/ L!LogBack(h) \/ L!BeatInMaintenance(h)
  PROVE  Unlogged'
  <1>0. /\ handler \in [Handlers -> Handler] /\ handler[h] \in Handler
        /\ drops \in Nat /\ backs \in Nat
        /\ logs \in [offline: Nat, online: Nat] /\ logs.offline \in Nat /\ logs.online \in Nat
    BY DEF StationInv, StationTypes, L!StationTypeOK, Handler
  <1>1. /\ IsFiniteSet(Droppers) /\ IsFiniteSet(Returners)
        /\ logs.offline + Cardinality(Droppers) <= drops
        /\ logs.online + Cardinality(Returners) <= backs
        /\ Cardinality(Droppers) \in Nat /\ Cardinality(Returners) \in Nat
    BY FS_CardinalityType DEF StationInv, Unlogged
  <1>2. CASE \E event \in {"offline", "online"} : L!HandleIncomingMessage(h, event)
    <2>1. /\ handler[h].pc = "ready" /\ handler'[h].pc \in {"offline", "online"}
          /\ \A i \in Handlers \ {h} : handler'[i] = handler[i]
          /\ UNCHANGED <<logs, drops, backs>>
      BY <1>0, <1>2 DEF L!HandleIncomingMessage, L!Ready
    <2>2. Droppers' = Droppers /\ Returners' = Returners
      BY <2>1 DEF Droppers, Returners
    <2> QED BY <1>1, <2>1, <2>2 DEF Unlogged
  <1>3. CASE L!WriteOffline(h)
    <2>1. /\ handler[h].pc = "offline" /\ UNCHANGED <<logs, backs>>
          /\ \A i \in Handlers \ {h} : handler'[i] = handler[i]
      BY <1>0, <1>3 DEF L!WriteOffline
    <2>2. CASE station.status = "ONLINE"
      <3>1. handler'[h].pc = "logDrop" /\ drops' = drops + 1
        BY <1>0, <1>3, <2>2 DEF L!WriteOffline, Handler
      <3>2. Droppers' = Droppers \cup {h} /\ h \notin Droppers /\ Returners' = Returners
        BY <2>1, <3>1 DEF Droppers, Returners
      <3>3. IsFiniteSet(Droppers') /\ Cardinality(Droppers') = Cardinality(Droppers) + 1
        BY <1>1, <3>2, OneMore
      <3> QED BY <1>0, <1>1, <2>1, <3>1, <3>2, <3>3 DEF Unlogged
    <2>3. CASE station.status # "ONLINE"
      <3>1. handler'[h].pc = "ready" /\ drops' = drops
        BY <1>0, <1>3, <2>3 DEF L!WriteOffline, L!Ready
      <3>2. Droppers' = Droppers /\ Returners' = Returners
        BY <2>1, <3>1 DEF Droppers, Returners
      <3> QED BY <1>1, <2>1, <3>1, <3>2 DEF Unlogged
    <2> QED BY <2>2, <2>3
  <1>4. CASE L!WriteOnline(h)
    <2>1. /\ handler[h].pc = "online" /\ UNCHANGED <<logs, drops>>
          /\ \A i \in Handlers \ {h} : handler'[i] = handler[i]
      BY <1>0, <1>4 DEF L!WriteOnline
    <2>2. CASE station.status = "OFFLINE"
      <3>1. handler'[h].pc = "logBack" /\ backs' = backs + 1
        BY <1>0, <1>4, <2>2 DEF L!WriteOnline, Handler
      <3>2. Returners' = Returners \cup {h} /\ h \notin Returners /\ Droppers' = Droppers
        BY <2>1, <3>1 DEF Droppers, Returners
      <3>3. IsFiniteSet(Returners') /\ Cardinality(Returners') = Cardinality(Returners) + 1
        BY <1>1, <3>2, OneMore
      <3> QED BY <1>0, <1>1, <2>1, <3>1, <3>2, <3>3 DEF Unlogged
    <2>3. CASE station.status # "OFFLINE"
      <3>1. handler'[h].pc = "beat" /\ backs' = backs
        BY <1>0, <1>4, <2>3 DEF L!WriteOnline, Handler
      <3>2. Droppers' = Droppers /\ Returners' = Returners
        BY <2>1, <3>1 DEF Droppers, Returners
      <3> QED BY <1>1, <2>1, <3>1, <3>2 DEF Unlogged
    <2> QED BY <2>2, <2>3
  <1>5. CASE L!LogDrop(h)
    <2>1. /\ handler[h].pc = "logDrop" /\ handler'[h].pc = "ready" /\ UNCHANGED <<drops, backs>>
          /\ \A i \in Handlers \ {h} : handler'[i] = handler[i]
      BY <1>0, <1>5 DEF L!LogDrop, L!Ready
    <2>2. logs'.online = logs.online /\ logs'.offline \in Nat /\ logs'.offline <= logs.offline + 1
      BY <1>0, <1>5 DEF L!LogDrop
    <2>3. Droppers' = Droppers \ {h} /\ h \in Droppers /\ Returners' = Returners
      BY <2>1 DEF Droppers, Returners
    <2>4. IsFiniteSet(Droppers') /\ Cardinality(Droppers') + 1 = Cardinality(Droppers)
      BY <1>1, <2>3, OneLess
    <2>5. Cardinality(Droppers') \in Nat
      BY <2>4, FS_CardinalityType
    <2> QED BY <1>0, <1>1, <2>1, <2>2, <2>3, <2>4, <2>5 DEF Unlogged
  <1>6. CASE L!LogBack(h)
    <2>1. /\ handler[h].pc = "logBack" /\ handler'[h].pc = "beat" /\ UNCHANGED <<drops, backs>>
          /\ \A i \in Handlers \ {h} : handler'[i] = handler[i]
      BY <1>0, <1>6 DEF L!LogBack, Handler
    <2>2. logs'.offline = logs.offline /\ logs'.online \in Nat /\ logs'.online <= logs.online + 1
      BY <1>0, <1>6 DEF L!LogBack
    <2>3. Returners' = Returners \ {h} /\ h \in Returners /\ Droppers' = Droppers
      BY <2>1 DEF Droppers, Returners
    <2>4. IsFiniteSet(Returners') /\ Cardinality(Returners') + 1 = Cardinality(Returners)
      BY <1>1, <2>3, OneLess
    <2>5. Cardinality(Returners') \in Nat
      BY <2>4, FS_CardinalityType
    <2> QED BY <1>0, <1>1, <2>1, <2>2, <2>3, <2>4, <2>5 DEF Unlogged
  <1>7. CASE L!BeatInMaintenance(h)
    <2>1. /\ handler[h].pc = "beat" /\ handler'[h].pc = "ready" /\ UNCHANGED <<logs, drops, backs>>
          /\ \A i \in Handlers \ {h} : handler'[i] = handler[i]
      BY <1>0, <1>7 DEF L!BeatInMaintenance, L!Ready
    <2>2. Droppers' = Droppers /\ Returners' = Returners
      BY <2>1 DEF Droppers, Returners
    <2> QED BY <1>1, <2>1, <2>2 DEF Unlogged
  <1> QED BY <1>2, <1>3, <1>4, <1>5, <1>6, <1>7

(* The station keeps its type, and what its handlers log and are about to   *)
(* log never exceeds what they wrote, of any number of messages at once.    *)
THEOREM StationInvariant == BuildingSpec => []StationInv
  <1>1. L!Init => StationInv
    BY StationStart
  <1>2. StationInv /\ [L!Next]_(L!lvars) => StationInv'
    <2> SUFFICES ASSUME StationInv, [L!Next]_(L!lvars) PROVE StationInv'
      OBVIOUS
    <2>0. StationTypes /\ Unlogged
      BY DEF StationInv
    <2>1. CASE UNCHANGED L!lvars
      BY <2>0, <2>1, OthersLog DEF L!lvars, StationInv, StationTypes, L!StationTypeOK
    <2>2. CASE \E h \in Handlers :
                 \/ \E event \in {"offline", "online"} : L!HandleIncomingMessage(h, event)
                 \/ L!WriteOffline(h) \/ L!WriteOnline(h)
                 \/ L!LogDrop(h) \/ L!LogBack(h) \/ L!BeatInMaintenance(h)
      BY <2>0, <2>2, HandlerTypes, HandlersLog DEF StationInv
    <2>3. CASE \E c \in Creators : L!Create(c) \/ L!InsertLocker(c) \/ L!InsertBoxes(c)
      <3>1. UNCHANGED <<handler, logs, drops, backs>>
        BY <2>3 DEF L!Create, L!InsertLocker, L!InsertBoxes
      <3> QED BY <2>0, <2>3, <3>1, CreationTypes, OthersLog DEF StationInv
    <2>4. CASE \/ \E status \in {"ONLINE", "OFFLINE", "MAINTENANCE"} : L!Update(status)
               \/ L!Connect \/ L!Tick
               \/ \E u \in Unlockers : \/ L!UnlockBox(u) \/ L!RecentlyOpened(u)
                                       \/ L!PublishDoorUnlock(u) \/ L!RecordLockerAction(u)
      <3>1. UNCHANGED <<handler, logs, drops, backs>>
        BY <2>4 DEF L!Update, L!Connect, L!Tick, L!UnlockBox, L!RecentlyOpened,
                    L!PublishDoorUnlock, L!RecordLockerAction
      <3> QED BY <2>0, <2>4, <3>1, SurroundingTypes, OthersLog DEF StationInv
    <2> QED BY <2>1, <2>2, <2>3, <2>4 DEF L!Next
  <1>3. L!Spec => []StationInv
    BY <1>1, <1>2, PTL DEF L!Spec
  <1> QED BY <1>3, PartsOfBuilding, PTL

(* The log of the station's connection has no more entries than the station *)
(* had losses of connection and returns, however many messages say the same *)
(* and whichever overtakes which.                                           *)
THEOREM EachDropIsLoggedOnce == BuildingSpec => []LoggedPerDrop
  <1>1. ASSUME StationInv PROVE LoggedPerDrop
    <2>1. /\ drops \in Nat /\ backs \in Nat /\ logs.offline \in Nat /\ logs.online \in Nat
      BY <1>1 DEF StationInv, StationTypes, L!StationTypeOK
    <2>2. /\ IsFiniteSet(Droppers) /\ IsFiniteSet(Returners)
          /\ logs.offline + Cardinality(Droppers) <= drops
          /\ logs.online + Cardinality(Returners) <= backs
      BY <1>1 DEF StationInv, Unlogged
    <2>3. Cardinality(Droppers) \in Nat /\ Cardinality(Returners) \in Nat
      BY <2>2, FS_CardinalityType
    <2> QED BY <2>1, <2>2, <2>3 DEF LoggedPerDrop, L!LoggedPerDrop
  <1> QED BY <1>1, StationInvariant, PTL
=============================================================================
