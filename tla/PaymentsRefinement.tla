------------------------ MODULE PaymentsRefinement ------------------------
(***************************************************************************)
(* The intents and webhooks keep the promise of OrderBook: for any number   *)
(* of intents, transfers, orders and faults, every step of Payments is a    *)
(* step of OrderBook under the mapping OrderStage, Due, Got, or changes     *)
(* nothing the book tells.                                                  *)
(*                                                                          *)
(* A step concerns one order, except a replacement, which ends the pending  *)
(* orders of a kind, and a restart, which strands all that were in hand;    *)
(* a call that throws strands its own.                                      *)
(***************************************************************************)
EXTENDS PaymentsProofs

(* A webhook settles only an order that lists its transfer: the transfer is *)
(* recorded once, so no second delivery overwrites what the first will do.  *)
Hooked == \A t \in Transfers : hook[t] = "settle" => order[transfer[t].order].receipts[t] # 0

BookInv == LedgerInv /\ Hooked

(* The book tells the same of o after the step.                             *)
Same(o) == OrderStage(o)' = OrderStage(o) /\ Due(o)' = Due(o) /\ Got(o)' = Got(o)

(* The step changes what the book tells of o only.                          *)
OnlyOf(o) == \A p \in OrderCodes : p # o => Same(p)

BookNext == [Book!Next]_(Book!vars)

(* The document of o still tells the same.                                  *)
SameDocument(o) ==
    /\ o \in DOMAIN order' <=> o \in DOMAIN order
    /\ o \in DOMAIN order => /\ order'[o].status = order[o].status
                             /\ order'[o].amount = order[o].amount
                             /\ order'[o].received = order[o].received

(* The calls about o still do.                                              *)
SameSettling(o) == Settling(o)' <=> Settling(o)

SameDelivery(o) ==
    /\ run'[<<o, "webhook">>].pc = "none" <=> run[<<o, "webhook">>].pc = "none"
    /\ run'[<<o, "webhook">>].pc = "done" <=> run[<<o, "webhook">>].pc = "done"

Kept(o) ==
    /\ SameDocument(o)
    /\ o \in DOMAIN order /\ order[o].status = "PENDING" => SameSettling(o)
    /\ o \in DOMAIN order /\ order[o].status = "PAID" => SameDelivery(o)

(* What the book tells of a document.                                       *)
LEMMA StagesOfDocuments ==
  ASSUME TypeOK, NEW o \in OrderCodes
  PROVE  /\ o \notin DOMAIN order => OrderStage(o) = "new"
         /\ o \in DOMAIN order =>
              /\ order[o].status = "CANCELLED" => OrderStage(o) = "void"
              /\ order[o].status = "PAID" =>
                   OrderStage(o) = IF run[<<o, "webhook">>].pc = "none" THEN "lost"
                                   ELSE IF run[<<o, "webhook">>].pc = "done" THEN "served"
                                   ELSE "paid"
              /\ order[o].status = "PENDING" =>
                   OrderStage(o) = IF order[o].received < order[o].amount THEN "open"
                                   ELSE IF Settling(o) THEN "covered" ELSE "stuck"
  <1>1. o \in DOMAIN order => order[o].status \in {"PENDING", "PAID", "CANCELLED"}
    BY OrderFields DEF PaymentStatus
  <1> QED BY <1>1 DEF OrderStage

(* The documents after a step have their type.                              *)
LEMMA DocumentsAfter ==
  ASSUME TypeOK', NEW o \in DOMAIN order'
  PROVE  /\ order'[o].status \in {"PENDING", "PAID", "CANCELLED"}
         /\ order'[o].amount \in Nat /\ order'[o].received \in Nat
  <1>1. order' \in Seq(Order)
    BY DEF TypeOK
  <1>2. order'[o] \in Order
    BY <1>1
  <1> QED BY <1>2 DEF Order, PaymentStatus

(* The same after a step.                                                   *)
LEMMA StagesAfter ==
  ASSUME TypeOK', NEW o \in OrderCodes
  PROVE  /\ o \notin DOMAIN order' => OrderStage(o)' = "new"
         /\ o \in DOMAIN order' =>
              /\ order'[o].status = "CANCELLED" => OrderStage(o)' = "void"
              /\ order'[o].status = "PAID" =>
                   OrderStage(o)' = IF run'[<<o, "webhook">>].pc = "none" THEN "lost"
                                    ELSE IF run'[<<o, "webhook">>].pc = "done" THEN "served"
                                    ELSE "paid"
              /\ order'[o].status = "PENDING" =>
                   OrderStage(o)' = IF order'[o].received < order'[o].amount THEN "open"
                                    ELSE IF Settling(o)' THEN "covered" ELSE "stuck"
  <1>1. o \in DOMAIN order' => order'[o].status \in {"PENDING", "PAID", "CANCELLED"}
    BY DocumentsAfter
  <1> QED BY <1>1 DEF OrderStage

(* The money the book tells of is a number.                                 *)
LEMMA MoneyIsNatural ==
  ASSUME TypeOK, NEW o \in OrderCodes PROVE Due(o) \in Nat /\ Got(o) \in Nat
  BY OrderFields DEF Due, Got

LEMMA MoneyAfter ==
  ASSUME TypeOK', NEW o \in OrderCodes PROVE Due(o)' \in Nat /\ Got(o)' \in Nat
  <1>1. o \in DOMAIN order' => order'[o].amount \in Nat /\ order'[o].received \in Nat
    BY DocumentsAfter
  <1> QED BY <1>1 DEF Due, Got

(* An order whose sources are kept is told the same of.                     *)
LEMMA KeptIsSame ==
  ASSUME TypeOK, TypeOK', NEW o \in OrderCodes, Kept(o) PROVE Same(o)
  <1>1. Due(o)' = Due(o) /\ Got(o)' = Got(o)
    BY DEF Kept, SameDocument, Due, Got
  <1>2. CASE o \notin DOMAIN order
    <2>1. OrderStage(o) = "new" /\ OrderStage(o)' = "new"
      BY <1>2, StagesOfDocuments, StagesAfter DEF Kept, SameDocument
    <2> QED BY <1>1, <2>1 DEF Same
  <1>3. CASE o \in DOMAIN order
    <2>1. order[o].status \in {"PENDING", "PAID", "CANCELLED"} /\ o \in DOMAIN order'
      BY <1>3, OrderFields DEF PaymentStatus, Kept, SameDocument
    <2>2. CASE order[o].status = "CANCELLED"
      BY <1>1, <1>3, <2>1, <2>2, StagesOfDocuments, StagesAfter DEF Same, Kept, SameDocument
    <2>3. CASE order[o].status = "PAID"
      <3>1. order'[o].status = "PAID" /\ SameDelivery(o)
        BY <1>3, <2>3 DEF Kept, SameDocument
      <3>2. OrderStage(o)' = OrderStage(o)
        BY <1>3, <2>1, <2>3, <3>1, StagesOfDocuments, StagesAfter DEF SameDelivery
      <3> QED BY <1>1, <3>2 DEF Same
    <2>4. CASE order[o].status = "PENDING"
      <3>1. /\ order'[o].status = "PENDING" /\ SameSettling(o)
            /\ order'[o].amount = order[o].amount /\ order'[o].received = order[o].received
        BY <1>3, <2>4 DEF Kept, SameDocument
      <3>2. OrderStage(o)' = OrderStage(o)
        BY <1>3, <2>1, <2>4, <3>1, StagesOfDocuments, StagesAfter DEF SameSettling
      <3> QED BY <1>1, <3>2 DEF Same
    <2> QED BY <2>1, <2>2, <2>3, <2>4
  <1> QED BY <1>2, <1>3
-----------------------------------------------------------------------------
(* Steps of OrderBook                                                       *)

(* A step the book tells nothing of stutters.                               *)
LEMMA Stutters ==
  ASSUME \A o \in OrderCodes : Same(o), faults' = faults PROVE BookNext
  BY DEF Same, BookNext, Book!vars

(* An order opens, with the credit it was given.                            *)
LEMMA Opens ==
  ASSUME TypeOK', NEW o \in OrderCodes, OnlyOf(o), faults' = faults,
         OrderStage(o) = "new",
         OrderStage(o)' = IF Got(o)' >= Due(o)' THEN "covered" ELSE "open"
  PROVE  BookNext
  <1>1. \A p \in OrderCodes : Due(p)' \in Nat /\ Got(p)' \in Nat
    BY MoneyAfter
  <1>2. Book!Open(o)
    BY <1>1 DEF OnlyOf, Same, Book!Open, Book!SameMoney, Book!Arrived
  <1> QED BY <1>2 DEF BookNext, Book!Next

(* An order that waits receives money.                                      *)
LEMMA ReceivesMoney ==
  ASSUME TypeOK', NEW o \in OrderCodes, OnlyOf(o), faults' = faults,
         OrderStage(o) \in {"open", "covered", "stuck"},
         Due(o)' = Due(o), Got(o)' >= Got(o),
         OrderStage(o)' = IF Got(o)' >= Due(o)' THEN "covered" ELSE "open"
  PROVE  BookNext
  <1>1. \A p \in OrderCodes : Due(p)' \in Nat /\ Got(p)' \in Nat
    BY MoneyAfter
  <1>2. Book!Receive(o)
    BY <1>1 DEF OnlyOf, Same, Book!Receive, Book!SameMoney, Book!Arrived, Book!Waiting
  <1> QED BY <1>2 DEF BookNext, Book!Next

(* An order that has its money is paid, and one that is paid is served.     *)
LEMMA Advances ==
  ASSUME NEW o \in OrderCodes, OnlyOf(o), faults' = faults,
         Due(o)' = Due(o), Got(o)' = Got(o),
         \/ OrderStage(o) = "covered" /\ OrderStage(o)' = "paid"
         \/ OrderStage(o) = "paid" /\ OrderStage(o)' = "served"
  PROVE  BookNext
  <1>1. Book!Pay(o) \/ Book!Serve(o)
    BY DEF OnlyOf, Same, Book!Pay, Book!Serve, Book!Advance
  <1> QED BY <1>1 DEF BookNext, Book!Next

(* Orders that wait are replaced.                                           *)
LEMMA Voids ==
  ASSUME NEW S \in SUBSET OrderCodes, faults' = faults,
         \A o \in S : OrderStage(o) \in {"open", "covered", "stuck"} /\ OrderStage(o)' = "void",
         \A o \in S : Due(o)' = Due(o) /\ Got(o)' = Got(o),
         \A o \in OrderCodes \ S : Same(o)
  PROVE  BookNext
  <1>1. Book!Void(S)
    BY DEF Same, Book!Void, Book!Waiting
  <1> QED BY <1>1 DEF BookNext, Book!Next

(* A fault strands some of what was in hand.                                *)
LEMMA Strands ==
  ASSUME faults' = faults + 1,
         \A o \in OrderCodes : Due(o)' = Due(o) /\ Got(o)' = Got(o),
         \A o \in OrderCodes :
           \/ OrderStage(o)' = OrderStage(o)
           \/ OrderStage(o) = "covered" /\ OrderStage(o)' = "stuck"
           \/ OrderStage(o) = "paid" /\ OrderStage(o)' = "lost"
  PROVE  BookNext
  <1> DEFINE S == {o \in OrderCodes : OrderStage(o)' # OrderStage(o)}
  <1>1. \A o \in OrderCodes :
          OrderStage(o)' = CASE o \in S /\ OrderStage(o) = "covered" -> "stuck"
                             [] o \in S /\ OrderStage(o) = "paid" -> "lost"
                             [] OTHER -> OrderStage(o)
    OBVIOUS
  <1>2. S \in SUBSET OrderCodes
    OBVIOUS
  <1> HIDE DEF S
  <1>3. Book!Fail(S)
    BY <1>1 DEF Book!Fail
  <1> QED BY <1>2, <1>3 DEF BookNext, Book!Next
-----------------------------------------------------------------------------
(* What a step leaves alone                                                 *)

(* Calls that go on or end without having settled leave Settling alone.     *)
LEMMA CallsKept ==
  ASSUME NEW o \in OrderCodes,
         \A r \in Requests :
           /\ request'[r].pc = "settle" /\ request'[r].target = o
           <=> request[r].pc = "settle" /\ request[r].target = o,
         \A t \in Transfers :
           /\ hook'[t] = "settle" /\ transfer'[t].order = o
           <=> hook[t] = "settle" /\ transfer[t].order = o
  PROVE  SameSettling(o)
  BY DEF SameSettling, Settling

(* A step that keeps the orders and what is settling and delivering them    *)
(* changes nothing the book tells.                                          *)
LEMMA QuietStep ==
  ASSUME TypeOK, TypeOK', faults' = faults, \A o \in OrderCodes : SameDocument(o),
         \A o \in OrderCodes : SameSettling(o), \A o \in OrderCodes : SameDelivery(o)
  PROVE  BookNext
  <1>1. \A o \in OrderCodes : Kept(o)
    BY DEF Kept
  <1> QED BY <1>1, KeptIsSame, Stutters

(* Orders, completions and webhooks stay; the intent r was not settling and *)
(* is not.                                                                  *)
LEMMA QuietRequest ==
  ASSUME LedgerInv, LedgerInv', NEW r \in Requests, NEW q,
         request' = [request EXCEPT ![r] = q],
         request[r].pc # "settle", q.pc # "settle",
         UNCHANGED <<transfer, hook, run, faults>>,
         \A o \in OrderCodes : SameDocument(o)
  PROVE  BookNext
  <1>0. TypeOK /\ TypeOK'
    BY DEF LedgerInv
  <1>1. request'[r].pc # "settle" /\ \A s \in Requests \ {r} : request'[s] = request[s]
    BY <1>0 DEF TypeOK
  <1>2. \A o \in OrderCodes : SameSettling(o)
    BY <1>1, CallsKept
  <1>3. \A o \in OrderCodes : SameDelivery(o)
    BY DEF SameDelivery
  <1> QED BY <1>0, <1>2, <1>3, QuietStep

(* Unchanged orders.                                                        *)
LEMMA OrdersUnchanged ==
  ASSUME UNCHANGED order PROVE \A o \in OrderCodes : SameDocument(o)
  BY DEF SameDocument
-----------------------------------------------------------------------------
(* The intents                                                              *)

(* FindPending makes an intent that settles nothing.                        *)
LEMMA FindPendingPicks ==
  ASSUME LedgerInv, NEW r \in Requests, FindPending(r)
  PROVE  \E q : request' = [request EXCEPT ![r] = q] /\ q.pc # "settle"
  <1> DEFINE q == request[r]
             q1 == [q EXCEPT !.pc = "create"]
             q2 == [q EXCEPT !.pc = "collect"]
             flow(o) == IF q.flow = order[o].flow THEN "unset" ELSE q.flow
             q3(o) == [q EXCEPT !.pc = "save", !.target = o, !.flow = flow(o)]
  <1>0. q \in Request
    BY RequestFields DEF LedgerInv
  <1>1. \/ request' = [request EXCEPT ![r] = q1]
        \/ request' = [request EXCEPT ![r] = q2]
        \/ \E o \in Pending(q.kind) : request' = [request EXCEPT ![r] = q3(o)]
    BY DEF FindPending
  <1>2. q1.pc = "create" /\ q2.pc = "collect" /\ \A o : q3(o).pc = "save"
    BY <1>0 DEF Request
  <1> HIDE DEF q1, q2, q3
  <1> QED BY Zenon, <1>1, <1>2

(* Until it creates or replaces an order, an intent changes nothing the     *)
(* book tells; saving a pending order changes its flow only.                *)
LEMMA IntentIsQuiet ==
  ASSUME LedgerInv, LedgerInv', NEW r \in Requests,
         \/ CreatePaymentIntent(r) \/ CreateSubscriptionIntent(r)
         \/ FindPending(r) \/ RenewSubscription(r) \/ CollectCredit(r)
  PROVE  BookNext
  <1>0. request[r] \in Request /\ NoRequest \in Request
    BY RequestFields, NothingIsTyped DEF LedgerInv
  <1>1. CASE CreatePaymentIntent(r) \/ CreateSubscriptionIntent(r)
    <2>1. PICK kind, flow : StartIntent(r, kind, flow)
      BY Zenon, <1>1 DEF CreatePaymentIntent, CreateSubscriptionIntent
    <2>2. PICK fee : request' = [request EXCEPT ![r] = [NoRequest EXCEPT !.pc = "find",
                                            !.kind = kind, !.fee = fee, !.flow = flow]]
      BY <2>1 DEF StartIntent
    <2> DEFINE q == [NoRequest EXCEPT !.pc = "find", !.kind = kind, !.fee = fee, !.flow = flow]
    <2>3. q.pc = "find" /\ request[r].pc = "idle"
      BY <2>1 DEF StartIntent, NoRequest
    <2>4. request' = [request EXCEPT ![r] = q]
      BY <2>2
    <2>5. UNCHANGED <<order, transfer, hook, run, faults>>
      BY <2>1 DEF StartIntent
    <2> HIDE DEF q
    <2> QED BY <2>3, <2>4, <2>5, OrdersUnchanged, QuietRequest
  <1>2. CASE FindPending(r)
    <2>1. PICK q : request' = [request EXCEPT ![r] = q] /\ q.pc # "settle"
      BY <1>2, FindPendingPicks
    <2>2. request[r].pc = "find" /\ UNCHANGED <<order, transfer, hook, run, faults>>
      BY <1>2 DEF FindPending
    <2> QED BY <2>1, <2>2, OrdersUnchanged, QuietRequest
  <1>3. CASE RenewSubscription(r)
    <2>1. NoRequest.pc # "settle"
      BY DEF NoRequest
    <2>2. /\ request[r].pc = "save" /\ request' = [request EXCEPT ![r] = NoRequest]
          /\ UNCHANGED <<order, transfer, hook, run, faults>>
      BY <1>3 DEF RenewSubscription
    <2> QED BY <2>1, <2>2, OrdersUnchanged, QuietRequest
  <1>4. CASE CollectCredit(r)
    <2> DEFINE c == SumCredit(Pending(request[r].kind))
               q == [request[r] EXCEPT !.pc = "cancel", !.credit = c.received,
                                       !.receipts = c.receipts]
    <2>1. /\ request[r].pc = "collect" /\ request' = [request EXCEPT ![r] = q]
          /\ UNCHANGED <<order, transfer, hook, run, faults>>
      BY <1>4 DEF CollectCredit, LedgerInv, TypeOK
    <2> HIDE DEF c
    <2>2. q.pc = "cancel"
      BY <1>0 DEF Request
    <2> HIDE DEF q
    <2> QED BY <2>1, <2>2, OrdersUnchanged, QuietRequest
  <1> QED BY <1>1, <1>2, <1>3, <1>4

LEMMA SaveIsQuiet ==
  ASSUME LedgerInv, LedgerInv', NEW r \in Requests, SavePending(r)
  PROVE  BookNext
  <1> DEFINE o == request[r].target
             f == request[r].flow
             u == order[o].relabelled \/ IsInUse(o)
             d == [order[o] EXCEPT !.flow = f, !.relabelled = u]
  <1>0. TypeOK
    BY DEF LedgerInv
  <1>1. /\ request[r].pc = "save" /\ request' = [request EXCEPT ![r] = NoRequest]
        /\ order' = order \/ order' = [order EXCEPT ![o].flow = f,
                                                    ![o].relabelled = @ \/ IsInUse(o)]
        /\ UNCHANGED <<transfer, hook, run, faults>>
    BY DEF SavePending
  <1>2. o \in DOMAIN order
    BY <1>1 DEF LedgerInv, Placed
  <1>3. order[o] \in Order
    BY <1>0, <1>2, OrdersAreListed
  <1> HIDE DEF o, f
  <1>4. /\ DOMAIN order' = DOMAIN order /\ order'[o] \in {order[o], d}
        /\ \A p \in DOMAIN order \ {o} : order'[p] = order[p]
    BY <1>1, <1>2, <1>3 DEF Order
  <1>5. /\ d.status = order[o].status /\ d.amount = order[o].amount
        /\ d.received = order[o].received
    BY <1>3 DEF Order
  <1> HIDE DEF d
  <1>6. \A p \in OrderCodes : SameDocument(p)
    BY <1>4, <1>5 DEF SameDocument
  <1>7. NoRequest.pc # "settle"
    BY DEF NoRequest
  <1> QED BY <1>1, <1>6, <1>7, QuietRequest

(* The pending orders of the kind are replaced.                             *)
LEMMA CancelVoids ==
  ASSUME LedgerInv, LedgerInv', NEW r \in Requests, CancelPending(r)
  PROVE  BookNext
  <1> DEFINE S == Pending(request[r].kind)
  <1>0. TypeOK /\ TypeOK' /\ \A o \in DOMAIN order : order[o] \in Order
    BY OrdersAreListed DEF LedgerInv
  <1>1. /\ request[r].pc = "cancel" /\ request' = [request EXCEPT ![r].pc = "create"]
        /\ order' = [o \in DOMAIN order |-> IF o \in S
                                            THEN [order[o] EXCEPT !.status = "CANCELLED"]
                                            ELSE order[o]]
        /\ UNCHANGED <<transfer, hook, run, faults>>
    BY DEF CancelPending
  <1>2. S \subseteq DOMAIN order /\ S \in SUBSET OrderCodes
        /\ \A o \in S : order[o].status = "PENDING"
    BY <1>0, OrdersAreListed DEF Pending
  <1> HIDE DEF S
  <1>3. DOMAIN order' = DOMAIN order /\ \A o \in DOMAIN order \ S : order'[o] = order[o]
    BY <1>1
  <1>4. ASSUME NEW o \in S
        PROVE  /\ o \in DOMAIN order /\ order'[o].status = "CANCELLED"
               /\ order'[o].amount = order[o].amount /\ order'[o].received = order[o].received
    <2>1. order'[o] = [order[o] EXCEPT !.status = "CANCELLED"] /\ order[o] \in Order
      BY <1>0, <1>1, <1>2
    <2> QED BY <1>2, <2>1 DEF Order
  <1>5. request'[r].pc = "create" /\ \A s \in Requests \ {r} : request'[s] = request[s]
    BY <1>0, <1>1, RequestFields DEF TypeOK, Request
  <1>6. \A o \in OrderCodes \ S : Same(o)
    <2>1. \A o \in OrderCodes : SameSettling(o)
      BY <1>1, <1>5, CallsKept
    <2>2. \A o \in OrderCodes \ S : Kept(o)
      BY <1>1, <1>3, <2>1 DEF Kept, SameDocument, SameDelivery
    <2> QED BY <1>0, <2>2, KeptIsSame
  <1>7. ASSUME NEW o \in S
        PROVE  /\ OrderStage(o) \in {"open", "covered", "stuck"} /\ OrderStage(o)' = "void"
               /\ Due(o)' = Due(o) /\ Got(o)' = Got(o)
    <2>1. OrderStage(o) \in {"open", "covered", "stuck"}
      BY <1>0, <1>2, StagesOfDocuments
    <2>2. OrderStage(o)' = "void"
      BY <1>0, <1>2, <1>3, <1>4, StagesAfter
    <2>3. Due(o)' = Due(o) /\ Got(o)' = Got(o)
      BY <1>3, <1>4 DEF Due, Got
    <2> QED BY <2>1, <2>2, <2>3
  <1> QED BY <1>1, <1>2, <1>6, <1>7, Voids

(* An order opens, and the intent that gave it all its money settles it.    *)
LEMMA CreateOpens ==
  ASSUME LedgerInv, LedgerInv', NEW r \in Requests, CreateOrder(r)
  PROVE  BookNext
  <1> DEFINE q == request[r]
             d == NewOrder(q)
  <1>0. TypeOK /\ TypeOK'
    BY DEF LedgerInv
  <1> PICK o : o = Len(order) + 1
    OBVIOUS
  <1>1. /\ q.pc = "create" /\ order' = Append(order, d)
        /\ request' = [request EXCEPT ![r] =
             IF IsFullyPaid(q.fee, q.credit)
             THEN [NoRequest EXCEPT !.pc = "settle", !.target = o] ELSE NoRequest]
        /\ UNCHANGED <<transfer, hook, run, faults>>
    BY DEF CreateOrder
  <1>2. d.status = "PENDING" /\ d.amount = q.fee /\ d.received = q.credit
    BY DEF NewOrder, PackageOrder, SubscriptionOrder
  <1> HIDE DEF d
  <1>3. /\ o \notin DOMAIN order /\ o \in DOMAIN order' /\ order'[o] = d
        /\ DOMAIN order' = DOMAIN order \cup {o}
        /\ \A p \in DOMAIN order : order'[p] = order[p]
    BY SMTT(30), <1>0, <1>1, OrdersAreListed DEF TypeOK
  <1>4. o \in OrderCodes
    BY <1>0, <1>3, OrdersStayListed
  <1>5. /\ q.fee \in Nat /\ q.credit \in Nat
        /\ \A s \in Requests \ {r} : request'[s] = request[s]
        /\ request'[r] = IF q.credit >= q.fee
                         THEN [NoRequest EXCEPT !.pc = "settle", !.target = o] ELSE NoRequest
    BY <1>0, <1>1, RequestFields DEF TypeOK, IsFullyPaid
  <1>6. /\ q.credit >= q.fee => request'[r].pc = "settle" /\ request'[r].target = o
        /\ ~(q.credit >= q.fee) => request'[r].pc = "idle"
    BY <1>5 DEF NoRequest
  <1>7. OnlyOf(o)
    <2>1. ASSUME NEW p \in OrderCodes, p # o PROVE SameSettling(p)
      BY <1>1, <1>5, <1>6, <2>1, CallsKept
    <2>2. ASSUME NEW p \in OrderCodes, p # o PROVE Kept(p)
      BY <1>1, <1>3, <2>1, <2>2 DEF Kept, SameDocument, SameDelivery
    <2> QED BY <1>0, <2>2, KeptIsSame DEF OnlyOf
  <1>8. OrderStage(o) = "new"
    BY <1>0, <1>3, <1>4, StagesOfDocuments
  <1>9. Due(o)' = q.fee /\ Got(o)' = q.credit
    BY <1>2, <1>3 DEF Due, Got
  <1>10. q.credit >= q.fee => Settling(o)'
    BY <1>6 DEF Settling
  <1>11. OrderStage(o)' = IF Got(o)' >= Due(o)' THEN "covered" ELSE "open"
    <2>1. OrderStage(o)' = IF q.credit < q.fee THEN "open"
                           ELSE IF Settling(o)' THEN "covered" ELSE "stuck"
      BY <1>0, <1>2, <1>3, <1>4, StagesAfter
    <2> QED BY <1>5, <1>9, <1>10, <2>1
  <1> QED BY <1>0, <1>1, <1>4, <1>7, <1>8, <1>11, Opens
-----------------------------------------------------------------------------
(* Settling                                                                 *)

(* The order that is settled has its money and a call that settles it: it   *)
(* is paid, and its completion starts.  The calls about other orders stay.  *)
LEMMA SettlingPays ==
  ASSUME LedgerInv, LedgerInv', NEW o \in DOMAIN order, faults' = faults,
         order[o].status = "PENDING", order[o].received >= order[o].amount, Settling(o),
         Settled(o, order[o].received),
         \A p \in OrderCodes : p # o => SameSettling(p)
  PROVE  BookNext
  <1>0. TypeOK /\ TypeOK' /\ o \in OrderCodes /\ <<o, "webhook">> \in OrderCodes \X Callers
    BY OrdersAreListed, WebhookRuns DEF LedgerInv
  <1>1. /\ DOMAIN order' = DOMAIN order /\ order'[o].status = "PAID"
        /\ order'[o].amount = order[o].amount
        /\ \A p \in DOMAIN order \ {o} : order'[p] = order[p]
    BY SettledOrders DEF SameOrders
  <1>2. order'[o].received = order[o].received
    <2>1. order'[o] = [order[o] EXCEPT !.status = "PAID", !.received = order[o].received]
      BY <1>0 DEF Settled, TypeOK
    <2>2. order[o] \in Order
      BY <1>0, OrdersAreListed
    <2> QED BY <2>1, <2>2 DEF Order
  <1>3. /\ run'[<<o, "webhook">>] = Completion(o)
        /\ \A p \in OrderCodes : p # o => run'[<<p, "webhook">>] = run[<<p, "webhook">>]
    BY <1>0, WebhookRuns DEF Settled, TypeOK
  <1>4. Completion(o).pc \in {"subscriber", "kiosk", "remote"}
    BY <1>0, OrderFields DEF Completion, NoRun, Flows
  <1>5. OnlyOf(o)
    <2>1. ASSUME NEW p \in OrderCodes, p # o PROVE Kept(p)
      BY <1>1, <1>3, <2>1 DEF Kept, SameDocument, SameDelivery
    <2> QED BY <1>0, <2>1, KeptIsSame DEF OnlyOf
  <1>6. OrderStage(o) = "covered"
    <2>1. order[o].received \in Nat /\ order[o].amount \in Nat
      BY <1>0, OrderFields
    <2> QED BY <1>0, <2>1, StagesOfDocuments
  <1>7. OrderStage(o)' = "paid"
    BY <1>0, <1>1, <1>3, <1>4, StagesAfter
  <1>8. Due(o)' = Due(o) /\ Got(o)' = Got(o)
    BY <1>1, <1>2 DEF Due, Got
  <1> QED BY <1>0, <1>5, <1>6, <1>7, <1>8, Advances

(* A call whose order has ended answers only.                               *)
LEMMA LateSettling ==
  ASSUME LedgerInv, LedgerInv', NEW o \in DOMAIN order, order[o].status # "PENDING",
         UNCHANGED <<order, run, faults>>,
         \A p \in OrderCodes : p # o => SameSettling(p)
  PROVE  BookNext
  <1>1. \A p \in OrderCodes : Kept(p)
    BY DEF Kept, SameDocument, SameDelivery
  <1> QED BY <1>1, KeptIsSame, Stutters DEF LedgerInv

(* The intent whose credit was enough settles its order.                    *)
LEMMA CreditPays ==
  ASSUME LedgerInv, LedgerInv', NEW r \in Requests, SettleCredit(r)
  PROVE  BookNext
  <1> PICK o : o = request[r].target
    OBVIOUS
  <1>1. /\ request[r].pc = "settle" /\ request' = [request EXCEPT ![r] = NoRequest]
        /\ UNCHANGED <<transfer, hook, faults>>
        /\ \/ /\ order[o].status = "PENDING" /\ Settled(o, order[o].received)
              /\ order[o].received >= order[o].amount
           \/ order[o].status # "PENDING" /\ UNCHANGED <<order, run>>
    BY DEF SettleCredit, IsFullyPaid
  <1>2. o \in DOMAIN order
    BY <1>1 DEF LedgerInv, Placed
  <1>3. request'[r].pc = "idle" /\ \A s \in Requests \ {r} : request'[s] = request[s]
    BY <1>1 DEF LedgerInv, TypeOK, NoRequest
  <1>4. ASSUME NEW p \in OrderCodes, p # o PROVE SameSettling(p)
    BY <1>1, <1>3, <1>4, CallsKept
  <1>5. Settling(o)
    BY <1>1 DEF Settling
  <1>6. CASE order[o].status = "PENDING"
    BY <1>1, <1>2, <1>4, <1>5, <1>6, SettlingPays
  <1>7. CASE order[o].status # "PENDING"
    BY <1>1, <1>2, <1>4, <1>7, LateSettling
  <1> QED BY <1>6, <1>7
-----------------------------------------------------------------------------
(* The webhooks                                                             *)

(* A webhook settles the order its transfer completed.                      *)
LEMMA HookPays ==
  ASSUME LedgerInv, LedgerInv', NEW t \in Transfers, SettleOrder(t)
  PROVE  BookNext
  <1> PICK o : o = transfer[t].order
    OBVIOUS
  <1>1. /\ hook[t] = "settle" /\ hook' = [hook EXCEPT ![t] = "none"]
        /\ UNCHANGED <<request, transfer, faults>>
        /\ \/ order[o].status = "PENDING" /\ Settled(o, Max({order[o].received, order[o].amount}))
           \/ order[o].status # "PENDING" /\ UNCHANGED <<order, run>>
    BY DEF SettleOrder
  <1>2. o \in DOMAIN order /\ order[o].received >= order[o].amount
    BY <1>1 DEF LedgerInv, Placed, Covered
  <1>3. Max({order[o].received, order[o].amount}) = order[o].received
    BY <1>2, OrderFields, LargerOne DEF LedgerInv
  <1>4. hook'[t] = "none" /\ \A s \in Transfers \ {t} : hook'[s] = hook[s]
    BY <1>1 DEF LedgerInv, TypeOK
  <1>5. ASSUME NEW p \in OrderCodes, p # o PROVE SameSettling(p)
    BY <1>1, <1>4, <1>5, CallsKept
  <1>6. Settling(o)
    BY <1>1 DEF Settling
  <1>7. CASE order[o].status = "PENDING"
    BY <1>1, <1>2, <1>3, <1>5, <1>6, <1>7, SettlingPays
  <1>8. CASE order[o].status # "PENDING"
    BY <1>1, <1>2, <1>5, <1>8, LateSettling
  <1> QED BY <1>7, <1>8

(* A transfer that is made is in no webhook's hands yet.                    *)
LEMMA MakeIsQuiet ==
  ASSUME LedgerInv, LedgerInv', NEW t \in Transfers, MakeTransfer(t)
  PROVE  BookNext
  <1>0. TypeOK /\ TypeOK'
    BY DEF LedgerInv
  <1>1. transfer[t] = NotMade /\ UNCHANGED <<order, request, hook, run, faults>>
    BY DEF MakeTransfer
  <1>2. \A s \in Transfers \ {t} : transfer'[s] = transfer[s]
    BY DEF MakeTransfer, LedgerInv, TypeOK
  <1>3. hook[t] # "settle"
    BY <1>1 DEF LedgerInv, Placed
  <1>4. \A o \in OrderCodes : SameSettling(o)
    BY <1>1, <1>2, <1>3, CallsKept
  <1>5. \A o \in OrderCodes : SameDelivery(o)
    BY <1>1 DEF SameDelivery
  <1> QED BY <1>0, <1>1, <1>4, <1>5, OrdersUnchanged, QuietStep

(* What a recorded transfer changes.                                        *)
LEMMA WhatIsRecorded ==
  ASSUME LedgerInv, NEW t \in Transfers, RecordTransfer(t), NEW o, o = transfer[t].order
  PROVE  /\ o \in DOMAIN order /\ DOMAIN order' = DOMAIN order
         /\ \A p \in DOMAIN order \ {o} : order'[p] = order[p]
         /\ order'[o].status = "PENDING" /\ order'[o].amount = order[o].amount
         /\ order'[o].received = order[o].received + transfer[t].amount
         /\ order'[o].receipts = [order[o].receipts EXCEPT ![t] = @ + 1]
  <1> DEFINE received == order[o].received + transfer[t].amount
             receipts == [order[o].receipts EXCEPT ![t] = @ + 1]
             d == [order[o] EXCEPT !.received = received, !.receipts = receipts]
  <1>1. o \in DOMAIN order
    BY DEF RecordTransfer, LedgerInv, Placed
  <1>2. order[o] \in Order
    BY <1>1, OrdersAreListed DEF LedgerInv
  <1>3. order[o].status = "PENDING" /\ order' = [order EXCEPT ![o] = d]
    BY <1>1, <1>2 DEF RecordTransfer, Order
  <1> HIDE DEF received, receipts
  <1>4. /\ d.status = order[o].status /\ d.amount = order[o].amount
        /\ d.received = received /\ d.receipts = receipts
    BY <1>2 DEF Order
  <1> HIDE DEF d
  <1>5. /\ DOMAIN order' = DOMAIN order /\ order'[o] = d
        /\ \A p \in DOMAIN order \ {o} : order'[p] = order[p]
    BY <1>1, <1>3
  <1> QED BY <1>1, <1>3, <1>4, <1>5 DEF received, receipts

(* A waiting order receives money, and the webhook that brought the last of *)
(* it settles: no webhook of this transfer was in flight.                   *)
LEMMA RecordReceives ==
  ASSUME BookInv, LedgerInv', NEW t \in Transfers, RecordTransfer(t)
  PROVE  BookNext
  <1>0. LedgerInv /\ TypeOK /\ TypeOK' /\ Hooked
    BY DEF BookInv, LedgerInv
  <1> PICK o : o = transfer[t].order
    OBVIOUS
  <1>1. /\ order[o].status = "PENDING" /\ order[o].receipts[t] = 0
        /\ hook' = [hook EXCEPT ![t] = IF transfer[t].gateway
                        \/ order[o].received + transfer[t].amount >= order[o].amount
                                       THEN "settle" ELSE "none"]
        /\ UNCHANGED <<request, transfer, run, faults>>
    BY DEF RecordTransfer, IsFullyPaid
  <1>2. /\ o \in DOMAIN order /\ DOMAIN order' = DOMAIN order
        /\ \A p \in DOMAIN order \ {o} : order'[p] = order[p]
        /\ order'[o].status = "PENDING" /\ order'[o].amount = order[o].amount
        /\ order'[o].received = order[o].received + transfer[t].amount
    BY <1>0, WhatIsRecorded
  <1>3. o \in OrderCodes /\ order[o].received \in Nat /\ order[o].amount \in Nat
        /\ transfer[t].amount \in Nat
    BY <1>0, <1>2, OrdersAreListed, OrderFields, TransferFields
  <1>4. hook[t] # "settle"
    BY <1>0, <1>1 DEF Hooked
  <1>5. /\ order'[o].received >= order[o].amount => hook'[t] = "settle"
        /\ \A s \in Transfers \ {t} : hook'[s] = hook[s]
    BY <1>0, <1>1, <1>2 DEF TypeOK
  <1>6. OnlyOf(o)
    <2>1. ASSUME NEW p \in OrderCodes, p # o PROVE SameSettling(p)
      BY <1>1, <1>5, <2>1, CallsKept
    <2>2. ASSUME NEW p \in OrderCodes, p # o PROVE Kept(p)
      BY <1>1, <1>2, <2>1, <2>2 DEF Kept, SameDocument, SameDelivery
    <2> QED BY <1>0, <2>2, KeptIsSame DEF OnlyOf
  <1>7. OrderStage(o) \in {"open", "covered", "stuck"}
    BY <1>0, <1>1, <1>2, <1>3, StagesOfDocuments
  <1>8. /\ Due(o) = order[o].amount /\ Due(o)' = order[o].amount
        /\ Got(o) = order[o].received /\ Got(o)' = order[o].received + transfer[t].amount
    BY <1>2 DEF Due, Got
  <1>9. order'[o].received >= order[o].amount => Settling(o)'
    BY <1>1, <1>5 DEF Settling
  <1>10. OrderStage(o)' = IF Got(o)' >= Due(o)' THEN "covered" ELSE "open"
    <2>1. OrderStage(o)' = IF order'[o].received < order'[o].amount THEN "open"
                           ELSE IF Settling(o)' THEN "covered" ELSE "stuck"
      BY <1>0, <1>2, <1>3, StagesAfter
    <2> QED BY <1>2, <1>3, <1>8, <1>9, <2>1
  <1>11. Due(o)' = Due(o) /\ Got(o)' >= Got(o)
    BY <1>3, <1>8
  <1> QED BY <1>0, <1>1, <1>3, <1>6, <1>7, <1>10, <1>11, ReceivesMoney
-----------------------------------------------------------------------------
(* Delivery, and the rest of the system                                     *)

(* Intents and webhooks stay, and orders; completions go on.                *)
LEMMA CallsStay ==
  ASSUME UNCHANGED <<request, transfer, hook>> PROVE \A o \in OrderCodes : SameSettling(o)
  BY CallsKept

(* A device's run says nothing of the delivery.                             *)
LEMMA DeviceIsQuiet ==
  ASSUME LedgerInv, LedgerInv', NEW c \in OrderCodes \X Callers, c[2] # "webhook",
         UNCHANGED <<order, request, transfer, hook, faults>>,
         \A b \in (OrderCodes \X Callers) \ {c} : run'[b] = run[b]
  PROVE  BookNext
  <1>1. ASSUME NEW o \in OrderCodes PROVE SameDelivery(o)
    <2>1. <<o, "webhook">> \in (OrderCodes \X Callers) \ {c}
      BY WebhookRuns
    <2> QED BY <2>1 DEF SameDelivery
  <1> QED BY <1>1, OrdersUnchanged, CallsStay, QuietStep DEF LedgerInv

(* A step of a completion serves its order when it was the last.            *)
LEMMA RunServes ==
  ASSUME LedgerInv, LedgerInv', NEW c \in OrderCodes \X Callers, RunStep(c)
  PROVE  BookNext
  <1>0. TypeOK /\ TypeOK'
    BY DEF LedgerInv
  <1>1. UNCHANGED <<order, request, transfer, hook, faults>>
    BY RunSteps DEF LedgerInv
  <1>2. \A b \in (OrderCodes \X Callers) \ {c} : run'[b] = run[b]
    BY RunTransitions
  <1>3. run[c].pc \notin {"none", "done"} /\ run'[c].pc # "none"
    BY RunTransitions
  <1>4. CASE c[2] # "webhook"
    BY <1>1, <1>2, <1>4, DeviceIsQuiet
  <1>5. CASE c[2] = "webhook"
    <2> PICK o \in OrderCodes : c = <<o, "webhook">>
      BY <1>5
    <2>1. o \in DOMAIN order
      BY <1>3 DEF LedgerInv, Placed
    <2>2. ASSUME NEW p \in OrderCodes, p # o PROVE SameDelivery(p)
      <3>1. <<p, "webhook">> \in (OrderCodes \X Callers) \ {c}
        BY <2>2, WebhookRuns
      <3> QED BY <1>2, <3>1 DEF SameDelivery
    <2>3. /\ \A p \in OrderCodes : SameSettling(p)
          /\ \A p \in OrderCodes : SameDocument(p)
      BY <1>1, CallsStay, OrdersUnchanged
    <2>4. OnlyOf(o)
      BY <1>0, <2>2, <2>3, KeptIsSame DEF Kept, OnlyOf
    <2>5. CASE order[o].status = "PAID" /\ run'[c].pc = "done"
      <3>1. OrderStage(o) = "paid"
        BY <1>0, <1>3, <2>1, <2>5, StagesOfDocuments
      <3>2. OrderStage(o)' = "served"
        BY <1>0, <1>1, <1>3, <2>1, <2>5, StagesAfter
      <3>3. Due(o)' = Due(o) /\ Got(o)' = Got(o)
        BY <1>1 DEF Due, Got
      <3> QED BY <1>1, <2>4, <3>1, <3>2, <3>3, Advances
    <2>6. CASE ~(order[o].status = "PAID" /\ run'[c].pc = "done")
      <3>1. Kept(o)
        BY <1>3, <2>3, <2>6 DEF Kept, SameDelivery
      <3>2. Same(o)
        BY <1>0, <3>1, KeptIsSame
      <3> QED BY <1>1, <2>4, <3>2, Stutters DEF OnlyOf
    <2> QED BY <2>5, <2>6
  <1> QED BY <1>4, <1>5

(* A device asks for an order: a run of its own starts.                     *)
LEMMA DeviceCallIsQuiet ==
  ASSUME LedgerInv, LedgerInv', NEW o \in DOMAIN order, DeviceCall(o)
  PROVE  BookNext
  <1> DEFINE c == <<o, "device">>
  <1>1. c \in OrderCodes \X Callers /\ c[2] # "webhook"
    BY OrdersAreListed DEF LedgerInv, Callers
  <1>2. /\ UNCHANGED <<order, request, transfer, hook, faults>>
        /\ \A b \in (OrderCodes \X Callers) \ {c} : run'[b] = run[b]
    BY DEF DeviceCall, LedgerInv, TypeOK
  <1> HIDE DEF c
  <1> QED BY <1>1, <1>2, DeviceIsQuiet

(* The package is not in the book.                                          *)
LEMMA PackageIsQuiet ==
  ASSUME LedgerInv, LedgerInv', UNCHANGED <<order, request, transfer, hook, run, faults>>
  PROVE  BookNext
  <1>1. \A o \in OrderCodes : SameDelivery(o)
    BY DEF SameDelivery
  <1> QED BY <1>1, OrdersUnchanged, CallsStay, QuietStep DEF LedgerInv

(* A fault forgets who settles and who delivers.                            *)
LEMMA FaultStrands ==
  ASSUME LedgerInv, LedgerInv', CallFails \/ ServerRestart
  PROVE  BookNext
  <1>0. TypeOK /\ TypeOK'
    BY DEF LedgerInv
  <1>1. /\ faults' = faults + 1 /\ UNCHANGED <<order, transfer>>
        /\ \A r \in Requests : request'[r] = request[r] \/ request'[r] = NoRequest
        /\ \A t \in Transfers : hook'[t] = hook[t] \/ hook'[t] = "none"
        /\ \A c \in OrderCodes \X Callers :
             \/ run'[c] = run[c]
             \/ run[c].pc \notin {"none", "done"} /\ run'[c] = NoRun
    BY FaultForgets
  <1>2. \A o \in OrderCodes : Due(o)' = Due(o) /\ Got(o)' = Got(o)
    BY <1>1 DEF Due, Got
  <1>3. ASSUME NEW o \in OrderCodes, Settling(o)' PROVE Settling(o)
    BY <1>1, <1>3 DEF Settling, NoRequest
  <1>4. ASSUME NEW o \in OrderCodes
        PROVE  \/ OrderStage(o)' = OrderStage(o)
               \/ OrderStage(o) = "covered" /\ OrderStage(o)' = "stuck"
               \/ OrderStage(o) = "paid" /\ OrderStage(o)' = "lost"
    <2>1. CASE o \notin DOMAIN order
      BY <1>0, <1>1, <2>1, StagesOfDocuments, StagesAfter
    <2>2. CASE o \in DOMAIN order /\ order[o].status = "CANCELLED"
      BY <1>0, <1>1, <2>2, StagesOfDocuments, StagesAfter
    <2>3. CASE o \in DOMAIN order /\ order[o].status = "PENDING"
      <3>1. OrderStage(o) = IF order[o].received < order[o].amount THEN "open"
                            ELSE IF Settling(o) THEN "covered" ELSE "stuck"
        BY <1>0, <2>3, StagesOfDocuments
      <3>2. OrderStage(o)' = IF order[o].received < order[o].amount THEN "open"
                             ELSE IF Settling(o)' THEN "covered" ELSE "stuck"
        BY <1>0, <1>1, <2>3, StagesAfter
      <3> QED BY <1>3, <3>1, <3>2
    <2>4. CASE o \in DOMAIN order /\ order[o].status = "PAID"
      <3> DEFINE c == <<o, "webhook">>
      <3>1. run'[c] = run[c] \/ (run[c].pc \notin {"none", "done"} /\ run'[c] = NoRun)
        BY <1>1, WebhookRuns
      <3>2. OrderStage(o) = IF run[c].pc = "none" THEN "lost"
                            ELSE IF run[c].pc = "done" THEN "served" ELSE "paid"
        BY <1>0, <2>4, StagesOfDocuments
      <3>3. OrderStage(o)' = IF run'[c].pc = "none" THEN "lost"
                             ELSE IF run'[c].pc = "done" THEN "served" ELSE "paid"
        BY <1>0, <1>1, <2>4, StagesAfter
      <3> QED BY <3>1, <3>2, <3>3, NothingIsTyped
    <2> QED BY <1>0, <2>1, <2>2, <2>3, <2>4, OrderFields DEF PaymentStatus
  <1> QED BY <1>1, <1>2, <1>4, Strands
-----------------------------------------------------------------------------
(* The invariant                                                            *)

(* No order ever forgets a receipt.                                         *)
ReceiptsStay ==
    /\ DOMAIN order \subseteq DOMAIN order'
    /\ \A o \in DOMAIN order, t \in Transfers :
         order[o].receipts[t] # 0 => order'[o].receipts[t] # 0

LEMMA SameReceipts ==
  ASSUME DOMAIN order \subseteq DOMAIN order',
         \A o \in DOMAIN order : order'[o].receipts = order[o].receipts
  PROVE  ReceiptsStay
  BY DEF ReceiptsStay

(* An intent forgets none.                                                  *)
LEMMA IntentKeepsReceipts ==
  ASSUME LedgerInv, NEW r \in Requests,
         \/ FindPending(r) \/ SavePending(r) \/ RenewSubscription(r)
         \/ CollectCredit(r) \/ CancelPending(r) \/ CreateOrder(r)
  PROVE  ReceiptsStay
  <1>0. TypeOK /\ \A o \in DOMAIN order : order[o] \in Order
    BY OrdersAreListed DEF LedgerInv
  <1>1. CASE FindPending(r) \/ RenewSubscription(r) \/ CollectCredit(r)
    <2>1. UNCHANGED order
      BY <1>1 DEF FindPending, RenewSubscription, CollectCredit
    <2>2. DOMAIN order \subseteq DOMAIN order'
      BY <2>1
    <2>3. \A o \in DOMAIN order : order'[o].receipts = order[o].receipts
      BY <2>1
    <2> QED BY ZenonT(60), <2>2, <2>3, SameReceipts
  <1>2. CASE SavePending(r)
    <2> DEFINE o == request[r].target
               f == request[r].flow
    <2>1. order' = order \/ order' = [order EXCEPT ![o].flow = f,
                                                   ![o].relabelled = @ \/ IsInUse(o)]
      BY <1>2 DEF SavePending
    <2> HIDE DEF f, o
    <2>2. /\ DOMAIN order' = DOMAIN order
          /\ \A p \in DOMAIN order :
               \/ order'[p] = order[p]
               \/ order'[p] = [order[p] EXCEPT !.flow = f, !.relabelled = @ \/ IsInUse(p)]
      BY <1>0, <2>1 DEF Order
    <2>3. \A p \in DOMAIN order : order'[p].receipts = order[p].receipts
      BY <1>0, <2>2 DEF Order
    <2> QED BY <2>2, <2>3, SameReceipts
  <1>3. CASE CancelPending(r)
    <2>1. /\ DOMAIN order' = DOMAIN order
          /\ \A p \in DOMAIN order :
               order'[p] = order[p] \/ order'[p] = [order[p] EXCEPT !.status = "CANCELLED"]
      BY <1>3 DEF CancelPending
    <2>2. \A p \in DOMAIN order : order'[p].receipts = order[p].receipts
      BY <1>0, <2>1 DEF Order
    <2> QED BY <2>1, <2>2, SameReceipts
  <1>4. CASE CreateOrder(r)
    <2>1. PICK d : order' = Append(order, d)
      BY <1>4 DEF CreateOrder
    <2>2. /\ DOMAIN order \subseteq DOMAIN order'
          /\ \A o \in DOMAIN order : order'[o] = order[o]
      BY <1>0, <2>1, OrdersAreListed
    <2>3. \A o \in DOMAIN order : order'[o].receipts = order[o].receipts
      BY <2>2
    <2> QED BY <2>2, <2>3, SameReceipts
  <1> QED BY <1>1, <1>2, <1>3, <1>4

(* Neither does what settles an order.                                      *)
LEMMA SettlingKeepsReceipts ==
  ASSUME LedgerInv, NEW o \in DOMAIN order, NEW received, Settled(o, received)
  PROVE  ReceiptsStay
  <1>1. /\ DOMAIN order' = DOMAIN order
        /\ \A p \in DOMAIN order \ {o} : order'[p] = order[p]
        /\ order'[o] = [order[o] EXCEPT !.status = "PAID", !.received = received]
    BY DEF Settled, LedgerInv, TypeOK
  <1>2. order'[o].receipts = order[o].receipts
    <2>1. order[o] \in Order
      BY OrdersAreListed DEF LedgerInv
    <2> QED BY <1>1, <2>1 DEF Order
  <1> QED BY <1>1, <1>2 DEF ReceiptsStay

(* Calls that settle no more than before settle orders that list them.      *)
LEMMA HookedKept ==
  ASSUME BookInv, ReceiptsStay,
         \A t \in Transfers : hook'[t] = "settle" =>
           hook[t] = "settle" /\ transfer'[t].order = transfer[t].order
  PROVE  Hooked'
  <1>1. \A t \in Transfers : hook[t] = "settle" => transfer[t].order \in DOMAIN order
    BY DEF BookInv, LedgerInv, Placed
  <1> QED BY <1>1 DEF BookInv, Hooked, ReceiptsStay

(* What a webhook settles it has recorded.                                  *)
LEMMA RecordIsHooked ==
  ASSUME BookInv, LedgerInv', NEW t \in Transfers, RecordTransfer(t)
  PROVE  Hooked'
  <1>0. LedgerInv /\ TypeOK /\ Hooked
    BY DEF BookInv, LedgerInv
  <1> PICK o : o = transfer[t].order
    OBVIOUS
  <1>1. /\ o \in DOMAIN order
        /\ \A p \in DOMAIN order \ {o} : order'[p] = order[p]
        /\ order'[o].receipts = [order[o].receipts EXCEPT ![t] = @ + 1]
    BY <1>0, WhatIsRecorded
  <1>2. order[o].receipts \in Receipts /\ order[o].receipts[t] \in Nat
    BY <1>0, <1>1, OrderFields
  <1>3. /\ order'[o].receipts[t] # 0
        /\ \A s \in Transfers \ {t} : order'[o].receipts[s] = order[o].receipts[s]
    BY <1>1, <1>2 DEF Receipts
  <1>4. transfer' = transfer /\ \A s \in Transfers \ {t} : hook'[s] = hook[s]
    BY <1>0 DEF RecordTransfer, TypeOK
  <1>5. ASSUME NEW s \in Transfers, hook'[s] = "settle"
        PROVE  order'[transfer'[s].order].receipts[s] # 0
    <2>1. CASE s = t
      BY <1>3, <1>4, <2>1
    <2>2. CASE s # t
      <3>1. hook[s] = "settle" /\ transfer[s].order \in DOMAIN order
        BY <1>0, <1>4, <1>5, <2>2 DEF LedgerInv, Placed
      <3>2. order[transfer[s].order].receipts[s] # 0
        BY <1>0, <3>1 DEF Hooked
      <3>3. CASE transfer[s].order = o
        BY <1>3, <1>4, <2>2, <3>2, <3>3
      <3>4. CASE transfer[s].order # o
        BY <1>1, <1>4, <3>1, <3>2, <3>4
      <3> QED BY <3>3, <3>4
    <2> QED BY <2>1, <2>2
  <1> QED BY <1>5 DEF Hooked

(* Orders, webhooks and their transfers unchanged.                          *)
LEMMA HookedStays ==
  ASSUME BookInv, UNCHANGED <<order, transfer, hook>> PROVE Hooked'
  BY DEF BookInv, Hooked

LEMMA HookedStep ==
  ASSUME BookInv, LedgerInv', [Next]_vars
  PROVE  Hooked'
  <1>0. LedgerInv /\ TypeOK
    BY DEF BookInv, LedgerInv
  <1>1. ASSUME NEW r \in Requests,
               CreatePaymentIntent(r) \/ CreateSubscriptionIntent(r) \/ RequestStep(r)
        PROVE  Hooked'
    <2>1. CASE CreatePaymentIntent(r) \/ CreateSubscriptionIntent(r)
      BY <2>1, HookedStays DEF CreatePaymentIntent, CreateSubscriptionIntent, StartIntent
    <2>2. CASE SettleCredit(r)
      <3> PICK o : o = request[r].target
        OBVIOUS
      <3>1. /\ request[r].pc = "settle" /\ UNCHANGED <<transfer, hook>>
            /\ Settled(o, order[o].received) \/ UNCHANGED order
        BY <2>2 DEF SettleCredit
      <3>2. o \in DOMAIN order
        BY <1>0, <3>1 DEF LedgerInv, Placed
      <3>3. CASE UNCHANGED order
        BY <3>1, <3>3, HookedStays
      <3>4. CASE Settled(o, order[o].received)
        BY <1>0, <3>1, <3>2, <3>4, SettlingKeepsReceipts, HookedKept
      <3> QED BY <3>1, <3>3, <3>4
    <2>3. CASE \/ FindPending(r) \/ SavePending(r) \/ RenewSubscription(r)
               \/ CollectCredit(r) \/ CancelPending(r) \/ CreateOrder(r)
      <3>1. ReceiptsStay
        BY <1>0, <2>3, IntentKeepsReceipts
      <3>2. UNCHANGED <<transfer, hook>>
        BY Zenon, <2>3 DEF FindPending, SavePending, RenewSubscription, CollectCredit,
                           CancelPending, CreateOrder
      <3> QED BY <3>1, <3>2, HookedKept
    <2> QED BY <1>1, <2>1, <2>2, <2>3 DEF RequestStep
  <1>2. ASSUME NEW t \in Transfers, MakeTransfer(t) PROVE Hooked'
    <2>1. /\ transfer[t] = NotMade /\ UNCHANGED <<order, hook>>
          /\ \A s \in Transfers \ {t} : transfer'[s] = transfer[s]
      BY <1>0, <1>2 DEF MakeTransfer, TypeOK
    <2>2. hook[t] # "settle"
      BY <1>0, <2>1 DEF LedgerInv, Placed
    <2> QED BY <2>1, <2>2 DEF BookInv, Hooked
  <1>3. ASSUME NEW t \in Transfers, RecordTransfer(t) PROVE Hooked'
    BY <1>3, RecordIsHooked
  <1>4. ASSUME NEW t \in Transfers, SettleOrder(t) PROVE Hooked'
    <2> PICK o, received : /\ o = transfer[t].order
                           /\ received = Max({order[o].received, order[o].amount})
      OBVIOUS
    <2>1. /\ hook[t] = "settle" /\ UNCHANGED transfer /\ hook' = [hook EXCEPT ![t] = "none"]
          /\ Settled(o, received) \/ UNCHANGED order
      BY <1>4 DEF SettleOrder
    <2>2. o \in DOMAIN order
      BY <1>0, <2>1 DEF LedgerInv, Placed
    <2>3. \A s \in Transfers : hook'[s] = "settle" => hook[s] = "settle"
      BY <1>0, <2>1 DEF TypeOK
    <2>4. CASE UNCHANGED order
      BY <2>1, <2>3, <2>4 DEF BookInv, Hooked
    <2>5. CASE Settled(o, received)
      BY <1>0, <2>1, <2>2, <2>3, <2>5, SettlingKeepsReceipts, HookedKept
    <2> QED BY <2>1, <2>4, <2>5
  <1>5. CASE \E o \in DOMAIN order : DeviceCall(o)
    BY <1>5, HookedStays DEF DeviceCall
  <1>6. CASE \E c \in OrderCodes \X Callers : RunStep(c)
    BY <1>0, <1>6, RunSteps, HookedStays
  <1>7. CASE PickupWithoutFee \/ ReturnToStorage \/ MarkOverdue
    BY <1>7, HookedStays DEF PickupWithoutFee, ReturnToStorage, MarkOverdue, PackageChanges
  <1>8. CASE CallFails \/ ServerRestart
    <2>1. UNCHANGED <<order, transfer>> /\ \A t \in Transfers : hook'[t] = "settle" => hook[t] = "settle"
      BY <1>0, <1>8, FaultForgets
    <2> QED BY <2>1 DEF BookInv, Hooked
  <1>9. CASE UNCHANGED vars
    BY <1>9, HookedStays DEF vars
  <1> QED BY <1>1, <1>2, <1>3, <1>4, <1>5, <1>6, <1>7, <1>8, <1>9 DEF Next
-----------------------------------------------------------------------------
(* Theorems                                                                 *)

(* Before the first intent the book is empty.                               *)
LEMMA InitRefines ==
  ASSUME Init, TypeOK PROVE Book!Init
  <1>1. DOMAIN order = {} /\ faults = 0
    BY DEF Init
  <1>2. ASSUME NEW o \in OrderCodes
        PROVE  OrderStage(o) = "new" /\ Due(o) = 0 /\ Got(o) = 0
    BY <1>1, StagesOfDocuments DEF Due, Got
  <1> QED BY <1>1, <1>2 DEF Book!Init

(* Every step is a step of OrderBook or changes nothing the book tells.     *)
LEMMA StepRefines ==
  ASSUME BookInv, LedgerInv', [Next]_vars
  PROVE  BookNext
  <1>0. LedgerInv
    BY DEF BookInv
  <1>1. ASSUME NEW r \in Requests,
               CreatePaymentIntent(r) \/ CreateSubscriptionIntent(r) \/ RequestStep(r)
        PROVE  BookNext
    BY Zenon, <1>0, <1>1, IntentIsQuiet, SaveIsQuiet, CancelVoids, CreateOpens, CreditPays
    DEF RequestStep
  <1>2. ASSUME NEW t \in Transfers, MakeTransfer(t) \/ RecordTransfer(t) \/ SettleOrder(t)
        PROVE  BookNext
    BY Zenon, <1>0, <1>2, MakeIsQuiet, RecordReceives, HookPays
  <1>3. CASE \E o \in DOMAIN order : DeviceCall(o)
    BY <1>0, <1>3, DeviceCallIsQuiet
  <1>4. CASE \E c \in OrderCodes \X Callers : RunStep(c)
    BY <1>0, <1>4, RunServes
  <1>5. CASE PickupWithoutFee \/ ReturnToStorage \/ MarkOverdue
    BY <1>0, <1>5, PackageIsQuiet
    DEF PickupWithoutFee, ReturnToStorage, MarkOverdue, PackageChanges
  <1>6. CASE CallFails \/ ServerRestart
    BY <1>0, <1>6, FaultStrands
  <1>7. CASE UNCHANGED vars
    BY <1>0, <1>7, PackageIsQuiet DEF vars
  <1> QED BY <1>1, <1>2, <1>3, <1>4, <1>5, <1>6, <1>7 DEF Next

(* What the book promises, kept by every step of the book.                  *)
BookPromises == Book!TypeOK /\ Book!PaidInFull /\ Book!NothingStranded

LEMMA PromisesKept ==
  ASSUME BookPromises, BookNext PROVE BookPromises'
  <1> USE DEF BookPromises, Book!TypeOK, Book!PaidInFull, Book!NothingStranded,
              Book!Stages, Book!Waiting, Book!Settled
  <1>1. ASSUME NEW o \in OrderCodes, Book!Open(o) \/ Book!Receive(o) PROVE BookPromises'
    <2>1. /\ \A p \in OrderCodes : Got(p)' \in Nat /\ Due(p)' \in Nat
          /\ \A p \in OrderCodes \ {o} : Got(p)' = Got(p) /\ Due(p)' = Due(p)
          /\ faults' = faults
      <3>1. CASE Book!Open(o)
        BY <3>1 DEF Book!Open, Book!SameMoney
      <3>2. CASE Book!Receive(o)
        <4>1. \A p \in OrderCodes : Due(p)' = Due(p)
          BY <3>2 DEF Book!Receive
        <4>2. /\ \A p \in OrderCodes : Got(p)' \in Nat
              /\ \A p \in OrderCodes \ {o} : Got(p)' = Got(p)
              /\ faults' = faults
          BY <3>2 DEF Book!Receive, Book!SameMoney
        <4> QED BY <4>1, <4>2
      <3> QED BY <1>1, <3>1, <3>2
    <2>2. /\ OrderStage(o)' = IF Got(o)' >= Due(o)' THEN "covered" ELSE "open"
          /\ \A p \in OrderCodes \ {o} : OrderStage(p)' = OrderStage(p)
      <3>1. Book!Arrived(o)
        BY <1>1 DEF Book!Open, Book!Receive
      <3> QED BY <3>1 DEF Book!Arrived
    <2> QED BY <2>1, <2>2
  <1>2. ASSUME NEW o \in OrderCodes, Book!Pay(o) \/ Book!Serve(o) PROVE BookPromises'
    BY <1>2 DEF Book!Pay, Book!Serve, Book!Advance
  <1>3. ASSUME NEW S \in SUBSET OrderCodes, Book!Void(S) PROVE BookPromises'
    BY <1>3 DEF Book!Void
  <1>4. ASSUME NEW S \in SUBSET OrderCodes, Book!Fail(S) PROVE BookPromises'
    BY <1>4 DEF Book!Fail
  <1>5. CASE UNCHANGED Book!vars
    BY <1>5 DEF Book!vars
  <1> QED BY <1>1, <1>2, <1>3, <1>4, <1>5 DEF BookNext, Book!Next

(* The ledger, and that a webhook settles only what it has recorded.        *)
THEOREM BookInvariant == Spec => []BookInv
  <1>1. Init => BookInv
    BY LedgerAtFirst DEF BookInv, Hooked, Init
  <1>2. BookInv /\ [Next]_vars => BookInv'
    BY LedgerStep, HookedStep DEF BookInv
  <1> QED BY <1>1, <1>2, PTL DEF Spec

(* Intents, webhooks, kiosk calls, completions and faults together keep     *)
(* the promise of OrderBook: money comes to orders that wait, an order with *)
(* its money is settled and a paid one served by a call in flight, and only *)
(* a call that throws or a restart strands either.                          *)
THEOREM OrdersImplemented == Spec => ImplementsOrderBook
  <1>1. Init => Book!Init
    BY LedgerAtFirst, InitRefines DEF LedgerInv
  <1>2. BookInv /\ BookInv' /\ [Next]_vars => [Book!Next]_(Book!vars)
    BY StepRefines DEF BookInv, BookNext
  <1> QED BY <1>1, <1>2, BookInvariant, PTL DEF Spec, ImplementsOrderBook, Book!Spec

(* What the book promises, the payments keep: until a call throws or the    *)
(* server restarts, every pending order that has its money has a call that  *)
(* settles it, and every paid order has its completion under way or done.   *)
OrdersInHand ==
    faults = 0 => \A o \in DOMAIN order :
      /\ order[o].status = "PENDING" /\ order[o].received >= order[o].amount => Settling(o)
      /\ order[o].status = "PAID" => run[<<o, "webhook">>].pc # "none"

THEOREM NoOrderForgotten == Spec => []OrdersInHand
  <1>1. Book!Init => BookPromises
    BY DEF Book!Init, BookPromises, Book!TypeOK, Book!PaidInFull, Book!NothingStranded, Book!Stages,
           Book!Settled
  <1>2. BookPromises /\ [Book!Next]_(Book!vars) => BookPromises'
    BY PromisesKept DEF BookNext
  <1>3. ASSUME TypeOK, BookPromises PROVE OrdersInHand
    <2> SUFFICES ASSUME faults = 0, NEW o \in DOMAIN order
                 PROVE  /\ order[o].status = "PENDING" /\ order[o].received >= order[o].amount
                             => Settling(o)
                        /\ order[o].status = "PAID" => run[<<o, "webhook">>].pc # "none"
      BY DEF OrdersInHand
    <2>1. o \in OrderCodes /\ order[o].received \in Nat /\ order[o].amount \in Nat
      BY <1>3, OrdersAreListed, OrderFields
    <2>2. OrderStage(o) \notin {"stuck", "lost"}
      BY <1>3, <2>1 DEF BookPromises, Book!NothingStranded
    <2> QED BY <1>3, <2>1, <2>2, StagesOfDocuments
  <1> QED BY <1>1, <1>2, <1>3, OrdersImplemented, TypeCorrect, PTL DEF ImplementsOrderBook, Book!Spec
=============================================================================
