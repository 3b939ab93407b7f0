--------------------------- MODULE PaymentsProofs ---------------------------
(***************************************************************************)
(* For any number of requests, transfers, orders and restarts: what an      *)
(* order has received is what its receipts add up to, and a paid order has  *)
(* been paid for; the fees of the package add up; an order ends once, and a *)
(* late payment never undoes a pickup.                                      *)
(*                                                                          *)
(* An intent reads the credit of the orders it replaces, cancels them and   *)
(* creates its own in three steps, between which transfers arrive: so the   *)
(* ledger says of the credit in an intent's hands what it says of orders.   *)
(* A webhook settles later than it recorded: so the invariant says that     *)
(* what it saw complete still is.                                           *)
(***************************************************************************)
EXTENDS Payments, FiniteSetTheorems, TLAPS

(* Sums over finite sets.  The induction on a set takes a smallest          *)
(* counterexample: a nonempty collection of subsets of a finite set has a   *)
(* minimal one.                                                             *)
LEMMA MinimalSubset ==
  ASSUME NEW S, IsFiniteSet(S), NEW T, T \subseteq SUBSET S, T # {}
  PROVE  \E x \in T : \A y \in T : y \subseteq x => y = x
  <1>1. IsWellFoundedOn(StrictSubsetOrdering(S), SUBSET S)
    BY FS_StrictSubsetOrderingWellFounded, FS_FiniteSubsetsOfFinite
  <1>2. PICK x \in T : \A y \in T : ~ (<<y, x>> \in StrictSubsetOrdering(S))
    BY <1>1, WFMin
  <1>3. ASSUME NEW y \in T, y \subseteq x, y # x PROVE FALSE
    <2>1. <<y, x>> \in (SUBSET S) \X (SUBSET S)
      OBVIOUS
    <2> QED BY <1>2, <1>3, <2>1 DEF StrictSubsetOrdering
  <1> QED BY <1>2, <1>3

(* The element the library's sum takes first, what it adds then, and the    *)
(* function that gives the sum of every subset of t.                        *)
Some(s) == CHOOSE x \in s : TRUE

Adding(f, g, s) == IF s = {} THEN 0 ELSE f[Some(s)] + g[s \ {Some(s)}]

Sums(g, f, t) == g = [s \in SUBSET t |-> Adding(f, g, s)]

(* There is at most one such function.                                      *)
LEMMA SumsUnique ==
  ASSUME NEW f, NEW t, IsFiniteSet(t), NEW g, NEW h, Sums(g, f, t), Sums(h, f, t)
  PROVE  g = h
  <1> DEFINE T == {s \in SUBSET t : g[s] # h[s]}
  <1>1. T = {}
    <2> SUFFICES ASSUME T # {}
                 PROVE  FALSE
      OBVIOUS
    <2>1. PICK s \in T : \A y \in T : y \subseteq s => y = s
      <3>1. T \subseteq SUBSET t
        OBVIOUS
      <3> HIDE DEF T
      <3> QED BY <3>1, MinimalSubset
    <2>2. g[s] = Adding(f, g, s) /\ h[s] = Adding(f, h, s)
      BY DEF Sums
    <2>3. s # {}
      BY <2>1, <2>2 DEF Adding
    <2>4. Some(s) \in s
      BY <2>3 DEF Some
    <2>5. g[s \ {Some(s)}] = h[s \ {Some(s)}]
      BY <2>1, <2>4
    <2> QED BY <2>1, <2>2, <2>5 DEF Adding
  <1> QED BY <1>1 DEF Sums

(* Its restriction to the subsets of u is that of u.                        *)
LEMMA SumsRestrict ==
  ASSUME NEW f, NEW t, NEW u, u \subseteq t, NEW g, Sums(g, f, t)
  PROVE  Sums([s \in SUBSET u |-> g[s]], f, u)
  <1> DEFINE h == [s \in SUBSET u |-> g[s]]
  <1>1. ASSUME NEW s \in SUBSET u
        PROVE  h[s] = Adding(f, h, s)
    <2>1. h[s] = Adding(f, g, s)
      BY DEF Sums
    <2>2. h[s \ {Some(s)}] = g[s \ {Some(s)}]
      OBVIOUS
    <2> QED BY <2>1, <2>2 DEF Adding
  <1>2. h = [s \in SUBSET u |-> h[s]]
    OBVIOUS
  <1> HIDE DEF h
  <1>3. Sums(h, f, u)
    BY <1>1, <1>2 DEF Sums
  <1> QED BY <1>3 DEF h

(* There is one.                                                            *)
LEMMA SumsExist ==
  ASSUME NEW f, NEW S, IsFiniteSet(S)
  PROVE  \E g : Sums(g, f, S)
  <1> DEFINE T == {t \in SUBSET S : ~ \E g : Sums(g, f, t)}
  <1>1. T = {}
    <2> SUFFICES ASSUME T # {}
                 PROVE  FALSE
      OBVIOUS
    <2>1. PICK t \in T : \A y \in T : y \subseteq t => y = t
      <3>1. T \subseteq SUBSET S
        OBVIOUS
      <3> HIDE DEF T
      <3> QED BY <3>1, MinimalSubset
    <2> DEFINE G(u) == CHOOSE g : Sums(g, f, u)
               low == [s \in SUBSET t |-> G(s)[s]]
               h == [s \in SUBSET t |-> IF s = t THEN Adding(f, low, t) ELSE G(s)[s]]
    <2>2. ASSUME NEW u \in SUBSET t, u # t
          PROVE  Sums(G(u), f, u) /\ IsFiniteSet(u)
      <3>1. \E g : Sums(g, f, u)
        BY <2>1, <2>2
      <3>2. IsFiniteSet(u)
        BY FS_Subset, t \in SUBSET S
      <3> QED BY <3>1, <3>2
    <2>3. ASSUME NEW u \in SUBSET t, u # t, u # {}
          PROVE  G(u)[u] = f[Some(u)] + G(u \ {Some(u)})[u \ {Some(u)}]
      <3> DEFINE v == u \ {Some(u)}
                 k == [s \in SUBSET v |-> G(u)[s]]
      <3>1. Some(u) \in u /\ v \in SUBSET t /\ v # t /\ v \subseteq u
        BY <2>3 DEF Some
      <3>2. Sums(G(u), f, u) /\ Sums(G(v), f, v) /\ IsFiniteSet(v)
        BY <2>2, <2>3, <3>1
      <3> HIDE DEF G
      <3>3. Sums(k, f, v)
        BY <3>1, <3>2, SumsRestrict
      <3>4. k = G(v)
        <4> HIDE DEF k, v
        <4> QED BY <3>2, <3>3, SumsUnique
      <3>5. G(u)[v] = G(v)[v]
        BY <3>4, v \in SUBSET v
      <3>6. G(u)[u] = Adding(f, G(u), u)
        BY <3>2 DEF Sums
      <3> QED BY <2>3, <3>5, <3>6 DEF Adding
    <2>4. ASSUME NEW s \in SUBSET t
          PROVE  h[s] = Adding(f, h, s)
      <3>1. CASE s = t
        <4>1. s # {} => s \ {Some(s)} # t
          BY <3>1 DEF Some
        <4>2. s # {} => h[s \ {Some(s)}] = low[s \ {Some(s)}]
          <5> HIDE DEF G
          <5> QED BY <4>1
        <4>3. h[s] = Adding(f, low, s)
          <5> HIDE DEF G
          <5> QED BY <3>1
        <4> HIDE DEF h, low
        <4> QED BY <4>2, <4>3 DEF Adding
      <3>2. CASE s # t /\ s = {}
        <4>1. Sums(G(s), f, s)
          BY <2>2, <3>2
        <4> HIDE DEF G
        <4>2. G(s)[s] = 0
          BY <3>2, <4>1 DEF Sums, Adding
        <4> QED BY <3>2, <4>2 DEF Adding
      <3>3. CASE s # t /\ s # {}
        <4>1. G(s)[s] = f[Some(s)] + G(s \ {Some(s)})[s \ {Some(s)}]
          BY <2>3, <3>3
        <4>2. s \ {Some(s)} \in SUBSET t /\ s \ {Some(s)} # t
          BY <3>3 DEF Some
        <4> HIDE DEF G
        <4>3. h[s] = G(s)[s] /\ h[s \ {Some(s)}] = G(s \ {Some(s)})[s \ {Some(s)}]
          BY <3>3, <4>2
        <4> QED BY <3>3, <4>1, <4>3 DEF Adding
      <3> QED BY <3>1, <3>2, <3>3
    <2>5. h = [s \in SUBSET t |-> h[s]]
      <3> HIDE DEF G, low
      <3> QED OBVIOUS
    <2> HIDE DEF h
    <2>6. Sums(h, f, t)
      BY <2>4, <2>5 DEF Sums
    <2> QED BY <2>6
  <1>2. S \in SUBSET S
    OBVIOUS
  <1> QED BY <1>1, <1>2

(* So a sum is that of its parts, in the library's order.                   *)
LEMMA SumUnfolds ==
  ASSUME NEW f, NEW S, IsFiniteSet(S)
  PROVE  /\ S = {} => SumFunctionOnSet(f, S) = 0
         /\ S # {} => SumFunctionOnSet(f, S) = f[Some(S)] + SumFunctionOnSet(f, S \ {Some(S)})
  <1> DEFINE G(u) == CHOOSE g : Sums(g, f, u)
             v == S \ {Some(S)}
             k == [s \in SUBSET v |-> G(S)[s]]
  <1>1. \A u : SumFunctionOnSet(f, u) = G(u)[u]
    BY DEF SumFunctionOnSet, FoldFunctionOnSet, MapThenFoldSet, Sums, Adding, Some
  <1>2. v \subseteq S /\ IsFiniteSet(v)
    BY FS_Subset
  <1>3. Sums(G(S), f, S) /\ Sums(G(v), f, v)
    BY <1>2, SumsExist
  <1> HIDE DEF G
  <1>4. Sums(k, f, v)
    BY <1>2, <1>3, SumsRestrict
  <1>5. k = G(v)
    <2> HIDE DEF k, v
    <2> QED BY <1>2, <1>3, <1>4, SumsUnique
  <1>6. G(S)[v] = G(v)[v]
    BY <1>5, v \in SUBSET v
  <1>7. G(S)[S] = Adding(f, G(S), S)
    BY <1>3 DEF Sums
  <1> QED BY <1>1, <1>6, <1>7 DEF Adding

(* Sums of numbers are numbers.                                             *)
LEMMA SumType ==
  ASSUME NEW f, NEW S, IsFiniteSet(S)
  PROVE  /\ (\A x \in S : f[x] \in Int) => SumFunctionOnSet(f, S) \in Int
         /\ (\A x \in S : f[x] \in Nat) => SumFunctionOnSet(f, S) \in Nat
  <1>1. ASSUME NEW N, N = Int \/ N = Nat, \A x \in S : f[x] \in N
        PROVE  SumFunctionOnSet(f, S) \in N
    <2> DEFINE T == {t \in SUBSET S : SumFunctionOnSet(f, t) \notin N}
    <2>1. T = {}
      <3> SUFFICES ASSUME T # {}
                   PROVE  FALSE
        OBVIOUS
      <3>1. PICK t \in T : \A y \in T : y \subseteq t => y = t
        <4>1. T \subseteq SUBSET S
          OBVIOUS
        <4> HIDE DEF T
        <4> QED BY <4>1, MinimalSubset
      <3>2. IsFiniteSet(t)
        BY FS_Subset
      <3>3. CASE t = {}
        <4>1. SumFunctionOnSet(f, t) = 0
          BY <3>2, <3>3, SumUnfolds
        <4> QED BY <1>1, <4>1
      <3>4. CASE t # {}
        <4>1. Some(t) \in t
          BY <3>4 DEF Some
        <4>2. SumFunctionOnSet(f, t \ {Some(t)}) \in N
          BY <3>1, <4>1
        <4>3. SumFunctionOnSet(f, t) = f[Some(t)] + SumFunctionOnSet(f, t \ {Some(t)})
          BY <3>2, <3>4, SumUnfolds
        <4>4. f[Some(t)] \in N
          BY <1>1, <4>1
        <4>5. SumFunctionOnSet(f, t) \in N
          BY <1>1, <4>2, <4>3, <4>4
        <4> QED BY <4>5
      <3> QED BY <3>3, <3>4
    <2> QED BY <2>1
  <1> QED BY <1>1

(* The sums of functions that agree are equal.                              *)
LEMMA SumAgrees ==
  ASSUME NEW f, NEW g, NEW S, IsFiniteSet(S), \A x \in S : f[x] = g[x]
  PROVE  SumFunctionOnSet(f, S) = SumFunctionOnSet(g, S)
  <1> DEFINE T == {t \in SUBSET S : SumFunctionOnSet(f, t) # SumFunctionOnSet(g, t)}
  <1>1. T = {}
    <2> SUFFICES ASSUME T # {}
                 PROVE  FALSE
      OBVIOUS
    <2>1. PICK t \in T : \A y \in T : y \subseteq t => y = t
      <3>1. T \subseteq SUBSET S
        OBVIOUS
      <3> HIDE DEF T
      <3> QED BY <3>1, MinimalSubset
    <2>2. IsFiniteSet(t)
      BY FS_Subset
    <2>3. CASE t = {}
      BY <2>2, <2>3, SumUnfolds
    <2>4. CASE t # {}
      <3>1. Some(t) \in t
        BY <2>4 DEF Some
      <3>2. SumFunctionOnSet(f, t \ {Some(t)}) = SumFunctionOnSet(g, t \ {Some(t)})
        BY <2>1, <3>1
      <3>3. /\ SumFunctionOnSet(f, t) = f[Some(t)] + SumFunctionOnSet(f, t \ {Some(t)})
            /\ SumFunctionOnSet(g, t) = g[Some(t)] + SumFunctionOnSet(g, t \ {Some(t)})
        BY <2>2, <2>4, SumUnfolds
      <3>4. f[Some(t)] = g[Some(t)]
        BY <3>1
      <3> QED BY <3>2, <3>3, <3>4
    <2> QED BY <2>3, <2>4
  <1> QED BY <1>1

(* Any element may be taken out of a sum.                                   *)
LEMMA SumWithout ==
  ASSUME NEW f, NEW S, IsFiniteSet(S), \A x \in S : f[x] \in Int, NEW e \in S
  PROVE  SumFunctionOnSet(f, S) = f[e] + SumFunctionOnSet(f, S \ {e})
  <1> DEFINE Sum(t) == SumFunctionOnSet(f, t)
             T == {t \in SUBSET S : \E x \in t : Sum(t) # f[x] + Sum(t \ {x})}
  <1>1. \A t \in SUBSET S : IsFiniteSet(t) /\ Sum(t) \in Int
    BY FS_Subset, SumType
  <1>2. \A t \in SUBSET S : t # {} => Some(t) \in t /\ Sum(t) = f[Some(t)] + Sum(t \ {Some(t)})
    BY <1>1, SumUnfolds DEF Some
  <1> HIDE DEF Sum
  <1>3. T = {}
    <2> SUFFICES ASSUME T # {}
                 PROVE  FALSE
      OBVIOUS
    <2>1. PICK t \in T : \A y \in T : y \subseteq t => y = t
      <3>1. T \subseteq SUBSET S
        OBVIOUS
      <3> HIDE DEF T
      <3> QED BY <3>1, MinimalSubset
    <2>2. PICK x \in t : Sum(t) # f[x] + Sum(t \ {x})
      BY <2>1
    <2> DEFINE c == Some(t)
               u == (t \ {x}) \ {c}
    <2>3. c \in t /\ Sum(t) = f[c] + Sum(t \ {c})
      BY <1>2, <2>2
    <2>4. c # x
      BY <2>2, <2>3
    <2>5. t \ {x} # t /\ t \ {c} # t /\ t \ {x} \in SUBSET S /\ t \ {c} \in SUBSET S
      BY <2>2, <2>3
    <2>6. Sum(t \ {x}) = f[c] + Sum(u)
      <3>1. t \ {x} \notin T
        BY <2>1, <2>5
      <3> QED BY <2>3, <2>4, <2>5, <3>1
    <2>7. Sum(t \ {c}) = f[x] + Sum(u)
      <3>1. t \ {c} \notin T
        BY <2>1, <2>5
      <3>2. (t \ {c}) \ {x} = u
        OBVIOUS
      <3>3. Sum(t \ {c}) = f[x] + Sum((t \ {c}) \ {x})
        BY <2>2, <2>4, <2>5, <3>1
      <3> QED BY <3>2, <3>3
    <2>8. f[c] \in Int /\ f[x] \in Int /\ Sum(u) \in Int
      BY <1>1, <2>2, <2>3
    <2> HIDE DEF c, u
    <2> QED BY <2>2, <2>3, <2>6, <2>7, <2>8
  <1>4. S \in SUBSET S /\ S \notin T
    BY <1>3
  <1>5. Sum(S) = f[e] + Sum(S \ {e})
    BY <1>4
  <1> QED BY <1>5 DEF Sum

(* The sum of pointwise sums.                                               *)
LEMMA SumOfSums ==
  ASSUME NEW f, NEW g, NEW h, NEW S, IsFiniteSet(S),
         \A x \in S : f[x] \in Int /\ g[x] \in Int /\ h[x] = f[x] + g[x]
  PROVE  SumFunctionOnSet(h, S) = SumFunctionOnSet(f, S) + SumFunctionOnSet(g, S)
  <1> DEFINE F(t) == SumFunctionOnSet(f, t)
             H(t) == SumFunctionOnSet(h, t)
             J(t) == SumFunctionOnSet(g, t)
             T == {t \in SUBSET S : H(t) # F(t) + J(t)}
  <1>1. \A t \in SUBSET S : IsFiniteSet(t) /\ F(t) \in Int /\ J(t) \in Int
    BY FS_Subset, SumType
  <1>2. \A t \in SUBSET S : t # {} =>
           /\ Some(t) \in t
           /\ F(t) = f[Some(t)] + F(t \ {Some(t)})
           /\ J(t) = g[Some(t)] + J(t \ {Some(t)})
           /\ H(t) = h[Some(t)] + H(t \ {Some(t)})
    BY <1>1, SumUnfolds DEF Some
  <1>3. F({}) = 0 /\ J({}) = 0 /\ H({}) = 0
    BY FS_EmptySet, SumUnfolds
  <1> HIDE DEF F, J, H
  <1>4. T = {}
    <2> SUFFICES ASSUME T # {}
                 PROVE  FALSE
      OBVIOUS
    <2>1. PICK t \in T : \A y \in T : y \subseteq t => y = t
      <3>1. T \subseteq SUBSET S
        OBVIOUS
      <3> HIDE DEF T
      <3> QED BY <3>1, MinimalSubset
    <2>2. t # {}
      <3>1. {} \notin T
        BY <1>3
      <3> QED BY <2>1, <3>1
    <2> DEFINE c == Some(t)
               u == t \ {c}
    <2>3. c \in t /\ u \in SUBSET S /\ u # t /\ u \subseteq t
      BY <1>2, <2>2
    <2>4. H(u) = F(u) + J(u)
      BY <2>1, <2>3
    <2>5. F(t) = f[c] + F(u) /\ J(t) = g[c] + J(u) /\ H(t) = h[c] + H(u)
      BY <1>2, <2>2
    <2>6. f[c] \in Int /\ g[c] \in Int /\ h[c] = f[c] + g[c] /\ F(u) \in Int /\ J(u) \in Int
      BY <1>1, <2>3
    <2>7. H(t) # F(t) + J(t)
      BY <2>1
    <2> HIDE DEF c, u
    <2> QED BY <2>4, <2>5, <2>6, <2>7
  <1>5. H(S) = F(S) + J(S)
    BY <1>4
  <1> QED BY <1>5 DEF F, J, H
-----------------------------------------------------------------------------
(* The invariant                                                            *)

(* Every intent that may still create an order has a place for it.          *)
Undone == {r \in Requests : request[r].pc \in {"find", "collect", "cancel", "create"}}

Quota == Len(order) + Cardinality(Undone) <= MaxOrders

(* What is in flight is about orders that exist.                            *)
Placed ==
    /\ \A r \in Requests :
         /\ request[r].pc \in {"save", "settle"} => request[r].target \in DOMAIN order
         /\ request[r].pc \notin {"idle", "settle"} => request[r].kind \in Kinds
    /\ \A t \in Transfers :
         /\ transfer[t] # NotMade => transfer[t].order \in DOMAIN order
         /\ hook[t] = "settle" => transfer[t] # NotMade
    /\ \A c \in OrderCodes \X Callers : run[c].pc # "none" => c[1] \in DOMAIN order

(* What receipts add up to.                                                 *)
Worth(receipts) == SumFunction([t \in Transfers |-> receipts[t] * transfer[t].amount])

(* The ledger of the orders, and of the credit in an intent's hands.        *)
Credited ==
    /\ \A o \in DOMAIN order :
         /\ order[o].received = Worth(order[o].receipts)
         /\ order[o].status = "PAID" => order[o].received >= order[o].amount
    /\ \A r \in Requests :
         request[r].pc \in {"find", "cancel", "create"} =>
           request[r].credit = Worth(request[r].receipts)

(* No receipt comes before its transfer.                                    *)
Receipted ==
    \A t \in Transfers : transfer[t] = NotMade =>
      /\ \A o \in DOMAIN order : order[o].receipts[t] = 0
      /\ \A r \in Requests : request[r].receipts[t] = 0

(* The order a webhook is about to settle has its money.                    *)
Covered ==
    \A t \in Transfers :
      /\ transfer[t].gateway => transfer[t].amount = order[transfer[t].order].amount
      /\ hook[t] = "settle" =>
           order[transfer[t].order].received >= order[transfer[t].order].amount

LedgerInv == TypeOK /\ Quota /\ Placed /\ Credited /\ Receipted /\ Covered

(* What completes an order fits it, and starts when it is paid; the flow it *)
(* read is still the order's, unless an intent relabelled it.               *)
RunFits(c, w, d) ==
    /\ w.pc \in {"remote", "update", "fallback"} =>
         c[2] = "webhook" /\ w.flow = "remote" /\ d.kind = "package"
    /\ w.pc \in {"kiosk", "claim"} => w.flow = "kiosk"
    /\ w.pc \in {"subscriber", "saveSubscriber"} => d.kind # "package"
    /\ w.pc = "claim" \/ (c[2] = "webhook" /\ w.pc # "none") => d.status = "PAID"
    /\ w.pc \in {"kiosk", "claim"} \/ (c[2] = "webhook" /\ w.pc # "none") =>
         d.relabelled \/ w.flow = d.flow

Completing == \A c \in OrderCodes \X Callers : RunFits(c, run[c], order[c[1]])

(* Until the package is picked up no kiosk order counts.                    *)
FeesKept == FeesAddUp /\ (pkg.status # "PICKED_UP" => pkg.totalFeePaid = RemoteFees)

FeesInv == LedgerInv /\ Completing /\ FeesKept
-----------------------------------------------------------------------------
(* What the state is made of                                                *)

(* The bounds are numbers, and transfers and requests finitely many.        *)
LEMMA PaymentConstants ==
  /\ MaxOrders \in Nat /\ Fees \subseteq Nat \ {0} /\ Amounts \subseteq Nat \ {0}
  /\ IsFiniteSet(Transfers) /\ IsFiniteSet(Requests)
  /\ Kinds \subseteq {"package", "planOnPackage", "subscription"}
  BY AmountsAssumption, FiniteAssumption, KindsAssumption

(* The orders are numbered.                                                 *)
LEMMA OrdersAreListed ==
  ASSUME TypeOK
  PROVE  /\ Len(order) \in Nat /\ DOMAIN order = 1..Len(order) /\ Len(order) <= MaxOrders
         /\ DOMAIN order \subseteq OrderCodes /\ IsFiniteSet(DOMAIN order)
         /\ \A o \in DOMAIN order : order[o] \in Order
  <1>1. /\ order \in Seq(Order) /\ Len(order) \in Nat /\ DOMAIN order = 1..Len(order)
        /\ Len(order) <= MaxOrders /\ \A o \in DOMAIN order : order[o] \in Order
    BY DEF TypeOK
  <1>2. DOMAIN order \subseteq OrderCodes
    BY <1>1, PaymentConstants DEF OrderCodes
  <1>3. IsFiniteSet(DOMAIN order)
    BY <1>1, FS_Interval
  <1> QED BY <1>1, <1>2, <1>3

(* The fields of an order.                                                  *)
LEMMA OrderFields ==
  ASSUME TypeOK, NEW o \in DOMAIN order
  PROVE  /\ order[o].kind \in Kinds /\ order[o].status \in PaymentStatus
         /\ order[o].amount \in Nat /\ order[o].flow \in Flows
         /\ order[o].relabelled \in BOOLEAN /\ order[o].received \in Nat /\ order[o].receipts \in Receipts
         /\ \A t \in Transfers : order[o].receipts[t] \in Nat
  <1>1. order[o] \in Order
    BY OrdersAreListed
  <1> QED BY <1>1 DEF Order, Receipts

(* The fields of a request.                                                 *)
LEMMA RequestFields ==
  ASSUME TypeOK, NEW r \in Requests
  PROVE  /\ request[r] \in Request /\ request[r].kind \in Kinds \cup {"none"}
         /\ request[r].fee \in Nat /\ request[r].flow \in FlowOptions
         /\ request[r].target \in OrderCodes \cup {0} /\ request[r].credit \in Nat
         /\ request[r].receipts \in Receipts
         /\ \A t \in Transfers : request[r].receipts[t] \in Nat
  <1>1. request[r] \in Request
    BY DEF TypeOK
  <1> QED BY <1>1 DEF Request, Receipts

(* The fields of a transfer, made or not.                                   *)
LEMMA TransferFields ==
  ASSUME TypeOK, NEW t \in Transfers
  PROVE  transfer[t].amount \in Nat /\ transfer[t].gateway \in BOOLEAN
  <1>1. transfer[t] \in Transfer \cup {NotMade}
    BY DEF TypeOK
  <1>2. CASE transfer[t] \in Transfer
    BY <1>2 DEF Transfer
  <1>3. CASE transfer[t] = NotMade
    BY <1>3 DEF NotMade
  <1> QED BY <1>1, <1>2, <1>3

(* The fields of a completion.                                              *)
LEMMA RunFields ==
  ASSUME TypeOK, NEW c \in OrderCodes \X Callers
  PROVE  /\ run[c] \in Run /\ run[c].flow \in FlowOptions /\ run[c].status \in PackageStatus
         /\ run[c].extended \in Nat
  <1>1. run[c] \in Run
    BY DEF TypeOK
  <1> QED BY <1>1 DEF Run

(* One order is replaced.                                                   *)
LEMMA OneOrder ==
  ASSUME TypeOK, NEW o \in DOMAIN order, NEW d \in Order, order' = [order EXCEPT ![o] = d]
  PROVE  /\ order' \in Seq(Order) /\ Len(order') = Len(order) /\ DOMAIN order' = DOMAIN order
         /\ order'[o] = d /\ \A p \in DOMAIN order \ {o} : order'[p] = order[p]
  BY DEF TypeOK

(* One request is replaced.                                                 *)
LEMMA OneRequest ==
  ASSUME TypeOK, NEW r \in Requests, NEW q \in Request, request' = [request EXCEPT ![r] = q]
  PROVE  /\ request' \in [Requests -> Request] /\ request'[r] = q
         /\ \A s \in Requests \ {r} : request'[s] = request[s]
  BY DEF TypeOK

(* One completion is replaced.                                              *)
LEMMA OneRun ==
  ASSUME TypeOK, NEW c \in OrderCodes \X Callers, NEW w \in Run, run' = [run EXCEPT ![c] = w]
  PROVE  /\ run' \in [OrderCodes \X Callers -> Run] /\ run'[c] = w
         /\ \A d \in (OrderCodes \X Callers) \ {c} : run'[d] = run[d]
  BY DEF TypeOK

(* Nothing in flight has the type of what is.                               *)
LEMMA NothingIsTyped ==
  NoRequest \in Request /\ NoRun \in Run /\ NoRequest.pc = "idle" /\ NoRun.pc = "none"
  <1>1. 0 \in Nat /\ NoReceipts \in Receipts
    BY DEF NoReceipts, Receipts
  <1>2. NoRequest \in Request /\ NoRequest.pc = "idle"
    BY <1>1 DEF NoRequest, Request, FlowOptions
  <1>3. NoRun \in Run /\ NoRun.pc = "none"
    BY <1>1 DEF NoRun, Run, FlowOptions, PackageStatus
  <1> QED BY <1>2, <1>3
-----------------------------------------------------------------------------
(* What receipts are worth                                                  *)

(* A sum with one element taken out.                                        *)
LEMMA SumSplits ==
  ASSUME NEW S, IsFiniteSet(S), NEW f, f = [x \in S |-> f[x]], \A x \in S : f[x] \in Int,
         NEW e \in S, NEW g, g = [x \in S \ {e} |-> f[x]]
  PROVE  SumFunction(f) = f[e] + SumFunction(g)
  <1>1. SumFunctionOnSet(f, S) = f[e] + SumFunctionOnSet(f, S \ {e})
    BY SumWithout
  <1>2. SumFunctionOnSet(f, S \ {e}) = SumFunctionOnSet(g, S \ {e})
    <2>1. IsFiniteSet(S \ {e}) /\ \A x \in S \ {e} : f[x] = g[x]
      BY FS_Subset
    <2> QED BY <2>1, SumAgrees
  <1>3. DOMAIN f = S /\ DOMAIN g = S \ {e}
    OBVIOUS
  <1> QED BY <1>1, <1>2, <1>3 DEF SumFunction

(* What is twice itself is nothing.                                        *)
LEMMA TwiceItself == \A n \in Int : n = n + n => n = 0
  OBVIOUS

(* A sum of nothing, or of zeros, is zero.                                  *)
LEMMA SumOfZeros ==
  ASSUME NEW S, IsFiniteSet(S), NEW f, f = [x \in S |-> f[x]], \A x \in S : f[x] = 0
  PROVE  SumFunction(f) = 0
  <1>1. SumFunctionOnSet(f, S) = SumFunctionOnSet(f, S) + SumFunctionOnSet(f, S)
    <2>1. \A x \in S : f[x] \in Int /\ f[x] = f[x] + f[x]
      OBVIOUS
    <2> QED BY <2>1, SumOfSums
  <1>2. SumFunctionOnSet(f, S) \in Int
    BY SumType
  <1>3. SumFunctionOnSet(f, S) = 0
    BY Zenon, <1>1, <1>2, TwiceItself
  <1>4. DOMAIN f = S
    OBVIOUS
  <1> QED BY <1>3, <1>4 DEF SumFunction

(* Sums of numbers are numbers.                                             *)
LEMMA TotalType ==
  ASSUME NEW S, IsFiniteSet(S), NEW f, f = [x \in S |-> f[x]], \A x \in S : f[x] \in Nat
  PROVE  SumFunction(f) \in Nat
  <1>1. DOMAIN f = S
    OBVIOUS
  <1> QED BY <1>1, SumType DEF SumFunction

(* A number of receipts times an amount is a number.                        *)
LEMMA Products ==
  ASSUME TypeOK, NEW receipts \in Receipts, NEW t \in Transfers
  PROVE  receipts[t] * transfer[t].amount \in Nat
  <1>1. receipts[t] \in Nat /\ transfer[t].amount \in Nat
    BY TransferFields DEF Receipts
  <1>2. \A a, b \in Nat : a * b \in Nat
    OBVIOUS
  <1> QED BY <1>1, <1>2

(* What receipts are worth is a number.                                     *)
LEMMA WorthType ==
  ASSUME TypeOK, NEW receipts \in Receipts
  PROVE  Worth(receipts) \in Nat
  <1> DEFINE f == [t \in Transfers |-> receipts[t] * transfer[t].amount]
  <1>1. \A t \in Transfers : f[t] \in Nat
    BY Products
  <1>2. f = [t \in Transfers |-> f[t]]
    OBVIOUS
  <1>3. Worth(receipts) = SumFunction(f)
    BY DEF Worth
  <1> HIDE DEF f
  <1> QED BY <1>1, <1>2, <1>3, TotalType, PaymentConstants

(* No receipts are worth nothing.                                           *)
LEMMA WorthOfNone ==
  ASSUME TypeOK
  PROVE  Worth(NoReceipts) = 0
  <1> DEFINE f == [t \in Transfers |-> NoReceipts[t] * transfer[t].amount]
  <1>1. \A t \in Transfers : f[t] = 0
    BY TransferFields DEF NoReceipts
  <1>2. f = [t \in Transfers |-> f[t]]
    OBVIOUS
  <1>3. Worth(NoReceipts) = SumFunction(f)
    BY DEF Worth
  <1> HIDE DEF f
  <1> QED BY <1>1, <1>2, <1>3, SumOfZeros, PaymentConstants

(* One receipt more is worth its transfer.                                  *)
LEMMA WorthOfOneMore ==
  ASSUME TypeOK, NEW receipts \in Receipts, NEW t \in Transfers
  PROVE  /\ [receipts EXCEPT ![t] = @ + 1] \in Receipts
         /\ Worth([receipts EXCEPT ![t] = @ + 1]) = Worth(receipts) + transfer[t].amount
  <1> DEFINE more == [receipts EXCEPT ![t] = @ + 1]
             f == [u \in Transfers |-> receipts[u] * transfer[u].amount]
             h == [u \in Transfers |-> more[u] * transfer[u].amount]
             g == [u \in Transfers \ {t} |-> f[u]]
             a == transfer[t].amount
  <1>1. receipts[t] \in Nat /\ a \in Nat /\ more[t] = receipts[t] + 1
    BY TransferFields DEF Receipts
  <1>2. more \in Receipts
    <2>1. receipts \in [Transfers -> Nat] /\ receipts[t] + 1 \in Nat
      BY <1>1 DEF Receipts
    <2> QED BY <2>1 DEF Receipts
  <1>3. \A u \in Transfers \ {t} : more[u] = receipts[u]
    BY DEF Receipts
  <1>4. Worth(receipts) = SumFunction(f) /\ Worth(more) = SumFunction(h)
    BY DEF Worth
  <1>5. \A u \in Transfers : f[u] \in Int /\ h[u] \in Int
    <2> HIDE DEF more
    <2> QED BY <1>2, Products
  <1>6. h[t] = f[t] + a
    <2>1. \A m, n \in Nat : (m + 1) * n = m * n + n
      OBVIOUS
    <2>2. h[t] = (receipts[t] + 1) * a /\ f[t] = receipts[t] * a
      <3> HIDE DEF more
      <3> QED BY <1>1
    <2> HIDE DEF a, h, f, more
    <2> QED BY <1>1, <2>1, <2>2
  <1>7. g = [u \in Transfers \ {t} |-> h[u]]
    <2> HIDE DEF more
    <2> QED BY <1>3
  <1>8. f = [u \in Transfers |-> f[u]] /\ h = [u \in Transfers |-> h[u]]
    OBVIOUS
  <1>9. g = [u \in Transfers \ {t} |-> f[u]]
    OBVIOUS
  <1> HIDE DEF f, g, h, more
  <1>10. SumFunction(f) = f[t] + SumFunction(g)
    BY <1>5, <1>8, <1>9, SumSplits, PaymentConstants
  <1>11. SumFunction(h) = h[t] + SumFunction(g)
    BY <1>5, <1>7, <1>8, SumSplits, PaymentConstants
  <1>12. Worth(more) = Worth(receipts) + a
    <2>1. Worth(receipts) \in Nat /\ Worth(more) \in Nat /\ f[t] \in Int
      BY <1>2, <1>5, WorthType
    <2>2. SumFunction(g) \in Int
      <3>1. \A u \in Transfers \ {t} : g[u] \in Nat
        <4>1. \A u \in Transfers : f[u] \in Nat
          BY Products DEF f
        <4> QED BY <1>9, <4>1
      <3>2. IsFiniteSet(Transfers \ {t}) /\ g = [u \in Transfers \ {t} |-> g[u]]
        BY <1>9, FS_Subset, PaymentConstants
      <3> QED BY <3>1, <3>2, TotalType
    <2> HIDE DEF a
    <2> QED BY <1>1, <1>4, <1>6, <1>10, <1>11, <2>1, <2>2
  <1> QED BY <1>2, <1>12 DEF more

(* Credits and receipts of some orders, as SumCredit adds them.             *)
CreditOf(orders) == SumCredit(orders).received
ReceiptsOf(orders) == SumCredit(orders).receipts

(* They are typed, and one order's part can be taken out of them.           *)
LEMMA CreditSplits ==
  ASSUME TypeOK, NEW orders \in SUBSET DOMAIN order
  PROVE  /\ CreditOf(orders) \in Nat /\ ReceiptsOf(orders) \in Receipts
         /\ orders = {} => CreditOf(orders) = 0 /\ \A t \in Transfers : ReceiptsOf(orders)[t] = 0
         /\ \A e \in orders :
              /\ CreditOf(orders) = order[e].received + CreditOf(orders \ {e})
              /\ \A t \in Transfers :
                   ReceiptsOf(orders)[t] = order[e].receipts[t] + ReceiptsOf(orders \ {e})[t]
  <1> DEFINE f == [o \in orders |-> order[o].received]
             g(t) == [o \in orders |-> order[o].receipts[t]]
             fe(e) == [o \in orders \ {e} |-> order[o].received]
             ge(t, e) == [o \in orders \ {e} |-> order[o].receipts[t]]
  <1>1. IsFiniteSet(orders)
    BY OrdersAreListed, FS_Subset
  <1>2. /\ CreditOf(orders) = SumFunction(f)
        /\ ReceiptsOf(orders) = [t \in Transfers |-> SumFunction(g(t))]
        /\ \A e : /\ CreditOf(orders \ {e}) = SumFunction(fe(e))
                  /\ \A t \in Transfers : ReceiptsOf(orders \ {e})[t] = SumFunction(ge(t, e))
    BY DEF CreditOf, ReceiptsOf, SumCredit
  <1>3. /\ \A o \in orders : f[o] \in Nat /\ f[o] = order[o].received
        /\ \A t \in Transfers, o \in orders : g(t)[o] \in Nat /\ g(t)[o] = order[o].receipts[t]
    BY OrderFields
  <1>4. f = [o \in orders |-> f[o]] /\ \A t \in Transfers : g(t) = [o \in orders |-> g(t)[o]]
    OBVIOUS
  <1>5. \A e \in orders : /\ fe(e) = [o \in orders \ {e} |-> f[o]]
                          /\ \A t \in Transfers : ge(t, e) = [o \in orders \ {e} |-> g(t)[o]]
    OBVIOUS
  <1> HIDE DEF f, g, fe, ge
  <1>6. SumFunction(f) \in Nat /\ \A t \in Transfers : SumFunction(g(t)) \in Nat
    BY <1>1, <1>3, <1>4, TotalType
  <1>7. ASSUME NEW e \in orders
        PROVE  /\ SumFunction(f) = f[e] + SumFunction(fe(e))
               /\ \A t \in Transfers : SumFunction(g(t)) = g(t)[e] + SumFunction(ge(t, e))
    <2>1. \A o \in orders : f[o] \in Int /\ \A t \in Transfers : g(t)[o] \in Int
      BY <1>3
    <2>2. SumFunction(f) = f[e] + SumFunction(fe(e))
      <3>1. f = [o \in orders |-> f[o]] /\ fe(e) = [o \in orders \ {e} |-> f[o]]
        BY <1>4, <1>5
      <3>2. \A o \in orders : f[o] \in Int
        BY <2>1
      <3> QED BY <1>1, <3>1, <3>2, SumSplits
    <2>3. ASSUME NEW t \in Transfers
          PROVE  SumFunction(g(t)) = g(t)[e] + SumFunction(ge(t, e))
      <3>1. /\ g(t) = [o \in orders |-> g(t)[o]]
            /\ ge(t, e) = [o \in orders \ {e} |-> g(t)[o]]
        BY <1>4, <1>5
      <3>2. \A o \in orders : g(t)[o] \in Int
        BY <2>1
      <3> QED BY <1>1, <3>1, <3>2, SumSplits
    <2> QED BY <2>2, <2>3
  <1>8. orders = {} => SumFunction(f) = 0 /\ \A t \in Transfers : SumFunction(g(t)) = 0
    BY <1>1, <1>4, SumOfZeros
  <1>9. CreditOf(orders) \in Nat /\ ReceiptsOf(orders) \in Receipts
    BY <1>2, <1>6 DEF Receipts
  <1>10. orders = {} => CreditOf(orders) = 0 /\ \A t \in Transfers : ReceiptsOf(orders)[t] = 0
    BY <1>2, <1>8
  <1>11. ASSUME NEW e \in orders
         PROVE  /\ CreditOf(orders) = order[e].received + CreditOf(orders \ {e})
                /\ \A t \in Transfers :
                     ReceiptsOf(orders)[t] = order[e].receipts[t] + ReceiptsOf(orders \ {e})[t]
    <2>1. CreditOf(orders) = order[e].received + CreditOf(orders \ {e})
      BY <1>2, <1>3, <1>7
    <2>2. ASSUME NEW t \in Transfers
          PROVE  ReceiptsOf(orders)[t] = order[e].receipts[t] + ReceiptsOf(orders \ {e})[t]
      <3>1. ReceiptsOf(orders)[t] = SumFunction(g(t))
        BY <1>2
      <3>2. ReceiptsOf(orders \ {e})[t] = SumFunction(ge(t, e))
        BY <1>2
      <3>3. g(t)[e] = order[e].receipts[t]
        BY <1>3
      <3>4. SumFunction(g(t)) = g(t)[e] + SumFunction(ge(t, e))
        BY <1>7
      <3> QED BY <3>1, <3>2, <3>3, <3>4
    <2> QED BY <2>1, <2>2
  <1> QED BY <1>9, <1>10, <1>11

(* The receipts of two together.                                            *)
LEMMA WorthOfBoth ==
  ASSUME TypeOK, NEW a \in Receipts, NEW b \in Receipts, NEW c \in Receipts,
         \A t \in Transfers : c[t] = a[t] + b[t]
  PROVE  Worth(c) = Worth(a) + Worth(b)
  <1> DEFINE f == [t \in Transfers |-> a[t] * transfer[t].amount]
             g == [t \in Transfers |-> b[t] * transfer[t].amount]
             h == [t \in Transfers |-> c[t] * transfer[t].amount]
  <1>1. \A t \in Transfers : f[t] \in Int /\ g[t] \in Int
    BY Products
  <1>2. \A t \in Transfers : h[t] = f[t] + g[t]
    <2>1. \A i, j, k \in Nat : (i + j) * k = i * k + j * k
      OBVIOUS
    <2>2. \A t \in Transfers : a[t] \in Nat /\ b[t] \in Nat /\ transfer[t].amount \in Nat
      BY TransferFields DEF Receipts
    <2> QED BY <2>1, <2>2
  <1>3. /\ Worth(a) = SumFunctionOnSet(f, Transfers) /\ Worth(b) = SumFunctionOnSet(g, Transfers)
        /\ Worth(c) = SumFunctionOnSet(h, Transfers)
    BY DEF Worth, SumFunction
  <1> HIDE DEF f, g, h
  <1> QED BY <1>1, <1>2, <1>3, SumOfSums, PaymentConstants

(* The credit an intent collects is worth its receipts.                     *)
LEMMA CreditIsWorth ==
  ASSUME TypeOK, \A o \in DOMAIN order : order[o].received = Worth(order[o].receipts),
         NEW orders \in SUBSET DOMAIN order
  PROVE  CreditOf(orders) = Worth(ReceiptsOf(orders))
  <1> DEFINE T == {s \in SUBSET DOMAIN order : CreditOf(s) # Worth(ReceiptsOf(s))}
  <1>1. T = {}
    <2> SUFFICES ASSUME T # {}
                 PROVE  FALSE
      OBVIOUS
    <2>1. PICK s \in T : \A y \in T : y \subseteq s => y = s
      <3>1. T \subseteq SUBSET DOMAIN order
        OBVIOUS
      <3> HIDE DEF T
      <3> QED BY <3>1, OrdersAreListed, MinimalSubset
    <2>2. CASE s = {}
      <3>1. CreditOf(s) = 0 /\ ReceiptsOf(s) = NoReceipts
        BY <2>1, <2>2, CreditSplits DEF NoReceipts, Receipts
      <3> QED BY <2>1, <3>1, WorthOfNone
    <2>3. CASE s # {}
      <3>1. PICK e \in s : TRUE
        BY <2>3
      <3> DEFINE u == s \ {e}
      <3>2. u \in SUBSET DOMAIN order /\ u \subseteq s /\ u # s /\ e \in DOMAIN order
        BY <2>1
      <3>3. CreditOf(u) = Worth(ReceiptsOf(u))
        BY <2>1, <3>2
      <3>4. /\ CreditOf(s) = order[e].received + CreditOf(u)
            /\ \A t \in Transfers : ReceiptsOf(s)[t] = order[e].receipts[t] + ReceiptsOf(u)[t]
            /\ ReceiptsOf(s) \in Receipts
        BY <2>1, CreditSplits
      <3>5. ReceiptsOf(u) \in Receipts
        <4> HIDE DEF u
        <4> QED BY <3>2, CreditSplits
      <3>6. order[e].receipts \in Receipts /\ order[e].received = Worth(order[e].receipts)
        BY <3>2, OrderFields
      <3> HIDE DEF u
      <3>7. Worth(ReceiptsOf(s)) = Worth(order[e].receipts) + Worth(ReceiptsOf(u))
        BY <3>4, <3>5, <3>6, WorthOfBoth
      <3> QED BY <2>1, <3>3, <3>4, <3>6, <3>7
    <2> QED BY <2>2, <2>3
  <1> QED BY <1>1

(* A transfer no order has a receipt of adds nothing to their credit.       *)
LEMMA CreditWithout ==
  ASSUME TypeOK, NEW orders \in SUBSET DOMAIN order, NEW t \in Transfers,
         \A o \in DOMAIN order : order[o].receipts[t] = 0
  PROVE  ReceiptsOf(orders)[t] = 0
  <1> DEFINE g == [o \in orders |-> order[o].receipts[t]]
  <1>1. IsFiniteSet(orders) /\ g = [o \in orders |-> g[o]] /\ \A o \in orders : g[o] = 0
    BY OrdersAreListed, FS_Subset
  <1>2. ReceiptsOf(orders)[t] = SumFunction(g)
    BY DEF ReceiptsOf, SumCredit
  <1> HIDE DEF g
  <1> QED BY <1>1, <1>2, SumOfZeros

(* Making a transfer changes no worth of receipts that do not list it.      *)
LEMMA WorthKept ==
  ASSUME TypeOK, NEW receipts \in Receipts, NEW t \in Transfers, receipts[t] = 0,
         transfer'[t].amount \in Nat, \A u \in Transfers \ {t} : transfer'[u] = transfer[u]
  PROVE  SumFunction([u \in Transfers |-> receipts[u] * transfer'[u].amount]) = Worth(receipts)
  <1> DEFINE f == [u \in Transfers |-> receipts[u] * transfer[u].amount]
             g == [u \in Transfers |-> receipts[u] * transfer'[u].amount]
  <1>1. ASSUME NEW u \in Transfers
        PROVE  g[u] = f[u]
    <2>1. CASE u = t
      BY <2>1, TransferFields
    <2>2. CASE u # t
      BY <2>2
    <2> QED BY <2>1, <2>2
  <1>2. f = g
    BY <1>1
  <1> QED BY <1>2 DEF Worth
-----------------------------------------------------------------------------
(* Steps that add to no order's ledger                                      *)

(* What an order has received stays, and it becomes paid only when covered. *)
SameLedger ==
    /\ DOMAIN order' = DOMAIN order /\ Len(order') = Len(order)
    /\ \A o \in DOMAIN order :
         /\ order'[o].kind = order[o].kind /\ order'[o].amount = order[o].amount
         /\ order'[o].received = order[o].received /\ order'[o].receipts = order[o].receipts
         /\ order'[o].status = "PAID" =>
              order[o].status = "PAID" \/ order[o].received >= order[o].amount

(* A request stays within the invariant.                                    *)
RequestFits(r) ==
    LET q == request'[r]
    IN  /\ q.pc \in {"save", "settle"} => q.target \in DOMAIN order
        /\ q.pc \notin {"idle", "settle"} => q.kind \in Kinds
        /\ q.pc \in {"find", "cancel", "create"} => q.credit = Worth(q.receipts)
        /\ \A t \in Transfers : transfer[t] = NotMade => q.receipts[t] = 0

(* A request that may create an order already could.                        *)
NotNew(r) == r \in Undone' => r \in Undone

HooksFit == \A t \in Transfers : hook'[t] = "settle" => hook[t] = "settle"

RunsFit == \A c \in OrderCodes \X Callers : run'[c].pc # "none" => c[1] \in DOMAIN order

(* A request that did not change or ended fits; so do hooks and completions *)
(* left alone.                                                              *)
LEMMA RequestsFit ==
  ASSUME LedgerInv
  PROVE  /\ \A r \in Requests : request'[r] = request[r] \/ request'[r] = NoRequest =>
               RequestFits(r) /\ NotNew(r)
         /\ UNCHANGED hook => HooksFit
         /\ UNCHANGED run => RunsFit
  <1>1. ASSUME NEW r \in Requests, request'[r] = request[r]
        PROVE  RequestFits(r) /\ NotNew(r)
    BY <1>1 DEF RequestFits, NotNew, Undone, LedgerInv, Placed, Credited, Receipted
  <1>2. ASSUME NEW r \in Requests, request'[r] = NoRequest
        PROVE  RequestFits(r) /\ NotNew(r)
    BY <1>2 DEF RequestFits, NotNew, Undone, NoRequest, NoReceipts
  <1>3. UNCHANGED hook => HooksFit
    BY DEF HooksFit
  <1>4. UNCHANGED run => RunsFit
    BY DEF RunsFit, LedgerInv, Placed
  <1> QED BY <1>1, <1>2, <1>3, <1>4

(* No new request, no new order: the places suffice.                        *)
LEMMA QuotaKept ==
  ASSUME LedgerInv, Len(order') = Len(order), \A r \in Requests : NotNew(r)
  PROVE  Quota'
  <1>1. Undone' \subseteq Undone
    BY DEF Undone, NotNew
  <1>2. IsFiniteSet(Undone)
    BY PaymentConstants, FS_Subset DEF Undone
  <1>3. Cardinality(Undone') <= Cardinality(Undone)
        /\ Cardinality(Undone) \in Nat /\ Cardinality(Undone') \in Nat
    BY <1>1, <1>2, FS_Subset, FS_CardinalityType
  <1>4. Len(order) \in Nat /\ Len(order) + Cardinality(Undone) <= MaxOrders /\ MaxOrders \in Nat
    BY OrdersAreListed, PaymentConstants DEF LedgerInv, Quota
  <1> QED BY <1>3, <1>4 DEF Quota

(* Such a step keeps the invariant.                                         *)
LEMMA LedgerKept ==
  ASSUME LedgerInv, TypeOK', Quota', SameLedger, UNCHANGED transfer,
         \A r \in Requests : RequestFits(r), HooksFit, RunsFit
  PROVE  LedgerInv'
  <1> USE DEF LedgerInv
  <1>2. Placed'
    BY DEF Placed, SameLedger, RequestFits, HooksFit, RunsFit
  <1>4. Credited'
    <2>1. \A o \in DOMAIN order : Worth(order[o].receipts)' = Worth(order[o].receipts)
      BY DEF Worth, SameLedger
    <2>2. \A r \in Requests : Worth(request[r].receipts)' = Worth(request'[r].receipts)
      BY DEF Worth
    <2>3. \A o \in DOMAIN order' :
            /\ order'[o].received = Worth(order[o].receipts)'
            /\ order'[o].status = "PAID" => order'[o].received >= order'[o].amount
      BY <2>1 DEF Credited, SameLedger
    <2>4. \A r \in Requests : request'[r].pc \in {"find", "cancel", "create"} =>
            request'[r].credit = Worth(request[r].receipts)'
      BY <2>2 DEF RequestFits
    <2> QED BY <2>3, <2>4 DEF Credited
  <1>5. Receipted'
    BY DEF Receipted, SameLedger, RequestFits
  <1>6. Covered'
    <2>1. \A t \in Transfers : hook[t] = "settle" \/ transfer[t].gateway =>
             transfer[t].order \in DOMAIN order
      BY DEF Placed, NotMade
    <2> QED BY <2>1 DEF Covered, SameLedger, HooksFit
  <1> QED BY <1>2, <1>4, <1>5, <1>6

(* One request goes on, and everything else stays.                          *)
LEMMA RequestGoesOn ==
  ASSUME LedgerInv, NEW r \in Requests, NEW q \in Request, request' = [request EXCEPT ![r] = q],
         UNCHANGED <<order, transfer, hook, run, pkg, extended, faults>>,
         q.pc \in {"save", "settle"} => q.target \in DOMAIN order,
         q.pc \notin {"idle", "settle"} => q.kind \in Kinds,
         q.pc \in {"find", "cancel", "create"} => q.credit = Worth(q.receipts),
         \A t \in Transfers : transfer[t] = NotMade => q.receipts[t] = 0,
         Quota' \/ NotNew(r)
  PROVE  LedgerInv'
  <1>1. /\ request' \in [Requests -> Request] /\ request'[r] = q
        /\ \A s \in Requests \ {r} : request'[s] = request[s]
    BY OneRequest DEF LedgerInv
  <1>2. TypeOK'
    BY <1>1 DEF LedgerInv, TypeOK
  <1>3. \A s \in Requests : RequestFits(s)
    <2>1. RequestFits(r)
      BY <1>1 DEF RequestFits
    <2> QED BY <1>1, <2>1, RequestsFit
  <1>4. Quota'
    <2>1. CASE NotNew(r)
      BY <1>1, <2>1, RequestsFit, QuotaKept
    <2> QED BY <2>1
  <1>5. SameLedger /\ HooksFit /\ RunsFit
    BY RequestsFit DEF SameLedger
  <1> QED BY <1>2, <1>3, <1>4, <1>5, LedgerKept
-----------------------------------------------------------------------------
(* The intents                                                              *)

(* What an intent may create is among the bound's requests.                 *)
LEMMA UndoneCounts ==
  /\ IsFiniteSet(Undone) /\ Cardinality(Undone) \in Nat
  /\ \A r \in Undone : Cardinality(Undone \ {r}) = Cardinality(Undone) - 1
  <1>1. IsFiniteSet(Undone)
    BY PaymentConstants, FS_Subset DEF Undone
  <1> QED BY <1>1, FS_CardinalityType, FS_RemoveElement

(* An intent starts, within the bound.                                      *)
LEMMA StartKeeps ==
  ASSUME LedgerInv, NEW r \in Requests, NEW kind, NEW flow \in FlowOptions,
         StartIntent(r, kind, flow)
  PROVE  LedgerInv'
  <1>1. PICK fee \in Fees :
          request' = [request EXCEPT ![r] = [NoRequest EXCEPT !.pc = "find",
                                            !.kind = kind, !.fee = fee, !.flow = flow]]
    BY DEF StartIntent
  <1> DEFINE q == [NoRequest EXCEPT !.pc = "find", !.kind = kind, !.fee = fee, !.flow = flow]
             busy == {s \in Requests : request[s] # NoRequest}
  <1>2. /\ request[r] = NoRequest /\ kind \in Kinds
        /\ Len(order) + Cardinality(busy) < MaxOrders
        /\ UNCHANGED <<order, transfer, hook, run, pkg, extended, faults>>
    BY DEF StartIntent
  <1>3. q \in Request
    <2>1. fee \in Nat
      BY <1>1, PaymentConstants
    <2> QED BY <1>2, <2>1, NothingIsTyped DEF Request
  <1>4. /\ q.pc = "find" /\ q.kind = kind /\ q.credit = 0 /\ q.receipts = NoReceipts
        /\ \A t \in Transfers : q.receipts[t] = 0
    BY DEF NoRequest, NoReceipts
  <1>5. q.credit = Worth(q.receipts)
    BY <1>4, WorthOfNone DEF LedgerInv
  <1> HIDE DEF q
  <1>6. request' = [request EXCEPT ![r] = q]
    BY <1>1 DEF q
  <1>7. Quota'
    <2>1. Undone' \subseteq busy \cup {r} /\ r \notin busy
      <3>1. \A s \in Requests \ {r} : request'[s] = request[s]
        BY <1>3, <1>6, OneRequest DEF LedgerInv
      <3> QED BY <1>2, <3>1, NothingIsTyped DEF Undone
    <2>2. IsFiniteSet(busy)
      BY PaymentConstants, FS_Subset
    <2> HIDE DEF busy
    <2>3. /\ IsFiniteSet(busy \cup {r}) /\ Cardinality(busy \cup {r}) = Cardinality(busy) + 1
          /\ Cardinality(busy) \in Nat
      BY <2>1, <2>2, FS_AddElement, FS_CardinalityType
    <2>4. Cardinality(Undone') <= Cardinality(busy) + 1 /\ Cardinality(Undone') \in Nat
      BY <2>1, <2>3, FS_Subset, FS_CardinalityType
    <2>5. Len(order) \in Nat /\ MaxOrders \in Nat /\ order' = order
      BY <1>2, OrdersAreListed, PaymentConstants DEF LedgerInv
    <2> QED BY <1>2, <2>3, <2>4, <2>5 DEF Quota, busy
  <1> QED BY <1>2, <1>3, <1>4, <1>5, <1>6, <1>7, RequestGoesOn

(* The pending orders are orders.                                           *)
LEMMA PendingAreOrders ==
  \A kind : Pending(kind) \in SUBSET DOMAIN order
  BY DEF Pending

(* An intent finds the pending orders.                                      *)
LEMMA FindKeeps ==
  ASSUME LedgerInv, NEW r \in Requests, FindPending(r)
  PROVE  LedgerInv'
  <1> DEFINE q == request[r]
             q1 == [q EXCEPT !.pc = "create"]
             q2 == [q EXCEPT !.pc = "collect"]
             flow(o) == IF q.flow = order[o].flow THEN "unset" ELSE q.flow
             q3(o) == [q EXCEPT !.pc = "save", !.target = o, !.flow = flow(o)]
  <1>1. /\ q.pc = "find" /\ UNCHANGED <<order, transfer, hook, run, pkg, extended, faults>>
        /\ \/ request' = [request EXCEPT ![r] = q1]
           \/ request' = [request EXCEPT ![r] = q2]
           \/ \E o \in Pending(q.kind) : request' = [request EXCEPT ![r] = q3(o)]
    BY DEF FindPending
  <1>2. q \in Request /\ q.kind \in Kinds /\ q.flow \in FlowOptions
    BY <1>1, RequestFields DEF LedgerInv, Placed
  <1>3. q.credit = Worth(q.receipts) /\ \A t \in Transfers : transfer[t] = NotMade => q.receipts[t] = 0
    BY <1>1 DEF LedgerInv, Credited, Receipted
  <1>4. r \in Undone
    BY <1>1 DEF Undone
  <1>5. NotNew(r)
    BY <1>4 DEF NotNew
  <1>6. CASE request' = [request EXCEPT ![r] = q1]
    <2>1. q1 \in Request /\ q1.pc = "create" /\ q1.kind = q.kind
          /\ q1.credit = q.credit /\ q1.receipts = q.receipts
      BY <1>2 DEF Request
    <2>2. /\ q1.kind \in Kinds
          /\ q1.pc = "create" => q1.credit = Worth(q1.receipts)
          /\ \A t \in Transfers : transfer[t] = NotMade => q1.receipts[t] = 0
      <3> HIDE DEF q1
      <3> QED BY <1>2, <1>3, <2>1
    <2> HIDE DEF q1
    <2> QED BY <1>1, <1>5, <1>6, <2>1, <2>2, RequestGoesOn
  <1>7. CASE request' = [request EXCEPT ![r] = q2]
    <2>1. q2 \in Request /\ q2.pc = "collect" /\ q2.kind = q.kind /\ q2.receipts = q.receipts
      BY <1>2 DEF Request
    <2>2. /\ q2.kind \in Kinds
          /\ q2.pc = "create" => q2.credit = Worth(q2.receipts)
          /\ \A t \in Transfers : transfer[t] = NotMade => q2.receipts[t] = 0
      <3> HIDE DEF q2
      <3> QED BY <1>2, <1>3, <2>1
    <2> HIDE DEF q2
    <2> QED BY <1>1, <1>5, <1>7, <2>1, <2>2, RequestGoesOn
  <1>8. ASSUME NEW o \in Pending(q.kind), request' = [request EXCEPT ![r] = q3(o)]
        PROVE  LedgerInv'
    <2>1. o \in DOMAIN order /\ o \in OrderCodes
      BY PendingAreOrders, OrdersAreListed DEF LedgerInv
    <2>2. flow(o) \in FlowOptions
      BY <1>2 DEF FlowOptions
    <2> HIDE DEF flow
    <2>3. q3(o) \in Request /\ q3(o).pc = "save" /\ q3(o).kind = q.kind
          /\ q3(o).target = o /\ q3(o).receipts = q.receipts
      BY <1>2, <2>1, <2>2 DEF Request
    <2>4. \A t \in Transfers : transfer[t] = NotMade => q3(o).receipts[t] = 0
      BY <1>3, <2>3
    <2> DEFINE q4 == q3(o)
    <2>5. /\ q4 \in Request /\ q4.pc = "save" /\ q4.kind \in Kinds
          /\ q4.target \in DOMAIN order
          /\ \A t \in Transfers : transfer[t] = NotMade => q4.receipts[t] = 0
          /\ request' = [request EXCEPT ![r] = q4]
      BY <1>2, <1>8, <2>1, <2>3, <2>4
    <2> HIDE DEF q, q4
    <2> QED BY <1>1, <1>5, <2>5, RequestGoesOn
  <1> QED BY Zenon, <1>1, <1>6, <1>7, <1>8

(* A request ends without touching the orders.                              *)
LEMMA RenewKeeps ==
  ASSUME LedgerInv, NEW r \in Requests, RenewSubscription(r)
  PROVE  LedgerInv'
  <1>1. /\ request' = [request EXCEPT ![r] = NoRequest]
        /\ UNCHANGED <<order, transfer, hook, run, pkg, extended, faults>>
    BY DEF RenewSubscription
  <1>2. NotNew(r)
    BY <1>1, OneRequest, NothingIsTyped DEF NotNew, Undone, LedgerInv
  <1>3. NoRequest \in Request /\ NoRequest.pc = "idle" /\ \A t \in Transfers : NoRequest.receipts[t] = 0
    BY NothingIsTyped DEF NoRequest, NoReceipts
  <1> QED BY <1>1, <1>2, <1>3, RequestGoesOn

(* The credit of the orders to replace is read.                             *)
LEMMA CollectKeeps ==
  ASSUME LedgerInv, NEW r \in Requests, CollectCredit(r)
  PROVE  LedgerInv'
  <1> DEFINE orders == Pending(request[r].kind)
             q == [request[r] EXCEPT !.pc = "cancel", !.credit = CreditOf(orders),
                                     !.receipts = ReceiptsOf(orders)]
  <1>1. /\ request[r].pc = "collect"
        /\ UNCHANGED <<order, transfer, hook, run, pkg, extended, faults>>
    BY DEF CollectCredit
  <1>2. request' = [request EXCEPT ![r] = q]
    BY DEF CollectCredit, CreditOf, ReceiptsOf, LedgerInv, TypeOK
  <1>3. orders \in SUBSET DOMAIN order
    BY PendingAreOrders
  <1> HIDE DEF orders
  <1>4. CreditOf(orders) \in Nat /\ ReceiptsOf(orders) \in Receipts
    BY <1>3, CreditSplits DEF LedgerInv
  <1>5. CreditOf(orders) = Worth(ReceiptsOf(orders))
    BY <1>3, CreditIsWorth DEF LedgerInv, Credited
  <1>6. \A t \in Transfers : transfer[t] = NotMade => ReceiptsOf(orders)[t] = 0
    BY <1>3, CreditWithout DEF LedgerInv, Receipted
  <1>7. request[r] \in Request /\ request[r].kind \in Kinds /\ NotNew(r)
    BY <1>1, RequestFields DEF LedgerInv, Placed, NotNew, Undone
  <1>8. /\ q \in Request /\ q.pc = "cancel" /\ q.kind = request[r].kind
        /\ q.credit = CreditOf(orders) /\ q.receipts = ReceiptsOf(orders)
    BY <1>4, <1>7 DEF Request
  <1> HIDE DEF q
  <1> QED BY <1>1, <1>2, <1>5, <1>6, <1>7, <1>8, RequestGoesOn

(* A pending order's flow is saved.                                         *)
LEMMA SaveKeeps ==
  ASSUME LedgerInv, NEW r \in Requests, SavePending(r)
  PROVE  LedgerInv'
  <1> DEFINE q == request[r]
             o == q.target
             u == order[o].relabelled \/ IsInUse(o)
             d == [order[o] EXCEPT !.flow = q.flow, !.relabelled = u]
  <1>1. /\ q.pc = "save" /\ request' = [request EXCEPT ![r] = NoRequest]
        /\ UNCHANGED <<transfer, hook, run, pkg, extended, faults>>
    BY DEF SavePending
  <1>3. o \in DOMAIN order /\ q.flow \in FlowOptions
    BY <1>1, RequestFields DEF LedgerInv, Placed
  <1>2. order' = order \/ (q.flow \in Flows /\ order' = [order EXCEPT ![o] = d])
    <2>1. order' = order \/ (q.flow \in Flows /\ order' = [order EXCEPT
                                   ![o].flow = q.flow, ![o].relabelled = @ \/ IsInUse(o)])
      BY <1>3 DEF SavePending, FlowOptions
    <2>2. order[o] \in Order /\ order \in Seq(Order)
      BY <1>3, OrdersAreListed DEF LedgerInv, TypeOK
    <2> HIDE DEF q, o
    <2> QED BY <1>3, <2>1, <2>2 DEF Order
  <1>4. u \in BOOLEAN
    BY <1>3, OrderFields DEF LedgerInv, IsInUse
  <1> HIDE DEF u
  <1>5. q.flow \in Flows =>
          /\ d \in Order /\ d.kind = order[o].kind /\ d.amount = order[o].amount
          /\ d.received = order[o].received /\ d.receipts = order[o].receipts
          /\ d.status = order[o].status
    <2>1. order[o] \in Order
      BY <1>3, OrdersAreListed DEF LedgerInv
    <2> HIDE DEF q, o
    <2> QED BY <1>4, <2>1 DEF Order
  <1> HIDE DEF d, o, q
  <1>6. /\ order' \in Seq(Order) /\ Len(order') = Len(order) /\ SameLedger
    <2>1. CASE order' = order
      <3>1. order' \in Seq(Order)
        BY <2>1 DEF LedgerInv, TypeOK
      <3> QED BY <2>1, <3>1 DEF SameLedger
    <2>2. CASE q.flow \in Flows /\ order' = [order EXCEPT ![o] = d]
      <3>1. /\ order' \in Seq(Order) /\ Len(order') = Len(order) /\ DOMAIN order' = DOMAIN order
            /\ order'[o] = d /\ \A p \in DOMAIN order \ {o} : order'[p] = order[p]
        BY <1>3, <1>5, <2>2, OneOrder DEF LedgerInv
      <3> QED BY <1>5, <2>2, <3>1 DEF SameLedger
    <2> QED BY <1>2, <2>1, <2>2
  <1>7. /\ request' \in [Requests -> Request] /\ request'[r] = NoRequest
        /\ \A s \in Requests \ {r} : request'[s] = request[s]
    BY <1>1, OneRequest, NothingIsTyped DEF LedgerInv
  <1>8. TypeOK'
    BY <1>1, <1>6, <1>7 DEF LedgerInv, TypeOK
  <1>9. (\A s \in Requests : RequestFits(s) /\ NotNew(s)) /\ HooksFit /\ RunsFit
    BY <1>1, <1>7, RequestsFit
  <1>10. Quota'
    BY <1>6, <1>9, QuotaKept
  <1> QED BY <1>1, <1>6, <1>8, <1>9, <1>10, LedgerKept

(* The orders to replace are cancelled.                                     *)
LEMMA CancelKeeps ==
  ASSUME LedgerInv, NEW r \in Requests, CancelPending(r)
  PROVE  LedgerInv'
  <1> DEFINE q == [request[r] EXCEPT !.pc = "create"]
  <1>1. /\ request[r].pc = "cancel"
        /\ UNCHANGED <<transfer, hook, run, pkg, extended, faults>>
    BY DEF CancelPending
  <1>2. request' = [request EXCEPT ![r] = q]
    BY DEF CancelPending, LedgerInv, TypeOK
  <1>3. /\ q \in Request /\ q.pc = "create" /\ q.kind = request[r].kind
        /\ q.credit = request[r].credit /\ q.receipts = request[r].receipts
    <2>1. request[r] \in Request
      BY RequestFields DEF LedgerInv
    <2> QED BY <2>1 DEF Request
  <1> HIDE DEF q
  <1>4. /\ request' \in [Requests -> Request] /\ request'[r] = q
        /\ \A s \in Requests \ {r} : request'[s] = request[s]
    BY <1>2, <1>3, OneRequest DEF LedgerInv
  <1>5. /\ DOMAIN order' = DOMAIN order
        /\ \A o \in DOMAIN order :
             order'[o] = order[o] \/ order'[o] = [order[o] EXCEPT !.status = "CANCELLED"]
    BY DEF CancelPending
  <1>6. ASSUME NEW o \in DOMAIN order
        PROVE  /\ order'[o] \in Order
               /\ order'[o].kind = order[o].kind /\ order'[o].amount = order[o].amount
               /\ order'[o].received = order[o].received
               /\ order'[o].receipts = order[o].receipts
               /\ order'[o].status = order[o].status \/ order'[o].status = "CANCELLED"
    <2>1. order[o] \in Order
      BY OrdersAreListed DEF LedgerInv
    <2> QED BY <1>5, <2>1 DEF Order, PaymentStatus
  <1>7. order' \in Seq(Order) /\ Len(order') = Len(order)
    <2>1. order' = [o \in 1..Len(order) |-> order'[o]] /\ Len(order) \in Nat
      <3>1. DOMAIN order = 1..Len(order) /\ Len(order) \in Nat
        BY OrdersAreListed DEF LedgerInv
      <3> QED BY <3>1 DEF CancelPending
    <2>2. \A o \in 1..Len(order) : order'[o] \in Order
      BY <1>6, OrdersAreListed DEF LedgerInv
    <2> QED BY <2>1, <2>2
  <1>8. SameLedger
    BY <1>5, <1>6, <1>7 DEF SameLedger
  <1>9. TypeOK'
    BY <1>1, <1>4, <1>7 DEF LedgerInv, TypeOK
  <1>10. \A s \in Requests : RequestFits(s) /\ NotNew(s)
    <2>1. RequestFits(r)
      BY <1>1, <1>3, <1>4 DEF RequestFits, LedgerInv, Placed, Credited, Receipted
    <2>2. NotNew(r)
      BY <1>1 DEF NotNew, Undone
    <2> QED BY <1>4, <2>1, <2>2, RequestsFit
  <1>11. HooksFit /\ RunsFit
    BY <1>1, RequestsFit
  <1>12. Quota'
    BY <1>7, <1>10, QuotaKept
  <1> QED BY <1>1, <1>8, <1>9, <1>10, <1>11, <1>12, LedgerKept

(* The new order takes the intent's place and its credit.                   *)
LEMMA CreateKeeps ==
  ASSUME LedgerInv, NEW r \in Requests, CreateOrder(r)
  PROVE  LedgerInv'
  <1> USE DEF LedgerInv
  <1> DEFINE q == request[r]
             d == NewOrder(q)
             q1 == [NoRequest EXCEPT !.pc = "settle", !.target = Len(order) + 1]
             n == Len(order) + 1
  <1>1. /\ q.pc = "create" /\ order' = Append(order, d)
        /\ UNCHANGED <<transfer, hook, run, pkg, extended, faults>>
        /\ \E p \in {q1, NoRequest} : request' = [request EXCEPT ![r] = p]
    BY DEF CreateOrder
  <1>2. q \in Request /\ q.kind \in Kinds /\ q.credit = Worth(q.receipts) /\ r \in Undone
        /\ \A t \in Transfers : transfer[t] = NotMade => q.receipts[t] = 0
    BY <1>1, RequestFields DEF Placed, Credited, Receipted, Undone
  <1>3. /\ d \in Order /\ d.received = q.credit /\ d.receipts = q.receipts /\ d.status = "PENDING"
    <2>1. /\ q.fee \in Nat /\ q.flow \in FlowOptions /\ q.credit \in Nat
          /\ q.receipts \in Receipts
      BY RequestFields
    <2>2. CASE q.kind = "subscription"
      BY <1>2, <2>1, <2>2
         DEF NewOrder, SubscriptionOrder, Order, PaymentStatus, Flows
    <2>3. CASE q.kind # "subscription"
      BY <1>2, <2>1, <2>3 DEF NewOrder, PackageOrder, Order, PaymentStatus, Flows, FlowOptions
    <2> QED BY <2>2, <2>3
  <1>4. Len(order) \in Nat /\ n \in Nat /\ n <= MaxOrders /\ n \in OrderCodes
    <2>1. Cardinality(Undone) >= 1
      <3>1. Cardinality(Undone) \in Nat /\ IsFiniteSet(Undone) /\ Undone # {}
        BY <1>2, UndoneCounts
      <3> QED BY <3>1, FS_EmptySet
    <2> QED BY <2>1, OrdersAreListed, UndoneCounts, PaymentConstants DEF Quota, OrderCodes
  <1> HIDE DEF d
  <1>5. /\ order' \in Seq(Order) /\ Len(order') = n /\ DOMAIN order' = DOMAIN order \cup {n}
        /\ order'[n] = d /\ n \notin DOMAIN order
        /\ \A o \in DOMAIN order : order'[o] = order[o]
    BY <1>1, <1>3, <1>4, OrdersAreListed DEF TypeOK
  <1>6. q1 \in Request /\ q1.pc = "settle" /\ q1.target = n /\ q1.receipts = NoReceipts
    <2>1. q1.receipts = NoReceipts
      BY DEF NoRequest
    <2> QED BY <1>4, <2>1, NothingIsTyped DEF Request
  <1> HIDE DEF n, q1
  <1>7. /\ request' \in [Requests -> Request] /\ request'[r] \in {q1, NoRequest}
        /\ \A s \in Requests \ {r} : request'[s] = request[s]
    <2>1. PICK p \in {q1, NoRequest} : request' = [request EXCEPT ![r] = p]
      BY <1>1
    <2>2. p \in Request
      BY <1>6, NothingIsTyped
    <2> QED BY <2>1, <2>2, OneRequest
  <1>8. TypeOK'
    BY <1>1, <1>4, <1>5, <1>7 DEF TypeOK
  <1>9. Quota'
    <2>1. Undone' = Undone \ {r}
      BY <1>6, <1>7, NothingIsTyped DEF Undone
    <2>2. Cardinality(Undone') = Cardinality(Undone) - 1
      BY <1>2, <2>1, UndoneCounts
    <2> QED BY <1>5, <2>2, OrdersAreListed, UndoneCounts, PaymentConstants DEF Quota, n
  <1>10. Placed'
    <2>1. ASSUME NEW s \in Requests
          PROVE  /\ request'[s].pc \in {"save", "settle"} => request'[s].target \in DOMAIN order'
                 /\ request'[s].pc \notin {"idle", "settle"} => request'[s].kind \in Kinds
      <3>1. CASE s = r
        BY <1>5, <1>6, <1>7, <3>1, NothingIsTyped
      <3>2. CASE s # r
        BY <1>5, <1>7, <3>2 DEF Placed
      <3> QED BY <3>1, <3>2
    <2> QED BY <1>1, <1>5, <2>1 DEF Placed
  <1>11. Credited'
    <2>1. \A receipts : Worth(receipts) = SumFunction([t \in Transfers |-> receipts[t] * transfer'[t].amount])
      BY <1>1 DEF Worth
    <2>2. ASSUME NEW o \in DOMAIN order'
          PROVE  /\ order'[o].received = Worth(order'[o].receipts)
                 /\ order'[o].status = "PAID" => order'[o].received >= order'[o].amount
      <3>1. CASE o = n
        BY <1>2, <1>3, <1>5, <3>1
      <3>2. CASE o # n
        BY <1>5, <3>2 DEF Credited
      <3> QED BY <3>1, <3>2
    <2>3. \A s \in Requests : request'[s].pc \in {"find", "cancel", "create"} =>
             request'[s].credit = Worth(request'[s].receipts)
      BY <1>6, <1>7, NothingIsTyped DEF Credited
    <2> HIDE DEF LedgerInv
    <2> QED BY <2>1, <2>2, <2>3 DEF Credited, Worth
  <1>12. Receipted'
    <2>1. ASSUME NEW t \in Transfers, transfer[t] = NotMade, NEW o \in DOMAIN order'
          PROVE  order'[o].receipts[t] = 0
      BY <1>2, <1>3, <1>5, <2>1 DEF Receipted
    <2>2. ASSUME NEW t \in Transfers, transfer[t] = NotMade, NEW s \in Requests
          PROVE  request'[s].receipts[t] = 0
      <3>1. NoReceipts[t] = 0 /\ NoRequest.receipts = NoReceipts
        BY DEF NoReceipts, NoRequest
      <3> QED BY <1>6, <1>7, <2>2, <3>1 DEF Receipted
    <2> QED BY <1>1, <2>1, <2>2 DEF Receipted
  <1>13. Covered'
    <2>1. \A t \in Transfers : hook[t] = "settle" \/ transfer[t].gateway =>
             transfer[t].order \in DOMAIN order
      BY DEF Placed, NotMade
    <2> QED BY <1>1, <1>5, <2>1 DEF Covered
  <1> QED BY <1>8, <1>9, <1>10, <1>11, <1>12, <1>13
-----------------------------------------------------------------------------
(* Settling, and the transfers                                              *)

(* What an order's completion starts as.                                    *)
LEMMA CompletionType ==
  ASSUME TypeOK, NEW o \in DOMAIN order
  PROVE  /\ Completion(o) \in Run /\ Completion(o).flow = order[o].flow
         /\ Completion(o).pc = IF order[o].kind = "package" THEN order[o].flow ELSE "subscriber"
  <1> DEFINE p == IF order[o].kind = "package" THEN order[o].flow ELSE "subscriber"
  <1>1. order[o].flow \in FlowOptions /\ p \in {"subscriber", "kiosk", "remote"}
    BY OrderFields DEF Flows, FlowOptions
  <1>2. Completion(o) = [NoRun EXCEPT !.pc = p, !.flow = order[o].flow]
    BY DEF Completion
  <1> HIDE DEF p
  <1>3. Completion(o) \in Run /\ Completion(o).pc = p /\ Completion(o).flow = order[o].flow
    BY <1>1, <1>2, NothingIsTyped DEF Run
  <1> QED BY <1>3 DEF p

(* An order whose money has arrived is settled.                             *)
LEMMA SettledFits ==
  ASSUME LedgerInv, NEW o \in DOMAIN order, Settled(o, order[o].received),
         order[o].received >= order[o].amount
  PROVE  /\ order' \in Seq(Order) /\ Len(order') = Len(order) /\ SameLedger
         /\ run' \in [OrderCodes \X Callers -> Run] /\ RunsFit
  <1> USE DEF LedgerInv
  <1> DEFINE d == [order[o] EXCEPT !.status = "PAID", !.received = order[o].received]
             c == <<o, "webhook">>
  <1>1. order' = [order EXCEPT ![o] = d] /\ run' = [run EXCEPT ![c] = Completion(o)]
    BY DEF Settled, TypeOK
  <1>2. /\ d \in Order /\ d.kind = order[o].kind /\ d.amount = order[o].amount
        /\ d.received = order[o].received /\ d.receipts = order[o].receipts
    <2>1. order[o] \in Order
      BY OrdersAreListed
    <2> QED BY <2>1 DEF Order, PaymentStatus
  <1> HIDE DEF d
  <1>3. /\ order' \in Seq(Order) /\ Len(order') = Len(order) /\ DOMAIN order' = DOMAIN order
        /\ order'[o] = d /\ \A p \in DOMAIN order \ {o} : order'[p] = order[p]
    BY <1>1, <1>2, OneOrder
  <1>4. SameLedger
    BY <1>2, <1>3 DEF SameLedger
  <1>5. c \in OrderCodes \X Callers /\ c[1] = o
    BY OrdersAreListed DEF Callers
  <1> HIDE DEF c
  <1>6. /\ run' \in [OrderCodes \X Callers -> Run]
        /\ \A b \in (OrderCodes \X Callers) \ {c} : run'[b] = run[b]
    BY <1>1, <1>5, CompletionType, OneRun
  <1>7. RunsFit
    BY <1>5, <1>6 DEF RunsFit, Placed
  <1> QED BY <1>3, <1>4, <1>6, <1>7

(* An intent settles the order its credit covers.                           *)
LEMMA SettleCreditKeeps ==
  ASSUME LedgerInv, NEW r \in Requests, SettleCredit(r)
  PROVE  LedgerInv'
  <1> USE DEF LedgerInv
  <1> DEFINE o == request[r].target
  <1>1. /\ request[r].pc = "settle" /\ request' = [request EXCEPT ![r] = NoRequest]
        /\ UNCHANGED <<transfer, hook, pkg, extended, faults>>
        /\ \/ /\ order[o].received >= order[o].amount /\ Settled(o, order[o].received)
           \/ UNCHANGED <<order, run>>
    BY DEF SettleCredit, IsFullyPaid
  <1>2. o \in DOMAIN order
    BY <1>1 DEF Placed
  <1>3. /\ request' \in [Requests -> Request] /\ request'[r] = NoRequest
        /\ \A s \in Requests \ {r} : request'[s] = request[s]
    BY <1>1, OneRequest, NothingIsTyped
  <1>4. (\A s \in Requests : RequestFits(s) /\ NotNew(s)) /\ HooksFit
    BY <1>1, <1>3, RequestsFit
  <1>5. /\ order' \in Seq(Order) /\ Len(order') = Len(order) /\ SameLedger
        /\ run' \in [OrderCodes \X Callers -> Run] /\ RunsFit
    <2>1. CASE UNCHANGED <<order, run>>
      <3>1. SameLedger
        BY <2>1 DEF SameLedger
      <3> QED BY <2>1, <3>1, RequestsFit DEF TypeOK
    <2>2. CASE order[o].received >= order[o].amount /\ Settled(o, order[o].received)
      BY <1>2, <2>2, SettledFits
    <2> QED BY <1>1, <2>1, <2>2
  <1>6. TypeOK'
    BY <1>1, <1>3, <1>5 DEF TypeOK
  <1>7. Quota'
    BY <1>4, <1>5, QuotaKept
  <1> QED BY <1>1, <1>4, <1>5, <1>6, <1>7, LedgerKept

(* The larger of two numbers.                                               *)
LEMMA LargerOne ==
  ASSUME NEW a \in Nat, NEW b \in Nat, a >= b
  PROVE  Max({a, b}) = a
  BY DEF Max

(* A webhook settles the order its transfer completed.                      *)
LEMMA SettleOrderKeeps ==
  ASSUME LedgerInv, NEW t \in Transfers, SettleOrder(t)
  PROVE  LedgerInv'
  <1> USE DEF LedgerInv
  <1> DEFINE o == transfer[t].order
  <1>1. /\ hook[t] = "settle" /\ hook' = [hook EXCEPT ![t] = "none"]
        /\ UNCHANGED <<request, transfer, pkg, extended, faults>>
        /\ \/ Settled(o, Max({order[o].received, order[o].amount}))
           \/ UNCHANGED <<order, run>>
    BY DEF SettleOrder
  <1>2. o \in DOMAIN order /\ order[o].received >= order[o].amount
    BY <1>1 DEF Placed, Covered
  <1>3. hook' \in [Transfers -> {"none", "settle"}] /\ HooksFit
    BY <1>1 DEF TypeOK, HooksFit
  <1>4. \A s \in Requests : RequestFits(s) /\ NotNew(s)
    BY <1>1, RequestsFit
  <1>5. /\ order' \in Seq(Order) /\ Len(order') = Len(order) /\ SameLedger
        /\ run' \in [OrderCodes \X Callers -> Run] /\ RunsFit
    <2>1. CASE UNCHANGED <<order, run>>
      <3>1. SameLedger
        BY <2>1 DEF SameLedger
      <3> QED BY <2>1, <3>1, RequestsFit DEF TypeOK
    <2>2. CASE Settled(o, Max({order[o].received, order[o].amount}))
      <3>1. Max({order[o].received, order[o].amount}) = order[o].received
        BY <1>2, OrderFields, LargerOne
      <3> QED BY <1>2, <2>2, <3>1, SettledFits
    <2> QED BY <1>1, <2>1, <2>2
  <1>6. TypeOK'
    BY <1>1, <1>3, <1>5 DEF TypeOK
  <1>7. Quota'
    BY <1>4, <1>5, QuotaKept
  <1> QED BY <1>1, <1>3, <1>4, <1>5, <1>6, <1>7, LedgerKept

(* A transfer is made; no receipt lists it yet.                             *)
LEMMA MakeKeeps ==
  ASSUME LedgerInv, NEW t \in Transfers, MakeTransfer(t)
  PROVE  LedgerInv'
  <1> USE DEF LedgerInv
  <1>1. /\ transfer[t] = NotMade
        /\ UNCHANGED <<order, request, hook, run, pkg, extended, faults>>
    BY DEF MakeTransfer
  <1>2. PICK o \in DOMAIN order, gateway \in BOOLEAN :
          \E amount \in IF gateway THEN {order[o].amount} ELSE Amounts :
            transfer' = [transfer EXCEPT ![t] = [order |-> o, amount |-> amount,
                                                 gateway |-> gateway]]
    BY DEF MakeTransfer
  <1>3. PICK amount \in IF gateway THEN {order[o].amount} ELSE Amounts :
          transfer' = [transfer EXCEPT ![t] = [order |-> o, amount |-> amount,
                                               gateway |-> gateway]]
    BY <1>2
  <1> DEFINE d == [order |-> o, amount |-> amount, gateway |-> gateway]
  <1>4. amount \in Nat /\ (gateway => amount = order[o].amount) /\ o \in OrderCodes
    BY OrderFields, OrdersAreListed, PaymentConstants
  <1>5. d \in Transfer /\ d # NotMade
    <2>1. o # 0
      BY <1>4 DEF OrderCodes
    <2>2. d.order = o /\ NotMade.order = 0
      BY DEF NotMade
    <2> QED BY <1>4, <2>1, <2>2 DEF Transfer
  <1>6. d.order = o /\ d.amount = amount /\ d.gateway = gateway
    OBVIOUS
  <1>7. transfer' = [transfer EXCEPT ![t] = d]
    BY <1>3
  <1> HIDE DEF d
  <1>8. /\ transfer' \in [Transfers -> Transfer \cup {NotMade}]
        /\ transfer'[t] = d /\ \A u \in Transfers \ {t} : transfer'[u] = transfer[u]
    BY <1>5, <1>7 DEF TypeOK
  <1>9. TypeOK'
    BY <1>1, <1>8 DEF TypeOK
  <1>10. Quota'
    BY <1>1 DEF Quota, Undone
  <1>11. Placed'
    BY <1>1, <1>5, <1>6, <1>8 DEF Placed
  <1>12. Credited'
    <2>1. ASSUME NEW receipts \in Receipts, receipts[t] = 0
          PROVE  SumFunction([u \in Transfers |-> receipts[u] * transfer'[u].amount]) = Worth(receipts)
      BY <1>4, <1>6, <1>8, <2>1, WorthKept
    <2>2. \A p \in DOMAIN order : order[p].receipts \in Receipts /\ order[p].receipts[t] = 0
      BY <1>1, OrderFields DEF Receipted
    <2>3. \A s \in Requests : request[s].receipts \in Receipts /\ request[s].receipts[t] = 0
      BY <1>1, RequestFields DEF Receipted
    <2>4. \A p \in DOMAIN order :
            SumFunction([u \in Transfers |-> order[p].receipts[u] * transfer'[u].amount])
              = Worth(order[p].receipts)
      BY <2>1, <2>2
    <2>5. \A s \in Requests :
            SumFunction([u \in Transfers |-> request[s].receipts[u] * transfer'[u].amount])
              = Worth(request[s].receipts)
      BY <2>1, <2>3
    <2>6. /\ \A p \in DOMAIN order :
               /\ Worth(order[p].receipts)' = Worth(order[p].receipts)
          /\ \A s \in Requests : Worth(request[s].receipts)' = Worth(request[s].receipts)
      <3>1. ASSUME NEW p \in DOMAIN order
            PROVE  Worth(order[p].receipts)'
                     = SumFunction([u \in Transfers |-> order[p].receipts[u] * transfer'[u].amount])
        BY <1>1 DEF Worth
      <3>2. ASSUME NEW s \in Requests
            PROVE  Worth(request[s].receipts)'
                     = SumFunction([u \in Transfers |-> request[s].receipts[u] * transfer'[u].amount])
        BY <1>1 DEF Worth
      <3> QED BY <2>4, <2>5, <3>1, <3>2
    <2> QED BY <1>1, <2>6 DEF Credited
  <1>13. Receipted'
    BY <1>1, <1>5, <1>8 DEF Receipted
  <1>14. Covered'
    <2>1. hook[t] # "settle"
      BY <1>1 DEF Placed
    <2> QED BY <1>1, <1>4, <1>6, <1>8, <2>1 DEF Covered
  <1> QED BY <1>9, <1>10, <1>11, <1>12, <1>13, <1>14

(* A transfer is recorded.                                                  *)
LEMMA RecordKeeps ==
  ASSUME LedgerInv, NEW t \in Transfers, RecordTransfer(t)
  PROVE  LedgerInv'
  <1> USE DEF LedgerInv
  <1> DEFINE o == transfer[t].order
             a == transfer[t].amount
             received == order[o].received + a
             more == [order[o].receipts EXCEPT ![t] = @ + 1]
             d == [order[o] EXCEPT !.received = received, !.receipts = more]
             h == IF transfer[t].gateway \/ IsFullyPaid(order[o].amount, received)
                  THEN "settle" ELSE "none"
  <1>1. /\ transfer[t] # NotMade /\ order[o].status = "PENDING"
        /\ hook' = [hook EXCEPT ![t] = h]
        /\ UNCHANGED <<request, transfer, run, pkg, extended, faults>>
    BY DEF RecordTransfer
  <1>2. o \in DOMAIN order
    BY <1>1 DEF Placed
  <1>3. order[o] \in Order /\ order[o].receipts \in Receipts /\ order[o].received \in Nat
        /\ order[o].amount \in Nat /\ a \in Nat
    BY <1>2, OrdersAreListed, OrderFields, TransferFields
  <1>4. order' = [order EXCEPT ![o] = d]
    <2>1. order' = [order EXCEPT ![o].received = received, ![o].receipts[t] = @ + 1]
      BY DEF RecordTransfer
    <2> QED BY <1>2, <1>3, <2>1 DEF TypeOK, Order
  <1>5. more \in Receipts /\ Worth(more) = Worth(order[o].receipts) + a
    <2>1. order[o].receipts \in Receipts
      BY <1>3
    <2> QED BY <2>1, WorthOfOneMore
  <1>6. \A u \in Transfers \ {t} : more[u] = order[o].receipts[u]
    BY <1>3 DEF Receipts
  <1> HIDE DEF more
  <1>7. received \in Nat /\ received >= order[o].received /\ received >= a
    BY <1>3
  <1> HIDE DEF received
  <1>8. /\ d \in Order /\ d.kind = order[o].kind /\ d.amount = order[o].amount
        /\ d.received = received /\ d.receipts = more /\ d.status = "PENDING"
    BY <1>1, <1>3, <1>5, <1>7 DEF Order
  <1> HIDE DEF d
  <1>9. /\ order' \in Seq(Order) /\ Len(order') = Len(order) /\ DOMAIN order' = DOMAIN order
        /\ order'[o] = d /\ \A p \in DOMAIN order \ {o} : order'[p] = order[p]
    BY <1>2, <1>4, <1>8, OneOrder
  <1>10. /\ hook' \in [Transfers -> {"none", "settle"}] /\ hook'[t] = h
         /\ \A u \in Transfers \ {t} : hook'[u] = hook[u]
    BY <1>1 DEF TypeOK
  <1>11. TypeOK'
    BY <1>1, <1>9, <1>10 DEF TypeOK
  <1>12. Quota'
    BY <1>1, <1>9 DEF Quota, Undone
  <1>13. Placed'
    BY <1>1, <1>9, <1>10 DEF Placed
  <1>14. Credited'
    <2>1. \A receipts : Worth(receipts) = SumFunction([u \in Transfers |-> receipts[u] * transfer'[u].amount])
      BY <1>1 DEF Worth
    <2>2. ASSUME NEW p \in DOMAIN order'
          PROVE  /\ order'[p].received = Worth(order'[p].receipts)
                 /\ order'[p].status = "PAID" => order'[p].received >= order'[p].amount
      <3>1. CASE p = o
        <4>1. order[o].received = Worth(order[o].receipts)
          BY <1>2 DEF Credited
        <4>2. received = Worth(more)
          BY <1>5, <4>1 DEF received
        <4> QED BY <1>8, <1>9, <3>1, <4>2
      <3>2. CASE p # o
        BY <1>9, <3>2 DEF Credited
      <3> QED BY <3>1, <3>2
    <2>3. \A s \in Requests : request'[s].pc \in {"find", "cancel", "create"} =>
             request'[s].credit = Worth(request'[s].receipts)
      BY <1>1 DEF Credited
    <2> HIDE DEF LedgerInv
    <2> QED BY <2>1, <2>2, <2>3 DEF Credited, Worth
  <1>15. Receipted'
    <2>1. ASSUME NEW u \in Transfers, transfer[u] = NotMade, NEW p \in DOMAIN order
          PROVE  order'[p].receipts[u] = 0
      <3>1. u # t /\ order[p].receipts[u] = 0
        BY <1>1, <2>1 DEF Receipted
      <3> QED BY <1>6, <1>8, <1>9, <3>1
    <2> QED BY <1>1, <1>9, <2>1 DEF Receipted
  <1>16. Covered'
    <2>1. ASSUME NEW u \in Transfers, transfer[u].gateway
          PROVE  transfer[u].amount = order'[transfer[u].order].amount
      BY <1>8, <1>9, <2>1 DEF Covered, Placed, NotMade
    <2>2. ASSUME NEW u \in Transfers, hook'[u] = "settle"
          PROVE  order'[transfer[u].order].received >= order'[transfer[u].order].amount
      <3>1. CASE u = t
        <4>1. transfer[t].gateway => a = order[o].amount
          BY DEF Covered
        <4>2. received >= order[o].amount
          BY <1>7, <1>10, <2>2, <3>1, <4>1 DEF IsFullyPaid
        <4> QED BY <1>8, <1>9, <3>1, <4>2
      <3>2. CASE u # t
        <4>1. /\ transfer[u].order \in DOMAIN order
              /\ order[transfer[u].order].received >= order[transfer[u].order].amount
          BY <1>10, <2>2, <3>2 DEF Covered, Placed
        <4>2. CASE transfer[u].order = o
          BY <1>3, <1>7, <1>8, <1>9, <4>1, <4>2
        <4>3. CASE transfer[u].order # o
          BY <1>9, <4>1, <4>3
        <4> QED BY <4>2, <4>3
      <3> QED BY <3>1, <3>2
    <2> QED BY <1>1, <2>1, <2>2 DEF Covered
  <1> QED BY <1>11, <1>12, <1>13, <1>14, <1>15, <1>16
-----------------------------------------------------------------------------
(* What completes an order, and the rest of the system                      *)

(* A completion goes on; it reads the orders and writes none.               *)
LEMMA RunGoesOn ==
  ASSUME LedgerInv, NEW c \in OrderCodes \X Callers, NEW w \in Run, run' = [run EXCEPT ![c] = w],
         c[1] \in DOMAIN order, UNCHANGED <<order, request, transfer, hook, faults>>,
         pkg' \in [status: PackageStatus, extended: Nat, totalFeePaid: Nat], extended' \in Nat
  PROVE  LedgerInv'
  <1>1. /\ run' \in [OrderCodes \X Callers -> Run]
        /\ \A b \in (OrderCodes \X Callers) \ {c} : run'[b] = run[b]
    BY OneRun DEF LedgerInv
  <1>2. TypeOK'
    BY <1>1 DEF LedgerInv, TypeOK
  <1>3. RunsFit
    BY <1>1 DEF RunsFit, LedgerInv, Placed
  <1>4. (\A s \in Requests : RequestFits(s) /\ NotNew(s)) /\ HooksFit
    BY RequestsFit
  <1>5. SameLedger /\ Quota'
    BY <1>4, QuotaKept DEF SameLedger
  <1> QED BY <1>2, <1>3, <1>4, <1>5, LedgerKept

(* The package is only what it is.                                          *)
LEMMA PackageFields ==
  ASSUME TypeOK
  PROVE  /\ pkg \in [status: PackageStatus, extended: Nat, totalFeePaid: Nat]
         /\ pkg.status \in PackageStatus /\ pkg.extended \in Nat /\ pkg.totalFeePaid \in Nat
         /\ extended \in Nat /\ faults \in Nat
  BY DEF TypeOK

(* The device's call.                                                       *)
LEMMA DeviceKeeps ==
  ASSUME LedgerInv, NEW o \in DOMAIN order, DeviceCall(o)
  PROVE  LedgerInv'
  <1> DEFINE c == <<o, "device">>
             w == [run[c] EXCEPT !.pc = "kiosk", !.flow = "kiosk"]
  <1>1. c \in OrderCodes \X Callers /\ c[1] = o
    BY OrdersAreListed DEF Callers, LedgerInv
  <1>2. run' = [run EXCEPT ![c] = w] /\ UNCHANGED <<order, request, transfer, hook, pkg, extended, faults>>
    BY <1>1 DEF DeviceCall, LedgerInv, TypeOK
  <1>3. run[c] \in Run
    BY <1>1, RunFields DEF LedgerInv
  <1>4. w \in Run
    BY <1>3 DEF Run, FlowOptions, Flows
  <1> HIDE DEF c, w
  <1> QED BY <1>1, <1>2, <1>4, RunGoesOn, PackageFields DEF LedgerInv

(* What a step of a completion does.                                        *)
LEMMA RunSteps ==
  ASSUME LedgerInv, NEW c \in OrderCodes \X Callers, RunStep(c)
  PROVE  /\ run[c].pc \notin {"none", "done"}
         /\ UNCHANGED <<order, request, transfer, hook, faults>>
         /\ \E w \in Run :
              /\ run' = [run EXCEPT ![c] = w] /\ w.flow = run[c].flow
              /\ w.pc \in {"saveSubscriber", "claim", "update", "fallback", "done"}
         /\ pkg' \in [status: PackageStatus, extended: Nat, totalFeePaid: Nat] /\ extended' \in Nat
  <1> USE DEF LedgerInv
  <1>1. /\ run[c] \in Run /\ run[c].flow \in FlowOptions /\ run[c].status \in PackageStatus
        /\ run[c].extended \in Nat /\ run[c].extended + 1 \in Nat
    BY RunFields
  <1>2. /\ pkg \in [status: PackageStatus, extended: Nat, totalFeePaid: Nat]
        /\ pkg.status \in PackageStatus /\ pkg.extended \in Nat /\ extended \in Nat
    BY PackageFields
  <1>3. run[c].pc # "none" => order[c[1]].amount \in Nat /\ pkg.totalFeePaid + order[c[1]].amount \in Nat
    BY OrderFields, PackageFields DEF Placed
  <1>4. CASE ReadSubscriber(c)
    <2> DEFINE w == [run[c] EXCEPT !.pc = "saveSubscriber", !.extended = extended]
    <2>1. /\ run[c].pc = "subscriber" /\ run' = [run EXCEPT ![c] = w]
          /\ UNCHANGED <<order, request, transfer, hook, pkg, extended, faults>>
      BY <1>4 DEF ReadSubscriber, TypeOK
    <2>2. w \in Run /\ w.flow = run[c].flow /\ w.pc = "saveSubscriber"
      BY <1>1, <1>2 DEF Run
    <2> HIDE DEF w
    <2> QED BY <1>2, <2>1, <2>2
  <1>5. CASE SaveSubscriber(c)
    <2> DEFINE w == [run[c] EXCEPT !.pc = "done"]
    <2>1. /\ run[c].pc = "saveSubscriber" /\ run' = [run EXCEPT ![c] = w]
          /\ extended' = run[c].extended + 1
          /\ UNCHANGED <<order, request, transfer, hook, pkg, faults>>
      BY <1>5 DEF SaveSubscriber, TypeOK
    <2>2. w \in Run /\ w.flow = run[c].flow /\ w.pc = "done"
      BY <1>1 DEF Run
    <2> HIDE DEF w
    <2> QED BY <1>1, <1>2, <2>1, <2>2
  <1>6. CASE CheckKioskOrder(c)
    <2> DEFINE p == IF order[c[1]].status = "PAID" /\ pkg.status # "PICKED_UP"
                    THEN "claim" ELSE "done"
               w == [run[c] EXCEPT !.pc = p]
    <2>1. /\ run[c].pc = "kiosk" /\ run' = [run EXCEPT ![c] = w]
          /\ UNCHANGED <<order, request, transfer, hook, pkg, extended, faults>>
      BY <1>6 DEF CheckKioskOrder, TypeOK
    <2>2. p \in {"claim", "done"}
      OBVIOUS
    <2> HIDE DEF p
    <2>3. w \in Run /\ w.flow = run[c].flow /\ w.pc \in {"claim", "done"}
      BY <1>1, <2>2 DEF Run
    <2> HIDE DEF w
    <2> QED BY <1>2, <2>1, <2>3
  <1>7. CASE KioskClaim(c)
    <2> DEFINE w == [run[c] EXCEPT !.pc = "done"]
    <2>1. /\ run[c].pc = "claim" /\ run' = [run EXCEPT ![c] = w]
          /\ UNCHANGED <<order, request, transfer, hook, extended, faults>>
          /\ pkg' = pkg \/ pkg' = [pkg EXCEPT !.status = "PICKED_UP",
                                              !.totalFeePaid = @ + order[c[1]].amount]
      BY <1>7 DEF KioskClaim, TypeOK
    <2>2. w \in Run /\ w.flow = run[c].flow /\ w.pc = "done"
      BY <1>1 DEF Run
    <2> HIDE DEF w
    <2>3. pkg' \in [status: PackageStatus, extended: Nat, totalFeePaid: Nat]
      BY <1>2, <1>3, <2>1 DEF PackageStatus
    <2> QED BY <1>2, <2>1, <2>2, <2>3
  <1>8. CASE ReadPackage(c)
    <2> DEFINE w == [run[c] EXCEPT !.pc = "update", !.status = pkg.status, !.extended = pkg.extended]
    <2>1. /\ run[c].pc = "remote" /\ run' = [run EXCEPT ![c] = w]
          /\ UNCHANGED <<order, request, transfer, hook, pkg, extended, faults>>
      BY <1>8 DEF ReadPackage, TypeOK
    <2>2. w \in Run /\ w.flow = run[c].flow /\ w.pc = "update"
      BY <1>1, <1>2 DEF Run
    <2> HIDE DEF w
    <2> QED BY <1>2, <2>1, <2>2
  <1>9. CASE ExtendPackage(c)
    <2> DEFINE w == [run[c] EXCEPT !.pc = "done"]
               v == [run[c] EXCEPT !.pc = "fallback"]
               s == IF run[c].status = "OVERDUE" THEN "WAITING_FOR_PICKUP" ELSE pkg.status
    <2>1. /\ run[c].pc = "update"
          /\ UNCHANGED <<order, request, transfer, hook, extended, faults>>
          /\ \/ /\ run' = [run EXCEPT ![c] = w]
                /\ pkg' = [status |-> s, extended |-> run[c].extended + 1,
                           totalFeePaid |-> pkg.totalFeePaid + order[c[1]].amount]
             \/ run' = [run EXCEPT ![c] = v] /\ pkg' = pkg
      BY <1>9 DEF ExtendPackage, TypeOK
    <2>2. /\ w \in Run /\ w.flow = run[c].flow /\ w.pc = "done"
          /\ v \in Run /\ v.flow = run[c].flow /\ v.pc = "fallback"
      BY <1>1 DEF Run
    <2>3. s \in PackageStatus
      BY <1>2 DEF PackageStatus
    <2> HIDE DEF w, v, s
    <2>4. pkg' \in [status: PackageStatus, extended: Nat, totalFeePaid: Nat]
      BY <1>1, <1>2, <1>3, <2>1, <2>3
    <2> QED BY <1>2, <2>1, <2>2, <2>4
  <1>10. CASE RecordFeeOnly(c)
    <2> DEFINE w == [run[c] EXCEPT !.pc = "done"]
    <2>1. /\ run[c].pc = "fallback" /\ run' = [run EXCEPT ![c] = w]
          /\ UNCHANGED <<order, request, transfer, hook, extended, faults>>
          /\ pkg' = [pkg EXCEPT !.extended = run[c].extended + 1,
                                !.totalFeePaid = @ + order[c[1]].amount]
      BY <1>10 DEF RecordFeeOnly, TypeOK
    <2>2. w \in Run /\ w.flow = run[c].flow /\ w.pc = "done"
      BY <1>1 DEF Run
    <2> HIDE DEF w
    <2>3. pkg' \in [status: PackageStatus, extended: Nat, totalFeePaid: Nat]
      BY <1>1, <1>2, <1>3, <2>1
    <2> QED BY <1>2, <2>1, <2>2, <2>3
  <1> QED BY <1>4, <1>5, <1>6, <1>7, <1>8, <1>9, <1>10 DEF RunStep

(* A completion's step keeps the ledger.                                    *)
LEMMA RunStepKeeps ==
  ASSUME LedgerInv, NEW c \in OrderCodes \X Callers, RunStep(c)
  PROVE  LedgerInv'
  <1>1. PICK w \in Run : run' = [run EXCEPT ![c] = w]
    BY RunSteps
  <1>2. c[1] \in DOMAIN order
    BY RunSteps DEF LedgerInv, Placed
  <1> QED BY <1>1, <1>2, RunSteps, RunGoesOn

(* What else happens to the package keeps its type.                         *)
LEMMA PackageChangesKeep ==
  ASSUME LedgerInv, PickupWithoutFee \/ ReturnToStorage \/ MarkOverdue
  PROVE  LedgerInv'
  <1>1. /\ UNCHANGED <<order, request, transfer, hook, run, extended, faults>>
        /\ \E to \in PackageStatus : pkg' = [pkg EXCEPT !.status = to]
    BY DEF PickupWithoutFee, ReturnToStorage, MarkOverdue, PackageChanges, PackageStatus
  <1>2. pkg' \in [status: PackageStatus, extended: Nat, totalFeePaid: Nat]
    BY <1>1, PackageFields DEF LedgerInv
  <1>3. TypeOK'
    BY <1>1, <1>2 DEF LedgerInv, TypeOK
  <1>4. (\A s \in Requests : RequestFits(s) /\ NotNew(s)) /\ HooksFit /\ RunsFit
    BY <1>1, RequestsFit
  <1>5. SameLedger /\ Quota'
    BY <1>1, <1>4, QuotaKept DEF SameLedger
  <1> QED BY <1>1, <1>3, <1>4, <1>5, LedgerKept

(* A fault forgets what is in flight, and no order.                         *)
LEMMA FaultForgets ==
  ASSUME LedgerInv, CallFails \/ ServerRestart
  PROVE  /\ UNCHANGED <<order, transfer, pkg, extended>> /\ faults' = faults + 1
         /\ request' \in [Requests -> Request] /\ hook' \in [Transfers -> {"none", "settle"}]
         /\ run' \in [OrderCodes \X Callers -> Run]
         /\ \A r \in Requests : request'[r] = request[r] \/ request'[r] = NoRequest
         /\ \A t \in Transfers : hook'[t] = hook[t] \/ hook'[t] = "none"
         /\ \A c \in OrderCodes \X Callers :
              \/ run'[c] = run[c]
              \/ run[c].pc \notin {"none", "done"} /\ run'[c] = NoRun
  <1>1. /\ request \in [Requests -> Request] /\ hook \in [Transfers -> {"none", "settle"}]
        /\ run \in [OrderCodes \X Callers -> Run]
    BY DEF LedgerInv, TypeOK
  <1>2. UNCHANGED <<order, transfer, pkg, extended>> /\ faults' = faults + 1
    BY DEF CallFails, ServerRestart
  <1>3. CASE ServerRestart
    <2>1. /\ request' = [r \in Requests |-> NoRequest]
          /\ hook' = [t \in Transfers |-> "none"]
          /\ run' = [c \in OrderCodes \X Callers |->
                       IF run[c].pc \in {"none", "done"} THEN run[c] ELSE NoRun]
      BY <1>3 DEF ServerRestart
    <2> QED BY <1>1, <1>2, <2>1, NothingIsTyped
  <1>4. ASSUME NEW r \in Requests, request' = [request EXCEPT ![r] = NoRequest],
               UNCHANGED <<hook, run>>
        PROVE  /\ request' \in [Requests -> Request]
               /\ \A s \in Requests : request'[s] = request[s] \/ request'[s] = NoRequest
    BY <1>1, <1>4, NothingIsTyped
  <1>5. ASSUME NEW t \in Transfers, hook' = [hook EXCEPT ![t] = "none"],
               UNCHANGED <<request, run>>
        PROVE  /\ hook' \in [Transfers -> {"none", "settle"}]
               /\ \A u \in Transfers : hook'[u] = hook[u] \/ hook'[u] = "none"
    BY <1>1, <1>5
  <1>6. ASSUME NEW c \in OrderCodes \X Callers, run[c].pc \notin {"none", "done"},
               run' = [run EXCEPT ![c] = NoRun], UNCHANGED <<request, hook>>
        PROVE  /\ run' \in [OrderCodes \X Callers -> Run]
               /\ \A b \in OrderCodes \X Callers :
                    \/ run'[b] = run[b]
                    \/ run[b].pc \notin {"none", "done"} /\ run'[b] = NoRun
    BY <1>1, <1>6, NothingIsTyped
  <1>7. CASE CallFails
    <2>1. CASE (\E r \in Requests : request' = [request EXCEPT ![r] = NoRequest])
               /\ UNCHANGED <<hook, run>>
      BY <1>1, <1>2, <1>4, <2>1
    <2>2. CASE (\E t \in Transfers : hook' = [hook EXCEPT ![t] = "none"])
               /\ UNCHANGED <<request, run>>
      BY <1>1, <1>2, <1>5, <2>2
    <2>3. CASE /\ \E c \in OrderCodes \X Callers :
                    run[c].pc \notin {"none", "done"} /\ run' = [run EXCEPT ![c] = NoRun]
               /\ UNCHANGED <<request, hook>>
      BY <1>1, <1>2, <1>6, <2>3
    <2>4. \/ (\E r \in Requests : request' = [request EXCEPT ![r] = NoRequest])
             /\ UNCHANGED <<hook, run>>
          \/ (\E t \in Transfers : hook' = [hook EXCEPT ![t] = "none"])
             /\ UNCHANGED <<request, run>>
          \/ /\ \E c \in OrderCodes \X Callers :
                   run[c].pc \notin {"none", "done"} /\ run' = [run EXCEPT ![c] = NoRun]
             /\ UNCHANGED <<request, hook>>
      BY Zenon, <1>7 DEF CallFails
    <2> QED BY <2>1, <2>2, <2>3, <2>4
  <1> QED BY <1>3, <1>7

LEMMA FaultKeeps ==
  ASSUME LedgerInv, CallFails \/ ServerRestart
  PROVE  LedgerInv'
  <1>1. /\ UNCHANGED <<order, transfer, pkg, extended>> /\ faults' \in Nat
        /\ request' \in [Requests -> Request] /\ hook' \in [Transfers -> {"none", "settle"}]
        /\ run' \in [OrderCodes \X Callers -> Run]
    BY FaultForgets, PackageFields DEF LedgerInv
  <1>3. TypeOK'
    BY <1>1 DEF LedgerInv, TypeOK
  <1>4. \A s \in Requests : RequestFits(s) /\ NotNew(s)
    BY FaultForgets, RequestsFit
  <1>5. HooksFit /\ RunsFit
    BY FaultForgets, NothingIsTyped DEF HooksFit, RunsFit, LedgerInv, Placed
  <1>6. SameLedger /\ Quota'
    BY <1>1, <1>4, QuotaKept DEF SameLedger
  <1> QED BY <1>1, <1>3, <1>4, <1>5, <1>6, LedgerKept

(* At first there are no orders.                                            *)
LEMMA LedgerAtFirst ==
  ASSUME Init
  PROVE  LedgerInv
  <1> USE DEF Init
  <1>1. /\ Len(order) = 0 /\ order \in Seq(Order) /\ DOMAIN order = {}
    OBVIOUS
  <1>2. /\ request \in [Requests -> Request] /\ \A r \in Requests : request[r] = NoRequest
        /\ run \in [OrderCodes \X Callers -> Run] /\ \A c \in OrderCodes \X Callers : run[c] = NoRun
    BY NothingIsTyped
  <1>3. pkg \in [status: PackageStatus, extended: Nat, totalFeePaid: Nat]
    BY DEF PackageStatus
  <1>4. TypeOK
    BY <1>1, <1>2, <1>3, PaymentConstants DEF TypeOK
  <1>5. Undone = {}
    BY <1>2, NothingIsTyped DEF Undone
  <1>6. Quota
    BY <1>1, <1>5, PaymentConstants, FS_EmptySet DEF Quota
  <1>7. Placed /\ Credited /\ Receipted
    BY <1>1, <1>2, NothingIsTyped DEF Placed, Credited, Receipted, NoRequest, NoReceipts
  <1>8. Covered
    BY DEF Covered, NotMade
  <1> QED BY <1>4, <1>6, <1>7, <1>8 DEF LedgerInv

(* Every step keeps the ledger.                                             *)
LEMMA LedgerStep ==
  ASSUME LedgerInv, [Next]_vars
  PROVE  LedgerInv'
  <1>1. CASE \E r \in Requests :
               CreatePaymentIntent(r) \/ CreateSubscriptionIntent(r) \/ RequestStep(r)
    <2>1. PICK r \in Requests :
            CreatePaymentIntent(r) \/ CreateSubscriptionIntent(r) \/ RequestStep(r)
      BY <1>1
    <2>5. "unset" \in FlowOptions
      BY DEF FlowOptions
    <2>2. CASE CreatePaymentIntent(r)
      <3>1. \/ \E flow \in FlowOptions : StartIntent(r, "package", flow)
            \/ StartIntent(r, "planOnPackage", "unset")
        BY <2>2 DEF CreatePaymentIntent
      <3> QED BY <2>5, <3>1, StartKeeps
    <2>4. CASE CreateSubscriptionIntent(r)
      BY <2>4, <2>5, StartKeeps DEF CreateSubscriptionIntent
    <2>3. CASE RequestStep(r)
      BY <2>3, FindKeeps, SaveKeeps, RenewKeeps, CollectKeeps, CancelKeeps, CreateKeeps,
         SettleCreditKeeps DEF RequestStep
    <2> QED BY <2>1, <2>2, <2>3, <2>4
  <1>2. CASE \E t \in Transfers : MakeTransfer(t) \/ RecordTransfer(t) \/ SettleOrder(t)
    BY <1>2, MakeKeeps, RecordKeeps, SettleOrderKeeps
  <1>3. CASE \E o \in DOMAIN order : DeviceCall(o)
    BY <1>3, DeviceKeeps
  <1>4. CASE \E c \in OrderCodes \X Callers : RunStep(c)
    BY <1>4, RunStepKeeps
  <1>5. CASE PickupWithoutFee \/ ReturnToStorage \/ MarkOverdue
    BY <1>5, PackageChangesKeep
  <1>6. CASE CallFails \/ ServerRestart
    BY <1>6, FaultKeeps
  <1>7. CASE UNCHANGED vars
    <2>1. UNCHANGED <<order, request, transfer, hook, run, pkg, extended, faults>>
      BY <1>7 DEF vars
    <2>2. TypeOK'
      BY <2>1 DEF LedgerInv, TypeOK
    <2>3. (\A s \in Requests : RequestFits(s) /\ NotNew(s)) /\ HooksFit /\ RunsFit
      BY <2>1, RequestsFit
    <2>4. SameLedger /\ Quota'
      BY <2>1, <2>3, QuotaKept DEF SameLedger
    <2> QED BY <2>1, <2>2, <2>3, <2>4, LedgerKept
  <1> QED BY <1>1, <1>2, <1>3, <1>4, <1>5, <1>6, <1>7 DEF Next

(* The invariant of the orders: types, places for the orders that may come, *)
(* and a ledger that agrees, of orders and of the credit in transit.        *)
THEOREM LedgerInvariant == Spec => []LedgerInv
  <1>1. Init => LedgerInv
    BY LedgerAtFirst
  <1>2. LedgerInv /\ [Next]_vars => LedgerInv'
    BY LedgerStep
  <1> QED BY <1>1, <1>2, PTL DEF Spec

(* Every document and every call in flight has its type.                    *)
THEOREM TypeCorrect == Spec => []TypeOK
  <1>1. LedgerInv => TypeOK
    BY DEF LedgerInv
  <1> QED BY <1>1, LedgerInvariant, PTL

(* receivedAmount is what the receipts add up to, through every credit      *)
(* carried over, and a paid order has been paid for.                        *)
THEOREM ReceiptsAddUp == Spec => []LedgerAgrees
  <1>1. LedgerInv => LedgerAgrees
    <2> SUFFICES ASSUME LedgerInv, NEW o \in DOMAIN order
                 PROVE  /\ order[o].received = ReceiptTotal(o)
                        /\ order[o].status = "PAID" => ReceiptTotal(o) >= order[o].amount
      BY DEF LedgerAgrees
    <2>1. ReceiptTotal(o) = Worth(order[o].receipts)
      BY DEF ReceiptTotal, Worth
    <2> QED BY <2>1 DEF LedgerInv, Credited
  <1> QED BY <1>1, LedgerInvariant, PTL
-----------------------------------------------------------------------------
(* The fees of the package                                                  *)

(* Which step follows which, and what each pays.                            *)
LEMMA RunTransitions ==
  ASSUME LedgerInv, NEW c \in OrderCodes \X Callers, RunStep(c)
  PROVE  /\ run'[c].flow = run[c].flow
         /\ \A b \in (OrderCodes \X Callers) \ {c} : run'[b] = run[b]
         /\ pkg.status = "PICKED_UP" => pkg'.status = "PICKED_UP"
         /\ \/ /\ pkg' = pkg
               /\ \/ run[c].pc = "subscriber" /\ run'[c].pc = "saveSubscriber"
                  \/ run[c].pc = "saveSubscriber" /\ run'[c].pc = "done"
                  \/ run[c].pc = "kiosk" /\ run'[c].pc = "done"
                  \/ /\ run[c].pc = "kiosk" /\ run'[c].pc = "claim"
                     /\ order[c[1]].status = "PAID"
                  \/ run[c].pc = "claim" /\ run'[c].pc = "done"
                  \/ run[c].pc = "remote" /\ run'[c].pc = "update"
                  \/ run[c].pc = "update" /\ run'[c].pc = "fallback"
            \/ /\ run[c].pc = "claim" /\ run'[c].pc = "done"
               /\ pkg.status # "PICKED_UP" /\ pkg'.status = "PICKED_UP"
               /\ pkg'.totalFeePaid = pkg.totalFeePaid + order[c[1]].amount
            \/ /\ run[c].pc \in {"update", "fallback"} /\ run'[c].pc = "done"
               /\ run[c].pc = "update" => pkg.status # "PICKED_UP"
               /\ run[c].pc = "fallback" => pkg'.status = pkg.status
               /\ pkg'.totalFeePaid = pkg.totalFeePaid + order[c[1]].amount
  <1> USE DEF LedgerInv
  <1>1. PICK w \in Run : run' = [run EXCEPT ![c] = w] /\ w.flow = run[c].flow
    BY RunSteps
  <1>2. run'[c].flow = run[c].flow /\ \A b \in (OrderCodes \X Callers) \ {c} : run'[b] = run[b]
    BY <1>1, OneRun
  <1>3. run[c] \in Run /\ run \in [OrderCodes \X Callers -> Run]
    BY RunFields DEF TypeOK
  <1>4. pkg = [status |-> pkg.status, extended |-> pkg.extended, totalFeePaid |-> pkg.totalFeePaid]
    BY PackageFields
  <1>5. CASE ReadSubscriber(c)
    <2>1. run[c].pc = "subscriber" /\ run'[c].pc = "saveSubscriber" /\ pkg' = pkg
      BY <1>3, <1>5 DEF ReadSubscriber, Run
    <2> QED BY <1>2, <2>1
  <1>6. CASE SaveSubscriber(c)
    <2>1. run[c].pc = "saveSubscriber" /\ run'[c].pc = "done" /\ pkg' = pkg
      BY <1>3, <1>6 DEF SaveSubscriber, Run
    <2> QED BY <1>2, <2>1
  <1>7. CASE CheckKioskOrder(c)
    <2>1. /\ run[c].pc = "kiosk" /\ pkg' = pkg
          /\ \/ run'[c].pc = "done"
             \/ run'[c].pc = "claim" /\ order[c[1]].status = "PAID"
      BY <1>3, <1>7 DEF CheckKioskOrder, Run
    <2> QED BY <1>2, <2>1
  <1>8. CASE KioskClaim(c)
    <2>1. run[c].pc = "claim" /\ run'[c].pc = "done"
      BY <1>3, <1>8 DEF KioskClaim, Run
    <2>2. CASE pkg.status \in PickupableStatuses
      <3>1. pkg.status # "PICKED_UP"
        BY <2>2 DEF PickupableStatuses
      <3>2. pkg' = [pkg EXCEPT !.status = "PICKED_UP", !.totalFeePaid = @ + order[c[1]].amount]
        BY <1>8, <2>2 DEF KioskClaim
      <3>3. /\ pkg'.status = "PICKED_UP"
            /\ pkg'.totalFeePaid = pkg.totalFeePaid + order[c[1]].amount
        BY <3>2, PackageFields
      <3> QED BY <1>2, <2>1, <3>1, <3>3
    <2>3. CASE pkg.status \notin PickupableStatuses
      <3>1. pkg' = pkg
        BY <1>8, <2>3 DEF KioskClaim
      <3> QED BY <1>2, <2>1, <3>1
    <2> QED BY <2>2, <2>3
  <1>9. CASE ReadPackage(c)
    <2>1. run[c].pc = "remote" /\ run'[c].pc = "update" /\ pkg' = pkg
      BY <1>3, <1>9 DEF ReadPackage, Run
    <2> QED BY <1>2, <2>1
  <1>10. CASE ExtendPackage(c)
    <2>1. CASE pkg.status # "PICKED_UP"
      <3>1. /\ run[c].pc = "update" /\ run'[c].pc = "done"
            /\ pkg'.totalFeePaid = pkg.totalFeePaid + order[c[1]].amount
        BY <1>3, <1>10, <2>1 DEF ExtendPackage, Run
      <3> QED BY <1>2, <2>1, <3>1
    <2>2. CASE pkg.status = "PICKED_UP"
      <3>1. run[c].pc = "update" /\ run'[c].pc = "fallback" /\ pkg' = pkg
        BY <1>3, <1>10, <2>2 DEF ExtendPackage, Run
      <3> QED BY <1>2, <2>2, <3>1
    <2> QED BY <2>1, <2>2
  <1>11. CASE RecordFeeOnly(c)
    <2>1. /\ run[c].pc = "fallback" /\ run'[c].pc = "done"
          /\ pkg' = [pkg EXCEPT !.extended = run[c].extended + 1,
                                !.totalFeePaid = @ + order[c[1]].amount]
      BY <1>3, <1>11 DEF RecordFeeOnly, Run
    <2>2. /\ pkg'.status = pkg.status
          /\ pkg'.totalFeePaid = pkg.totalFeePaid + order[c[1]].amount
      BY <2>1, PackageFields
    <2> QED BY <1>2, <2>1, <2>2
  <1> QED BY <1>5, <1>6, <1>7, <1>8, <1>9, <1>10, <1>11 DEF RunStep

(* Orders keep their kind and amount, and how they ended; some may be new.  *)
(* What changes the flow of an order in use leaves a trace.                 *)
SameOrders ==
    /\ DOMAIN order \subseteq DOMAIN order'
    /\ \A o \in DOMAIN order :
         /\ order'[o].kind = order[o].kind /\ order'[o].amount = order[o].amount
         /\ order[o].status # "PENDING" => order'[o].status = order[o].status
         /\ order[o].relabelled => order'[o].relabelled
         /\ IsInUse(o) => order'[o].relabelled \/ order'[o].flow = order[o].flow

(* An intent that settles nothing keeps them, and starts no completion.     *)
LEMMA OrdersKept ==
  ASSUME LedgerInv, NEW r \in Requests,
         \/ FindPending(r) \/ SavePending(r) \/ RenewSubscription(r)
         \/ CollectCredit(r) \/ CancelPending(r) \/ CreateOrder(r)
  PROVE  SameOrders /\ UNCHANGED <<run, pkg>>
  <1> USE DEF LedgerInv
  <1>1. \A o \in DOMAIN order : order[o] \in Order
    BY OrdersAreListed
  <1>2. CASE FindPending(r) \/ RenewSubscription(r) \/ CollectCredit(r)
    <2>1. UNCHANGED <<order, run, pkg>>
      BY <1>2 DEF FindPending, RenewSubscription, CollectCredit
    <2> QED BY SMTT(30), <2>1 DEF SameOrders
  <1>3. CASE SavePending(r)
    <2> DEFINE t == request[r].target
               f == request[r].flow
    <2>1. /\ UNCHANGED <<run, pkg>>
          /\ order' = order \/ order' = [order EXCEPT ![t].flow = f,
                                                      ![t].relabelled = @ \/ IsInUse(t)]
      BY <1>3 DEF SavePending
    <2>2. DOMAIN order' = DOMAIN order
      BY <2>1
    <2> HIDE DEF f, t
    <2>3. \A o \in DOMAIN order :
            \/ order'[o] = order[o]
            \/ order'[o] = [order[o] EXCEPT !.flow = f, !.relabelled = @ \/ IsInUse(o)]
      BY <1>1, <2>1 DEF TypeOK, Order
    <2>4. ASSUME NEW o \in DOMAIN order
          PROVE  /\ order'[o].kind = order[o].kind /\ order'[o].amount = order[o].amount
                 /\ order'[o].status = order[o].status
                 /\ order[o].relabelled => order'[o].relabelled
                 /\ IsInUse(o) => order'[o].relabelled \/ order'[o].flow = order[o].flow
      BY <1>1, <2>3 DEF Order
    <2> QED BY <2>1, <2>2, <2>4 DEF SameOrders
  <1>4. CASE CancelPending(r)
    <2>1. /\ DOMAIN order' = DOMAIN order /\ UNCHANGED <<run, pkg>>
          /\ \A o \in DOMAIN order :
               \/ order'[o] = order[o]
               \/ /\ order'[o] = [order[o] EXCEPT !.status = "CANCELLED"]
                  /\ order[o].status = "PENDING"
      BY <1>4 DEF CancelPending, Pending
    <2>2. ASSUME NEW o \in DOMAIN order
          PROVE  /\ order'[o].kind = order[o].kind /\ order'[o].amount = order[o].amount
                 /\ order[o].status # "PENDING" => order'[o].status = order[o].status
                 /\ order'[o].relabelled = order[o].relabelled
                 /\ order'[o].flow = order[o].flow
      BY <1>1, <2>1 DEF Order
    <2> QED BY <2>1, <2>2 DEF SameOrders
  <1>5. CASE CreateOrder(r)
    <2>1. PICK d : order' = Append(order, d) /\ UNCHANGED <<run, pkg>>
      BY <1>5 DEF CreateOrder
    <2>2. /\ DOMAIN order \subseteq DOMAIN order'
          /\ \A o \in DOMAIN order : order'[o] = order[o]
      BY <2>1, OrdersAreListed
    <2> QED BY <2>1, <2>2 DEF SameOrders
  <1> QED BY <1>2, <1>3, <1>4, <1>5

(* The order that opened the box.                                           *)
KioskFee(o) ==
    /\ order[o].status = "PAID"
    /\ pkg.totalFeePaid = RemoteFees + order[o].amount
    /\ \/ order[o].flow = "kiosk" /\ o \notin RemoteDone
       \/ order[o].relabelled

(* The fee of fulfilled orders that stay the same.                          *)
LEMMA FeesStay ==
  ASSUME LedgerInv, FeesKept, SameOrders, RemoteDone' = RemoteDone,
         pkg'.totalFeePaid = pkg.totalFeePaid,
         pkg.status = "PICKED_UP" => pkg'.status = "PICKED_UP"
  PROVE  FeesKept'
  <1>1. RemoteFees' = RemoteFees
    <2> DEFINE f == [o \in RemoteDone |-> order[o].amount]
               g == [o \in RemoteDone |-> order'[o].amount]
    <2>1. \A o \in RemoteDone : order'[o].amount = order[o].amount
      BY DEF RemoteDone, SameOrders
    <2>2. f = g
      BY <2>1
    <2> QED BY <2>2 DEF RemoteFees
  <1>2. CASE pkg.totalFeePaid = RemoteFees
    BY <1>1, <1>2 DEF FeesKept, FeesAddUp
  <1>3. CASE pkg.totalFeePaid # RemoteFees
    <2>1. PICK o \in DOMAIN order : KioskFee(o) /\ pkg.status = "PICKED_UP"
      BY <1>3 DEF FeesKept, FeesAddUp, KioskFee
    <2>2. o \in DOMAIN order' /\ KioskFee(o)'
      BY <1>1, <2>1 DEF KioskFee, SameOrders, IsInUse
    <2>3. \E p \in DOMAIN order' : KioskFee(p)'
      BY <2>2
    <2> QED BY <2>1, <2>3 DEF FeesKept, FeesAddUp, KioskFee
  <1> QED BY <1>2, <1>3

(* The fees of one more order.                                              *)
LEMMA FeesOfOneMore ==
  ASSUME LedgerInv, UNCHANGED order, NEW o \in DOMAIN order, o \notin RemoteDone,
         RemoteDone' = RemoteDone \cup {o}
  PROVE  RemoteFees' = RemoteFees + order[o].amount /\ RemoteFees \in Nat
  <1> DEFINE S == RemoteDone \cup {o}
             f == [p \in S |-> order[p].amount]
             g == [p \in RemoteDone |-> order[p].amount]
  <1>1. S \ {o} = RemoteDone /\ S \subseteq DOMAIN order /\ RemoteDone \subseteq DOMAIN order
    BY DEF RemoteDone
  <1>2. IsFiniteSet(S) /\ IsFiniteSet(RemoteDone) /\ o \in S
    BY <1>1, OrdersAreListed, FS_Subset DEF LedgerInv
  <1>3. \A p \in S : f[p] \in Nat /\ f[p] = order[p].amount
    BY <1>1, OrderFields DEF LedgerInv
  <1>4. RemoteFees = SumFunction(g) /\ RemoteFees' = SumFunction(f)
    BY DEF RemoteFees
  <1>5. f = [p \in S |-> f[p]] /\ g = [p \in S \ {o} |-> f[p]]
    BY <1>1, <1>3
  <1>6. g = [p \in RemoteDone |-> g[p]] /\ \A p \in RemoteDone : g[p] \in Nat
    BY <1>3
  <1> HIDE DEF f, g, S
  <1>7. \A p \in S : f[p] \in Int
    BY <1>3
  <1>8. SumFunction(f) = f[o] + SumFunction(g)
    BY <1>2, <1>5, <1>7, SumSplits
  <1>9. SumFunction(g) \in Nat
    BY <1>2, <1>6, TotalType
  <1> QED BY <1>2, <1>3, <1>4, <1>8, <1>9

(* The orders after a step are numbered.                                    *)
LEMMA OrdersStayListed ==
  ASSUME TypeOK'
  PROVE  DOMAIN order' \subseteq OrderCodes
  <1>1. order' \in Seq(Order) /\ Len(order') \in Nat /\ Len(order') <= MaxOrders
    BY DEF TypeOK
  <1> QED BY <1>1, PaymentConstants DEF OrderCodes

(* A completion is a pair of an order and a caller.                         *)
LEMMA WebhookRuns ==
  \A o \in OrderCodes : <<o, "webhook">> \in OrderCodes \X Callers
  BY DEF Callers

(* A step that starts and ends no completion, and pays nothing, keeps both. *)
LEMMA FeesFrame ==
  ASSUME FeesInv, LedgerInv', SameOrders, UNCHANGED run,
         pkg'.totalFeePaid = pkg.totalFeePaid,
         pkg.status = "PICKED_UP" => pkg'.status = "PICKED_UP"
  PROVE  Completing' /\ FeesKept'
  <1>1. \A c \in OrderCodes \X Callers : run[c].pc # "none" => c[1] \in DOMAIN order
    BY DEF FeesInv, LedgerInv, Placed
  <1>2. Completing'
    <2>1. ASSUME NEW c \in OrderCodes \X Callers
          PROVE  RunFits(c, run[c], order'[c[1]])
      <3>1. RunFits(c, run[c], order[c[1]])
        BY DEF Completing, FeesInv
      <3>2. CASE run[c].pc = "none"
        BY <3>2 DEF RunFits
      <3>3. CASE run[c].pc # "none"
        <4>1. c[2] = "webhook" \/ (c[2] = "device" /\ c = <<c[1], "device">>)
          BY DEF Callers
        <4>2. run[c].pc \in {"kiosk", "claim"} \/ c[2] = "webhook" => IsInUse(c[1])
          BY <3>1, <3>3, <4>1 DEF RunFits, IsInUse
        <4>3. /\ c[1] \in DOMAIN order
              /\ order'[c[1]].kind = order[c[1]].kind
              /\ order[c[1]].status = "PAID" => order'[c[1]].status = "PAID"
              /\ order[c[1]].relabelled => order'[c[1]].relabelled
              /\ IsInUse(c[1]) =>
                   order'[c[1]].relabelled \/ order'[c[1]].flow = order[c[1]].flow
          BY <1>1, <3>3 DEF SameOrders
        <4> QED BY <3>1, <3>3, <4>2, <4>3 DEF RunFits
      <3> QED BY <3>2, <3>3
    <2> QED BY <2>1 DEF Completing
  <1>3. \A o \in DOMAIN order' : run[<<o, "webhook">>].pc # "none" => o \in DOMAIN order
    <2>1. \A o \in DOMAIN order' : <<o, "webhook">> \in OrderCodes \X Callers
      BY OrdersStayListed, WebhookRuns DEF LedgerInv
    <2> QED BY <1>1, <2>1
  <1>4. RemoteDone' = RemoteDone
    <2>1. \A o : o \in RemoteDone' <=> o \in RemoteDone
      BY <1>3 DEF RemoteDone, SameOrders
    <2> QED BY <2>1
  <1> QED BY <1>2, <1>4, FeesStay DEF FeesInv

(* Settling keeps the orders but the pending one it settles.                *)
LEMMA SettledOrders ==
  ASSUME LedgerInv, NEW o \in DOMAIN order, order[o].status = "PENDING",
         NEW received, Settled(o, received)
  PROVE  /\ SameOrders /\ DOMAIN order' = DOMAIN order /\ order'[o].status = "PAID"
         /\ order'[o].kind = order[o].kind /\ order'[o].flow = order[o].flow
         /\ \A p \in DOMAIN order \ {o} : order'[p] = order[p]
  <1>1. order' = [order EXCEPT ![o].status = "PAID", ![o].received = received]
    BY DEF Settled
  <1>2. /\ DOMAIN order' = DOMAIN order
        /\ \A p \in DOMAIN order \ {o} : order'[p] = order[p]
        /\ order'[o] = [order[o] EXCEPT !.status = "PAID", !.received = received]
    BY <1>1 DEF LedgerInv, TypeOK
  <1>3. order'[o].status = "PAID" /\ order'[o].kind = order[o].kind
        /\ order'[o].amount = order[o].amount /\ order'[o].flow = order[o].flow
        /\ order'[o].relabelled = order[o].relabelled
    <2>1. order[o] \in Order
      BY OrdersAreListed DEF LedgerInv
    <2> QED BY <1>2, <2>1 DEF Order
  <1>4. SameOrders
    BY <1>2, <1>3 DEF SameOrders
  <1> QED BY <1>2, <1>3, <1>4

(* Recording a transfer keeps all but what the order has received.          *)
LEMMA RecordOrders ==
  ASSUME LedgerInv, NEW t \in Transfers, RecordTransfer(t)
  PROVE  SameOrders /\ UNCHANGED <<run, pkg>>
  <1> DEFINE o == transfer[t].order
             received == order[o].received + transfer[t].amount
  <1>1. /\ order' = [order EXCEPT ![o].received = received, ![o].receipts[t] = @ + 1]
        /\ UNCHANGED <<run, pkg>>
    BY DEF RecordTransfer
  <1> HIDE DEF received, o
  <1>2. DOMAIN order' = DOMAIN order /\ \A p \in DOMAIN order : order[p] \in Order
    BY <1>1, OrdersAreListed DEF LedgerInv
  <1>3. ASSUME NEW p \in DOMAIN order
        PROVE  /\ order'[p].kind = order[p].kind /\ order'[p].amount = order[p].amount
               /\ order'[p].status = order[p].status /\ order'[p].flow = order[p].flow
               /\ order'[p].relabelled = order[p].relabelled
    BY <1>1, <1>2 DEF Order
  <1> QED BY <1>1, <1>2, <1>3 DEF SameOrders

(* What settles an order starts its completion, and pays nothing.           *)
LEMMA FeesSettled ==
  ASSUME FeesInv, LedgerInv', NEW o \in DOMAIN order, order[o].status = "PENDING",
         NEW received, Settled(o, received), UNCHANGED pkg
  PROVE  Completing' /\ FeesKept'
  <1> DEFINE c == <<o, "webhook">>
  <1>1. run' = [run EXCEPT ![c] = Completion(o)]
    BY DEF Settled
  <1>2. c \in OrderCodes \X Callers /\ c[1] = o /\ c[2] = "webhook"
    BY OrdersAreListed, WebhookRuns DEF FeesInv, LedgerInv
  <1>5. /\ SameOrders /\ DOMAIN order' = DOMAIN order /\ order'[o].status = "PAID"
        /\ order'[o].kind = order[o].kind /\ order'[o].flow = order[o].flow
        /\ \A p \in DOMAIN order \ {o} : order'[p] = order[p]
    BY SettledOrders DEF FeesInv
  <1>6. /\ run[c].pc = "none"
        /\ \A b \in OrderCodes \X Callers : run[b].pc # "none" => b[1] \in DOMAIN order
    BY <1>2 DEF FeesInv, Completing, RunFits, LedgerInv, Placed
  <1>7. /\ Completion(o).flow = order[o].flow /\ order[o].flow \in Flows
        /\ Completion(o).pc = IF order[o].kind = "package" THEN order[o].flow
                              ELSE "subscriber"
        /\ Completion(o) \in Run
    BY CompletionType, OrderFields DEF FeesInv, LedgerInv
  <1>8. /\ run'[c] = Completion(o)
        /\ \A b \in (OrderCodes \X Callers) \ {c} : run'[b] = run[b]
    BY <1>1, <1>2, <1>7, OneRun DEF FeesInv, LedgerInv
  <1> HIDE DEF c
  <1>9. Completing'
    <2> SUFFICES ASSUME NEW b \in OrderCodes \X Callers
                 PROVE  RunFits(b, run'[b], order'[b[1]])
      BY DEF Completing
    <2>1. CASE b = c
      BY <1>2, <1>5, <1>7, <1>8, <2>1 DEF Flows, RunFits
    <2>2. CASE b # c
      <3>1. RunFits(b, run[b], order[b[1]]) /\ run'[b] = run[b]
        BY <1>8, <2>2 DEF FeesInv, Completing
      <3>2. CASE run[b].pc = "none"
        BY <3>1, <3>2 DEF RunFits
      <3>3. CASE run[b].pc # "none" /\ b[1] = o
        BY <1>5, <1>6, <3>1, <3>3 DEF RunFits, SameOrders
      <3>4. CASE run[b].pc # "none" /\ b[1] # o
        BY <1>5, <1>6, <3>1, <3>4
      <3> QED BY <3>2, <3>3, <3>4
    <2> QED BY <2>1, <2>2
  <1>10. RemoteDone' = RemoteDone
    <2>1. \A p \in DOMAIN order \ {o} : run'[<<p, "webhook">>] = run[<<p, "webhook">>]
      <3>1. \A p \in DOMAIN order \ {o} :
              <<p, "webhook">> \in OrderCodes \X Callers /\ <<p, "webhook">> # c
        BY OrdersAreListed, WebhookRuns DEF c, FeesInv, LedgerInv
      <3> QED BY <1>8, <3>1
    <2>2. run'[c].pc # "done" /\ run[c].pc # "done"
      BY <1>6, <1>7, <1>8 DEF Flows
    <2>3. \A p : p \in RemoteDone' <=> p \in RemoteDone
      BY <1>5, <2>1, <2>2 DEF RemoteDone, c
    <2> QED BY <2>3
  <1> QED BY <1>5, <1>9, <1>10, FeesStay DEF FeesInv

(* A step of a completion pays for its order when it is done, and only then.*)
LEMMA FeesRunStep ==
  ASSUME FeesInv, LedgerInv', NEW c \in OrderCodes \X Callers, RunStep(c)
  PROVE  Completing' /\ FeesKept'
  <1> USE DEF FeesInv
  <1> DEFINE o == c[1]
  <1>1. /\ run[c].pc \notin {"none", "done"} /\ UNCHANGED <<order, transfer>>
        /\ o \in DOMAIN order /\ order[o].amount \in Nat
    BY RunSteps, OrderFields DEF LedgerInv, Placed
  <1>2. SameOrders
    BY <1>1 DEF SameOrders
  <1>3. /\ run'[c].flow = run[c].flow
        /\ \A b \in (OrderCodes \X Callers) \ {c} : run'[b] = run[b]
    BY RunTransitions
  <1>4. RunFits(c, run[c], order[o])
    BY DEF Completing
  <1>5. Completing'
    <2>1. RunFits(c, run'[c], order'[o])
      BY <1>1, <1>3, <1>4, RunTransitions DEF RunFits
    <2> HIDE DEF o
    <2>2. ASSUME NEW b \in OrderCodes \X Callers
          PROVE  RunFits(b, run'[b], order'[b[1]])
      <3>1. CASE b = c
        BY <2>1, <3>1 DEF o
      <3>2. CASE b # c
        BY <1>1, <1>3, <3>2 DEF Completing
      <3> QED BY <3>1, <3>2
    <2> QED BY <2>2 DEF Completing
  <1>6. c = <<c[1], c[2]>> /\ \A p \in OrderCodes : p # o => <<p, "webhook">> # c
    OBVIOUS
  <1>7. \A p \in DOMAIN order \ {o} : run'[<<p, "webhook">>] = run[<<p, "webhook">>]
    <2>1. \A p \in DOMAIN order \ {o} :
            <<p, "webhook">> \in OrderCodes \X Callers /\ <<p, "webhook">> # c
      BY <1>6, OrdersAreListed, WebhookRuns DEF LedgerInv
    <2> QED BY <1>3, <2>1
  <1>8. o \notin RemoteDone \/ c # <<o, "webhook">>
    BY <1>1 DEF RemoteDone
  <1>9. c # <<o, "webhook">> => run'[<<o, "webhook">>] = run[<<o, "webhook">>]
    <2>1. <<o, "webhook">> \in OrderCodes \X Callers
      BY <1>1, OrdersAreListed, WebhookRuns DEF LedgerInv
    <2> QED BY <1>3, <2>1
  <1>10. CASE ~(run[c].pc \in {"update", "fallback"} /\ run'[c].pc = "done")
    <2>1. run'[c].pc = "done" /\ run'[c].flow = "remote" => order[o].kind # "package"
      BY <1>3, <1>4, <1>10, RunTransitions DEF RunFits
    <2>2. RemoteDone' = RemoteDone
      <3>2. \A p \in DOMAIN order : p \in RemoteDone' <=> p \in RemoteDone
        <4>1. ASSUME NEW p \in DOMAIN order, p # o
              PROVE  p \in RemoteDone' <=> p \in RemoteDone
          BY <1>1, <1>7, <4>1 DEF RemoteDone
        <4>2. o \in RemoteDone' <=> o \in RemoteDone
          <5>1. CASE c = <<o, "webhook">>
            BY <1>1, <1>8, <2>1, <5>1 DEF RemoteDone
          <5>2. CASE c # <<o, "webhook">>
            BY <1>1, <1>9, <5>2 DEF RemoteDone
          <5> QED BY <5>1, <5>2
        <4> QED BY <4>1, <4>2
      <3> QED BY <1>1, <3>2 DEF RemoteDone
    <2>3. CASE pkg' = pkg
      <3>1. LedgerInv /\ FeesKept /\ pkg'.totalFeePaid = pkg.totalFeePaid
            /\ (pkg.status = "PICKED_UP" => pkg'.status = "PICKED_UP")
        BY <2>3
      <3>2. FeesKept'
        BY <1>2, <2>2, <3>1, FeesStay
      <3> QED BY <1>5, <3>2
    <2>4. CASE /\ run[c].pc = "claim" /\ pkg.status # "PICKED_UP" /\ pkg'.status = "PICKED_UP"
               /\ pkg'.totalFeePaid = pkg.totalFeePaid + order[o].amount
      <3>1. pkg.totalFeePaid = RemoteFees
        BY <2>4 DEF FeesKept
      <3>2. RemoteFees' = RemoteFees
        BY <1>1, <2>2 DEF RemoteFees
      <3>3. order[o].status = "PAID" /\ (order[o].relabelled \/ order[o].flow = "kiosk")
        BY <1>4, <2>4 DEF RunFits
      <3>4. pkg'.totalFeePaid = RemoteFees' + order'[o].amount
        BY <1>1, <2>4, <3>1, <3>2
      <3>5. o \in RemoteDone => order[o].relabelled \/ order[o].flow = "remote"
        <4>1. <<o, "webhook">> \in OrderCodes \X Callers
          BY <1>1, OrdersAreListed, WebhookRuns DEF LedgerInv
        <4>2. RunFits(<<o, "webhook">>, run[<<o, "webhook">>], order[o])
          BY <4>1 DEF Completing
        <4> QED BY <4>2 DEF RunFits, RemoteDone
      <3>7. KioskFee(o)'
        BY <1>1, <2>2, <3>3, <3>4, <3>5 DEF KioskFee
      <3>6. FeesKept'
        <4>1. \E p \in DOMAIN order' : KioskFee(p)'
          BY <1>1, <3>7
        <4> QED BY <2>4, <4>1 DEF FeesKept, FeesAddUp, KioskFee
      <3> QED BY <1>5, <3>6
    <2> QED BY <1>5, <1>10, <2>3, <2>4, RunTransitions
  <1>11. CASE run[c].pc \in {"update", "fallback"} /\ run'[c].pc = "done"
    <2>1. /\ c[2] = "webhook" /\ run[c].flow = "remote" /\ order[o].kind = "package"
          /\ c = <<o, "webhook">> /\ (order[o].relabelled \/ order[o].flow = "remote")
      BY <1>4, <1>6, <1>11 DEF RunFits
    <2>2. /\ run[c].pc = "update" => pkg.status # "PICKED_UP"
          /\ run[c].pc = "fallback" => pkg'.status = pkg.status
          /\ pkg'.totalFeePaid = pkg.totalFeePaid + order[o].amount
      BY <1>11, RunTransitions
    <2>3. RemoteDone' = RemoteDone \cup {o}
      <3>1. o \in RemoteDone'
        BY <1>1, <1>3, <1>11, <2>1 DEF RemoteDone
      <3>2. ASSUME NEW p \in DOMAIN order, p # o
            PROVE  p \in RemoteDone' <=> p \in RemoteDone
        BY <1>1, <1>7, <3>2 DEF RemoteDone
      <3>3. RemoteDone \subseteq DOMAIN order /\ RemoteDone' \subseteq DOMAIN order
        BY <1>1 DEF RemoteDone
      <3> HIDE DEF o
      <3> QED BY <1>1, <3>1, <3>2, <3>3
    <2>4. RemoteFees' = RemoteFees + order[o].amount /\ RemoteFees \in Nat
      <3>1. o \notin RemoteDone /\ o \in DOMAIN order /\ UNCHANGED order
        BY <1>1, <1>8, <2>1
      <3> HIDE DEF o
      <3> QED BY <2>3, <3>1, FeesOfOneMore
    <2>5. pkg.totalFeePaid \in Nat
      BY PackageFields DEF LedgerInv
    <2>6. /\ pkg.status # "PICKED_UP" => pkg.totalFeePaid = RemoteFees
          /\ \/ pkg.totalFeePaid = RemoteFees
             \/ pkg.status = "PICKED_UP" /\ \E p \in DOMAIN order : KioskFee(p)
      BY DEF FeesKept, FeesAddUp, KioskFee
    <2>7. \A p \in DOMAIN order : order[p].amount \in Nat
      BY OrderFields DEF LedgerInv
    <2> DEFINE a == order[o].amount
    <2>8. a \in Nat /\ RemoteFees' = RemoteFees + a /\ pkg'.totalFeePaid = pkg.totalFeePaid + a
      BY <1>1, <2>2, <2>4
    <2> HIDE DEF a
    <2>9. CASE pkg.totalFeePaid = RemoteFees
      <3>1. pkg'.totalFeePaid = RemoteFees'
        BY <2>8, <2>9
      <3> QED BY <1>5, <3>1 DEF FeesKept, FeesAddUp
    <2>10. CASE pkg.totalFeePaid # RemoteFees
      <3>1. PICK p \in DOMAIN order : KioskFee(p)
        BY <2>6, <2>10
      <3>2. pkg.status = "PICKED_UP" /\ pkg'.status = "PICKED_UP"
        BY <2>6, <2>10, RunTransitions DEF LedgerInv
      <3>3. pkg'.totalFeePaid = RemoteFees' + order[p].amount
        BY <2>4, <2>5, <2>7, <2>8, <3>1 DEF KioskFee
      <3>4. p \in RemoteDone' => p \in RemoteDone \/ order[p].relabelled \/ order[p].flow # "kiosk"
        BY <2>1, <2>3
      <3>5. KioskFee(p)'
        BY <1>1, <3>1, <3>3, <3>4 DEF KioskFee
      <3>6. \E s \in DOMAIN order' : KioskFee(s)'
        BY <1>1, <3>5
      <3> QED BY <1>5, <3>2, <3>6 DEF FeesKept, FeesAddUp, KioskFee
    <2> QED BY <2>9, <2>10
  <1> QED BY <1>10, <1>11

(* Every step keeps the fees.                                               *)
LEMMA FeesStep ==
  ASSUME FeesInv, [Next]_vars
  PROVE  FeesInv'
  <1>1. LedgerInv'
    BY LedgerStep DEF FeesInv
  <1> SUFFICES Completing' /\ FeesKept'
    BY <1>1 DEF FeesInv
  <1>2. CASE \E r \in Requests :
               CreatePaymentIntent(r) \/ CreateSubscriptionIntent(r) \/ RequestStep(r)
    <2>1. PICK r \in Requests :
            CreatePaymentIntent(r) \/ CreateSubscriptionIntent(r) \/ RequestStep(r)
      BY <1>2
    <2>2. CASE CreatePaymentIntent(r) \/ CreateSubscriptionIntent(r)
      <3>1. UNCHANGED <<order, run, pkg>>
        BY <2>2 DEF CreatePaymentIntent, CreateSubscriptionIntent, StartIntent
      <3> QED BY <1>1, <3>1, FeesFrame DEF SameOrders
    <2>3. CASE SettleCredit(r)
      <3> DEFINE o == request[r].target
      <3>1. /\ request[r].pc = "settle" /\ UNCHANGED pkg
            /\ \/ order[o].status = "PENDING" /\ Settled(o, order[o].received)
               \/ UNCHANGED <<order, run>>
        BY <2>3 DEF SettleCredit
      <3>2. o \in DOMAIN order
        BY <3>1 DEF FeesInv, LedgerInv, Placed
      <3> HIDE DEF o
      <3>3. CASE UNCHANGED <<order, run>>
        BY <1>1, <3>1, <3>3, FeesFrame DEF SameOrders
      <3>4. CASE order[o].status = "PENDING" /\ Settled(o, order[o].received)
        BY <1>1, <3>1, <3>2, <3>4, FeesSettled
      <3> QED BY <3>1, <3>3, <3>4
    <2>4. CASE \/ FindPending(r) \/ SavePending(r) \/ RenewSubscription(r)
               \/ CollectCredit(r) \/ CancelPending(r) \/ CreateOrder(r)
      BY <1>1, <2>4, OrdersKept, FeesFrame DEF FeesInv
    <2> QED BY <2>1, <2>2, <2>3, <2>4 DEF RequestStep
  <1>3. CASE \E t \in Transfers : MakeTransfer(t) \/ RecordTransfer(t) \/ SettleOrder(t)
    <2>1. PICK t \in Transfers : MakeTransfer(t) \/ RecordTransfer(t) \/ SettleOrder(t)
      BY <1>3
    <2>2. CASE MakeTransfer(t)
      BY <1>1, <2>2, FeesFrame DEF MakeTransfer, SameOrders
    <2>3. CASE RecordTransfer(t)
      BY <1>1, <2>3, RecordOrders, FeesFrame DEF FeesInv
    <2>4. CASE SettleOrder(t)
      <3> DEFINE o == transfer[t].order
                 received == Max({order[o].received, order[o].amount})
      <3>1. /\ hook[t] = "settle" /\ UNCHANGED pkg
            /\ \/ order[o].status = "PENDING" /\ Settled(o, received)
               \/ UNCHANGED <<order, run>>
        BY <2>4 DEF SettleOrder
      <3>2. o \in DOMAIN order
        BY <3>1 DEF FeesInv, LedgerInv, Placed
      <3> HIDE DEF o, received
      <3>3. CASE UNCHANGED <<order, run>>
        BY <1>1, <3>1, <3>3, FeesFrame DEF SameOrders
      <3>4. CASE order[o].status = "PENDING" /\ Settled(o, received)
        BY <1>1, <3>1, <3>2, <3>4, FeesSettled
      <3> QED BY <3>1, <3>3, <3>4
    <2> QED BY <2>1, <2>2, <2>3, <2>4
  <1>4. CASE \E o \in DOMAIN order : DeviceCall(o)
    <2>1. PICK o \in DOMAIN order : DeviceCall(o)
      BY <1>4
    <2> DEFINE c == <<o, "device">>
               w == [run[c] EXCEPT !.pc = "kiosk", !.flow = "kiosk"]
    <2>2. c \in OrderCodes \X Callers /\ c[1] = o /\ c[2] # "webhook"
      BY OrdersAreListed DEF Callers, FeesInv, LedgerInv
    <2>3. /\ run' = [run EXCEPT ![c] = w] /\ UNCHANGED <<order, pkg>>
          /\ order[o].flow = "kiosk"
      BY <2>1, <2>2 DEF DeviceCall, FeesInv, LedgerInv, TypeOK
    <2>4. w \in Run /\ w.pc = "kiosk" /\ w.flow = "kiosk"
      <3>1. run[c] \in Run
        BY <2>2, RunFields DEF FeesInv, LedgerInv
      <3> QED BY <3>1 DEF Run, FlowOptions, Flows
    <2>5. \A p : <<p, "webhook">> # c
      OBVIOUS
    <2> HIDE DEF c, w
    <2>6. run'[c] = w /\ \A b \in (OrderCodes \X Callers) \ {c} : run'[b] = run[b]
      BY <2>2, <2>3, <2>4, OneRun DEF FeesInv, LedgerInv
    <2>7. Completing'
      BY <2>2, <2>3, <2>4, <2>6 DEF FeesInv, Completing, RunFits
    <2>8. RemoteDone' = RemoteDone
      <3>1. \A p \in DOMAIN order : run'[<<p, "webhook">>] = run[<<p, "webhook">>]
        BY <2>5, <2>6, OrdersAreListed, WebhookRuns DEF FeesInv, LedgerInv
      <3>2. \A p : p \in RemoteDone' <=> p \in RemoteDone
        BY <2>3, <3>1 DEF RemoteDone
      <3> QED BY <3>2
    <2>9. SameOrders
      BY <2>3 DEF SameOrders
    <2>10. FeesKept'
      BY <2>3, <2>8, <2>9, FeesStay DEF FeesInv
    <2> QED BY <2>7, <2>10
  <1>5. CASE \E c \in OrderCodes \X Callers : RunStep(c)
    BY <1>1, <1>5, FeesRunStep
  <1>6. CASE PickupWithoutFee \/ ReturnToStorage \/ MarkOverdue
    <2>1. PICK to : /\ pkg.status # "PICKED_UP" /\ pkg' = [pkg EXCEPT !.status = to]
                    /\ UNCHANGED <<order, run>>
      BY <1>6 DEF PickupWithoutFee, ReturnToStorage, MarkOverdue, PackageChanges,
         PickupableStatuses
    <2>2. pkg'.totalFeePaid = pkg.totalFeePaid
      BY <2>1, PackageFields DEF FeesInv, LedgerInv
    <2> QED BY <1>1, <2>1, <2>2, FeesFrame DEF SameOrders
  <1>7. CASE CallFails \/ ServerRestart
    <2>1. /\ UNCHANGED <<order, pkg>>
          /\ \A c \in OrderCodes \X Callers :
               \/ run'[c] = run[c]
               \/ run[c].pc \notin {"none", "done"} /\ run'[c] = NoRun
      BY <1>7, FaultForgets DEF FeesInv
    <2>2. Completing'
      BY <2>1, NothingIsTyped DEF FeesInv, Completing, RunFits
    <2>3. RemoteDone' = RemoteDone
      <3>1. \A o \in DOMAIN order : <<o, "webhook">> \in OrderCodes \X Callers
        BY OrdersAreListed, WebhookRuns DEF FeesInv, LedgerInv
      <3>2. \A o : o \in RemoteDone' <=> o \in RemoteDone
        BY <2>1, <3>1, NothingIsTyped DEF RemoteDone
      <3> QED BY <3>2
    <2>4. SameOrders
      BY <2>1 DEF SameOrders
    <2>5. FeesKept'
      BY <2>1, <2>3, <2>4, FeesStay DEF FeesInv
    <2> QED BY <2>2, <2>5
  <1>8. CASE UNCHANGED vars
    <2>1. UNCHANGED <<order, run, pkg>>
      BY <1>8 DEF vars
    <2> QED BY <1>1, <2>1, FeesFrame DEF SameOrders
  <1> QED BY <1>2, <1>3, <1>4, <1>5, <1>6, <1>7, <1>8 DEF Next

(* At first nothing is paid, and nothing is fulfilled.                      *)
LEMMA FeesAtFirst ==
  ASSUME Init
  PROVE  FeesInv
  <1>1. Completing
    BY NothingIsTyped DEF Init, Completing, RunFits
  <1>2. RemoteDone = {}
    BY DEF Init, RemoteDone
  <1> DEFINE f == [o \in RemoteDone |-> order[o].amount]
  <1>3. IsFiniteSet(RemoteDone) /\ f = [o \in RemoteDone |-> f[o]]
        /\ \A o \in RemoteDone : f[o] = 0
    BY <1>2, FS_EmptySet
  <1>4. RemoteFees = SumFunction(f)
    BY DEF RemoteFees
  <1> HIDE DEF f
  <1>5. RemoteFees = 0
    BY <1>3, <1>4, SumOfZeros
  <1> QED BY <1>1, <1>5, LedgerAtFirst DEF Init, FeesInv, FeesKept, FeesAddUp

(* The fees of the package add up with what completes them.                 *)
THEOREM FeesInvariant == Spec => []FeesInv
  <1>1. Init => FeesInv
    BY FeesAtFirst
  <1>2. FeesInv /\ [Next]_vars => FeesInv'
    BY FeesStep
  <1> QED BY <1>1, <1>2, PTL DEF Spec

(* totalFeePaid counts every remote order once, however many complete at    *)
(* the same time, and at most one kiosk order, which is not among them      *)
(* unless an intent relabelled it after its flow had been read.             *)
THEOREM EveryFeeIsCountedOnce == Spec => []FeesAddUp
  <1>1. FeesInv => FeesAddUp
    BY DEF FeesInv, FeesKept
  <1> QED BY <1>1, FeesInvariant, PTL
-----------------------------------------------------------------------------
(* What is final                                                            *)

(* No step changes the kind, the amount or the end of an order.             *)
LEMMA OrdersStay ==
  ASSUME LedgerInv, [Next]_vars
  PROVE  SameOrders
  <1>1. CASE UNCHANGED order
    BY <1>1 DEF SameOrders
  <1>2. CASE \E r \in Requests :
               CreatePaymentIntent(r) \/ CreateSubscriptionIntent(r) \/ RequestStep(r)
    <2>1. PICK r \in Requests :
            CreatePaymentIntent(r) \/ CreateSubscriptionIntent(r) \/ RequestStep(r)
      BY <1>2
    <2>2. CASE CreatePaymentIntent(r) \/ CreateSubscriptionIntent(r)
      BY <1>1, <2>2 DEF CreatePaymentIntent, CreateSubscriptionIntent, StartIntent
    <2>3. CASE SettleCredit(r)
      <3> DEFINE o == request[r].target
      <3>1. /\ request[r].pc = "settle"
            /\ \/ order[o].status = "PENDING" /\ Settled(o, order[o].received)
               \/ UNCHANGED order
        BY <2>3 DEF SettleCredit
      <3>2. o \in DOMAIN order
        BY <3>1 DEF LedgerInv, Placed
      <3> HIDE DEF o
      <3> QED BY <1>1, <3>1, <3>2, SettledOrders
    <2> QED BY <2>1, <2>2, <2>3, OrdersKept DEF RequestStep
  <1>3. CASE \E t \in Transfers : MakeTransfer(t) \/ RecordTransfer(t) \/ SettleOrder(t)
    <2>1. PICK t \in Transfers : MakeTransfer(t) \/ RecordTransfer(t) \/ SettleOrder(t)
      BY <1>3
    <2>2. CASE MakeTransfer(t)
      BY <1>1, <2>2 DEF MakeTransfer
    <2>3. CASE RecordTransfer(t)
      BY <2>3, RecordOrders
    <2>4. CASE SettleOrder(t)
      <3> DEFINE o == transfer[t].order
                 received == Max({order[o].received, order[o].amount})
      <3>1. /\ hook[t] = "settle"
            /\ \/ order[o].status = "PENDING" /\ Settled(o, received)
               \/ UNCHANGED order
        BY <2>4 DEF SettleOrder
      <3>2. o \in DOMAIN order
        BY <3>1 DEF LedgerInv, Placed
      <3> HIDE DEF o, received
      <3> QED BY <1>1, <3>1, <3>2, SettledOrders
    <2> QED BY <2>1, <2>2, <2>3, <2>4
  <1>4. CASE \E o \in DOMAIN order : DeviceCall(o)
    BY <1>1, <1>4 DEF DeviceCall
  <1>5. CASE \E c \in OrderCodes \X Callers : RunStep(c)
    BY <1>1, <1>5, RunSteps
  <1>6. CASE PickupWithoutFee \/ ReturnToStorage \/ MarkOverdue
    BY <1>1, <1>6 DEF PickupWithoutFee, ReturnToStorage, MarkOverdue, PackageChanges
  <1>8. CASE CallFails \/ ServerRestart
    BY <1>1, <1>8, FaultForgets
  <1>7. CASE UNCHANGED vars
    BY <1>1, <1>7 DEF vars
  <1> QED BY <1>2, <1>3, <1>4, <1>5, <1>6, <1>7, <1>8 DEF Next

(* A settled order is never cancelled and a cancelled one never settled,    *)
(* however intents, webhooks and restarts interleave.                       *)
THEOREM OrdersEndOnce == Spec => OrderEndsOnce
  <1> DEFINE Kept == \A o \in DOMAIN order : order[o].status # "PENDING"
                       => order'[o].status = order[o].status
  <1>1. LedgerInv /\ [Next]_vars => [Kept]_vars
    BY OrdersStay DEF SameOrders
  <1> QED BY <1>1, LedgerInvariant, PTL DEF Spec, OrderEndsOnce

(* A package that was picked up stays so.                                   *)
LEMMA PickupStays ==
  ASSUME LedgerInv, [Next]_vars, pkg.status = "PICKED_UP"
  PROVE  pkg'.status = "PICKED_UP"
  <1>1. CASE UNCHANGED pkg
    BY SMTT(30), <1>1
  <1>2. CASE \E r \in Requests :
               CreatePaymentIntent(r) \/ CreateSubscriptionIntent(r) \/ RequestStep(r)
    BY Zenon, <1>1, <1>2 DEF CreatePaymentIntent, CreateSubscriptionIntent, StartIntent, RequestStep,
                      FindPending, SavePending, RenewSubscription, CollectCredit,
                      CancelPending, CreateOrder, SettleCredit
  <1>3. CASE \E t \in Transfers : MakeTransfer(t) \/ RecordTransfer(t) \/ SettleOrder(t)
    BY <1>1, <1>3 DEF MakeTransfer, RecordTransfer, SettleOrder
  <1>4. CASE (\E o \in DOMAIN order : DeviceCall(o)) \/ CallFails \/ ServerRestart
    BY <1>1, <1>4, FaultForgets DEF DeviceCall
  <1>5. CASE \E c \in OrderCodes \X Callers : RunStep(c)
    BY <1>5, RunTransitions
  <1>6. CASE PickupWithoutFee \/ ReturnToStorage \/ MarkOverdue
    BY <1>6 DEF PickupWithoutFee, ReturnToStorage, MarkOverdue, PackageChanges,
                PickupableStatuses
  <1>7. CASE UNCHANGED vars
    BY <1>1, <1>7 DEF vars
  <1> QED BY <1>2, <1>3, <1>4, <1>5, <1>6, <1>7 DEF Next

(* No payment, kiosk call, return or cron run takes a picked up package     *)
(* back into the locker.                                                    *)
THEOREM PickedUpStays == Spec => PickedUpIsFinal
  <1>1. LedgerInv /\ [Next]_vars
          => [pkg.status = "PICKED_UP" => pkg'.status = "PICKED_UP"]_vars
    BY PickupStays
  <1> QED BY <1>1, LedgerInvariant, PTL DEF Spec, PickedUpIsFinal
=============================================================================
