----------------------------- MODULE OrderBook -----------------------------
(***************************************************************************)
(* What the payments promise about an order, without requests, webhooks or  *)
(* receipts: money is only added to it while it waits; once the money due   *)
(* has arrived somebody is settling it; once it is paid somebody is         *)
(* delivering what it bought; and it ends once.  Only a fault, a call that  *)
(* throws or a restart, strands an order: before it is settled, where more  *)
(* money may still rescue it, or between its payment and its delivery,      *)
(* where nothing does.                                                      *)
(***************************************************************************)
EXTENDS Naturals

CONSTANT Orders

VARIABLES
    stage,   \* how far each order has come
    due,     \* what each order costs
    got,     \* what has arrived for it
    faults   \* calls that threw, and restarts

vars == <<stage, due, got, faults>>

Waiting == {"open", "covered", "stuck"}
Settled == {"paid", "served", "lost"}
Stages == {"new", "void"} \cup Waiting \cup Settled

TypeOK ==
    /\ stage \in [Orders -> Stages]
    /\ due \in [Orders -> Nat] /\ got \in [Orders -> Nat]
    /\ faults \in Nat

Init ==
    /\ stage = [o \in Orders |-> "new"]
    /\ due = [o \in Orders |-> 0] /\ got = [o \in Orders |-> 0]
    /\ faults = 0

(* With all its money an order is being settled, with less it waits.        *)
Arrived(o) ==
    stage' = [stage EXCEPT ![o] = IF got'[o] >= due'[o] THEN "covered" ELSE "open"]

SameMoney(S) == \A o \in S : due'[o] = due[o] /\ got'[o] = got[o]

(* An order may open with credit, and with all of it.                       *)
Open(o) ==
    /\ stage[o] = "new"
    /\ due' \in [Orders -> Nat] /\ got' \in [Orders -> Nat]
    /\ SameMoney(Orders \ {o})
    /\ Arrived(o)
    /\ UNCHANGED faults

Receive(o) ==
    /\ stage[o] \in Waiting
    /\ got' \in [Orders -> Nat] /\ got'[o] >= got[o]
    /\ SameMoney(Orders \ {o})
    /\ Arrived(o)
    /\ UNCHANGED <<due, faults>>

Advance(o, from, to) ==
    /\ stage[o] = from
    /\ stage' = [stage EXCEPT ![o] = to]
    /\ UNCHANGED <<due, got, faults>>

Pay(o) == Advance(o, "covered", "paid")

Serve(o) == Advance(o, "paid", "served")

(* Orders are replaced, several at once.                                    *)
Void(S) ==
    /\ \A o \in S : stage[o] \in Waiting
    /\ stage' = [o \in Orders |-> IF o \in S THEN "void" ELSE stage[o]]
    /\ UNCHANGED <<due, got, faults>>

(* Who was settling or delivering these is gone, and nothing starts it      *)
(* again.  A call that throws concerns one order, a restart all of them.    *)
Fail(S) ==
    /\ faults' = faults + 1
    /\ stage' = [o \in Orders |-> CASE o \in S /\ stage[o] = "covered" -> "stuck"
                                    [] o \in S /\ stage[o] = "paid" -> "lost"
                                    [] OTHER -> stage[o]]
    /\ UNCHANGED <<due, got>>

Next ==
    \/ \E o \in Orders : Open(o) \/ Receive(o) \/ Pay(o) \/ Serve(o)
    \/ \E S \in SUBSET Orders : Void(S) \/ Fail(S)

Spec == Init /\ [][Next]_vars

(* The promises: nothing is settled without its money, and without a fault  *)
(* no order is stranded.                                                    *)
PaidInFull ==
    \A o \in Orders : /\ stage[o] = "open" => got[o] < due[o]
                      /\ stage[o] \in {"covered", "stuck"} \cup Settled => got[o] >= due[o]

NothingStranded == faults = 0 => \A o \in Orders : stage[o] \notin {"stuck", "lost"}
=============================================================================
