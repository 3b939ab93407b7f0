------------------------------ MODULE BoxStay ------------------------------
(***************************************************************************)
(* What the locker promises about a box, without requests, queues or        *)
(* documents: a package takes one box that nobody has, is stored, leaves,   *)
(* and never comes back; meanwhile nobody else gets the box.                *)
(***************************************************************************)
CONSTANTS Boxes, Packages, NoBox

VARIABLES
    stage,   \* how far the stay of each package has come
    at       \* the box a package has, NoBox before and after the stay

vars == <<stage, at>>

Stages == {"new", "taking", "stored", "leaving", "gone"}

TypeOK == stage \in [Packages -> Stages] /\ at \in [Packages -> Boxes \cup {NoBox}]

Init == stage = [p \in Packages |-> "new"] /\ at = [p \in Packages |-> NoBox]

(* A shipper takes a box that no package has.                               *)
Take(p, b) ==
    /\ stage[p] = "new"
    /\ \A q \in Packages : at[q] # b
    /\ stage' = [stage EXCEPT ![p] = "taking"]
    /\ at' = [at EXCEPT ![p] = b]

Store(p) ==
    /\ stage[p] = "taking"
    /\ stage' = [stage EXCEPT ![p] = "stored"]
    /\ UNCHANGED at

StartLeaving(p) ==
    /\ stage[p] = "stored"
    /\ stage' = [stage EXCEPT ![p] = "leaving"]
    /\ UNCHANGED at

(* Refused drop-offs, drop-offs given up, and boxes freed; several at once  *)
(* when the server restarts.                                                *)
Leave(S) ==
    /\ \A p \in S : stage[p] \in {"new", "taking", "leaving"}
    /\ stage' = [p \in Packages |-> IF p \in S THEN "gone" ELSE stage[p]]
    /\ at' = [p \in Packages |-> IF p \in S THEN NoBox ELSE at[p]]

Next ==
    \/ \E p \in Packages : (\E b \in Boxes : Take(p, b)) \/ Store(p) \/ StartLeaving(p)
    \/ \E S \in (SUBSET Packages) \ {{}} : Leave(S)

Spec == Init /\ [][Next]_vars

(* The promise: two packages never have the same box.                       *)
OnePackagePerBox ==
    \A p, q \in Packages : at[p] = at[q] /\ at[p] # NoBox => p = q
=============================================================================
