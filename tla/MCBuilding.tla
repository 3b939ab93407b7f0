----------------------------- MODULE MCBuilding -----------------------------
(* The values with which TLC explores the parts of a building.              *)
EXTENDS Building, TLC

CONSTANTS a1, a2, h1

SharedHome == a1 :> h1 @@ a2 :> h1

(* Every order of the amounts around the cap, every length of the plan's    *)
(* free hours, below T1 as well, and a T1 past T2: create compares none.    *)
SmallPolicies ==
    [perUseFee: {0, 2}, subscriberFreeHours: {0, 1, 2, 3, 5}, t1Hours: {1, 4}, t2Hours: {3},
     t3Hours: {5}, feeX1: {1, 3}, feeX2: {2}, maxOverdueFeeCap: {2, 5}]

(* Where fees are paid: an extension outlasts the free hours and ends before *)
(* the second surcharge, and the cap cuts nothing off.                      *)
PayingPolicies ==
    {p \in SmallPolicies : /\ p.perUseFee = 2 /\ p.t1Hours = 1 /\ p.subscriberFreeHours = 3
                           /\ p.feeX1 = 1 /\ p.maxOverdueFeeCap = 5}

(* The requests of every part are the same two, named in Calls.             *)
Symmetry == Permutations(Calls) \cup Permutations(Tokens)
=============================================================================
