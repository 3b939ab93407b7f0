------------------------------ MODULE MCAccess ------------------------------
(* The values with which TLC explores who gets in.                          *)
EXTENDS Access, TLC

CONSTANTS s1, s2, k1

OneCode == s1 :> {k1} @@ s2 :> {}

SoleOwner == [p \in Packages |-> CHOOSE u \in Residents : TRUE]

(* Pins are named like Users: no part moves both, so that one permutation   *)
(* serves them.                                                             *)
Symmetry == Permutations(Requests) \cup Permutations(Users) \cup Permutations(Numbers)
=============================================================================
