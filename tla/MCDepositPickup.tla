-------------------------- MODULE MCDepositPickup --------------------------
(* Model-checking instances of DepositPickup.                               *)
EXTENDS DepositPickup, TLC

Symmetry == Permutations(Packages)
=============================================================================
