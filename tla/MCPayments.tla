----------------------------- MODULE MCPayments -----------------------------
(* Model-checking instances of Payments.                                    *)
EXTENDS Payments, TLC

Symmetry == Permutations(Requests) \cup Permutations(Transfers)
=============================================================================
