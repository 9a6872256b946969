--------------------------- MODULE MCSubscriptions ---------------------------
(* Subscriptions on a small instance: verifications are interchangeable.    *)
EXTENDS Subscriptions, TLC

Symmetry == Permutations(Verification)
=============================================================================
