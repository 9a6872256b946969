------------------------------ MODULE MCSwipes ------------------------------
(* Swipes on a small instance: requests of one user are interchangeable.   *)
EXTENDS Swipes, TLC

Symmetry == Permutations(Request)
=============================================================================
