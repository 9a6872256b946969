------------------------------ MODULE MCAccount ------------------------------
(* Account on a small instance: requests and tokens are interchangeable.   *)
EXTENDS Account, TLC

Symmetry == Permutations(Request) \cup Permutations(Token)
=============================================================================
