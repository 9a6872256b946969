----------------------------- MODULE MCMessages -----------------------------
(* Messages on a small instance: requests are interchangeable.             *)
EXTENDS Messages

Symmetry == Permutations(Call)
=============================================================================
