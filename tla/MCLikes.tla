------------------------------- MODULE MCLikes -------------------------------
(* Likes on a small instance: users and request slots are interchangeable. *)
EXTENDS Likes

Symmetry == Permutations(User) \cup Permutations(Request)
=============================================================================
