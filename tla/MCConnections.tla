---------------------------- MODULE MCConnections ----------------------------
(* Connections on a small instance: users and requests are interchangeable. *)
EXTENDS Connections, TLC

Symmetry == Permutations(User) \cup Permutations(Request)
=============================================================================
