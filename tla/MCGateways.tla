----------------------------- MODULE MCGateways -----------------------------
(* Gateways on a small instance: users, sockets and messages are each      *)
(* interchangeable.                                                        *)
EXTENDS Gateways, TLC

Symmetry == Permutations(User) \cup Permutations(Socket) \cup Permutations(Message)
=============================================================================
