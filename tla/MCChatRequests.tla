--------------------------- MODULE MCChatRequests ---------------------------
(* ChatRequests on a small instance: ids and requests are interchangeable. *)
EXTENDS ChatRequests, TLC

Symmetry == Permutations(Request) \cup Permutations(ChatId)
=============================================================================
