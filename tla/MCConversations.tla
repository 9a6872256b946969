--------------------------- MODULE MCConversations ---------------------------
(* Conversations on a small instance: two users with one conversation; one   *)
(* of them has two devices and another conversation these may be in.         *)
EXTENDS Conversations, TLC

CONSTANTS a, b, b1, b2, c1, c2

DeviceOwner == [s \in Socket |-> b]
Windows == [s \in Socket |-> IF s = b1 THEN {c1} ELSE Conversation]
Pairs == [c \in Conversation |-> IF c = c1 THEN {a, b} ELSE {b}]
Symmetry == Permutations(Request)
=============================================================================
