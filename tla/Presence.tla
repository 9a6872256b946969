------------------------------ MODULE Presence ------------------------------
(***************************************************************************)
(* What a socket directory promises: at every moment the sockets an emit   *)
(* to a user is sent to are the open sockets that user has authenticated.  *)
(***************************************************************************)
CONSTANTS User, Socket, Anonymous, Unused, Closed

VARIABLES
    conn,   \* [s]: the user of an open socket, Anonymous, Unused or Closed
    reach   \* [u]: the sockets an emit to u goes to

OpenSockets(c, u) == {s \in Socket : c[s] = u}
Tracked == reach' = [u \in User |-> OpenSockets(conn', u)]

Init ==
    /\ conn = [s \in Socket |-> Unused]
    /\ reach = [u \in User |-> {}]

Connect(s, who) ==
    /\ conn[s] = Unused
    /\ conn' = [conn EXCEPT ![s] = who]
    /\ Tracked

Disconnect(s) ==
    /\ conn[s] \in User \cup {Anonymous}
    /\ conn' = [conn EXCEPT ![s] = Closed]
    /\ Tracked

\* The server restarts, and every socket of the old process is gone.
Restart ==
    /\ conn' = [s \in Socket |-> IF conn[s] = Unused THEN Unused ELSE Closed]
    /\ Tracked

Next ==
    \/ \E s \in Socket, who \in User \cup {Anonymous} : Connect(s, who)
    \/ \E s \in Socket : Disconnect(s)
    \/ Restart

Spec == Init /\ [][Next]_<<conn, reach>>
=============================================================================
