------------------------------ MODULE Gateways ------------------------------
(***************************************************************************)
(* The socket directories of the two chat gateways, and the messages that  *)
(* are emitted through them.                                               *)
(*                                                                         *)
(* Both gateways listen on the same socket.io server, so each connection   *)
(* runs both handlers.  ChatsGateway (chats/) keeps one socket id per user *)
(* in connectedUsers and a room per chat; ChatGateway (chat/) keeps every  *)
(* socket of a user in userSockets and the inverse in socketToUser.        *)
(*                                                                         *)
(* A message is saved first (an await, module Messages) and emitted by the *)
(* continuation: the directories may change in between.  Handlers without  *)
(* an await are single steps.  FCM pushes and 'chat-updated' are left out. *)
(***************************************************************************)
EXTENDS Naturals, Functions

CONSTANTS
    User,
    Socket,     \* bound: connections ever made; socket.io never reuses an id
    Message     \* bound: messages ever sent, all of one chat

Anonymous == "anonymous"    \* open, no token or one that does not verify
Unused == "unused"
Closed == "closed"

ASSUME NamesAssumption ==
    /\ {Anonymous, Unused, Closed} \cap User = {}
    /\ {Anonymous, Unused, Closed} \cap Socket = {}

VARIABLES
    conn,           \* [s]: the user of an open socket, or how it is otherwise
    connectedUsers, \* ChatsGateway: a Map from users to one socket id
    userSockets,    \* ChatGateway: a Map from users to non-empty sets of ids
    socketToUser,   \* ChatGateway: a Map from socket ids to users
    joined,         \* the sockets in the room of the chat
    msg,            \* [m]: how far the message has come, and whose it is
    received,       \* [s][m]: how often m was emitted to s
    \* History, read by the properties only:
    newest          \* [u]: the socket u connected last, Unused for none

directories == <<connectedUsers, userSockets, socketToUser>>
vars == <<conn, directories, joined, msg, received, newest>>

Open == {s \in Socket : conn[s] \notin {Unused, Closed}}

\* Map.set and Map.delete
Put(f, k, v) == [x \in DOMAIN f \cup {k} |-> IF x = k THEN v ELSE f[x]]
Delete(f, k) == Restrict(f, DOMAIN f \ {k})

NotSent == [state |-> "none"]

Init ==
    /\ conn = [s \in Socket |-> Unused]
    /\ connectedUsers = [u \in {} |-> Unused]
    /\ userSockets = [u \in {} |-> {}]
    /\ socketToUser = [s \in {} |-> Unused]
    /\ joined = {}
    /\ msg = [m \in Message |-> NotSent]
    /\ received = [s \in Socket |-> [m \in Message |-> 0]]
    /\ newest = [u \in User |-> Unused]

-----------------------------------------------------------------------------
(* handleConnection                                                        *)

SocketsOf(u) == IF u \in DOMAIN userSockets THEN userSockets[u] ELSE {}

\* Both handlers return early when the token is missing or does not verify.
ConnectAnonymous(s) ==
    /\ conn[s] = Unused
    /\ conn' = [conn EXCEPT ![s] = Anonymous]
    /\ UNCHANGED <<directories, joined, msg, received, newest>>

\* Mutant: a second device of a user is not entered.
ConnectKeepsFirst(s, u) ==
    /\ conn[s] = Unused
    /\ conn' = [conn EXCEPT ![s] = u]
    /\ connectedUsers' = IF u \in DOMAIN connectedUsers THEN connectedUsers
                         ELSE Put(connectedUsers, u, s)
    /\ userSockets' = IF u \in DOMAIN userSockets THEN userSockets
                      ELSE Put(userSockets, u, {s})
    /\ socketToUser' = Put(socketToUser, s, u)
    /\ newest' = [newest EXCEPT ![u] = s]
    /\ UNCHANGED <<joined, msg, received>>

Connect(s, u) ==
    /\ conn[s] = Unused
    /\ conn' = [conn EXCEPT ![s] = u]
    /\ connectedUsers' = Put(connectedUsers, u, s)
    /\ userSockets' = Put(userSockets, u, SocketsOf(u) \cup {s})
    /\ socketToUser' = Put(socketToUser, s, u)
    /\ newest' = [newest EXCEPT ![u] = s]
    /\ UNCHANGED <<joined, msg, received>>

-----------------------------------------------------------------------------
(* handleDisconnect                                                        *)

\* ChatsGateway deletes the first entry that holds this socket id, if any.
ForgetConnected(s) ==
    \/ \E u \in DOMAIN connectedUsers :
          /\ connectedUsers[u] = s
          /\ connectedUsers' = Delete(connectedUsers, u)
    \/ /\ \A u \in DOMAIN connectedUsers : connectedUsers[u] # s
       /\ UNCHANGED connectedUsers

\* ChatGateway takes the id out of its user's set and drops an empty set.
ForgetSocket(s) ==
    \/ /\ s \in DOMAIN socketToUser
       /\ socketToUser' = Delete(socketToUser, s)
       /\ LET u == socketToUser[s]
              rest == SocketsOf(u) \ {s}
          IN  userSockets' = IF rest = {} THEN Delete(userSockets, u)
                             ELSE Put(userSockets, u, rest)
    \/ /\ s \notin DOMAIN socketToUser
       /\ UNCHANGED <<userSockets, socketToUser>>

\* Mutants: the entry of the user goes, whichever device holds it; no entry
\* goes.
DisconnectByUser(s) ==
    /\ s \in Open
    /\ conn' = [conn EXCEPT ![s] = Closed]
    /\ connectedUsers' = Delete(connectedUsers, conn[s])
    /\ userSockets' = Delete(userSockets, conn[s])
    /\ socketToUser' = Delete(socketToUser, s)
    /\ joined' = joined \ {s}
    /\ UNCHANGED <<msg, received, newest>>

DisconnectForgetsNothing(s) ==
    /\ s \in Open
    /\ conn' = [conn EXCEPT ![s] = Closed]
    /\ joined' = joined \ {s}
    /\ UNCHANGED <<directories, msg, received, newest>>

Disconnect(s) ==
    /\ s \in Open
    /\ conn' = [conn EXCEPT ![s] = Closed]
    /\ ForgetConnected(s)
    /\ ForgetSocket(s)
    /\ joined' = joined \ {s}
    /\ UNCHANGED <<msg, received, newest>>

-----------------------------------------------------------------------------
(* Rooms: 'join-chat' and 'leave-chat'                                     *)

Join(s) ==
    /\ s \in Open \ joined
    /\ joined' = joined \cup {s}
    /\ UNCHANGED <<conn, directories, msg, received, newest>>

Leave(s) ==
    /\ s \in joined
    /\ joined' = joined \ {s}
    /\ UNCHANGED <<conn, directories, msg, received, newest>>

-----------------------------------------------------------------------------
(* Messages.                                                               *)

Sending(m, from, to, route) ==
    msg' = [msg EXCEPT ![m] = [state |-> "saving", from |-> from, to |-> to,
                               route |-> route]]

\* 'sendMessage' on a socket: the sender is whoever connectedUsers has for the
\* socket; without an entry the answer is 'Unauthorized' and nothing happens.
SocketSend(s, m, to) ==
    /\ s \in Open
    /\ msg[m] = NotSent
    /\ \E u \in DOMAIN connectedUsers \ {to} :
          /\ connectedUsers[u] = s
          /\ Sending(m, u, to, "chats")
    /\ UNCHANGED <<conn, directories, joined, received, newest>>

\* POST /messages, answered through ChatsGateway, and POST /chat/send-message,
\* answered through ChatGateway.
RestSend(m, from, to, route) ==
    /\ msg[m] = NotSent
    /\ from # to
    /\ Sending(m, from, to, route)
    /\ UNCHANGED <<conn, directories, joined, received, newest>>

\* The database has the message; the handler has not resumed.
Save(m) ==
    /\ msg[m].state = "saving"
    /\ msg' = [msg EXCEPT ![m].state = "saved"]
    /\ UNCHANGED <<conn, directories, joined, received, newest>>

Times(P) == IF P THEN 1 ELSE 0

\* emitMessageToReceiver: once to the room, once to the receiver's entry.
Direct(s, to) == to \in DOMAIN connectedUsers /\ connectedUsers[to] = s

EmitChats(m) ==
    /\ msg[m].state = "saved" /\ msg[m].route = "chats"
    /\ received' = [s \in Socket |-> [received[s] EXCEPT
                        ![m] = @ + Times(s \in joined) + Times(Direct(s, msg[m].to))]]
    /\ msg' = [msg EXCEPT ![m].state = "emitted"]
    /\ UNCHANGED <<conn, directories, joined, newest>>

\* emitToUser: to every socket of the receiver.
EmitChat(m) ==
    /\ msg[m].state = "saved" /\ msg[m].route = "chat"
    /\ received' = [s \in Socket |-> [received[s] EXCEPT
                        ![m] = @ + Times(s \in SocketsOf(msg[m].to))]]
    /\ msg' = [msg EXCEPT ![m].state = "emitted"]
    /\ UNCHANGED <<conn, directories, joined, newest>>

\* The server restarts: the maps and the rooms are empty, and the handlers at
\* work are gone, saved messages never being emitted.
Restart ==
    /\ conn' = [s \in Socket |-> IF conn[s] = Unused THEN Unused ELSE Closed]
    /\ connectedUsers' = [u \in {} |-> Unused]
    /\ userSockets' = [u \in {} |-> {}]
    /\ socketToUser' = [s \in {} |-> Unused]
    /\ joined' = {}
    /\ msg' = [m \in Message |-> IF msg[m].state \in {"saving", "saved"}
                                 THEN [msg[m] EXCEPT !.state = "lost"] ELSE msg[m]]
    /\ UNCHANGED <<received, newest>>

Next ==
    \/ \E s \in Socket :
          \/ ConnectAnonymous(s) \/ Disconnect(s) \/ Join(s) \/ Leave(s)
          \/ \E u \in User : Connect(s, u)
          \/ \E m \in Message, to \in User : SocketSend(s, m, to)
    \/ \E m \in Message :
          \/ \E from, to \in User, route \in {"chats", "chat"} : RestSend(m, from, to, route)
          \/ Save(m) \/ EmitChats(m) \/ EmitChat(m)
    \/ Restart

Spec == Init /\ [][Next]_vars

-----------------------------------------------------------------------------
(* Properties.                                                             *)

Conn == User \cup {Anonymous, Unused, Closed}

\* The type invariant of the connections, the directories and the messages.
TypeOK ==
    /\ conn \in [Socket -> Conn]
    /\ DOMAIN connectedUsers \subseteq User
    /\ \A u \in DOMAIN connectedUsers : connectedUsers[u] \in Socket
    /\ DOMAIN userSockets \subseteq User
    /\ \A u \in DOMAIN userSockets : userSockets[u] \in (SUBSET Socket) \ {{}}
    /\ DOMAIN socketToUser \subseteq Socket
    /\ \A s \in DOMAIN socketToUser : socketToUser[s] \in User
    /\ joined \subseteq Socket
    /\ msg \in [Message -> {NotSent} \cup
                    [state : {"saving", "saved", "emitted", "lost"},
                     from : User, to : User, route : {"chats", "chat"}]]
    /\ received \in [Socket -> [Message -> 0..2]]
    /\ newest \in [User -> Socket \cup {Unused}]

\* ChatGateway implements the promise of a socket directory.
AllSockets == INSTANCE Presence WITH reach <- [u \in User |-> SocketsOf(u)]

\* Every connection and disconnection, in any order and on any number of
\* devices, leaves ChatGateway with exactly the open sockets of each user.
ChatGatewayIsPresence == AllSockets!Spec

\* An entry of connectedUsers is an open socket of that very user, so that an
\* emit never goes to somebody else's device and a message sent on a socket
\* is never attributed to another user.
EntryIsOwnOpenSocket ==
    \A u \in DOMAIN connectedUsers : conn[connectedUsers[u]] = u

\* The device a user connected last stays reachable for as long as it is open:
\* the late disconnect of an older device does not take its entry away.
NewestDeviceReachable ==
    \A u \in User :
        newest[u] # Unused /\ conn[newest[u]] = u =>
            u \in DOMAIN connectedUsers /\ connectedUsers[u] = newest[u]

\* Whatever connected and disconnected while a message was saved: over
\* ChatGateway it reaches every device its receiver has open when the handler
\* resumes, once, and nobody else; over ChatsGateway it reaches the receiver's
\* newest open device, in the room or not, and outside the room no other user.
EmitsReachReceiver ==
    [][\A m \in Message :
          LET to == msg[m].to
          IN  /\ EmitChat(m) =>
                     \A s \in Socket : received'[s][m] = Times(conn[s] = to)
              /\ EmitChats(m) =>
                     /\ newest[to] # Unused /\ conn[newest[to]] = to =>
                            received'[newest[to]][m] >= 1
                     /\ \A s \in Socket \ joined :
                            received'[s][m] > 0 => conn[s] = to]_vars
=============================================================================
