--------------------------- MODULE GatewaysProofs ---------------------------
(***************************************************************************)
(* Proofs about the socket directories, for every set of users, sockets    *)
(* and messages: ChatGateway implements Presence, and the single entry of  *)
(* ChatsGateway is always the newest open device, so that an emit reaches  *)
(* the receiver whatever moved since the message was saved.                *)
(***************************************************************************)
EXTENDS Gateways, TLAPS

USE NamesAssumption

\* ChatGateway's two maps, in terms of the connections.
SetsExact ==
    /\ DOMAIN userSockets \subseteq User
    /\ \A u \in DOMAIN userSockets : userSockets[u] # {}
    /\ \A u \in User : SocketsOf(u) = {s \in Socket : conn[s] = u}
    /\ DOMAIN socketToUser = {s \in Socket : conn[s] \in User}
    /\ \A s \in DOMAIN socketToUser : socketToUser[s] = conn[s]

ConnType == conn \in [Socket -> Conn]

\* The connections are typed whatever the handlers do.
LEMMA ConnTyped == ConnType /\ [Next]_vars => ConnType'
<1> SUFFICES ASSUME ConnType, [Next]_vars PROVE ConnType'
  OBVIOUS
<1> USE DEF ConnType, Conn
<1> QED
  BY DEF Next, vars, ConnectAnonymous, Connect, Disconnect, Join, Leave, SocketSend,
         RestSend, Sending, Save, EmitChats, EmitChat, Restart

\* Every step but a connection, a disconnection and a restart leaves the
\* connections and the directories alone.
Elsewhere == UNCHANGED <<conn, connectedUsers, userSockets, socketToUser, newest>>

\* The steps that move a socket, and the rest, which leave the directories alone.
LEMMA NextCases ==
    ASSUME [Next]_vars
    PROVE  \/ Elsewhere
           \/ \E s \in Socket : ConnectAnonymous(s)
           \/ \E s \in Socket, u \in User : Connect(s, u)
           \/ \E s \in Socket : Disconnect(s)
           \/ Restart
BY DEF Next, vars, directories, Elsewhere, Join, Leave, SocketSend, RestSend, Save,
       EmitChats, EmitChat

-----------------------------------------------------------------------------
(* ChatGateway.                                                            *)

\* Every step keeps the sets of ChatGateway equal to the open sockets.
LEMMA SetsExactNext == ConnType /\ SetsExact /\ [Next]_vars => SetsExact'
<1> SUFFICES ASSUME ConnType, SetsExact, [Next]_vars PROVE SetsExact'
  OBVIOUS
<1>0. /\ DOMAIN conn = Socket
      /\ Anonymous \notin User /\ Unused \notin User /\ Closed \notin User
  BY DEF ConnType
<1>1. CASE Elsewhere
  BY <1>1 DEF Elsewhere, SetsExact, SocketsOf
<1>2. ASSUME NEW s \in Socket, ConnectAnonymous(s) PROVE SetsExact'
  BY <1>0, <1>2 DEF ConnectAnonymous, directories, SetsExact, SocketsOf
<1>3. ASSUME NEW s \in Socket, NEW u \in User, Connect(s, u) PROVE SetsExact'
  <2>1. /\ conn' = [conn EXCEPT ![s] = u] /\ conn[s] \notin User
        /\ userSockets' = Put(userSockets, u, SocketsOf(u) \cup {s})
        /\ socketToUser' = Put(socketToUser, s, u)
    BY <1>0, <1>3 DEF Connect
  <2>2. \A v \in User : SocketsOf(v)' = IF v = u THEN SocketsOf(u) \cup {s} ELSE SocketsOf(v)
    BY <2>1 DEF SocketsOf, Put, Delete, Restrict
  <2>3. \A v \in User : SocketsOf(v)' = {t \in Socket : conn'[t] = v}
    BY <1>0, <2>1, <2>2 DEF SetsExact
  <2>4. DOMAIN socketToUser' = {t \in Socket : conn'[t] \in User}
    BY <1>0, <2>1 DEF SetsExact, Put, Delete, Restrict
  <2>5. \A t \in DOMAIN socketToUser' : socketToUser'[t] = conn'[t]
    BY <1>0, <2>1 DEF SetsExact, Put, Delete, Restrict
  <2>6. DOMAIN userSockets' \subseteq User
    BY <2>1 DEF SetsExact, Put, Delete, Restrict
  <2>7. \A v \in DOMAIN userSockets' : userSockets'[v] # {}
    BY <2>1 DEF SetsExact, Put
  <2> QED
    BY <2>3, <2>4, <2>5, <2>6, <2>7 DEF SetsExact
<1>4. ASSUME NEW s \in Socket, Disconnect(s) PROVE SetsExact'
  <2>1. conn' = [conn EXCEPT ![s] = Closed] /\ ForgetSocket(s)
    BY <1>4 DEF Disconnect
  <2>2. CASE s \notin DOMAIN socketToUser
    <3>1. conn[s] \notin User /\ UNCHANGED <<userSockets, socketToUser>>
      BY <2>1, <2>2 DEF ForgetSocket, SetsExact
    <3> QED
      BY <1>0, <2>1, <3>1 DEF SetsExact, SocketsOf
  <2>3. CASE s \in DOMAIN socketToUser
    <3> DEFINE u == socketToUser[s]
               rest == SocketsOf(u) \ {s}
    <3>1. u \in User /\ u = conn[s]
      BY <2>3 DEF SetsExact
    <3>2. /\ socketToUser' = Delete(socketToUser, s)
          /\ userSockets' = IF rest = {} THEN Delete(userSockets, u)
                            ELSE Put(userSockets, u, rest)
      BY <2>1, <2>3 DEF ForgetSocket
    <3> HIDE DEF u, rest
    <3>3. \A v \in User : SocketsOf(v)' = IF v = u THEN rest ELSE SocketsOf(v)
      BY <3>2 DEF SocketsOf, Put, Delete, Restrict
    <3>4. \A v \in User : SocketsOf(v)' = {t \in Socket : conn'[t] = v}
      BY <1>0, <2>1, <3>1, <3>3 DEF SetsExact, rest
    <3>5. DOMAIN socketToUser' = {t \in Socket : conn'[t] \in User}
      BY <1>0, <2>1, <3>2 DEF SetsExact, Put, Delete, Restrict
    <3>6. \A t \in DOMAIN socketToUser' : socketToUser'[t] = conn'[t]
      BY <1>0, <2>1, <3>2 DEF SetsExact, Put, Delete, Restrict
    <3>7. DOMAIN userSockets' \subseteq User
      BY <3>1, <3>2 DEF SetsExact, Put, Delete, Restrict
    <3>8. \A v \in DOMAIN userSockets' : userSockets'[v] # {}
      BY <3>2 DEF SetsExact, Put, Delete, Restrict
    <3> QED
      BY <3>4, <3>5, <3>6, <3>7, <3>8 DEF SetsExact
  <2> QED
    BY <2>2, <2>3
<1>5. CASE Restart
  BY <1>0, <1>5 DEF Restart, SetsExact, SocketsOf
<1> QED
  BY <1>1, <1>2, <1>3, <1>4, <1>5, NextCases

\* ChatGateway implements Presence: whatever the connections, disconnections
\* and restarts of any number of devices, its maps reach exactly the open
\* sockets of each user.
THEOREM ChatGatewayImplementsPresence == Spec => ChatGatewayIsPresence
<1> DEFINE Reach == [u \in User |-> SocketsOf(u)]
<1>1. Init => ConnType /\ SetsExact /\ AllSockets!Init
  BY DEF Init, ConnType, Conn, SetsExact, SocketsOf, AllSockets!Init
<1>2. ConnType /\ ConnType' /\ SetsExact /\ SetsExact' /\ [Next]_vars
        => [AllSockets!Next]_<<conn, Reach>>
  <2> SUFFICES ASSUME ConnType, SetsExact, SetsExact', [Next]_vars
               PROVE  [AllSockets!Next]_<<conn, Reach>>
    OBVIOUS
  <2> USE DEF ConnType, Conn
  <2>1. AllSockets!Tracked
    BY DEF SetsExact, AllSockets!Tracked, AllSockets!OpenSockets
  <2>2. CASE Elsewhere
    BY <2>2 DEF Elsewhere, SocketsOf
  <2>3. ASSUME NEW s \in Socket, ConnectAnonymous(s) PROVE AllSockets!Next
    BY <2>1, <2>3 DEF ConnectAnonymous, AllSockets!Next, AllSockets!Connect
  <2>4. ASSUME NEW s \in Socket, NEW u \in User, Connect(s, u) PROVE AllSockets!Next
    BY <2>1, <2>4 DEF Connect, AllSockets!Next, AllSockets!Connect
  <2>5. ASSUME NEW s \in Socket, Disconnect(s) PROVE AllSockets!Next
    BY <2>1, <2>5 DEF Disconnect, Open, AllSockets!Next, AllSockets!Disconnect
  <2>6. CASE Restart
    BY <2>1, <2>6 DEF Restart, AllSockets!Next, AllSockets!Restart
  <2> QED
    BY <2>2, <2>3, <2>4, <2>5, <2>6, NextCases
<1> QED
  BY <1>1, <1>2, SetsExactNext, ConnTyped, PTL
  DEF Spec, ChatGatewayIsPresence, AllSockets!Spec

-----------------------------------------------------------------------------
(* ChatsGateway.                                                           *)

\* The single entry of a user is its newest device, as long as that is open;
\* when it is not, the user has no entry.
EntryInv ==
    /\ DOMAIN connectedUsers \subseteq User
    /\ newest \in [User -> Socket \cup {Unused}]
    /\ \A u \in DOMAIN connectedUsers :
           connectedUsers[u] = newest[u] /\ newest[u] \in Socket /\ conn[newest[u]] = u
    /\ \A u \in User : newest[u] # Unused /\ conn[newest[u]] = u => u \in DOMAIN connectedUsers

\* Every step keeps the entries of ChatsGateway on open sockets of their users.
LEMMA EntryInvNext == ConnType /\ EntryInv /\ [Next]_vars => EntryInv'
<1> SUFFICES ASSUME ConnType, EntryInv, [Next]_vars PROVE EntryInv'
  OBVIOUS
<1>0. /\ DOMAIN conn = Socket
      /\ Anonymous \notin User /\ Unused \notin User /\ Closed \notin User
      /\ Unused \notin Socket
  BY DEF ConnType
<1>1. CASE Elsewhere
  BY <1>1 DEF Elsewhere, EntryInv
<1>2. ASSUME NEW s \in Socket, ConnectAnonymous(s) PROVE EntryInv'
  BY <1>0, <1>2 DEF ConnectAnonymous, directories, EntryInv
<1>3. ASSUME NEW s \in Socket, NEW u \in User, Connect(s, u) PROVE EntryInv'
  <2>1. /\ conn' = [conn EXCEPT ![s] = u] /\ conn[s] = Unused
        /\ connectedUsers' = Put(connectedUsers, u, s)
        /\ newest' = [newest EXCEPT ![u] = s]
    BY <1>3 DEF Connect
  <2> QED
    BY <1>0, <2>1 DEF EntryInv, Put, Delete, Restrict
<1>4. ASSUME NEW s \in Socket, Disconnect(s) PROVE EntryInv'
  <2>1. /\ conn' = [conn EXCEPT ![s] = Closed] /\ newest' = newest
        /\ ForgetConnected(s)
    BY <1>4 DEF Disconnect
  <2>2. CASE \E u \in DOMAIN connectedUsers :
                /\ connectedUsers[u] = s
                /\ connectedUsers' = Delete(connectedUsers, u)
    BY <1>0, <2>1, <2>2 DEF EntryInv, Put, Delete, Restrict
  <2>3. CASE /\ \A u \in DOMAIN connectedUsers : connectedUsers[u] # s
             /\ UNCHANGED connectedUsers
    BY <1>0, <2>1, <2>3 DEF EntryInv
  <2> QED
    BY <2>1, <2>2, <2>3 DEF ForgetConnected
<1>5. CASE Restart
  BY <1>0, <1>5 DEF Restart, EntryInv
<1> QED
  BY <1>1, <1>2, <1>3, <1>4, <1>5, NextCases

\* The invariant holds of every reachable state.
LEMMA EntryInvHolds == Spec => []EntryInv
<1>1. Init => ConnType /\ EntryInv
  BY DEF Init, ConnType, Conn, EntryInv
<1> QED
  BY <1>1, ConnTyped, EntryInvNext, PTL DEF Spec

\* An emit over connectedUsers never goes to another user's device, and a
\* message on a socket is never attributed to another user.
THEOREM EntryOwnOpen == Spec => []EntryIsOwnOpenSocket
<1>1. EntryInv => EntryIsOwnOpenSocket
  BY DEF EntryInv, EntryIsOwnOpenSocket
<1> QED
  BY <1>1, EntryInvHolds, PTL

\* The newest device of a user stays in connectedUsers until it closes, in
\* whatever order the older ones disconnect.
THEOREM NewestReachable == Spec => []NewestDeviceReachable
<1>1. EntryInv => NewestDeviceReachable
  BY DEF EntryInv, NewestDeviceReachable
<1> QED
  BY <1>1, EntryInvHolds, PTL

-----------------------------------------------------------------------------
(* Messages.                                                               *)

MessageState ==
    [state : {"saving", "saved", "emitted", "lost"},
     from : User, to : User, route : {"chats", "chat"}]

\* A message was emitted to nobody before its emit, and the directories that
\* the emit reads are those of the two gateways.
MessageInv ==
    /\ msg \in [Message -> {NotSent} \cup MessageState]
    /\ received \in [Socket -> [Message -> 0..2]]
    /\ joined \subseteq Socket
    /\ \A m \in Message : msg[m].state # "emitted" => \A s \in Socket : received[s][m] = 0

\* How far a message can have come when it has been emitted to nobody.
LEMMA SavedUnreceived ==
    ASSUME MessageInv, NEW m \in Message, msg[m].state \in {"saving", "saved"}
    PROVE  /\ msg[m] \in MessageState
           /\ \A s \in Socket : received[s][m] = 0
BY DEF MessageInv, NotSent

\* Moving one message on, with nobody receiving it, keeps the invariant.
LEMMA MessageMoves ==
    ASSUME MessageInv, NEW m \in Message, NEW q \in MessageState, q.state # "emitted",
           msg[m].state # "emitted", msg' = [msg EXCEPT ![m] = q],
           received' = received, joined' \subseteq Socket
    PROVE  MessageInv'
BY DEF MessageInv

\* An emit adds at most two to a count that was zero.
LEMMA MessageEmits ==
    ASSUME MessageInv, NEW m \in Message, msg[m].state = "saved",
           msg' = [msg EXCEPT ![m].state = "emitted"], joined' = joined,
           NEW n \in [Socket -> 0..2],
           received' = [s \in Socket |-> [received[s] EXCEPT ![m] = n[s]]]
    PROVE  MessageInv'
<1>1. msg[m] \in MessageState
  BY SavedUnreceived
<1>2. msg' \in [Message -> {NotSent} \cup MessageState]
  <2>1. [msg[m] EXCEPT !.state = "emitted"] \in MessageState
    BY <1>1 DEF MessageState
  <2> QED
    BY <2>1 DEF MessageInv
<1>3. received' \in [Socket -> [Message -> 0..2]]
  BY DEF MessageInv
<1>4. \A k \in Message : k # m => /\ msg'[k] = msg[k]
                                  /\ \A s \in Socket : received'[s][k] = received[s][k]
  BY DEF MessageInv
<1>5. msg'[m].state = "emitted"
  BY <1>1 DEF MessageInv, MessageState
<1> QED
  BY <1>2, <1>3, <1>4, <1>5 DEF MessageInv

\* Every step keeps the messages and what was received of them.
LEMMA MessageInvNext == EntryInv /\ MessageInv /\ [Next]_vars => MessageInv'
<1> SUFFICES ASSUME EntryInv, MessageInv, [Next]_vars PROVE MessageInv'
  OBVIOUS
<1>1. ASSUME UNCHANGED <<msg, received>>, joined' \subseteq Socket PROVE MessageInv'
  BY <1>1 DEF MessageInv
<1>2. ASSUME NEW s \in Socket,
             \/ ConnectAnonymous(s) \/ Disconnect(s) \/ Join(s) \/ Leave(s)
             \/ \E u \in User : Connect(s, u)
      PROVE  MessageInv'
  BY <1>1, <1>2 DEF MessageInv, ConnectAnonymous, Disconnect, Join, Leave, Connect, Open
<1>3. ASSUME NEW m \in Message, NEW from \in User, NEW to \in User,
             NEW route \in {"chats", "chat"}, msg[m] = NotSent,
             Sending(m, from, to, route), UNCHANGED <<received, joined>>
      PROVE  MessageInv'
  <2> DEFINE q == [state |-> "saving", from |-> from, to |-> to, route |-> route]
  <2>1. q \in MessageState /\ q.state # "emitted" /\ msg[m].state # "emitted"
    BY <1>3 DEF MessageState, NotSent
  <2>2. msg' = [msg EXCEPT ![m] = q] /\ received' = received /\ joined' \subseteq Socket
    BY <1>3 DEF Sending, MessageInv
  <2> HIDE DEF q
  <2> QED
    BY <2>1, <2>2, MessageMoves
<1>4. ASSUME NEW s \in Socket, NEW m \in Message, NEW to \in User, SocketSend(s, m, to)
      PROVE  MessageInv'
  BY <1>3, <1>4 DEF SocketSend, EntryInv
<1>5. ASSUME NEW m \in Message, NEW from \in User, NEW to \in User,
             NEW route \in {"chats", "chat"}, RestSend(m, from, to, route)
      PROVE  MessageInv'
  BY <1>3, <1>5 DEF RestSend
<1>6. ASSUME NEW m \in Message, Save(m) PROVE MessageInv'
  <2> DEFINE q == [msg[m] EXCEPT !.state = "saved"]
  <2>1. msg[m] \in MessageState
    BY <1>6, SavedUnreceived DEF Save
  <2>2. q \in MessageState /\ q.state # "emitted" /\ msg[m].state # "emitted"
    BY <2>1, <1>6 DEF MessageState, Save
  <2>3. msg' = [msg EXCEPT ![m] = q] /\ received' = received /\ joined' \subseteq Socket
    BY <1>6 DEF Save, MessageInv
  <2> HIDE DEF q
  <2> QED
    BY <2>2, <2>3, MessageMoves
<1>7. ASSUME NEW m \in Message, EmitChats(m) PROVE MessageInv'
  <2> DEFINE n == [s \in Socket |-> Times(s \in joined) + Times(Direct(s, msg[m].to))]
  <2>1. \A s \in Socket : received[s][m] = 0 /\ received[s] \in [Message -> 0..2]
    BY <1>7, SavedUnreceived DEF EmitChats, MessageInv
  <2>2. \A s \in Socket : n[s] \in 0..2 /\ received[s][m] + Times(s \in joined)
                                            + Times(Direct(s, msg[m].to)) = n[s]
    BY <2>1 DEF Times
  <2>3. received' = [s \in Socket |-> [received[s] EXCEPT ![m] = n[s]]]
    BY <1>7, <2>1, <2>2 DEF EmitChats
  <2>4. n \in [Socket -> 0..2]
    BY <2>2
  <2> HIDE DEF n
  <2> QED
    BY <1>7, <2>3, <2>4, MessageEmits DEF EmitChats
<1>8. ASSUME NEW m \in Message, EmitChat(m) PROVE MessageInv'
  <2> DEFINE n == [s \in Socket |-> Times(s \in SocketsOf(msg[m].to))]
  <2>1. \A s \in Socket : received[s][m] = 0 /\ received[s] \in [Message -> 0..2]
    BY <1>8, SavedUnreceived DEF EmitChat, MessageInv
  <2>2. \A s \in Socket : n[s] \in 0..2
                         /\ received[s][m] + Times(s \in SocketsOf(msg[m].to)) = n[s]
    BY <2>1 DEF Times
  <2>3. received' = [s \in Socket |-> [received[s] EXCEPT ![m] = n[s]]]
    BY <1>8, <2>1, <2>2 DEF EmitChat
  <2>4. n \in [Socket -> 0..2]
    BY <2>2
  <2> HIDE DEF n
  <2> QED
    BY <1>8, <2>3, <2>4, MessageEmits DEF EmitChat
<1>9. CASE Restart
  <2>1. ASSUME NEW m \in Message
        PROVE  /\ msg'[m] \in {NotSent} \cup MessageState
               /\ msg'[m].state # "emitted" => msg[m].state # "emitted"
    <3>1. CASE msg[m].state \in {"saving", "saved"}
      <4>1. msg[m] \in MessageState
        BY <3>1, SavedUnreceived
      <4>2. msg'[m] = [msg[m] EXCEPT !.state = "lost"]
        BY <1>9, <3>1 DEF Restart
      <4> QED
        BY <3>1, <4>1, <4>2 DEF MessageState
    <3>2. CASE msg[m].state \notin {"saving", "saved"}
      BY <1>9, <3>2 DEF Restart, MessageInv
    <3> QED
      BY <3>1, <3>2
  <2> QED
    BY <1>9, <2>1 DEF Restart, MessageInv
<1>10. CASE UNCHANGED vars
  BY <1>1, <1>10 DEF vars, MessageInv
<1> QED
  BY <1>2, <1>4, <1>5, <1>6, <1>7, <1>8, <1>9, <1>10 DEF Next

\* All that is known of the connections, the directories and the messages.
GatewaysInv == ConnType /\ SetsExact /\ EntryInv /\ MessageInv

\* The invariant holds of every reachable state.
LEMMA GatewaysInvHolds == Spec => []GatewaysInv
<1>1. Init => GatewaysInv
  BY DEF Init, GatewaysInv, ConnType, Conn, SetsExact, SocketsOf, EntryInv, MessageInv, NotSent
<1>2. GatewaysInv /\ [Next]_vars => GatewaysInv'
  BY ConnTyped, SetsExactNext, EntryInvNext, MessageInvNext DEF GatewaysInv
<1> QED
  BY <1>1, <1>2, PTL DEF Spec

\* For any users, sockets and messages the connections, both directories and
\* the messages keep their types, no message reaches a socket more than twice,
\* and ChatGateway keeps no user without a socket.
THEOREM TypeCorrect == Spec => []TypeOK
<1>1. GatewaysInv => TypeOK
  <2> SUFFICES ASSUME GatewaysInv PROVE TypeOK
    OBVIOUS
  <2>1. \A u \in DOMAIN userSockets : userSockets[u] \in (SUBSET Socket) \ {{}}
    BY DEF GatewaysInv, SetsExact, SocketsOf
  <2>2. \A s \in DOMAIN socketToUser : s \in Socket /\ socketToUser[s] \in User
    BY DEF GatewaysInv, SetsExact
  <2>3. \A u \in DOMAIN connectedUsers : connectedUsers[u] \in Socket
    BY DEF GatewaysInv, EntryInv
  <2> QED
    BY <2>1, <2>2, <2>3
    DEF GatewaysInv, ConnType, SetsExact, EntryInv, MessageInv, MessageState, TypeOK
<1> QED
  BY <1>1, GatewaysInvHolds, PTL

\* Whatever connects and disconnects between the save of a message and its
\* emit, the emit of ChatGateway reaches every open device of the receiver once
\* and no other socket; that of ChatsGateway reaches the receiver's newest open
\* device and, outside the room, nobody else.
THEOREM EmitsReach == Spec => EmitsReachReceiver
<1> DEFINE Reached(m) ==
             LET to == msg[m].to
             IN  /\ EmitChat(m) =>
                        \A s \in Socket : received'[s][m] = Times(conn[s] = to)
                 /\ EmitChats(m) =>
                        /\ newest[to] # Unused /\ conn[newest[to]] = to =>
                               received'[newest[to]][m] >= 1
                        /\ \A s \in Socket \ joined :
                               received'[s][m] > 0 => conn[s] = to
<1>1. ASSUME GatewaysInv, NEW m \in Message PROVE Reached(m)
  <2>1. ASSUME EmitChat(m), NEW s \in Socket
        PROVE  received'[s][m] = Times(conn[s] = msg[m].to)
    <3>1. msg[m].to \in User /\ received[s][m] = 0 /\ received[s] \in [Message -> 0..2]
      BY <1>1, <2>1, SavedUnreceived
      DEF EmitChat, GatewaysInv, MessageInv, MessageState
    <3>2. s \in SocketsOf(msg[m].to) <=> conn[s] = msg[m].to
      BY <1>1, <3>1 DEF GatewaysInv, SetsExact
    <3> QED
      BY <2>1, <3>1, <3>2 DEF EmitChat, Times
  <2>2. ASSUME EmitChats(m)
        PROVE  /\ \A s \in Socket :
                      received'[s][m] = Times(s \in joined) + Times(Direct(s, msg[m].to))
               /\ msg[m].to \in User
    <3>1. msg[m].to \in User
      BY <1>1, <2>2, SavedUnreceived DEF EmitChats, GatewaysInv, MessageState
    <3>2. \A s \in Socket : received[s][m] = 0 /\ received[s] \in [Message -> 0..2]
      BY <1>1, <2>2, SavedUnreceived DEF EmitChats, GatewaysInv, MessageInv
    <3> QED
      BY <2>2, <3>1, <3>2 DEF EmitChats, Times
  <2>3. ASSUME EmitChats(m), newest[msg[m].to] # Unused,
               conn[newest[msg[m].to]] = msg[m].to
        PROVE  received'[newest[msg[m].to]][m] >= 1
    <3>1. newest[msg[m].to] \in Socket /\ Direct(newest[msg[m].to], msg[m].to)
      BY <1>1, <2>2, <2>3 DEF GatewaysInv, EntryInv, Direct
    <3> QED
      BY <2>2, <2>3, <3>1 DEF Times
  <2>4. ASSUME EmitChats(m), NEW s \in Socket \ joined, received'[s][m] > 0
        PROVE  conn[s] = msg[m].to
    <3>1. Direct(s, msg[m].to)
      BY <2>2, <2>4 DEF Times
    <3> QED
      BY <1>1, <3>1 DEF GatewaysInv, EntryInv, Direct
  <2> QED
    BY <2>1, <2>3, <2>4
<1>2. GatewaysInv => [\A m \in Message : Reached(m)]_vars
  BY <1>1
<1> QED
  BY <1>2, GatewaysInvHolds, PTL DEF EmitsReachReceiver
=============================================================================
