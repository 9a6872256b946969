------------------------- MODULE ConversationsProofs -------------------------
(***************************************************************************)
(* The presence of ConversationsGateway, for any users, devices and        *)
(* conversations: the maps keep their types and agree with each other, and *)
(* whoever is taken to be in a conversation hears what is sent there.      *)
(* First for the maps alone (RoomsSpec), then under Conversations, whose   *)
(* steps move the maps as Rooms does or leave them alone.                  *)
(* Then the service: the types of its documents and requests, and that a   *)
(* message that was seen stays so while requests come one at a time.       *)
(* Last the unread counts: what a sum of rows is, that sends alone lose no *)
(* count, and that both counts are exact while requests come one at a time.*)
(* The same sums then count the badge of Messages, the other chat service. *)
(***************************************************************************)
EXTENDS Conversations, Messages, Integers, FiniteSetTheorems, SequenceTheorems,
        WellFoundedInduction, TLAPS

\* The sockets of a user are its open ones; a socket that is in a conversation is
\* one of these, and in the room.
MapsAgree ==
    /\ \A u \in User : \A s \in userSockets[u] : s \in open /\ Owner[s] = u
    /\ \A s \in open : s \in userSockets[Owner[s]]
    /\ \A s \in Socket :
          socketToConversation[s] # NoConversation =>
              s \in open /\ socketToConversation[s] \in joined[s]

RoomsInv == RoomsTypeOK /\ MapsAgree /\ CurrentIsHeard

-----------------------------------------------------------------------------
\* A new process has no sockets and satisfies the invariant.
LEMMA RoomsStart == RoomsInit => RoomsInv
BY OwnerAssumption DEF RoomsInit, RoomsInv, RoomsTypeOK, MapsAgree, CurrentIsHeard

\* A device that connects takes nothing from the other devices of its user.
LEMMA ConnectionKeeps ==
    ASSUME RoomsInv, NEW s \in Socket, HandleConnection(s) PROVE RoomsInv'
<1> USE OwnerAssumption DEF RoomsInv
<1>1. RoomsTypeOK'
  BY DEF HandleConnection, RoomsTypeOK
<1>2. MapsAgree'
  BY DEF HandleConnection, RoomsTypeOK, MapsAgree
<1>3. CurrentIsHeard'
  BY DEF HandleConnection, RoomsTypeOK, CurrentIsHeard, Hears
<1> QED BY <1>1, <1>2, <1>3

\* A closed socket leaves every room and no longer counts as current.
LEMMA DisconnectKeeps ==
    ASSUME RoomsInv, NEW s \in Socket, HandleDisconnect(s) PROVE RoomsInv'
<1> USE OwnerAssumption DEF RoomsInv
<1> DEFINE me == Owner[s]
<1>1. PICK current \in Conversation \cup {NoConversation} :
          /\ Recomputed(userSockets'[me], socketToConversation', current)
          /\ userCurrentConversation' = [userCurrentConversation EXCEPT ![me] = current]
  BY DEF HandleDisconnect
<1>2. RoomsTypeOK'
  BY <1>1 DEF HandleDisconnect, RoomsTypeOK
<1>3. MapsAgree'
  BY DEF HandleDisconnect, RoomsTypeOK, MapsAgree
<1>4. CurrentIsHeard'
  <2> SUFFICES ASSUME NEW u \in User, userCurrentConversation'[u] # NoConversation
               PROVE  Hears(u, userCurrentConversation[u])'
    BY DEF CurrentIsHeard
  <2>1. CASE u = me
    <3>1. userCurrentConversation'[u] = current /\ current # NoConversation
      BY <1>1, <2>1 DEF RoomsTypeOK
    <3>2. PICK t \in userSockets'[me] : socketToConversation'[t] = current
      BY <1>1, <3>1 DEF Recomputed
    <3>3. t \in Socket
      BY <1>2, <3>2 DEF RoomsTypeOK
    <3>4. t \in open' /\ current \in joined'[t]
      BY <1>3, <3>1, <3>2, <3>3 DEF MapsAgree
    <3> QED BY <2>1, <3>1, <3>2, <3>4 DEF Hears
  <2>2. CASE u # me
    <3>1. userCurrentConversation'[u] = userCurrentConversation[u]
      BY <1>1, <2>2 DEF RoomsTypeOK
    <3>2. PICK t \in userSockets[u] :
             /\ t \in open
             /\ socketToConversation[t] = userCurrentConversation[u]
             /\ userCurrentConversation[u] \in joined[t]
      BY <3>1 DEF CurrentIsHeard, Hears
    <3>3. t # s /\ t \in Socket
      BY <2>2, <3>2 DEF MapsAgree, RoomsTypeOK
    <3>4. /\ t \in userSockets'[u] /\ t \in open'
          /\ socketToConversation'[t] = socketToConversation[t] /\ joined'[t] = joined[t]
      BY <3>2, <3>3, <2>2 DEF HandleDisconnect, RoomsTypeOK
    <3> QED BY <3>1, <3>2, <3>4 DEF Hears
  <2> QED BY <2>1, <2>2
<1> QED BY <1>2, <1>3, <1>4

\* The socket is in the room of whatever it declares current.
LEMMA JoinKeeps ==
    ASSUME RoomsInv, NEW s \in Socket, NEW c \in Opens[s], JoinConversation(s, c)
    PROVE  RoomsInv'
<1> USE OwnerAssumption DEF RoomsInv
<1>0. c \in Conversation /\ c # NoConversation
  BY OpensAssumption, NoConversationAssumption
<1>1. RoomsTypeOK'
  BY <1>0 DEF JoinConversation, RoomsTypeOK
<1>2. MapsAgree'
  BY <1>0 DEF JoinConversation, RoomsTypeOK, MapsAgree
<1>3. CurrentIsHeard'
  <2> SUFFICES ASSUME NEW u \in User, userCurrentConversation'[u] # NoConversation
               PROVE  Hears(u, userCurrentConversation[u])'
    BY DEF CurrentIsHeard
  <2>1. CASE u = Owner[s]
    BY <2>1, <1>0 DEF JoinConversation, RoomsTypeOK, MapsAgree, Hears
  <2>2. CASE u # Owner[s]
    <3>1. userCurrentConversation'[u] = userCurrentConversation[u]
      BY <2>2 DEF JoinConversation, RoomsTypeOK
    <3>2. PICK t \in userSockets[u] :
             /\ t \in open
             /\ socketToConversation[t] = userCurrentConversation[u]
             /\ userCurrentConversation[u] \in joined[t]
      BY <3>1 DEF CurrentIsHeard, Hears
    <3>3. t # s /\ t \in Socket
      BY <2>2, <3>2 DEF MapsAgree, RoomsTypeOK
    <3> QED BY <3>1, <3>2, <3>3 DEF JoinConversation, RoomsTypeOK, Hears
  <2> QED BY <2>1, <2>2
<1> QED BY <1>1, <1>2, <1>3

\* Leaving makes no other conversation current.
LEMMA LeaveKeeps ==
    ASSUME RoomsInv, NEW s \in Socket, LeaveConversation(s) PROVE RoomsInv'
<1> USE OwnerAssumption DEF RoomsInv
<1> DEFINE me == Owner[s]
<1>1. PICK current \in Conversation \cup {NoConversation} :
          /\ Recomputed(userSockets[me], socketToConversation', current)
          /\ userCurrentConversation' = [userCurrentConversation EXCEPT ![me] = current]
  BY DEF LeaveConversation
<1>2. RoomsTypeOK'
  BY <1>1 DEF LeaveConversation, RoomsTypeOK
<1>3. MapsAgree'
  BY DEF LeaveConversation, RoomsTypeOK, MapsAgree
<1>4. CurrentIsHeard'
  <2> SUFFICES ASSUME NEW u \in User, userCurrentConversation'[u] # NoConversation
               PROVE  Hears(u, userCurrentConversation[u])'
    BY DEF CurrentIsHeard
  <2>a. open' = open /\ userSockets' = userSockets /\ joined' = joined
    BY DEF LeaveConversation
  <2>1. CASE u = me
    <3>1. userCurrentConversation'[u] = current /\ current # NoConversation
      BY <1>1, <2>1 DEF RoomsTypeOK
    <3>2. PICK t \in userSockets[me] : socketToConversation'[t] = current
      BY <1>1, <3>1 DEF Recomputed
    <3>3. t \in Socket
      BY <3>2 DEF RoomsTypeOK
    <3>4. t \in open' /\ current \in joined'[t]
      BY <1>3, <3>1, <3>2, <3>3 DEF MapsAgree
    <3> QED BY <2>1, <2>a, <3>1, <3>2, <3>4 DEF Hears
  <2>2. CASE u # me
    <3>1. userCurrentConversation'[u] = userCurrentConversation[u]
      BY <1>1, <2>2 DEF RoomsTypeOK
    <3>2. PICK t \in userSockets[u] :
             /\ t \in open
             /\ socketToConversation[t] = userCurrentConversation[u]
             /\ userCurrentConversation[u] \in joined[t]
      BY <3>1 DEF CurrentIsHeard, Hears
    <3>3. t # s /\ t \in Socket
      BY <2>2, <3>2 DEF MapsAgree, RoomsTypeOK
    <3>4. socketToConversation'[t] = socketToConversation[t]
      BY <3>3 DEF LeaveConversation, RoomsTypeOK
    <3> QED BY <2>a, <3>1, <3>2, <3>4 DEF Hears
  <2> QED BY <2>1, <2>2
<1> QED BY <1>2, <1>3, <1>4

\* A restart empties rooms and memory together.
LEMMA RestartKeeps ==
    ASSUME RestartGateway PROVE RoomsInv'
BY DEF RestartGateway, RoomsInv, RoomsTypeOK, MapsAgree, CurrentIsHeard

\* Every step of the gateway keeps the invariant.
LEMMA StepKeeps == RoomsInv /\ [RoomsNext]_rooms => RoomsInv'
<1> SUFFICES ASSUME RoomsInv, [RoomsNext]_rooms PROVE RoomsInv'
  OBVIOUS
<1>1. CASE UNCHANGED rooms
  BY <1>1 DEF rooms, RoomsInv, RoomsTypeOK, MapsAgree, CurrentIsHeard, Hears
<1>2. ASSUME NEW s \in Socket, SocketStep(s) PROVE RoomsInv'
  BY <1>2, ConnectionKeeps, DisconnectKeeps, JoinKeeps, LeaveKeeps DEF SocketStep
<1>3. CASE RestartGateway
  BY <1>3, RestartKeeps
<1> QED BY <1>1, <1>2, <1>3 DEF RoomsNext

\* The maps on their own: the types of the maps, for any order of connections,
\* joins, leaves, disconnections and restarts.
THEOREM RoomsTypeCorrect == RoomsSpec => []RoomsTypeOK
<1>1. RoomsInv => RoomsTypeOK
  BY DEF RoomsInv
<1> QED BY RoomsStart, StepKeeps, <1>1, PTL DEF RoomsSpec

-----------------------------------------------------------------------------
(* The same under the service.                                             *)

\* Every step of Conversations moves the maps as Rooms does, or not at all.
LEMMA ServiceMovesRooms == [Next]_vars => [RoomsNext]_rooms
BY DEF Next, vars, Receive, Asks, StartRefused, FindConversation, DuplicateChatId,
       CreateConversation, DeleteConversation, InsertMessage, SetLast, ReadCounts,
       WriteCounts, CountRow, ClearRow, SetDelivered, MarkMessages, Fail, Devices,
       Restart, RoomsNext

\* The gateway implements the directory of Rooms, whatever the service does.
THEOREM ServiceImplementsRooms == Spec => RoomsSpec
<1>1. Init => RoomsInit
  BY DEF Init
<1> QED BY <1>1, ServiceMovesRooms, PTL DEF Spec, RoomsSpec

\* Whoever is taken to be in a conversation hears it, with requests at work and
\* restarts at any time: the message that SkipsUnread leaves uncounted has a
\* device to arrive at.
THEOREM CurrentHeard == Spec => []CurrentIsHeard
<1>1. RoomsInv => CurrentIsHeard
  BY DEF RoomsInv
<1>2. RoomsSpec => []RoomsInv
  BY RoomsStart, StepKeeps, PTL DEF RoomsSpec
<1> QED BY <1>1, <1>2, ServiceImplementsRooms, PTL
-----------------------------------------------------------------------------
(* Types of the documents and the requests.                                *)

\* A request at work is one at a label.
LEMMA ActiveAtLabel ==
    ASSUME TypeOK, NEW r \in Request
    PROVE  /\ r \in Active <=> req[r].pc \in Labels
           /\ req[r].pc \in Labels => req[r] \in Working
BY DEF TypeOK, Active, Labels, Idle, Ended, Working

\* A request that moves on stays at work, and no other moves.
LEMMA GotoMoves ==
    ASSUME TypeOK, NEW r \in Request, req[r].pc \in Labels, NEW l \in Labels, req' = Goto(r, l)
    PROVE  /\ req' \in [Request -> {Idle, Ended} \cup Working]
           /\ \A q \in Request : q # r => req'[q] = req[q]
           /\ req'[r].pc = l /\ req'[r].kind = req[r].kind
<1>1. req[r] \in Working
  BY ActiveAtLabel
<1>2. [req[r] EXCEPT !.pc = l] \in Working
  BY <1>1 DEF Working
<1>3. req' = [req EXCEPT ![r] = [req[r] EXCEPT !.pc = l]]
  BY DEF Goto
<1>4. req \in [Request -> {Idle, Ended} \cup Working]
  BY DEF TypeOK
<1> QED BY <1>1, <1>2, <1>3, <1>4 DEF Working

\* A request that ends leaves the others where they are.
LEMMA EndMoves ==
    ASSUME TypeOK, NEW r \in Request, req' = End(r)
    PROVE  /\ req' \in [Request -> {Idle, Ended} \cup Working]
           /\ \A q \in Request : q # r => req'[q] = req[q]
           /\ req'[r] = Ended
BY DEF TypeOK, End

\* The count of a user in an object of counts.
LEMMA CountTyped ==
    ASSUME NEW counts \in Counted, NEW u \in User PROVE Count(counts, u) \in Nat
BY DEF Counted, Count

\* An object of counts with the count of one user changed.
LEMMA WithTyped ==
    ASSUME NEW counts \in Counted, NEW u \in User, NEW n \in Nat
    PROVE  With(counts, u, n) \in Counted
<1>1. PICK known \in SUBSET User : counts \in [known -> Nat]
  BY DEF Counted
<1>2. With(counts, u, n) \in [known \cup {u} -> Nat]
  BY <1>1 DEF With
<1> QED BY <1>2 DEF Counted

\* A first row that is changed, or a row that is added, makes rows again.
LEMMA RowsTyped ==
    ASSUME NEW rows \in Seq(Nat), NEW n \in Nat
    PROVE  /\ Append(rows, n) \in Seq(Nat)
           /\ [rows EXCEPT ![1] = n] \in Seq(Nat)
           /\ [rows EXCEPT ![1] = @ + 1] \in Seq(Nat)
<1>1. Append(rows, n) \in Seq(Nat)
  OBVIOUS
<1>2. Len(rows) \in Nat /\ rows \in [1..Len(rows) -> Nat]
  OBVIOUS
<1>3. [rows EXCEPT ![1] = n] \in [1..Len(rows) -> Nat]
  BY <1>2
<1>4. [rows EXCEPT ![1] = @ + 1] \in [1..Len(rows) -> Nat]
  <2>1. CASE 1 \in 1..Len(rows)
    <3>1. rows[1] + 1 \in Nat
      BY <1>2, <2>1
    <3> QED BY <1>2, <3>1
  <2>2. CASE 1 \notin 1..Len(rows)
    BY <1>2, <2>2
  <2> QED BY <2>1, <2>2
<1>5. Seq(Nat) = UNION {[1..k -> Nat] : k \in Nat}
  BY SeqDef, Zenon
<1>6. [1..Len(rows) -> Nat] \subseteq Seq(Nat)
  BY <1>2, <1>5, Zenon
<1> QED BY <1>1, <1>3, <1>4, <1>6, Zenon

\* The empty object is one of counts.
LEMMA NoCountsTyped == NoCounts \in Counted
<1>1. NoCounts \in [{} -> Nat]
  BY DEF NoCounts
<1> QED BY <1>1 DEF Counted

\* The types hold at the start.
LEMMA TypeStart == Init => TypeOK
<1> SUFFICES ASSUME Init PROVE TypeOK
  OBVIOUS
<1>1. RoomsTypeOK
  BY RoomsStart DEF Init, RoomsInv
<1>2. NoCounts \in Counted
  BY NoCountsTyped
<1>3. stored \in [Conversation -> {"none", "live", "deleted"}]
  BY DEF Init
<1> QED BY <1>1, <1>2, <1>3 DEF Init, TypeOK

-----------------------------------------------------------------------------
(* The message of a request.                                               *)

\* The request has stored its message and still has to see to its delivery.
Inserted(r) ==
    \/ req[r].pc \in {"setLast", "setDelivered"}
    \/ req[r].pc \in {"readCounts", "writeCounts", "updateRow", "pushRow"} /\ req[r].kind = "send"

\* No message is there before its insert; one is there from then on.
MessageOf(r) ==
    /\ req[r].pc \in {"idle", "insertMessage"} => messages[r] = NoMessage
    /\ Inserted(r) => messages[r] # NoMessage
    /\ req[r].pc = "markMessages" => req[r].kind = "read"

ServiceInv == TypeOK /\ \A r \in Request : MessageOf(r)

\* A new request is at its first step.
LEMMA ReceiveTyped ==
    ASSUME ServiceInv, NEW r \in Request, Receive(r)
    PROVE  /\ req' \in [Request -> {Idle, Ended} \cup Working]
           /\ \A q \in Request : q # r => req'[q] = req[q]
           /\ req'[r].pc \in {"findConversation", "insertMessage", "markMessages", "setDeleted"}
           /\ req'[r].pc = "markMessages" => req'[r].kind = "read"
<1>0. PICK c \in Used, kind \in {"start", "send", "read", "delete"}, socket \in BOOLEAN :
         \E me \in Participants[c] : \E peer \in Participants[c] \ {me} :
            Asks(r, c, kind, me, peer, socket)
  BY DEF Receive
<1>1. PICK me \in Participants[c], peer \in Participants[c] :
         Asks(r, c, kind, me, peer, socket)
  BY <1>0
<1> DEFINE skip == kind = "send" /\ SkipsUnread(peer, c, socket)
           new == NewRequest(kind, c, me, peer, socket, skip)
<1>2. c \in Conversation /\ me \in User /\ peer \in User
  BY UsedAssumption, ParticipantsAssumption
<1>3. skip \in BOOLEAN /\ Hears(peer, c) \in BOOLEAN
  BY DEF SkipsUnread, Hears
<1>4. NoCounts \in Counted
  BY NoCountsTyped
<1>5. /\ FirstStep(kind) \in {"findConversation", "insertMessage", "markMessages", "setDeleted"}
      /\ FirstStep(kind) = "markMessages" => kind = "read"
  BY DEF FirstStep
<1>6. FirstStep(kind) \in Labels
  BY <1>5 DEF Labels
<1>7. /\ new \in Working
      /\ new.pc = FirstStep(kind) /\ new.kind = kind
  <2> HIDE DEF skip
  <2> QED BY <1>2, <1>3, <1>4, <1>6 DEF NewRequest, Working
<1>8. req' = [req EXCEPT ![r] = new]
  BY <1>1 DEF Asks
<1> HIDE DEF new
<1> QED BY <1>5, <1>7, <1>8 DEF ServiceInv, TypeOK

\* A stored message is told from none by its fields.
LEMMA NoMessageIsNone == NoMessage \notin Message /\ NoMessage.status # Seen
BY DEF NoMessage, Message, Seen

\* The requests that did not move keep what holds of their messages.
LEMMA OthersKeep ==
    ASSUME ServiceInv, NEW r \in Request,
           \A q \in Request : q # r => req'[q] = req[q],
           \A q \in Request : q # r => (messages'[q] = NoMessage <=> messages[q] = NoMessage),
           MessageOf(r)'
    PROVE  \A q \in Request : MessageOf(q)'
BY DEF ServiceInv, MessageOf, Inserted

\* An ended request has no more to see to.
LEMMA EndedMessage ==
    ASSUME NEW r \in Request, req'[r] = Ended PROVE MessageOf(r)' /\ ~Inserted(r)'
BY DEF MessageOf, Inserted, Ended

\* The service has answered: setDelivered or the end.
LEMMA ReturnedMoves ==
    ASSUME ServiceInv, NEW r \in Request, Inserted(r), req' = ServiceReturned(r)
    PROVE  /\ req' \in [Request -> {Idle, Ended} \cup Working]
           /\ \A q \in Request : q # r => req'[q] = req[q]
           /\ req'[r] = Ended \/ req'[r].pc = "setDelivered"
<1>1. TypeOK
  BY DEF ServiceInv
<1>2. req[r].pc \in Labels /\ "setDelivered" \in Labels
  BY DEF Inserted, Labels
<1>3. CASE req' = Goto(r, "setDelivered")
  BY <1>1, <1>2, <1>3, GotoMoves
<1>4. CASE req' = End(r)
  BY <1>1, <1>4, EndMoves
<1> QED BY <1>3, <1>4 DEF ServiceReturned

\* Every step of a request leaves the types and the messages as they should be.
LEMMA RequestStep ==
    ASSUME ServiceInv, RoomsTypeOK', NEW r \in Request,
           \/ Receive(r) \/ StartRefused(r) \/ FindConversation(r) \/ DuplicateChatId(r)
           \/ CreateConversation(r) \/ DeleteConversation(r) \/ InsertMessage(r)
           \/ SetLast(r) \/ ReadCounts(r) \/ WriteCounts(r) \/ CountRow(r) \/ ClearRow(r)
           \/ SetDelivered(r) \/ MarkMessages(r) \/ Fail(r)
    PROVE  ServiceInv'
<1> USE DEF ServiceInv
<1>1. CASE Receive(r)
  <2>1. UNCHANGED documents
    BY <1>1 DEF Receive
  <2>2. req[r].pc = "idle"
    BY <1>1 DEF Receive
  <2>3. MessageOf(r)'
    BY <1>1, <2>1, <2>2, ReceiveTyped DEF MessageOf, Inserted, documents
  <2> QED BY <1>1, <2>1, <2>3, ReceiveTyped, OthersKeep DEF TypeOK, documents
<1>2. CASE StartRefused(r) \/ DuplicateChatId(r) \/ Fail(r)
  <2>1. UNCHANGED documents /\ req' = End(r)
    BY <1>2 DEF StartRefused, DuplicateChatId, Fail
  <2> QED BY <2>1, EndMoves, EndedMessage, OthersKeep DEF TypeOK, documents
<1>3. CASE FindConversation(r)
  <2>1. UNCHANGED documents /\ req[r].pc = "findConversation"
    BY <1>3 DEF FindConversation
  <2>2. CASE req' = End(r)
    BY <2>1, <2>2, EndMoves, EndedMessage, OthersKeep DEF TypeOK, documents
  <2>3. CASE req' = Goto(r, "createConversation")
    <3>1. /\ req' \in [Request -> {Idle, Ended} \cup Working]
          /\ \A q \in Request : q # r => req'[q] = req[q]
          /\ req'[r].pc = "createConversation"
      BY <2>1, <2>3, GotoMoves DEF Labels
    <3>2. MessageOf(r)'
      BY <3>1 DEF MessageOf, Inserted
    <3> QED BY <2>1, <3>1, <3>2, OthersKeep DEF TypeOK, documents
  <2> QED BY <1>3, <2>2, <2>3 DEF FindConversation
<1>4. CASE CreateConversation(r)
  <2> DEFINE c == req[r].conv
  <2>1. c \in Conversation
    BY <1>4, ActiveAtLabel DEF CreateConversation, Labels, Working
  <2>2. Zeros(c) \in Counted
    <3>1. Participants[c] \in SUBSET User
      BY <2>1, ParticipantsAssumption
    <3>2. Zeros(c) \in [Participants[c] -> Nat]
      BY DEF Zeros
    <3> QED BY <3>1, <3>2 DEF Counted
  <2>3. unreadCount' \in [Conversation -> Counted]
    BY <1>4, <2>1, <2>2 DEF CreateConversation, TypeOK
  <2>4. unreadCounts' \in [Conversation -> [User -> Seq(Nat)]]
    <3>1. <<0>> \in Seq(Nat) /\ <<>> \in Seq(Nat)
      OBVIOUS
    <3>2. [u \in User |-> IF u \in Participants[c] THEN <<0>> ELSE <<>>] \in [User -> Seq(Nat)]
      BY <3>1
    <3> QED BY <1>4, <2>1, <3>2 DEF CreateConversation, TypeOK
  <2>5. stored' \in [Conversation -> {"none", "live", "deleted"}]
    BY <1>4 DEF CreateConversation, TypeOK
  <2>6. req' = End(r) /\ UNCHANGED <<lastSender, messages>>
    BY <1>4 DEF CreateConversation
  <2> QED BY <2>3, <2>4, <2>5, <2>6, EndMoves, EndedMessage, OthersKeep DEF TypeOK
<1>5. CASE DeleteConversation(r)
  <2>1. stored' \in [Conversation -> {"none", "live", "deleted"}]
    BY <1>5 DEF DeleteConversation, TypeOK
  <2>2. req' = End(r) /\ UNCHANGED <<unreadCount, unreadCounts, lastSender, messages>>
    BY <1>5 DEF DeleteConversation
  <2> QED BY <2>1, <2>2, EndMoves, EndedMessage, OthersKeep DEF TypeOK
<1>6. CASE InsertMessage(r)
  <2>1. req[r].pc = "insertMessage" /\ req[r].pc \in Labels
    BY <1>6 DEF InsertMessage, Labels
  <2>2. req[r].conv \in Conversation /\ req[r].peer \in User
    BY <2>1, ActiveAtLabel DEF Working
  <2>3. [conv |-> req[r].conv, receiver |-> req[r].peer, status |-> Sent] \in Message
    BY <2>2 DEF Message
  <2>4. /\ messages' = [messages EXCEPT ![r] =
                [conv |-> req[r].conv, receiver |-> req[r].peer, status |-> Sent]]
        /\ UNCHANGED <<stored, unreadCount, unreadCounts, lastSender>>
    BY <1>6 DEF InsertMessage
  <2>5. /\ messages' \in [Request -> Message \cup {NoMessage}]
        /\ messages'[r] \in Message
        /\ \A q \in Request : q # r => messages'[q] = messages[q]
    BY <2>3, <2>4 DEF TypeOK
  <2>6. PICK l \in {"setLast", "readCounts"} : req' = Goto(r, l)
    BY <1>6 DEF InsertMessage
  <2>7. /\ req' \in [Request -> {Idle, Ended} \cup Working]
        /\ \A q \in Request : q # r => req'[q] = req[q]
        /\ req'[r].pc = l
    BY <2>1, <2>6, GotoMoves DEF Labels
  <2>8. NoMessage \notin Message
    BY NoMessageIsNone
  <2>9. MessageOf(r)'
    BY <2>5, <2>7, <2>8 DEF MessageOf, Inserted
  <2> QED BY <2>4, <2>5, <2>7, <2>9, OthersKeep DEF TypeOK
<1>7. CASE SetLast(r)
  <2>1. req[r].pc = "setLast" /\ req[r].pc \in Labels
    BY <1>7 DEF SetLast, Labels
  <2>2. req[r].user \in User
    BY <2>1, ActiveAtLabel DEF Working
  <2>3. lastSender' \in [Conversation -> User \cup {Nobody}]
    BY <1>7, <2>2 DEF SetLast, TypeOK
  <2>4. req' = ServiceReturned(r) /\ UNCHANGED <<stored, unreadCount, unreadCounts, messages>>
    BY <1>7 DEF SetLast
  <2>5. Inserted(r)
    BY <2>1 DEF Inserted
  <2>6. MessageOf(r)'
    BY <2>4, <2>5, ReturnedMoves DEF MessageOf, Inserted, Ended
  <2> QED BY <2>3, <2>4, <2>5, <2>6, ReturnedMoves, OthersKeep DEF TypeOK
<1>8. CASE ReadCounts(r)
  <2> DEFINE c == req[r].conv
             u == IF req[r].kind = "send" THEN req[r].peer ELSE req[r].user
             n == IF req[r].kind = "send" THEN Count(unreadCount[c], u) + 1 ELSE 0
             new == [req[r] EXCEPT !.counts = With(unreadCount[c], u, n),
                                   !.hasRow = unreadCounts[c][u] # <<>>,
                                   !.pc = "writeCounts"]
  <2>1. req[r].pc = "readCounts" /\ req[r].pc \in Labels
    BY <1>8 DEF ReadCounts, Labels
  <2>2. req[r] \in Working
    BY <2>1, ActiveAtLabel
  <2>3. c \in Conversation /\ u \in User
    BY <2>2 DEF Working
  <2>4. unreadCount[c] \in Counted
    BY <2>3 DEF TypeOK
  <2>5. n \in Nat
    BY <2>3, <2>4, CountTyped
  <2>6. With(unreadCount[c], u, n) \in Counted
    <3> HIDE DEF c, u, n
    <3> QED BY <2>3, <2>4, <2>5, WithTyped
  <2>7. req' = [req EXCEPT ![r] = new] /\ UNCHANGED documents
    BY <1>8 DEF ReadCounts
  <2>8. new \in Working /\ new.pc = "writeCounts" /\ new.kind = req[r].kind
    <3>1. (unreadCounts[c][u] # <<>>) \in BOOLEAN
      OBVIOUS
    <3> HIDE DEF c, u, n
    <3> QED BY <2>2, <2>6, <3>1 DEF Working, Labels
  <2>9. /\ req' \in [Request -> {Idle, Ended} \cup Working]
        /\ \A q \in Request : q # r => req'[q] = req[q]
        /\ req'[r].pc = "writeCounts" /\ req'[r].kind = req[r].kind
    <3> HIDE DEF new
    <3> QED BY <2>7, <2>8 DEF TypeOK
  <2>10. MessageOf(r)'
    BY <2>1, <2>7, <2>9 DEF MessageOf, Inserted, documents
  <2> QED BY <2>7, <2>9, <2>10, OthersKeep DEF TypeOK, documents
<1>9. CASE WriteCounts(r)
  <2> DEFINE c == req[r].conv
             new == [req[r] EXCEPT !.counts = NoCounts,
                                   !.pc = IF req[r].hasRow THEN "updateRow" ELSE "pushRow"]
  <2>1. req[r].pc = "writeCounts" /\ req[r].pc \in Labels
    BY <1>9 DEF WriteCounts, Labels
  <2>2. req[r] \in Working
    BY <2>1, ActiveAtLabel
  <2>3. c \in Conversation /\ req[r].user \in User /\ req[r].counts \in Counted
    BY <2>2 DEF Working
  <2>4. unreadCount' \in [Conversation -> Counted]
    BY <1>9, <2>3 DEF WriteCounts, TypeOK
  <2>5. lastSender' \in [Conversation -> User \cup {Nobody}]
    BY <1>9, <2>3 DEF WriteCounts, TypeOK
  <2>6. req' = [req EXCEPT ![r] = new] /\ UNCHANGED <<stored, unreadCounts, messages>>
    BY <1>9 DEF WriteCounts
  <2>7. new \in Working /\ new.pc \in {"updateRow", "pushRow"} /\ new.kind = req[r].kind
    BY <2>2, NoCountsTyped DEF Working, Labels
  <2>8. /\ req' \in [Request -> {Idle, Ended} \cup Working]
        /\ \A q \in Request : q # r => req'[q] = req[q]
        /\ req'[r].pc \in {"updateRow", "pushRow"} /\ req'[r].kind = req[r].kind
    <3> HIDE DEF new
    <3> QED BY <2>6, <2>7 DEF TypeOK
  <2>9. MessageOf(r)'
    BY <2>1, <2>6, <2>8 DEF MessageOf, Inserted
  <2> QED BY <2>4, <2>5, <2>6, <2>8, <2>9, OthersKeep DEF TypeOK
<1>10. CASE CountRow(r)
  <2> DEFINE c == req[r].conv  u == req[r].peer
  <2>1. req[r].pc \in Labels /\ Inserted(r)
    BY <1>10 DEF CountRow, Labels, Inserted
  <2>2. c \in Conversation /\ u \in User
    BY <2>1, ActiveAtLabel DEF Working
  <2>3. unreadCounts[c] \in [User -> Seq(Nat)] /\ unreadCounts[c][u] \in Seq(Nat)
    BY <2>2 DEF TypeOK
  <2>4. PICK rows \in Seq(Nat) : unreadCounts' = [unreadCounts EXCEPT ![c][u] = rows]
    <3>1. CASE unreadCounts' = [unreadCounts EXCEPT ![c][u][1] = @ + 1]
      BY <2>3, <3>1, RowsTyped
    <3>2. CASE unreadCounts' = [unreadCounts EXCEPT ![c][u] = Append(@, 1)]
      BY <2>3, <3>2, RowsTyped
    <3> QED BY <1>10, <3>1, <3>2 DEF CountRow
  <2>5. unreadCounts' \in [Conversation -> [User -> Seq(Nat)]]
    BY <2>2, <2>3, <2>4 DEF TypeOK
  <2>6. req' = ServiceReturned(r) /\ UNCHANGED <<stored, unreadCount, lastSender, messages>>
    BY <1>10 DEF CountRow
  <2>7. MessageOf(r)'
    BY <2>1, <2>6, ReturnedMoves DEF MessageOf, Inserted, Ended
  <2> QED BY <2>1, <2>5, <2>6, <2>7, ReturnedMoves, OthersKeep DEF TypeOK
<1>11. CASE ClearRow(r)
  <2> DEFINE c == req[r].conv  u == req[r].user
  <2>1. req[r].pc \in Labels
    BY <1>11 DEF ClearRow, Labels
  <2>2. c \in Conversation /\ u \in User
    BY <2>1, ActiveAtLabel DEF Working
  <2>3. unreadCounts[c] \in [User -> Seq(Nat)] /\ unreadCounts[c][u] \in Seq(Nat)
    BY <2>2 DEF TypeOK
  <2>4. PICK rows \in Seq(Nat) : unreadCounts' = [unreadCounts EXCEPT ![c][u] = rows]
    <3>1. CASE unreadCounts' = [unreadCounts EXCEPT ![c][u][1] = 0]
      BY <2>3, <3>1, RowsTyped
    <3>2. CASE unreadCounts' = [unreadCounts EXCEPT ![c][u] = Append(@, 0)]
      BY <2>3, <3>2, RowsTyped
    <3> QED BY <1>11, <3>1, <3>2 DEF ClearRow
  <2>5. unreadCounts' \in [Conversation -> [User -> Seq(Nat)]]
    BY <2>2, <2>3, <2>4 DEF TypeOK
  <2>6. req' = End(r) /\ UNCHANGED <<stored, unreadCount, lastSender, messages>>
    BY <1>11 DEF ClearRow
  <2> QED BY <2>5, <2>6, EndMoves, EndedMessage, OthersKeep DEF TypeOK
<1>12. CASE SetDelivered(r)
  <2>1. Inserted(r) /\ messages[r] # NoMessage
    BY <1>12 DEF SetDelivered, Inserted, MessageOf
  <2>2. messages[r] \in Message
    BY <2>1 DEF TypeOK
  <2>3. [messages[r] EXCEPT !.status = Delivered] \in Message
    BY <2>2 DEF Message
  <2>4. messages' = [messages EXCEPT ![r] = [messages[r] EXCEPT !.status = Delivered]]
    BY <1>12 DEF SetDelivered
  <2>5. /\ messages' \in [Request -> Message \cup {NoMessage}]
        /\ \A q \in Request : q # r => messages'[q] = messages[q]
    BY <2>3, <2>4 DEF TypeOK
  <2>6. req' = End(r) /\ UNCHANGED <<stored, unreadCount, unreadCounts, lastSender>>
    BY <1>12 DEF SetDelivered
  <2> QED BY <2>5, <2>6, EndMoves, EndedMessage, OthersKeep DEF TypeOK
<1>13. CASE MarkMessages(r)
  <2>1. req[r].pc = "markMessages" /\ req[r].pc \in Labels /\ req[r].kind = "read"
    BY <1>13 DEF MarkMessages, Labels, MessageOf
  <2>2. messages' = [m \in Request |-> IF ToReader(m, req[r].conv, req[r].user)
                                       THEN [messages[m] EXCEPT !.status = Seen]
                                       ELSE messages[m]]
    BY <1>13 DEF MarkMessages
  <2>3. ASSUME NEW m \in Request
        PROVE  /\ messages'[m] \in Message \cup {NoMessage}
               /\ messages'[m] = NoMessage <=> messages[m] = NoMessage
    <3>1. messages[m] \in Message \cup {NoMessage}
      BY DEF TypeOK
    <3>2. CASE ToReader(m, req[r].conv, req[r].user)
      <4>1. messages[m] \in Message
        BY <3>1, <3>2 DEF ToReader
      <4>2. [messages[m] EXCEPT !.status = Seen] \in Message
        BY <4>1 DEF Message
      <4> QED BY <2>2, <3>2, <4>1, <4>2, NoMessageIsNone
    <3>3. CASE ~ToReader(m, req[r].conv, req[r].user)
      BY <2>2, <3>1, <3>3
    <3> QED BY <3>2, <3>3
  <2>4. messages' \in [Request -> Message \cup {NoMessage}]
    BY <2>2, <2>3
  <2>5. req' = Goto(r, "readCounts") /\ UNCHANGED <<stored, unreadCount, unreadCounts, lastSender>>
    BY <1>13 DEF MarkMessages
  <2>6. /\ req' \in [Request -> {Idle, Ended} \cup Working]
        /\ \A q \in Request : q # r => req'[q] = req[q]
        /\ req'[r].pc = "readCounts" /\ req'[r].kind = "read"
    BY <2>1, <2>5, GotoMoves DEF Labels
  <2>7. MessageOf(r)'
    BY <2>6 DEF MessageOf, Inserted
  <2> QED BY <2>3, <2>4, <2>5, <2>6, <2>7, OthersKeep DEF TypeOK
<1> QED BY <1>1, <1>2, <1>3, <1>4, <1>5, <1>6, <1>7, <1>8, <1>9, <1>10, <1>11, <1>12, <1>13

\* The steps of the devices and a restart store nothing.
LEMMA ServiceStep == ServiceInv /\ RoomsTypeOK' /\ [Next]_vars => ServiceInv'
<1> SUFFICES ASSUME ServiceInv, RoomsTypeOK', [Next]_vars PROVE ServiceInv'
  OBVIOUS
<1>1. CASE \E r \in Request :
             \/ Receive(r) \/ StartRefused(r) \/ FindConversation(r) \/ DuplicateChatId(r)
             \/ CreateConversation(r) \/ DeleteConversation(r) \/ InsertMessage(r)
             \/ SetLast(r) \/ ReadCounts(r) \/ WriteCounts(r) \/ CountRow(r) \/ ClearRow(r)
             \/ SetDelivered(r) \/ MarkMessages(r) \/ Fail(r)
  BY <1>1, RequestStep
<1>2. CASE Devices \/ UNCHANGED vars
  <2>1. UNCHANGED <<documents, req>>
    BY <1>2 DEF Devices, vars
  <2> QED BY <2>1 DEF ServiceInv, TypeOK, MessageOf, Inserted, documents
<1>3. CASE Restart
  <2>1. UNCHANGED documents /\ req' = [r \in Request |-> IF r \in Active THEN Ended ELSE req[r]]
    BY <1>3 DEF Restart
  <2>2. req' \in [Request -> {Idle, Ended} \cup Working]
    BY <2>1 DEF ServiceInv, TypeOK
  <2>3. \A r \in Request : MessageOf(r)'
    BY <2>1 DEF ServiceInv, MessageOf, Inserted, Ended, documents
  <2> QED BY <2>1, <2>2, <2>3 DEF ServiceInv, TypeOK, documents
<1> QED BY <1>1, <1>2, <1>3 DEF Next

\* Before any request there are no messages.
LEMMA ServiceStart == Init => ServiceInv
<1> SUFFICES ASSUME Init PROVE ServiceInv
  OBVIOUS
<1>1. TypeOK
  BY TypeStart
<1>2. \A r \in Request : MessageOf(r)
  BY DEF Init, MessageOf, Inserted, Idle
<1> QED BY <1>1, <1>2 DEF ServiceInv

\* So the invariant holds throughout.
LEMMA ServiceHolds == Spec => []ServiceInv
<1>1. RoomsInv => RoomsTypeOK
  BY DEF RoomsInv
<1>2. RoomsSpec => []RoomsInv
  BY RoomsStart, StepKeeps, PTL DEF RoomsSpec
<1> QED BY <1>1, <1>2, ServiceImplementsRooms, ServiceStart, ServiceStep, PTL DEF Spec

\* The documents, the requests and the maps keep their types, for any users,
\* devices and conversations.
THEOREM TypeCorrect == Spec => []TypeOK
<1>1. ServiceInv => TypeOK
  BY DEF ServiceInv
<1> QED BY <1>1, ServiceHolds, PTL

-----------------------------------------------------------------------------
(* The status of a message.                                                *)

\* One request at a time, nobody can have seen the message of a request that
\* still has to see to its delivery.
SeenInv ==
    ~overlapped =>
        /\ \A r, q \in Active : r = q
        /\ \A r \in Request : Inserted(r) => messages[r].status # Seen

\* What a step does to a message that was seen, and to SeenInv.
SeenKept ==
    \A m \in Request : ~overlapped /\ messages[m].status = Seen => messages'[m].status = Seen

\* Who has still to see to a delivery is at work.
LEMMA InsertedActive ==
    ASSUME ServiceInv, NEW r \in Request, Inserted(r) PROVE r \in Active
BY ActiveAtLabel DEF ServiceInv, Inserted, Labels

\* A step that begins nothing and touches no message.
LEMMA QuietSeen ==
    ASSUME ServiceInv, SeenInv, UNCHANGED <<messages, overlapped>>,
           \A q \in Request : q \in Active' => q \in Active,
           \A q \in Request : Inserted(q)' => Inserted(q)
    PROVE  SeenInv' /\ SeenKept
BY DEF SeenInv, SeenKept, Active

\* A request that goes on from one label to another, or ends.
LEMMA MovesSeen ==
    ASSUME ServiceInv, SeenInv, UNCHANGED <<messages, overlapped>>,
           NEW r \in Request, req[r].pc \in Labels,
           \A q \in Request : q # r => req'[q] = req[q],
           Inserted(r)' => Inserted(r)
    PROVE  SeenInv' /\ SeenKept
<1>1. \A q \in Request : q \in Active' => q \in Active
  BY ActiveAtLabel DEF Active, ServiceInv
<1>2. \A q \in Request : Inserted(q)' => Inserted(q)
  BY DEF Inserted
<1> QED BY <1>1, <1>2, QuietSeen

\* Only a read that overtakes a setDelivered can be undone by it.
LEMMA SeenStep ==
    ServiceInv /\ SeenInv /\ [Next]_vars => SeenInv' /\ SeenKept
<1> SUFFICES ASSUME ServiceInv, SeenInv, [Next]_vars PROVE SeenInv' /\ SeenKept
  OBVIOUS
<1>0. TypeOK /\ \A r \in Request : MessageOf(r)
  BY DEF ServiceInv
<1>1. ASSUME NEW r \in Request, Receive(r) PROVE SeenInv' /\ SeenKept
  <2>1. UNCHANGED messages /\ req[r].pc = "idle" /\ overlapped' = (overlapped \/ Active # {})
    BY <1>1 DEF Receive, documents
  <2>2. SeenKept
    BY <2>1 DEF SeenKept
  <2>3. ASSUME ~overlapped' PROVE /\ \A p, q \in Active' : p = q
                                  /\ \A q \in Request : Inserted(q)' => messages'[q].status # Seen
    <3>1. ~overlapped /\ Active = {}
      BY <2>1, <2>3
    <3>2. \A q \in Request : q # r => q \notin Active' /\ ~Inserted(q)'
      <4>1. \A q \in Request : q # r => req'[q] = req[q] /\ ~Inserted(q)
        BY <1>1, <3>1, ReceiveTyped, InsertedActive
      <4> QED BY <3>1, <4>1 DEF Active, Inserted
    <3>3. ~Inserted(r)'
      BY <1>1, ReceiveTyped DEF Inserted
    <3> QED BY <3>2, <3>3 DEF Active
  <2> QED BY <2>2, <2>3 DEF SeenInv
<1>2. ASSUME NEW r \in Request,
             StartRefused(r) \/ DuplicateChatId(r) \/ CreateConversation(r)
               \/ DeleteConversation(r) \/ ClearRow(r)
      PROVE  SeenInv' /\ SeenKept
  <2>1. /\ req' = End(r) /\ UNCHANGED <<messages, overlapped>>
        /\ req[r].pc \in Labels
    BY <1>2 DEF StartRefused, DuplicateChatId, CreateConversation, DeleteConversation,
                ClearRow, documents, history, Labels
  <2> QED BY <1>0, <2>1, EndMoves, EndedMessage, MovesSeen
<1>3. ASSUME NEW r \in Request, FindConversation(r) PROVE SeenInv' /\ SeenKept
  <2>1. UNCHANGED <<messages, overlapped>> /\ req[r].pc = "findConversation" /\ req[r].pc \in Labels
    BY <1>3 DEF FindConversation, documents, history, Labels
  <2>2. CASE req' = End(r)
    BY <1>0, <2>1, <2>2, EndMoves, EndedMessage, MovesSeen
  <2>3. CASE req' = Goto(r, "createConversation")
    <3>1. req'[r].pc = "createConversation" /\ \A q \in Request : q # r => req'[q] = req[q]
      BY <1>0, <2>1, <2>3, GotoMoves DEF Labels
    <3>2. ~Inserted(r)'
      BY <3>1 DEF Inserted
    <3> QED BY <2>1, <3>1, <3>2, MovesSeen
  <2> QED BY <1>3, <2>2, <2>3 DEF FindConversation
<1>4. ASSUME NEW r \in Request, SetLast(r) \/ CountRow(r) PROVE SeenInv' /\ SeenKept
  <2>1. /\ req' = ServiceReturned(r) /\ UNCHANGED <<messages, overlapped>>
        /\ req[r].pc \in Labels /\ Inserted(r)
    BY <1>4 DEF SetLast, CountRow, Inserted, history, Labels
  <2> QED BY <2>1, ReturnedMoves, MovesSeen
<1>5. ASSUME NEW r \in Request, ReadCounts(r) \/ WriteCounts(r) PROVE SeenInv' /\ SeenKept
  <2>1. /\ UNCHANGED <<messages, overlapped>> /\ req[r].pc \in {"readCounts", "writeCounts"}
        /\ req[r].pc \in Labels
    BY <1>5 DEF ReadCounts, WriteCounts, documents, history, Labels
  <2>2. req[r] \in Working
    BY <1>0, <2>1, ActiveAtLabel
  <2>3. /\ req'[r].kind = req[r].kind /\ req'[r].pc \in {"writeCounts", "updateRow", "pushRow"}
        /\ \A q \in Request : q # r => req'[q] = req[q]
    <3>1. CASE ReadCounts(r)
      BY <1>0, <2>2, <3>1 DEF ReadCounts, TypeOK, Working
    <3>2. CASE WriteCounts(r)
      BY <1>0, <2>2, <3>2 DEF WriteCounts, TypeOK, Working
    <3> QED BY <1>5, <3>1, <3>2
  <2>4. Inserted(r)' => Inserted(r)
    BY <2>1, <2>3 DEF Inserted
  <2> QED BY <2>1, <2>3, <2>4, MovesSeen
<1>6. ASSUME NEW r \in Request, Fail(r) PROVE SeenInv' /\ SeenKept
  <2>1. req' = End(r) /\ UNCHANGED <<messages, overlapped>> /\ req[r].pc \in Labels
    BY <1>0, <1>6, ActiveAtLabel DEF Fail, documents
  <2> QED BY <1>0, <2>1, EndMoves, EndedMessage, MovesSeen
<1>7. ASSUME NEW r \in Request, InsertMessage(r) PROVE SeenInv' /\ SeenKept
  <2>1. /\ req[r].pc = "insertMessage" /\ req[r].pc \in Labels /\ overlapped' = overlapped
        /\ messages[r] = NoMessage
    BY <1>0, <1>7 DEF InsertMessage, Labels, MessageOf
  <2>2. messages'[r].status = Sent /\ \A q \in Request : q # r => messages'[q] = messages[q]
    BY <1>0, <1>7 DEF InsertMessage, TypeOK
  <2>3. SeenKept
    BY <2>1, <2>2, NoMessageIsNone DEF SeenKept
  <2>4. PICK l \in Labels : req' = Goto(r, l)
    BY <1>7 DEF InsertMessage, Labels
  <2>5. \A q \in Request : q # r => req'[q] = req[q]
    BY <1>0, <2>1, <2>4, GotoMoves
  <2>6. r \in Active
    BY <1>0, <2>1, ActiveAtLabel
  <2>7. \A q \in Request : q \in Active' => q \in Active
    BY <2>5, <2>6 DEF Active
  <2>8. \A q \in Request : q # r /\ Inserted(q)' => Inserted(q)
    BY <2>5 DEF Inserted
  <2>9. messages'[r].status # Seen
    BY <2>2 DEF Sent, Seen
  <2> QED BY <2>1, <2>2, <2>3, <2>7, <2>8, <2>9 DEF SeenInv, Active
<1>8. ASSUME NEW r \in Request, SetDelivered(r) PROVE SeenInv' /\ SeenKept
  <2>1. Inserted(r) /\ req' = End(r) /\ overlapped' = overlapped
    BY <1>8 DEF SetDelivered, Inserted, history
  <2>2. \A q \in Request : q # r => messages'[q] = messages[q]
    BY <1>0, <1>8 DEF SetDelivered, TypeOK
  <2>3. SeenKept
    BY <2>1, <2>2 DEF SeenKept, SeenInv
  <2>4. \A q \in Request : q # r => req'[q] = req[q]
    BY <1>0, <2>1, EndMoves
  <2>5. ~Inserted(r)' /\ r \in Active
    BY <1>0, <2>1, EndMoves, EndedMessage, InsertedActive
  <2>6. \A q \in Request : q \in Active' => q \in Active
    BY <2>4, <2>5 DEF Active
  <2>7. \A q \in Request : q # r /\ Inserted(q)' => Inserted(q)
    BY <2>4 DEF Inserted
  <2> QED BY <2>1, <2>2, <2>3, <2>5, <2>6, <2>7 DEF SeenInv, Active
<1>9. ASSUME NEW r \in Request, MarkMessages(r) PROVE SeenInv' /\ SeenKept
  <2>1. /\ req[r].pc = "markMessages" /\ req[r].pc \in Labels /\ req[r].kind = "read"
        /\ overlapped' = overlapped /\ req' = Goto(r, "readCounts")
    BY <1>0, <1>9 DEF MarkMessages, Labels, MessageOf
  <2>2. ASSUME NEW m \in Request, messages[m].status = Seen PROVE messages'[m].status = Seen
    <3>1. messages[m] \in Message
      BY <1>0, <2>2, NoMessageIsNone DEF TypeOK
    <3> QED BY <1>9, <2>2, <3>1 DEF MarkMessages, Message
  <2>3. SeenKept
    BY <2>2 DEF SeenKept
  <2>4. /\ req'[r].pc = "readCounts" /\ req'[r].kind = "read"
        /\ \A q \in Request : q # r => req'[q] = req[q]
    BY <1>0, <2>1, GotoMoves DEF Labels
  <2>5. r \in Active
    BY <1>0, <2>1, ActiveAtLabel
  <2>6. \A q \in Request : q \in Active' => q \in Active
    BY <2>4, <2>5 DEF Active
  <2>7. ASSUME ~overlapped', NEW q \in Request, Inserted(q)' PROVE FALSE
    <3>1. q # r
      BY <2>4, <2>7 DEF Inserted
    <3>2. Inserted(q)
      BY <2>4, <2>7, <3>1 DEF Inserted
    <3>3. q \in Active
      BY <3>2, InsertedActive
    <3> QED BY <2>1, <2>5, <2>7, <3>1, <3>3 DEF SeenInv
  <2> QED BY <2>1, <2>3, <2>6, <2>7 DEF SeenInv, Active
<1>10. CASE Devices \/ UNCHANGED vars
  <2>1. UNCHANGED <<messages, req, overlapped>>
    BY <1>10 DEF Devices, vars, documents, history
  <2> QED BY <2>1, QuietSeen DEF Active, Inserted
<1>11. CASE Restart
  <2>1. /\ UNCHANGED <<messages, overlapped>>
        /\ req' = [r \in Request |-> IF r \in Active THEN Ended ELSE req[r]]
    BY <1>11 DEF Restart, documents
  <2>2. \A q \in Request : ~Inserted(q)'
    <3> SUFFICES ASSUME NEW q \in Request PROVE ~Inserted(q)'
      OBVIOUS
    <3>1. CASE q \in Active
      BY <2>1, <3>1, EndedMessage
    <3>2. CASE q \notin Active
      BY <2>1, <3>2, InsertedActive DEF Inserted
    <3> QED BY <3>1, <3>2
  <2>3. \A q \in Request : q \notin Active'
    BY <2>1 DEF Active, Ended
  <2> QED BY <2>1, <2>2, <2>3, QuietSeen
<1> QED BY <1>1, <1>2, <1>3, <1>4, <1>5, <1>6, <1>7, <1>8, <1>9, <1>10, <1>11 DEF Next

\* So while requests come one at a time, no more than one is at work.
LEMMA SeenHolds == Spec => []SeenInv
<1>1. Init => SeenInv
  BY DEF Init, SeenInv, Active, Inserted, Idle
<1> QED BY <1>1, ServiceHolds, SeenStep, PTL DEF Spec

\* As long as requests come one at a time, a message that was seen stays so,
\* for any users and messages, restarts and failures included.
THEOREM SeenStays == Spec => SeenStaysOneAtATime
<1>1. ServiceInv /\ SeenInv /\ [Next]_vars =>
         [\A m \in Request : ~overlapped /\ messages[m].status = Seen
                                 => messages'[m].status = Seen]_vars
  BY SeenStep DEF SeenKept
<1> QED BY <1>1, ServiceHolds, SeenHolds, PTL DEF Spec, SeenStaysOneAtATime

-----------------------------------------------------------------------------
(* Numbers, finite sets and sums, for the counts.                          *)

\* A set of numbers that is not empty has a least one.
LEMMA LeastNatural ==
    ASSUME NEW T, T \subseteq Nat, T # {}
    PROVE  \E m \in T : \A k \in T : m <= k
<1> DEFINE Below == OpToRel(<, Nat)
<1>1. \A m, n \in Nat : m < n => <<m, n>> \in Below
  BY DEF OpToRel
<1>2. IsWellFoundedOn(Below, Nat)
  BY NatLessThanWellFounded
<1> HIDE DEF Below
<1>3. PICK m \in T : \A y \in T : <<y, m>> \notin Below
  BY <1>2, WFMin, Zenon
<1>4. ASSUME NEW k \in T PROVE m <= k
  <2>1. m \in Nat /\ k \in Nat
    OBVIOUS
  <2>2. ~(k < m)
    BY <1>1, <1>3, <2>1, Zenon
  <2> QED BY <2>1, <2>2, SMT
<1> QED BY <1>4

\* Induction on the size of a finite set.
LEMMA SubsetInduction ==
    ASSUME NEW D, IsFiniteSet(D), NEW P,
           ASSUME NEW s \in SUBSET D, \A x \in s : s \ {x} \in P PROVE s \in P
    PROVE  SUBSET D \subseteq P
<1> SUFFICES ASSUME NEW t \in SUBSET D, t \notin P PROVE FALSE
  OBVIOUS
<1> DEFINE Bad == (SUBSET D) \ P
           Sizes == {Cardinality(s) : s \in Bad}
<1>1. \A s \in SUBSET D : IsFiniteSet(s) /\ Cardinality(s) \in Nat
  BY FS_Subset, FS_CardinalityType
<1>2. Sizes \subseteq Nat /\ Sizes # {}
  BY <1>1
<1>3. PICK n \in Sizes : \A k \in Sizes : n <= k
  <2> HIDE DEF Sizes
  <2> QED BY <1>2, LeastNatural
<1>4. PICK s \in Bad : n = Cardinality(s)
  BY <1>3
<1>5. ASSUME NEW x \in s PROVE s \ {x} \in P
  <2>1. Cardinality(s \ {x}) = n - 1 /\ n \in Nat
    BY <1>1, <1>4, FS_RemoveElement
  <2>2. s \ {x} \in Bad => n <= Cardinality(s \ {x})
    BY <1>3
  <2> QED BY <1>4, <2>1, <2>2
<1>6. s \in SUBSET D /\ s \notin P
  BY <1>4
<1> HIDE DEF Bad, Sizes
<1> QED BY <1>5, <1>6

-----------------------------------------------------------------------------
(* FoldSeq(+, 0, _): the sum of a sequence.                                *)

AnyOf(s) == CHOOSE x \in s : TRUE
SumStep(g, f, s) == IF s = {} THEN 0 ELSE f[AnyOf(s)] + g[s \ {AnyOf(s)}]
Sums(g, f, D) == g = [s \in SUBSET D |-> SumStep(g, f, s)]

\* What the fold of the community modules is, in these terms.
LEMMA FoldIsSum ==
    ASSUME NEW f
    PROVE  FoldSeq(+, 0, f) = (CHOOSE g : Sums(g, f, DOMAIN f))[DOMAIN f]
BY DEF FoldSeq, FoldFunction, FoldFunctionOnSet, MapThenFoldSet, Sums, SumStep, AnyOf

\* Every finite function has sums.
LEMMA SumsExist ==
    ASSUME NEW D, IsFiniteSet(D), NEW f \in [D -> Nat]
    PROVE  \E g : Sums(g, f, D)
<1> DEFINE Upto(g, n) == \A s \in SUBSET D : Cardinality(s) <= n => g[s] = SumStep(g, f, s)
           Solved == {n \in Nat : \E g : Upto(g, n)}
<1>1. ASSUME NEW s \in SUBSET D
      PROVE  /\ IsFiniteSet(s) /\ Cardinality(s) \in Nat
             /\ s # {} => Cardinality(s \ {AnyOf(s)}) = Cardinality(s) - 1
             /\ Cardinality(s) = 0 => s = {}
  BY FS_Subset, FS_CardinalityType, FS_RemoveElement, FS_EmptySet DEF AnyOf
<1>2. 0 \in Solved
  <2> DEFINE g == [s \in SUBSET D |-> 0]
  <2>1. ASSUME NEW s \in SUBSET D, Cardinality(s) <= 0 PROVE g[s] = SumStep(g, f, s)
    <3>1. Cardinality(s) \in Nat /\ Cardinality(s) <= 0
      BY <1>1, <2>1
    <3>3. Cardinality(s) = 0
      BY ONLY <3>1
    <3>2. s = {}
      BY <1>1, <3>3
    <3> QED BY <3>2 DEF SumStep
  <2>2. Upto(g, 0)
    BY <2>1
  <2> HIDE DEF g, Upto
  <2> QED BY <2>2
<1>3. ASSUME NEW n \in Solved PROVE n + 1 \in Solved
  <2>1. n \in Nat
    OBVIOUS
  <2>2. PICK g : Upto(g, n)
    OBVIOUS
  <2> DEFINE h == [s \in SUBSET D |-> IF Cardinality(s) <= n THEN g[s] ELSE SumStep(g, f, s)]
  <2>3. ASSUME NEW s \in SUBSET D, Cardinality(s) <= n + 1 PROVE h[s] = SumStep(h, f, s)
    <3>1. h[s] = SumStep(g, f, s)
      BY <2>2
    <3>2. s # {} => s \ {AnyOf(s)} \in SUBSET D /\ Cardinality(s \ {AnyOf(s)}) <= n
      BY <1>1, <2>1, <2>3
    <3>3. s # {} => h[s \ {AnyOf(s)}] = g[s \ {AnyOf(s)}]
      BY <3>2
    <3> HIDE DEF h, Upto
    <3> QED BY <3>1, <3>3 DEF SumStep
  <2>4. Upto(h, n + 1)
    <3> HIDE DEF h
    <3> QED BY <2>3
  <2> HIDE DEF h, Upto
  <2> QED BY <2>1, <2>4
<1>4. Nat \subseteq Solved
  <2> SUFFICES ASSUME Nat \ Solved # {} PROVE FALSE
    OBVIOUS
  <2> HIDE DEF Solved
  <2>1. PICK m \in Nat \ Solved : \A k \in Nat \ Solved : m <= k
    BY LeastNatural
  <2>2. m # 0 /\ m - 1 \in Nat
    BY <1>2, <2>1
  <2> QED BY <1>3, <2>1, <2>2
<1>5. Cardinality(D) \in Nat /\ \A s \in SUBSET D : Cardinality(s) <= Cardinality(D)
  BY FS_Subset, FS_CardinalityType
<1>6. PICK g : Upto(g, Cardinality(D))
  BY <1>4, <1>5
<1> DEFINE h == [s \in SUBSET D |-> g[s]]
<1>7. ASSUME NEW s \in SUBSET D PROVE h[s] = SumStep(h, f, s)
  <2>1. h[s] = SumStep(g, f, s)
    BY <1>5, <1>6
  <2>2. s # {} => h[s \ {AnyOf(s)}] = g[s \ {AnyOf(s)}]
    OBVIOUS
  <2> HIDE DEF h
  <2> QED BY <2>1, <2>2 DEF SumStep
<1>8. h = [s \in SUBSET D |-> SumStep(h, f, s)]
  <2>1. h = [s \in SUBSET D |-> h[s]]
    OBVIOUS
  <2> HIDE DEF h
  <2> QED BY <1>7, <2>1
<1> HIDE DEF h
<1> QED BY <1>8 DEF Sums

\* A sum is a number, and any element of a set can be taken out first.
LEMMA SumOfSet ==
    ASSUME NEW D, NEW f, NEW g, IsFiniteSet(D), f \in [D -> Nat], Sums(g, f, D)
    PROVE  /\ g[{}] = 0
           /\ g \in [SUBSET D -> Nat]
<1>1. \A s \in SUBSET D : g[s] = SumStep(g, f, s)
  BY DEF Sums
<1>2. g[{}] = 0
  BY <1>1 DEF SumStep
<1>3. \A s \in SUBSET D : s # {} => AnyOf(s) \in s /\ g[s] = f[AnyOf(s)] + g[s \ {AnyOf(s)}]
  BY <1>1 DEF SumStep, AnyOf
<1>4. \A s \in SUBSET D : g[s] \in Nat
  <2> DEFINE Numbers == {s \in SUBSET D : g[s] \in Nat}
  <2>1. ASSUME NEW s \in SUBSET D, \A x \in s : s \ {x} \in Numbers PROVE s \in Numbers
    <3>1. CASE s = {}
      BY <1>2, <3>1
    <3>2. CASE s # {}
      <4>1. PICK p \in s : g[s] = f[p] + g[s \ {p}]
        BY <1>3, <3>2
      <4>2. f[p] \in Nat /\ g[s \ {p}] \in Nat
        BY <2>1
      <4> QED BY <4>1, <4>2
    <3> QED BY <3>1, <3>2
  <2>2. SUBSET D \subseteq Numbers
    <3> HIDE DEF Numbers
    <3> QED BY <2>1, SubsetInduction
  <2> QED BY <2>2
<1>5. g \in [SUBSET D -> Nat]
  <2>1. g = [s \in SUBSET D |-> g[s]]
    BY DEF Sums
  <2> QED BY <1>4, <2>1
<1> QED BY <1>2, <1>5

\* Any element can be taken out first: the order of the fold does not matter.
LEMMA SumTakes ==
    ASSUME NEW D, NEW f, NEW g, IsFiniteSet(D), f \in [D -> Nat], Sums(g, f, D), NEW x \in D
    PROVE  g[D \ {x}] \in Nat /\ g[D] = f[x] + g[D \ {x}]
<1>3. \A s \in SUBSET D : s # {} => AnyOf(s) \in s /\ g[s] = f[AnyOf(s)] + g[s \ {AnyOf(s)}]
  BY DEF Sums, SumStep, AnyOf
<1>4. g \in [SUBSET D -> Nat]
  BY SumOfSet
<1> DEFINE Good == {s \in SUBSET D : \A y \in s : g[s] = f[y] + g[s \ {y}]}
<1>5. ASSUME NEW s \in SUBSET D, \A y \in s : s \ {y} \in Good,
             NEW y \in s
      PROVE  g[s] = f[y] + g[s \ {y}]
  <2> DEFINE p == AnyOf(s)
  <2>1. p \in s /\ g[s] = f[p] + g[s \ {p}]
    BY <1>3, <1>5
  <2> HIDE DEF p
  <2> SUFFICES ASSUME y # p PROVE g[s] = f[y] + g[s \ {y}]
    BY <2>1
  <2>2. s \ {y} \in Good /\ s \ {p} \in Good
    BY <1>5, <2>1
  <2> DEFINE rest == (s \ {p}) \ {y}
  <2>3. g[s \ {p}] = f[y] + g[rest]
    BY <2>2
  <2>4. g[s \ {y}] = f[p] + g[rest]
    <3>1. rest = (s \ {y}) \ {p} /\ p \in s \ {y}
      BY <2>1
    <3> HIDE DEF rest
    <3> QED BY <2>2, <3>1
  <2>5. f[y] \in Nat /\ f[p] \in Nat /\ g[rest] \in Nat
    BY <1>4, <2>1
  <2> HIDE DEF rest
  <2> QED BY <2>1, <2>3, <2>4, <2>5
<1>6. SUBSET D \subseteq Good
  <2>1. ASSUME NEW s \in SUBSET D, \A y \in s : s \ {y} \in Good PROVE s \in Good
    <3>1. \A y \in s : g[s] = f[y] + g[s \ {y}]
      <4> HIDE DEF Good
      <4> QED BY <1>5, <2>1
    <3> QED BY <3>1
  <2> HIDE DEF Good
  <2> QED BY <2>1, SubsetInduction
<1>7. D \in Good
  BY <1>6
<1> QED BY <1>4, <1>7

\* Functions that agree on a set have the same sum there.
LEMMA SumsAgree ==
    ASSUME NEW D, IsFiniteSet(D), NEW f, NEW g, Sums(g, f, D),
           NEW C, NEW e, NEW h, Sums(h, e, C),
           NEW s \in SUBSET D, s \subseteq C, \A x \in s : f[x] = e[x]
    PROVE  g[s] = h[s]
<1> DEFINE Good == {t \in SUBSET D : t \subseteq s => g[t] = h[t]}
<1>1. ASSUME NEW t \in SUBSET D, \A x \in t : t \ {x} \in Good PROVE t \in Good
  <2> SUFFICES ASSUME t \subseteq s PROVE g[t] = h[t]
    OBVIOUS
  <2>1. g[t] = SumStep(g, f, t) /\ h[t] = SumStep(h, e, t)
    BY DEF Sums
  <2>2. CASE t = {}
    BY <2>1, <2>2 DEF SumStep
  <2>3. CASE t # {}
    <3> DEFINE p == AnyOf(t)
    <3>1. p \in t
      BY <2>3 DEF AnyOf
    <3>2. g[t] = f[p] + g[t \ {p}] /\ h[t] = e[p] + h[t \ {p}]
      BY <2>1, <2>3 DEF SumStep
    <3> HIDE DEF p
    <3>3. t \ {p} \in Good /\ t \ {p} \subseteq s
      BY <1>1, <3>1
    <3> QED BY <3>1, <3>2, <3>3
  <2> QED BY <2>2, <2>3
<1>2. SUBSET D \subseteq Good
  <2> HIDE DEF Good
  <2> QED BY <1>1, SubsetInduction
<1> QED BY <1>2

Total(q) == FoldSeq(+, 0, q)

\* What the lemmas above say of the fold of a sequence.
LEMMA TotalSums ==
    ASSUME NEW q \in Seq(Nat)
    PROVE  /\ IsFiniteSet(DOMAIN q)
           /\ q \in [DOMAIN q -> Nat]
           /\ \E g : Sums(g, q, DOMAIN q) /\ Total(q) = g[DOMAIN q]
<1>1. DOMAIN q = 1..Len(q) /\ Len(q) \in Nat /\ q \in [DOMAIN q -> Nat]
  OBVIOUS
<1>2. IsFiniteSet(DOMAIN q)
  <2>1. IsFiniteSet(1..Len(q))
    <3>1. 1 \in Int /\ Len(q) \in Int
      BY <1>1
    <3> QED BY <3>1, FS_Interval, Zenon
  <2> QED BY <1>1, <2>1
<1>3. Sums(CHOOSE g : Sums(g, q, DOMAIN q), q, DOMAIN q)
  BY <1>1, <1>2, SumsExist
<1> QED BY <1>1, <1>2, <1>3, FoldIsSum DEF Total

\* A total of naturals is one.
LEMMA TotalType == ASSUME NEW q \in Seq(Nat) PROVE Total(q) \in Nat
<1>1. PICK g : Sums(g, q, DOMAIN q) /\ Total(q) = g[DOMAIN q]
  BY TotalSums
<1>2. g \in [SUBSET DOMAIN q -> Nat]
  BY <1>1, TotalSums, SumOfSet
<1> QED BY <1>1, <1>2

\* Nothing adds up to zero.
LEMMA TotalEmpty == Total(<<>>) = 0
<1>1. <<>> \in Seq(Nat) /\ DOMAIN <<>> = {}
  OBVIOUS
<1>2. PICK g : Sums(g, <<>>, DOMAIN <<>>) /\ Total(<<>>) = g[DOMAIN <<>>]
  BY <1>1, TotalSums
<1> QED BY <1>1, <1>2, TotalSums, SumOfSet

\* The total is what one place holds, and the sum of the others.
LEMMA TotalSplit ==
    ASSUME NEW q \in Seq(Nat), NEW g, Sums(g, q, DOMAIN q), NEW i \in DOMAIN q
    PROVE  g[DOMAIN q \ {i}] \in Nat /\ g[DOMAIN q] = q[i] + g[DOMAIN q \ {i}]
<1>1. IsFiniteSet(DOMAIN q) /\ q \in [DOMAIN q -> Nat]
  BY TotalSums
<1>2. g \in [SUBSET DOMAIN q -> Nat]
  BY <1>1, SumOfSet
<1> QED BY <1>1, <1>2, SumTakes

\* A row more counts what it holds.
LEMMA TotalAppend ==
    ASSUME NEW q \in Seq(Nat), NEW n \in Nat
    PROVE  Total(Append(q, n)) = Total(q) + n
<1> DEFINE p == Append(q, n)  i == Len(q) + 1
<1>1. p \in Seq(Nat) /\ Len(p) = Len(q) + 1 /\ Len(q) \in Nat
  OBVIOUS
<1>2. DOMAIN p = 1..(Len(q) + 1) /\ DOMAIN q = 1..Len(q)
  BY <1>1
<1>3. i \in DOMAIN p /\ DOMAIN p \ {i} = DOMAIN q
  BY <1>1, <1>2
<1>4. p[i] = n /\ \A j \in DOMAIN q : p[j] = q[j]
  BY <1>2
<1> HIDE DEF p, i
<1>5. PICK g : Sums(g, p, DOMAIN p) /\ Total(p) = g[DOMAIN p]
  BY <1>1, TotalSums
<1>6. PICK h : Sums(h, q, DOMAIN q) /\ Total(q) = h[DOMAIN q]
  BY TotalSums
<1>7. g[DOMAIN q] \in Nat /\ Total(p) = n + g[DOMAIN q]
  BY <1>1, <1>3, <1>4, <1>5, TotalSplit
<1>8. IsFiniteSet(DOMAIN q) /\ DOMAIN q \in SUBSET DOMAIN q /\ DOMAIN q \subseteq DOMAIN p
  BY <1>3, TotalSums
<1>9. h[DOMAIN q] = g[DOMAIN q]
  BY <1>4, <1>5, <1>6, <1>8, SumsAgree
<1>10. Total(p) = Total(q) + n
  BY <1>6, <1>7, <1>9
<1> QED BY <1>10 DEF p

\* A changed row counts what it holds by now.
LEMMA TotalExcept ==
    ASSUME NEW q \in Seq(Nat), NEW i \in DOMAIN q, NEW n \in Nat
    PROVE  \E m \in Nat : /\ Total(q) = q[i] + m
                          /\ Total([q EXCEPT ![i] = n]) = n + m
<1> DEFINE p == [q EXCEPT ![i] = n]
<1>1. /\ p \in Seq(Nat) /\ DOMAIN p = DOMAIN q /\ p[i] = n
      /\ \A j \in DOMAIN p \ {i} : q[j] = p[j]
  OBVIOUS
<1> HIDE DEF p
<1>2. PICK g : Sums(g, p, DOMAIN p) /\ Total(p) = g[DOMAIN p]
  BY <1>1, TotalSums
<1>3. PICK h : Sums(h, q, DOMAIN q) /\ Total(q) = h[DOMAIN q]
  BY TotalSums
<1>4. Total(p) = n + g[DOMAIN p \ {i}]
  BY <1>1, <1>2, TotalSplit
<1>5. h[DOMAIN p \ {i}] \in Nat /\ Total(q) = q[i] + h[DOMAIN p \ {i}]
  BY <1>1, <1>3, TotalSplit
<1>6. IsFiniteSet(DOMAIN q) /\ DOMAIN p \ {i} \in SUBSET DOMAIN q /\ DOMAIN p \ {i} \subseteq DOMAIN p
  BY <1>1, TotalSums
<1>7. h[DOMAIN p \ {i}] = g[DOMAIN p \ {i}]
  BY <1>1, <1>2, <1>3, <1>6, SumsAgree
<1>8. \E m \in Nat : Total(q) = q[i] + m /\ Total(p) = n + m
  BY <1>4, <1>5, <1>7
<1> QED BY <1>8 DEF p

\* A single number is its own total.
LEMMA TotalOne == ASSUME NEW n \in Nat PROVE Total(<<n>>) = n
<1>1. <<>> \in Seq(Nat) /\ <<n>> = Append(<<>>, n) /\ Total(<<>>) \in Nat
  BY TotalEmpty
<1>2. Total(Append(<<>>, n)) = Total(<<>>) + n
  BY <1>1, TotalAppend
<1> QED BY <1>1, <1>2, TotalEmpty

-----------------------------------------------------------------------------
(* What is stored of a conversation, and what a request knows of it.       *)

Counting == {"readCounts", "writeCounts", "updateRow", "pushRow"}

\* Nobody has sent anything to a conversation that is not stored.
Untouched(c) ==
    \A u \in User : /\ missed[c][u] = {} /\ since[c][u] = {}
                    /\ unreadCounts[c][u] = <<>> /\ u \notin DOMAIN unreadCount[c]

\* A request asks for a stored conversation; one that skips the count found the
\* receiver there; each label has its kinds.
Known(r) ==
    /\ req[r].pc \in Labels /\ req[r].kind # "start" => stored[req[r].conv] # "none"
    /\ req[r].pc \in Labels /\ req[r].skip => req[r].heard
    /\ req[r].pc = "insertMessage" => req[r].kind = "send"
    /\ req[r].pc \in Counting => req[r].kind \in {"send", "read"}

HistoryInv ==
    /\ since \in [Conversation -> [User -> SUBSET Request]]
    /\ missed \in [Conversation -> [User -> SUBSET Request]]
    /\ \A c \in Conversation : \A u \in User : \A m \in since[c][u] : messages[m] # NoMessage
    /\ \A c \in Conversation : stored[c] = "none" => Untouched(c)
    /\ \A r \in Request : Known(r)

Others(r) == \A q \in Request : q # r => req'[q] = req[q]

\* A request that only goes on keeps what it knows.
SameRequest(r) ==
    /\ req'[r].kind = req[r].kind /\ req'[r].conv = req[r].conv
    /\ req'[r].user = req[r].user /\ req'[r].peer = req[r].peer
    /\ req'[r].skip = req[r].skip /\ req'[r].heard = req[r].heard

SameCounts == UNCHANGED <<unreadCount, unreadCounts, since, missed>>

\* A step that moves only the program counter keeps the rest of the request.
LEMMA GotoKeeps ==
    ASSUME TypeOK, NEW r \in Request, req[r].pc \in Labels, NEW l \in Labels, req' = Goto(r, l)
    PROVE  SameRequest(r) /\ Others(r) /\ req'[r].pc = l
<1>1. req[r] \in Working
  BY ActiveAtLabel
<1>2. req' = [req EXCEPT ![r] = [req[r] EXCEPT !.pc = l]]
  BY DEF Goto
<1>3. req'[r] = [req[r] EXCEPT !.pc = l] /\ Others(r)
  BY <1>2 DEF TypeOK, Others
<1> QED BY <1>1, <1>3 DEF Working, SameRequest

\* What a request knows is stable: what is stored is never forgotten.
LEMMA KnownKept ==
    ASSUME TypeOK, NEW q \in Request, Known(q),
           \A c \in Conversation : stored[c] # "none" => stored'[c] # "none",
           \/ req'[q] = req[q]
           \/ req'[q].pc = "ended"
           \/ req[q].pc \in Labels /\ SameRequest(q) /\ req'[q].pc \notin Counting \cup {"insertMessage"}
           \/ req[q].pc \in Labels /\ SameRequest(q) /\ req[q].kind \in {"send", "read"}
                 /\ req'[q].pc # "insertMessage"
    PROVE  Known(q)'
<1>1. req[q].pc \in Labels => req[q].conv \in Conversation
  BY ActiveAtLabel DEF Working
<1>2. CASE req'[q] = req[q]
  BY <1>1, <1>2 DEF Known
<1>3. CASE req'[q].pc = "ended"
  BY <1>3 DEF Known, Labels, Counting
<1>4. CASE /\ req[q].pc \in Labels /\ SameRequest(q)
           /\ req'[q].pc \notin Counting \cup {"insertMessage"}
  BY <1>1, <1>4 DEF Known, SameRequest
<1>5. CASE /\ req[q].pc \in Labels /\ SameRequest(q) /\ req[q].kind \in {"send", "read"}
           /\ req'[q].pc # "insertMessage"
  BY <1>1, <1>5 DEF Known, SameRequest
<1> QED BY <1>2, <1>3, <1>4, <1>5

\* A request to come: who is in the conversation hears the message.
LEMMA ReceiveKnown ==
    ASSUME RoomsInv, ServiceInv, NEW r \in Request, Receive(r)
    PROVE  /\ Known(r)' /\ Others(r) /\ SameCounts
           /\ UNCHANGED <<stored, messages>>
           /\ req'[r].pc \in {"findConversation", "insertMessage", "markMessages", "setDeleted"}
           /\ req[r].pc = "idle" /\ overlapped' = (overlapped \/ Active # {})
           /\ failed' = failed /\ marked' = (marked \/ req'[r].kind = "read")
<1>0. PICK c \in Used, kind \in {"start", "send", "read", "delete"}, socket \in BOOLEAN :
         \E me \in Participants[c] : \E peer \in Participants[c] \ {me} :
            Asks(r, c, kind, me, peer, socket)
  BY DEF Receive
<1>1. PICK me \in Participants[c], peer \in Participants[c] :
         Asks(r, c, kind, me, peer, socket)
  BY <1>0
<1> DEFINE skip == kind = "send" /\ SkipsUnread(peer, c, socket)
           new == NewRequest(kind, c, me, peer, socket, skip)
<1>2. c \in Conversation /\ me \in User /\ peer \in User
  BY UsedAssumption, ParticipantsAssumption
<1>3. skip => Hears(peer, c)
  BY <1>2, NoConversationAssumption DEF SkipsUnread, RoomsInv, CurrentIsHeard
<1>4. req' = [req EXCEPT ![r] = new] /\ marked' = (marked \/ kind = "read")
  BY <1>1 DEF Asks
<1>5. /\ new.kind = kind /\ new.pc = FirstStep(kind) /\ new.conv = c /\ new.skip = skip
      /\ new.heard = Hears(peer, c)
  BY DEF NewRequest
<1> HIDE DEF new, skip
<1>6. req'[r] = new
  BY <1>4 DEF ServiceInv, TypeOK
<1>7. kind # "start" => stored[c] # "none"
  BY <1>1 DEF Asks
<1>8. UNCHANGED <<documents, since, missed, failed>>
  BY DEF Receive
<1>9. /\ FirstStep(kind) \in {"findConversation", "insertMessage", "markMessages", "setDeleted"}
      /\ FirstStep(kind) = "insertMessage" => kind = "send"
  BY DEF FirstStep
<1>10. Known(r)'
  <2>1. stored' = stored
    BY <1>8 DEF documents
  <2> QED BY <1>3, <1>5, <1>6, <1>7, <1>9, <2>1 DEF Known, Counting
<1>11. Others(r)
  BY ReceiveTyped DEF Others
<1>12. /\ req[r].pc = "idle" /\ overlapped' = (overlapped \/ Active # {})
       /\ UNCHANGED <<unreadCount, unreadCounts, since, missed, stored, messages, failed>>
  BY <1>8 DEF Receive, documents
<1>13. marked' = (marked \/ req'[r].kind = "read")
  BY <1>4, <1>5, <1>6
<1> QED BY <1>5, <1>6, <1>9, <1>10, <1>11, <1>12, <1>13 DEF SameCounts

\* The steps that touch no count.
LEMMA PlainStep ==
    ASSUME ServiceInv, NEW r \in Request, Known(r),
           \/ StartRefused(r) \/ FindConversation(r) \/ DuplicateChatId(r) \/ DeleteConversation(r)
           \/ SetLast(r) \/ SetDelivered(r)
    PROVE  /\ Known(r)' /\ Others(r) /\ SameCounts
           /\ r \in Active /\ req[r].pc \notin Counting
           /\ req'[r].pc \in {"ended", "createConversation", "setDelivered"}
           /\ UNCHANGED <<overlapped, failed, marked>>
           /\ req'[r].pc # "ended" => SameRequest(r)
           /\ \A c \in Conversation : stored[c] # "none" => stored'[c] # "none"
           /\ \A c \in Conversation : stored'[c] = "none" => stored[c] = "none"
           /\ \A m \in Request : messages[m] # NoMessage => messages'[m] # NoMessage
<1> USE DEF ServiceInv
<1>1. /\ req[r].pc \in Labels /\ req[r].pc \notin Counting
      /\ SameCounts /\ UNCHANGED <<overlapped, failed, marked>>
  BY DEF StartRefused, FindConversation, DuplicateChatId, DeleteConversation, SetLast,
         SetDelivered, documents, history, Labels, Counting, SameCounts
<1>2. r \in Active
  BY <1>1, ActiveAtLabel
<1>3. /\ \A c \in Conversation : stored[c] # "none" => stored'[c] # "none"
      /\ \A c \in Conversation : stored'[c] = "none" => stored[c] = "none"
  <2>1. CASE DeleteConversation(r)
    BY <2>1 DEF DeleteConversation, TypeOK
  <2>2. CASE ~DeleteConversation(r)
    <3>1. stored' = stored
      BY <2>2 DEF StartRefused, FindConversation, DuplicateChatId, SetLast, SetDelivered, documents
    <3> QED BY <3>1
  <2> QED BY <2>1, <2>2
<1>4. \A m \in Request : messages[m] # NoMessage => messages'[m] # NoMessage
  <2>1. CASE SetDelivered(r)
    <3>1. messages' = [messages EXCEPT ![r].status = Delivered]
      BY <2>1 DEF SetDelivered
    <3>2. messages[r] \in Message
      BY <2>1 DEF SetDelivered, MessageOf, Inserted, TypeOK
    <3>3. messages'[r].status = Delivered
      BY <3>1, <3>2 DEF TypeOK, Message
    <3>4. NoMessage.status # Delivered
      BY DEF NoMessage, Delivered
    <3> QED BY <3>1, <3>3, <3>4 DEF TypeOK
  <2>2. CASE ~SetDelivered(r)
    <3>1. messages' = messages
      BY <2>2 DEF StartRefused, FindConversation, DuplicateChatId, DeleteConversation, SetLast, documents
    <3> QED BY <3>1
  <2> QED BY <2>1, <2>2
<1>5. \E l \in {"createConversation", "setDelivered"} : req' = Goto(r, l) \/ req' = End(r)
  BY DEF StartRefused, FindConversation, DuplicateChatId, DeleteConversation, SetLast, SetDelivered,
         ServiceReturned
<1>6. CASE req' = End(r)
  <2>1. req'[r].pc = "ended" /\ Others(r)
    BY <1>6, EndMoves DEF Ended, Others
  <2> QED BY <1>1, <1>2, <1>3, <1>4, <2>1, KnownKept
<1>7. ASSUME NEW l \in {"createConversation", "setDelivered"}, req' = Goto(r, l)
      PROVE  SameRequest(r) /\ Others(r) /\ req'[r].pc = l /\ Known(r)'
  <2>1. SameRequest(r) /\ Others(r) /\ req'[r].pc = l
    BY <1>1, <1>7, GotoKeeps DEF Labels
  <2> QED BY <1>1, <1>3, <2>1, KnownKept DEF Counting
<1> QED BY <1>1, <1>2, <1>3, <1>4, <1>5, <1>6, <1>7

-----------------------------------------------------------------------------
(* What the steps on the counts do.                                        *)

\* The requests that did not move still know what they knew.
LEMMA OthersKnow ==
    ASSUME TypeOK, HistoryInv, NEW r \in Request, Others(r), Known(r)',
           \A c \in Conversation : stored[c] # "none" => stored'[c] # "none"
    PROVE  \A q \in Request : Known(q)'
<1> SUFFICES ASSUME NEW q \in Request PROVE Known(q)'
  OBVIOUS
<1>1. q # r => req'[q] = req[q]
  BY DEF Others
<1>2. Known(q)
  BY DEF HistoryInv
<1> QED BY <1>1, <1>2, KnownKept

\* The rows of no user but u of c change.
RowsOnly(c, u) ==
    \A d \in Conversation, v \in User :
        d # c \/ v # u => unreadCounts'[d][v] = unreadCounts[d][v]

\* A new conversation counts nothing, as nobody has sent anything to it.
LEMMA CreateEffect ==
    ASSUME ServiceInv, HistoryInv, NEW r \in Request, CreateConversation(r)
    PROVE  \E c \in Conversation :
           /\ stored[c] = "none" /\ stored' = [stored EXCEPT ![c] = "live"] /\ Untouched(c)
           /\ unreadCount' = [unreadCount EXCEPT ![c] = Zeros(c)]
           /\ \A d \in Conversation \ {c} : unreadCounts'[d] = unreadCounts[d]
           /\ \A u \in User :
                 unreadCounts'[c][u] = IF u \in Participants[c] THEN <<0>> ELSE <<>>
           /\ Others(r) /\ req'[r].pc = "ended" /\ r \in Active /\ req[r].pc \notin Counting
           /\ UNCHANGED <<since, missed, messages, overlapped, failed, marked>>
<1> USE DEF ServiceInv
<1> DEFINE c == req[r].conv
<1>1. req[r].pc \in Labels /\ req[r].pc \notin Counting
  BY DEF CreateConversation, Labels, Counting
<1>2. c \in Conversation /\ r \in Active
  BY <1>1, ActiveAtLabel DEF Working
<1>3. stored[c] = "none" /\ stored' = [stored EXCEPT ![c] = "live"]
  BY DEF CreateConversation
<1>4. Untouched(c)
  BY <1>2, <1>3 DEF HistoryInv
<1>5. /\ unreadCount' = [unreadCount EXCEPT ![c] = Zeros(c)]
      /\ \A d \in Conversation \ {c} : unreadCounts'[d] = unreadCounts[d]
      /\ \A u \in User : unreadCounts'[c][u] = IF u \in Participants[c] THEN <<0>> ELSE <<>>
  BY <1>2 DEF CreateConversation, TypeOK
<1>6. Others(r) /\ req'[r].pc = "ended"
  BY EndMoves DEF CreateConversation, Ended, Others
<1>7. UNCHANGED <<since, missed, messages, overlapped, failed, marked>>
  BY DEF CreateConversation, history
<1> HIDE DEF c
<1> QED BY <1>1, <1>2, <1>3, <1>4, <1>5, <1>6, <1>7

\* The message is new; who hears it does not miss it, and only then is the count skipped.
LEMMA InsertEffect ==
    ASSUME ServiceInv, HistoryInv, NEW r \in Request, InsertMessage(r)
    PROVE  /\ req[r].conv \in Conversation /\ req[r].peer \in User
           /\ stored[req[r].conv] # "none" /\ r \in Active
           /\ \A c \in Conversation, u \in User : r \notin since[c][u]
           /\ since' = [since EXCEPT ![req[r].conv][req[r].peer] = @ \cup {r}]
           /\ missed' \in {missed, [missed EXCEPT ![req[r].conv][req[r].peer] = @ \cup {r}]}
           /\ req'[r].pc \in {"setLast", "readCounts"} /\ req[r].pc \notin Counting
           /\ req'[r].pc = "setLast" => missed' = missed
           /\ req[r].kind = "send" /\ SameRequest(r) /\ Others(r)
           /\ messages' = [messages EXCEPT ![r] = messages'[r]] /\ messages'[r] # NoMessage
           /\ UNCHANGED <<stored, unreadCount, unreadCounts, overlapped, failed, marked>>
<1> USE DEF ServiceInv
<1>1. req[r].pc = "insertMessage" /\ req[r].pc \in Labels /\ req[r].pc \notin Counting
  BY DEF InsertMessage, Labels, Counting
<1>2. req[r].conv \in Conversation /\ req[r].peer \in User /\ r \in Active
  BY <1>1, ActiveAtLabel DEF Working
<1>3. Known(r) /\ messages[r] = NoMessage
  BY <1>1 DEF HistoryInv, MessageOf
<1>4. req[r].kind = "send" /\ stored[req[r].conv] # "none" /\ (req[r].skip => req[r].heard)
  BY <1>1, <1>3 DEF Known
<1>5. \A c \in Conversation, u \in User : r \notin since[c][u]
  BY <1>3 DEF HistoryInv
<1>6. /\ since' = [since EXCEPT ![req[r].conv][req[r].peer] = @ \cup {r}]
      /\ missed' \in {missed, [missed EXCEPT ![req[r].conv][req[r].peer] = @ \cup {r}]}
      /\ req[r].heard => missed' = missed
  BY DEF InsertMessage
<1>7. UNCHANGED <<stored, unreadCount, unreadCounts, overlapped, failed, marked>>
  BY DEF InsertMessage
<1>8. /\ messages' = [messages EXCEPT ![r] = messages'[r]] /\ messages'[r] # NoMessage
  <2> DEFINE new == [conv |-> req[r].conv, receiver |-> req[r].peer, status |-> Sent]
  <2>1. messages' = [messages EXCEPT ![r] = new]
    BY DEF InsertMessage
  <2>2. new \in Message
    BY <1>2 DEF Message
  <2> HIDE DEF new
  <2> QED BY <2>1, <2>2, NoMessageIsNone DEF TypeOK
<1>9. CASE req[r].skip
  <2>1. SameRequest(r) /\ Others(r) /\ req'[r].pc = "setLast"
    BY <1>1, <1>9, GotoKeeps DEF InsertMessage, Labels
  <2> QED BY <1>1, <1>2, <1>4, <1>5, <1>6, <1>7, <1>8, <1>9, <2>1
<1>10. CASE ~req[r].skip
  <2>1. SameRequest(r) /\ Others(r) /\ req'[r].pc = "readCounts"
    BY <1>1, <1>10, GotoKeeps DEF InsertMessage, Labels
  <2> QED BY <1>1, <1>2, <1>4, <1>5, <1>6, <1>7, <1>8, <2>1
<1> QED BY <1>9, <1>10

\* Whoever marks the conversation has missed nothing of it.
LEMMA MarkEffect ==
    ASSUME ServiceInv, HistoryInv, NEW r \in Request, MarkMessages(r)
    PROVE  /\ req[r].conv \in Conversation /\ req[r].user \in User
           /\ stored[req[r].conv] # "none" /\ r \in Active
           /\ since' = [since EXCEPT ![req[r].conv][req[r].user] = {}]
           /\ missed' = [missed EXCEPT ![req[r].conv][req[r].user] = {}]
           /\ req[r].pc \notin Counting /\ req'[r].pc = "readCounts"
           /\ req[r].kind = "read" /\ SameRequest(r) /\ Others(r)
           /\ \A m \in Request : messages[m] # NoMessage => messages'[m] # NoMessage
           /\ UNCHANGED <<stored, unreadCount, unreadCounts, overlapped, failed, marked>>
<1> USE DEF ServiceInv
<1>1. req[r].pc = "markMessages" /\ req[r].pc \in Labels /\ req[r].pc \notin Counting
  BY DEF MarkMessages, Labels, Counting
<1>2. req[r].conv \in Conversation /\ req[r].user \in User /\ r \in Active
  BY <1>1, ActiveAtLabel DEF Working
<1>3. req[r].kind = "read" /\ stored[req[r].conv] # "none"
  BY <1>1 DEF HistoryInv, Known, MessageOf
<1>4. /\ since' = [since EXCEPT ![req[r].conv][req[r].user] = {}]
      /\ missed' = [missed EXCEPT ![req[r].conv][req[r].user] = {}]
      /\ UNCHANGED <<stored, unreadCount, unreadCounts, overlapped, failed, marked>>
  BY DEF MarkMessages
<1>5. SameRequest(r) /\ Others(r) /\ req'[r].pc = "readCounts"
  BY <1>1, GotoKeeps DEF MarkMessages, Labels
<1>6. ASSUME NEW m \in Request, messages[m] # NoMessage PROVE messages'[m] # NoMessage
  <2>1. messages[m] \in Message
    BY <1>6 DEF TypeOK
  <2>2. [messages[m] EXCEPT !.status = Seen] \in Message
    BY <2>1 DEF Message
  <2>3. messages'[m] \in {messages[m], [messages[m] EXCEPT !.status = Seen]}
    BY DEF MarkMessages
  <2> QED BY <2>1, <2>2, <2>3, NoMessageIsNone
<1> QED BY <1>1, <1>2, <1>3, <1>4, <1>5, <1>6

\* A request on the counts is a send or a read of a stored conversation.
LEMMA AtCounts ==
    ASSUME ServiceInv, HistoryInv, NEW r \in Request, req[r].pc \in Counting
    PROVE  /\ req[r] \in Working /\ req[r].pc \in Labels /\ r \in Active
           /\ req[r].conv \in Conversation /\ req[r].user \in User /\ req[r].peer \in User
           /\ req[r].kind \in {"send", "read"} /\ stored[req[r].conv] # "none"
<1>1. req[r].pc \in Labels
  BY DEF Counting, Labels
<1>2. req[r] \in Working /\ r \in Active
  BY <1>1, ActiveAtLabel DEF ServiceInv
<1>3. Known(r)
  BY DEF HistoryInv
<1> QED BY <1>1, <1>2, <1>3 DEF Known, Working

\* Whose count it is: the receiver's of a send, the reader's own of a read.
Target(r) == IF req[r].kind = "send" THEN req[r].peer ELSE req[r].user

\* The copy is what is stored, with one count changed.
LEMMA ReadEffect ==
    ASSUME ServiceInv, HistoryInv, NEW r \in Request, ReadCounts(r)
    PROVE  /\ req[r].pc = "readCounts" /\ req'[r].pc = "writeCounts"
           /\ req'[r].counts = With(unreadCount[req[r].conv], Target(r),
                 IF req[r].kind = "send" THEN Count(unreadCount[req[r].conv], Target(r)) + 1 ELSE 0)
           /\ req'[r].hasRow = (unreadCounts[req[r].conv][Target(r)] # <<>>)
           /\ SameRequest(r) /\ Others(r) /\ SameCounts
           /\ UNCHANGED <<stored, messages, overlapped, failed, marked>>
<1> USE DEF ServiceInv
<1>1. req[r].pc = "readCounts"
  BY DEF ReadCounts
<1>2. req[r] \in Working
  BY <1>1, AtCounts DEF Counting
<1> DEFINE counts == With(unreadCount[req[r].conv], Target(r),
                 IF req[r].kind = "send" THEN Count(unreadCount[req[r].conv], Target(r)) + 1 ELSE 0)
           row == unreadCounts[req[r].conv][Target(r)] # <<>>
           new == [req[r] EXCEPT !.counts = counts, !.hasRow = row, !.pc = "writeCounts"]
<1>3. req' = [req EXCEPT ![r] = new]
  BY DEF ReadCounts, Target
<1>4. SameCounts /\ UNCHANGED <<stored, messages, overlapped, failed, marked>>
  BY DEF ReadCounts, documents, history, SameCounts
<1>5. req'[r] = new /\ Others(r)
  <2> HIDE DEF new
  <2> QED BY <1>3 DEF TypeOK, Others
<1> HIDE DEF counts, row
<1>6. /\ new.counts = counts /\ new.hasRow = row /\ new.pc = "writeCounts"
      /\ new.kind = req[r].kind /\ new.conv = req[r].conv /\ new.user = req[r].user
      /\ new.peer = req[r].peer /\ new.skip = req[r].skip /\ new.heard = req[r].heard
  BY <1>2 DEF Working
<1> HIDE DEF new
<1> QED BY <1>1, <1>4, <1>5, <1>6 DEF counts, row, SameRequest

\* The copy is written back whole.
LEMMA WriteEffect ==
    ASSUME ServiceInv, HistoryInv, NEW r \in Request, WriteCounts(r)
    PROVE  /\ req[r].pc = "writeCounts"
           /\ req'[r].pc = IF req[r].hasRow THEN "updateRow" ELSE "pushRow"
           /\ unreadCount' = [unreadCount EXCEPT ![req[r].conv] = req[r].counts]
           /\ SameRequest(r) /\ Others(r)
           /\ UNCHANGED <<unreadCounts, since, missed, stored, messages, overlapped, failed, marked>>
<1> USE DEF ServiceInv
<1>1. req[r].pc = "writeCounts"
  BY DEF WriteCounts
<1>2. req[r] \in Working
  BY <1>1, AtCounts DEF Counting
<1> DEFINE l == IF req[r].hasRow THEN "updateRow" ELSE "pushRow"
           new == [req[r] EXCEPT !.counts = NoCounts, !.pc = l]
<1>3. /\ req' = [req EXCEPT ![r] = new]
      /\ unreadCount' = [unreadCount EXCEPT ![req[r].conv] = req[r].counts]
      /\ UNCHANGED <<unreadCounts, since, missed, stored, messages, overlapped, failed, marked>>
  BY DEF WriteCounts, history
<1>4. req'[r] = new /\ Others(r)
  <2> HIDE DEF new
  <2> QED BY <1>3 DEF TypeOK, Others
<1> HIDE DEF l
<1>5. /\ new.pc = l
      /\ new.kind = req[r].kind /\ new.conv = req[r].conv /\ new.user = req[r].user
      /\ new.peer = req[r].peer /\ new.skip = req[r].skip /\ new.heard = req[r].heard
  BY <1>2 DEF Working
<1> HIDE DEF new
<1> QED BY <1>1, <1>3, <1>4, <1>5 DEF l, SameRequest

\* The row is changed in place.
LEMMA CountEffect ==
    ASSUME ServiceInv, HistoryInv, NEW r \in Request, CountRow(r)
    PROVE  /\ req[r].kind = "send" /\ req[r].pc \in {"updateRow", "pushRow"}
           /\ RowsOnly(req[r].conv, req[r].peer)
           /\ req[r].pc = "updateRow" =>
                 unreadCounts'[req[r].conv][req[r].peer] =
                    [unreadCounts[req[r].conv][req[r].peer] EXCEPT ![1] = @ + 1]
           /\ req[r].pc = "pushRow" =>
                 unreadCounts'[req[r].conv][req[r].peer] =
                    Append(unreadCounts[req[r].conv][req[r].peer], 1)
           /\ req'[r].pc \in {"ended", "setDelivered"} /\ Others(r)
           /\ req'[r].pc # "ended" => SameRequest(r)
           /\ UNCHANGED <<unreadCount, since, missed, stored, messages, overlapped, failed, marked>>
<1> USE DEF ServiceInv
<1>1. /\ req[r].kind = "send" /\ req[r].pc \in {"updateRow", "pushRow"}
      /\ UNCHANGED <<unreadCount, since, missed, stored, messages, overlapped, failed, marked>>
  BY DEF CountRow, history
<1>2. req[r].pc \in Labels /\ req[r].conv \in Conversation /\ req[r].peer \in User
  BY <1>1, AtCounts DEF Counting
<1>3. RowsOnly(req[r].conv, req[r].peer)
  <2>1. CASE req[r].pc = "updateRow"
    BY <1>2, <2>1 DEF CountRow, RowsOnly, TypeOK
  <2>2. CASE req[r].pc = "pushRow"
    BY <1>2, <2>2 DEF CountRow, RowsOnly, TypeOK
  <2> QED BY <1>1, <2>1, <2>2
<1>4. req[r].pc = "updateRow" =>
         unreadCounts'[req[r].conv][req[r].peer] =
            [unreadCounts[req[r].conv][req[r].peer] EXCEPT ![1] = @ + 1]
  BY <1>2 DEF CountRow, TypeOK
<1>5. req[r].pc = "pushRow" =>
         unreadCounts'[req[r].conv][req[r].peer] = Append(unreadCounts[req[r].conv][req[r].peer], 1)
  BY <1>2 DEF CountRow, TypeOK
<1>6. req'[r].pc \in {"ended", "setDelivered"} /\ Others(r) /\ (req'[r].pc # "ended" => SameRequest(r))
  <2>1. CASE req' = End(r)
    BY <2>1, EndMoves DEF Ended, Others
  <2>2. CASE req' = Goto(r, "setDelivered")
    BY <1>2, <2>2, GotoKeeps DEF Labels
  <2> QED BY <2>1, <2>2 DEF CountRow, ServiceReturned
<1> QED BY <1>1, <1>3, <1>4, <1>5, <1>6

\* markAsRead clears the first row of the reader, or pushes a cleared one.
LEMMA ClearEffect ==
    ASSUME ServiceInv, HistoryInv, NEW r \in Request, ClearRow(r)
    PROVE  /\ req[r].kind = "read" /\ req[r].pc \in {"updateRow", "pushRow"}
           /\ RowsOnly(req[r].conv, req[r].user)
           /\ req[r].pc = "updateRow" =>
                 unreadCounts'[req[r].conv][req[r].user] =
                    [unreadCounts[req[r].conv][req[r].user] EXCEPT ![1] = 0]
           /\ req[r].pc = "pushRow" =>
                 unreadCounts'[req[r].conv][req[r].user] =
                    Append(unreadCounts[req[r].conv][req[r].user], 0)
           /\ req'[r].pc = "ended" /\ Others(r)
           /\ UNCHANGED <<unreadCount, since, missed, stored, messages, overlapped, failed, marked>>
<1> USE DEF ServiceInv
<1>1. /\ req[r].kind = "read" /\ req[r].pc \in {"updateRow", "pushRow"}
      /\ UNCHANGED <<unreadCount, since, missed, stored, messages, overlapped, failed, marked>>
  BY DEF ClearRow, history
<1>2. req[r].conv \in Conversation /\ req[r].user \in User
  BY <1>1, AtCounts DEF Counting
<1>3. RowsOnly(req[r].conv, req[r].user)
  <2>1. CASE req[r].pc = "updateRow"
    BY <1>2, <2>1 DEF ClearRow, RowsOnly, TypeOK
  <2>2. CASE req[r].pc = "pushRow"
    BY <1>2, <2>2 DEF ClearRow, RowsOnly, TypeOK
  <2> QED BY <1>1, <2>1, <2>2
<1>4. req[r].pc = "updateRow" =>
         unreadCounts'[req[r].conv][req[r].user] =
            [unreadCounts[req[r].conv][req[r].user] EXCEPT ![1] = 0]
  BY <1>2 DEF ClearRow, TypeOK
<1>5. req[r].pc = "pushRow" =>
         unreadCounts'[req[r].conv][req[r].user] = Append(unreadCounts[req[r].conv][req[r].user], 0)
  BY <1>2 DEF ClearRow, TypeOK
<1>6. req'[r].pc = "ended" /\ Others(r)
  BY EndMoves DEF ClearRow, Ended, Others
<1> QED BY <1>1, <1>3, <1>4, <1>5, <1>6

\* A request that fails is over.
LEMMA FailEffect ==
    ASSUME ServiceInv, NEW r \in Request, Fail(r)
    PROVE  /\ r \in Active /\ req'[r].pc = "ended" /\ Others(r) /\ failed' /\ SameCounts
           /\ UNCHANGED <<stored, messages, overlapped, marked>>
<1>1. r \in Active /\ failed' /\ SameCounts /\ UNCHANGED <<stored, messages, overlapped, marked>>
  BY DEF Fail, documents, SameCounts
<1>2. req'[r].pc = "ended" /\ Others(r)
  BY EndMoves DEF Fail, ServiceInv, Ended, Others
<1> QED BY <1>1, <1>2

-----------------------------------------------------------------------------
(* The history follows what is stored.                                     *)

\* A step on the counts of a stored conversation, or on none.
LEMMA HistoryKept ==
    ASSUME ServiceInv, HistoryInv,
           \A q \in Request : Known(q)',
           \A m \in Request : messages[m] # NoMessage => messages'[m] # NoMessage,
           UNCHANGED <<since, missed>>,
           \A c \in Conversation : stored'[c] = "none" => stored[c] = "none",
           \A c \in Conversation, u \in User : stored[c] = "none" =>
               /\ unreadCount'[c] = unreadCount[c]
               /\ unreadCounts'[c][u] = unreadCounts[c][u]
    PROVE  HistoryInv'
<1>1. \A c \in Conversation, u \in User : \A m \in since'[c][u] : messages'[m] # NoMessage
  BY DEF HistoryInv
<1>2. ASSUME NEW c \in Conversation, stored'[c] = "none" PROVE Untouched(c)'
  <2>1. stored[c] = "none"
    BY <1>2
  <2>2. Untouched(c)
    BY <2>1 DEF HistoryInv
  <2> QED BY <2>1, <2>2 DEF Untouched
<1> QED BY <1>1, <1>2 DEF HistoryInv

\* A restart ends requests, and leaves what is stored.
LEMMA RestartEffect ==
    ASSUME ServiceInv, Restart
    PROVE  /\ SameCounts /\ UNCHANGED <<stored, messages, overlapped, marked>>
           /\ failed' = (failed \/ Active # {})
           /\ \A q \in Request : req'[q] = req[q] \/ (q \in Active /\ req'[q].pc = "ended")
<1>1. /\ SameCounts /\ UNCHANGED <<stored, messages, overlapped, marked>>
      /\ failed' = (failed \/ Active # {})
  BY DEF Restart, documents, SameCounts
<1>2. req' = [r \in Request |-> IF r \in Active THEN Ended ELSE req[r]]
  BY DEF Restart
<1>3. Ended.pc = "ended"
  BY DEF Ended
<1>4. \A q \in Request : req'[q] = req[q] \/ (q \in Active /\ req'[q].pc = "ended")
  BY <1>2, <1>3
<1> QED BY <1>1, <1>4

\* Every step keeps the history in order.
LEMMA HistoryStep == ServiceInv /\ RoomsInv /\ HistoryInv /\ [Next]_vars => HistoryInv'
<1> SUFFICES ASSUME ServiceInv, RoomsInv, HistoryInv, [Next]_vars PROVE HistoryInv'
  OBVIOUS
<1>0. TypeOK
  BY DEF ServiceInv
<1>1. ASSUME NEW r \in Request, Receive(r) PROVE HistoryInv'
  <2>1. Known(r)' /\ Others(r) /\ SameCounts /\ UNCHANGED <<stored, messages>>
    BY <1>1, ReceiveKnown
  <2>2. \A q \in Request : Known(q)'
    BY <1>0, <2>1, OthersKnow
  <2> QED BY <2>1, <2>2, HistoryKept DEF SameCounts
<1>2. ASSUME NEW r \in Request,
             \/ StartRefused(r) \/ FindConversation(r) \/ DuplicateChatId(r) \/ DeleteConversation(r)
             \/ SetLast(r) \/ SetDelivered(r)
      PROVE  HistoryInv'
  <2>1. Known(r)
    BY DEF HistoryInv
  <2>2. /\ Known(r)' /\ Others(r) /\ SameCounts
        /\ \A c \in Conversation : stored[c] # "none" => stored'[c] # "none"
        /\ \A c \in Conversation : stored'[c] = "none" => stored[c] = "none"
        /\ \A m \in Request : messages[m] # NoMessage => messages'[m] # NoMessage
    BY <1>2, <2>1, PlainStep
  <2>3. \A q \in Request : Known(q)'
    BY <1>0, <2>2, OthersKnow
  <2> QED BY <2>2, <2>3, HistoryKept DEF SameCounts
<1>3. ASSUME NEW r \in Request, CreateConversation(r) PROVE HistoryInv'
  <2>1. PICK c \in Conversation :
           /\ stored[c] = "none" /\ stored' = [stored EXCEPT ![c] = "live"]
           /\ unreadCount' = [unreadCount EXCEPT ![c] = Zeros(c)]
           /\ \A d \in Conversation \ {c} : unreadCounts'[d] = unreadCounts[d]
           /\ Others(r) /\ req'[r].pc = "ended" /\ UNCHANGED <<since, missed, messages>>
    BY <1>3, CreateEffect
  <2>2. /\ \A d \in Conversation : stored[d] # "none" => stored'[d] # "none"
        /\ stored'[c] # "none" /\ \A d \in Conversation \ {c} : stored'[d] = stored[d]
        /\ \A d \in Conversation \ {c} : unreadCount'[d] = unreadCount[d]
    BY <1>0, <2>1 DEF TypeOK
  <2>3. Known(r)'
    BY <2>1 DEF Known, Labels, Counting
  <2>4. \A q \in Request : Known(q)'
    BY <1>0, <2>1, <2>2, <2>3, OthersKnow
  <2>5. ASSUME NEW d \in Conversation, stored'[d] = "none" PROVE Untouched(d)'
    <3>1. d # c /\ stored[d] = "none"
      BY <2>2, <2>5
    <3>2. Untouched(d)
      BY <3>1 DEF HistoryInv
    <3> QED BY <2>1, <2>2, <3>1, <3>2 DEF Untouched
  <2> QED BY <2>1, <2>4, <2>5 DEF HistoryInv
<1>4. ASSUME NEW r \in Request, InsertMessage(r) PROVE HistoryInv'
  <2> DEFINE c == req[r].conv  u == req[r].peer
  <2>1. /\ c \in Conversation /\ u \in User /\ stored[c] # "none" /\ r \in Active
        /\ since' = [since EXCEPT ![c][u] = @ \cup {r}]
        /\ missed' \in {missed, [missed EXCEPT ![c][u] = @ \cup {r}]}
        /\ req'[r].pc \in {"setLast", "readCounts"}
        /\ req[r].kind = "send" /\ SameRequest(r) /\ Others(r)
        /\ messages' = [messages EXCEPT ![r] = messages'[r]] /\ messages'[r] # NoMessage
        /\ UNCHANGED <<stored, unreadCount, unreadCounts>>
    BY <1>4, InsertEffect
  <2>2. Known(r) /\ req[r].pc \in Labels
    BY <1>0, <2>1, ActiveAtLabel DEF HistoryInv
  <2>3. Known(r)'
    BY <1>0, <2>1, <2>2, KnownKept
  <2>4. \A q \in Request : Known(q)'
    BY <1>0, <2>1, <2>3, OthersKnow
  <2> HIDE DEF c, u
  <2>5. /\ since' \in [Conversation -> [User -> SUBSET Request]]
        /\ missed' \in [Conversation -> [User -> SUBSET Request]]
    <3>1. since' \in [Conversation -> [User -> SUBSET Request]]
      BY <2>1 DEF HistoryInv
    <3>2. [missed EXCEPT ![c][u] = @ \cup {r}] \in [Conversation -> [User -> SUBSET Request]]
      BY <2>1 DEF HistoryInv
    <3> QED BY <2>1, <3>1, <3>2 DEF HistoryInv
  <2>6. \A m \in Request : messages[m] # NoMessage => messages'[m] # NoMessage
    BY <1>0, <2>1 DEF TypeOK
  <2>7. ASSUME NEW d \in Conversation, NEW v \in User, NEW m \in since'[d][v]
        PROVE  messages'[m] # NoMessage
    <3>1. m \in since[d][v] \cup {r} /\ m \in Request
      BY <2>1, <2>5, <2>7 DEF HistoryInv
    <3>2. m \in since[d][v] => messages[m] # NoMessage
      BY DEF HistoryInv
    <3> QED BY <2>1, <2>6, <3>1, <3>2
  <2>8. ASSUME NEW d \in Conversation, stored'[d] = "none" PROVE Untouched(d)'
    <3>1. d # c /\ stored[d] = "none"
      BY <2>1, <2>8
    <3>2. Untouched(d)
      BY <3>1 DEF HistoryInv
    <3>3. \A v \in User : since'[d][v] = since[d][v] /\ missed'[d][v] = missed[d][v]
      BY <2>1, <3>1 DEF HistoryInv
    <3> QED BY <2>1, <3>2, <3>3 DEF Untouched
  <2> QED BY <2>4, <2>5, <2>7, <2>8 DEF HistoryInv
<1>5. ASSUME NEW r \in Request, MarkMessages(r) PROVE HistoryInv'
  <2> DEFINE c == req[r].conv  u == req[r].user
  <2>1. /\ c \in Conversation /\ u \in User /\ stored[c] # "none" /\ r \in Active
        /\ since' = [since EXCEPT ![c][u] = {}]
        /\ missed' = [missed EXCEPT ![c][u] = {}]
        /\ req'[r].pc = "readCounts"
        /\ req[r].kind = "read" /\ SameRequest(r) /\ Others(r)
        /\ \A m \in Request : messages[m] # NoMessage => messages'[m] # NoMessage
        /\ UNCHANGED <<stored, unreadCount, unreadCounts>>
    BY <1>5, MarkEffect
  <2>2. Known(r) /\ req[r].pc \in Labels
    BY <1>0, <2>1, ActiveAtLabel DEF HistoryInv
  <2>3. Known(r)'
    BY <1>0, <2>1, <2>2, KnownKept
  <2>4. \A q \in Request : Known(q)'
    BY <1>0, <2>1, <2>3, OthersKnow
  <2> HIDE DEF c, u
  <2>5. /\ since' \in [Conversation -> [User -> SUBSET Request]]
        /\ missed' \in [Conversation -> [User -> SUBSET Request]]
    BY <2>1 DEF HistoryInv
  <2>7. ASSUME NEW d \in Conversation, NEW v \in User, NEW m \in since'[d][v]
        PROVE  messages'[m] # NoMessage
    <3>1. m \in since[d][v] /\ m \in Request
      BY <2>1, <2>5, <2>7 DEF HistoryInv
    <3>2. messages[m] # NoMessage
      BY <3>1 DEF HistoryInv
    <3> QED BY <2>1, <3>1, <3>2
  <2>8. ASSUME NEW d \in Conversation, stored'[d] = "none" PROVE Untouched(d)'
    <3>1. d # c /\ stored[d] = "none"
      BY <2>1, <2>8
    <3>2. Untouched(d)
      BY <3>1 DEF HistoryInv
    <3>3. \A v \in User : since'[d][v] = since[d][v] /\ missed'[d][v] = missed[d][v]
      BY <2>1, <3>1 DEF HistoryInv
    <3> QED BY <2>1, <3>2, <3>3 DEF Untouched
  <2> QED BY <2>4, <2>5, <2>7, <2>8 DEF HistoryInv
<1>6. ASSUME NEW r \in Request, ReadCounts(r) \/ WriteCounts(r) \/ CountRow(r) \/ ClearRow(r)
      PROVE  HistoryInv'
  <2> DEFINE c == req[r].conv
  <2>1. req[r].pc \in Counting
    BY <1>6 DEF ReadCounts, WriteCounts, CountRow, ClearRow, Counting
  <2>2. c \in Conversation /\ stored[c] # "none" /\ req[r].pc \in Labels /\ Known(r)
        /\ req[r].kind \in {"send", "read"}
    BY <2>1, AtCounts DEF HistoryInv
  <2>3. UNCHANGED <<since, missed, stored, messages>>
    BY <1>6, ReadEffect, WriteEffect, CountEffect, ClearEffect DEF SameCounts
  <2>4. /\ Others(r)
        /\ \/ req'[r].pc = "ended"
           \/ SameRequest(r) /\ req'[r].pc # "insertMessage"
    <3>1. CASE ReadCounts(r)
      BY <3>1, ReadEffect
    <3>2. CASE WriteCounts(r)
      BY <3>2, WriteEffect
    <3>3. CASE CountRow(r)
      BY <3>3, CountEffect
    <3>4. CASE ClearRow(r)
      BY <3>4, ClearEffect
    <3> QED BY <1>6, <3>1, <3>2, <3>3, <3>4
  <2>5. Known(r)'
    BY <1>0, <2>2, <2>3, <2>4, KnownKept
  <2>6. \A q \in Request : Known(q)'
    BY <1>0, <2>3, <2>4, <2>5, OthersKnow
  <2>7. \A d \in Conversation, v \in User : stored[d] = "none" =>
            unreadCount'[d] = unreadCount[d] /\ unreadCounts'[d][v] = unreadCounts[d][v]
    <3> SUFFICES ASSUME NEW d \in Conversation, NEW v \in User, d # c
                 PROVE  unreadCount'[d] = unreadCount[d] /\ unreadCounts'[d][v] = unreadCounts[d][v]
      BY <2>2
    <3>1. CASE ReadCounts(r)
      BY <3>1, ReadEffect DEF SameCounts
    <3>2. CASE WriteCounts(r)
      BY <1>0, <3>2, WriteEffect DEF TypeOK
    <3>3. CASE CountRow(r)
      BY <3>3, CountEffect DEF RowsOnly
    <3>4. CASE ClearRow(r)
      BY <3>4, ClearEffect DEF RowsOnly
    <3> QED BY <1>6, <3>1, <3>2, <3>3, <3>4
  <2> QED BY <2>3, <2>6, <2>7, HistoryKept
<1>7. ASSUME NEW r \in Request, Fail(r) PROVE HistoryInv'
  <2>1. req'[r].pc = "ended" /\ Others(r) /\ SameCounts /\ UNCHANGED <<stored, messages>>
    BY <1>7, FailEffect
  <2>2. Known(r)'
    BY <2>1 DEF Known, Labels, Counting
  <2>3. \A q \in Request : Known(q)'
    BY <1>0, <2>1, <2>2, OthersKnow
  <2> QED BY <2>1, <2>3, HistoryKept DEF SameCounts
<1>8. CASE Devices \/ UNCHANGED vars
  <2>1. SameCounts /\ UNCHANGED <<stored, messages, req>>
    BY <1>8 DEF Devices, vars, documents, history, SameCounts
  <2>2. \A q \in Request : Known(q)'
    BY <2>1 DEF HistoryInv, Known
  <2> QED BY <2>1, <2>2, HistoryKept DEF SameCounts
<1>9. CASE Restart
  <2>1. /\ SameCounts /\ UNCHANGED <<stored, messages>>
        /\ \A q \in Request : req'[q] = req[q] \/ req'[q].pc = "ended"
    BY <1>9, RestartEffect
  <2>2. \A q \in Request : Known(q)'
    BY <1>0, <2>1, KnownKept DEF HistoryInv
  <2> QED BY <2>1, <2>2, HistoryKept DEF SameCounts
<1> QED BY <1>1, <1>2, <1>3, <1>4, <1>5, <1>6, <1>7, <1>8, <1>9 DEF Next

\* The first state has none.
LEMMA HistoryStart == Init => HistoryInv
<1> SUFFICES ASSUME Init PROVE HistoryInv
  OBVIOUS
<1>1. \A r \in Request : Known(r)
  BY DEF Init, Known, Idle, Labels, Counting
<1>2. \A c \in Conversation : Untouched(c)
  BY DEF Init, Untouched, NoCounts
<1> QED BY <1>1, <1>2 DEF Init, HistoryInv

\* So this always holds, with the invariants it rests on.
LEMMA HistoryHolds == Spec => [](RoomsInv /\ ServiceInv /\ HistoryInv)
<1>1. RoomsSpec => []RoomsInv
  BY RoomsStart, StepKeeps, PTL DEF RoomsSpec
<1> QED BY <1>1, ServiceImplementsRooms, ServiceHolds, HistoryStart, HistoryStep, PTL DEF Spec

-----------------------------------------------------------------------------
(* Sends alone lose no count in the rows.                                  *)

\* The sends to u in c that have stored their message and not yet their count,
\* and those of them that have written the object already.
Pending(c, u) ==
    {r \in Request : req[r].pc \in Counting /\ req[r].conv = c /\ req[r].peer = u}
Wrote(c, u) ==
    {r \in Request : req[r].pc \in {"updateRow", "pushRow"} /\ req[r].conv = c /\ req[r].peer = u}

\* What the rows come to when these have finished.
Owed(c, u) == RowTotal(c, u) + Cardinality(Wrote(c, u))

\* The rows hold what was missed, up to the sends at work; the object, and every
\* copy of it that is still to be written, is not ahead of them.
RowsOK(c, u) ==
    /\ Cardinality(missed[c][u] \ Pending(c, u)) <= RowTotal(c, u)
    /\ Count(unreadCount[c], u) <= Owed(c, u)
    /\ \A r \in Request : req[r].pc = "writeCounts" /\ req[r].conv = c =>
          Count(req[r].counts, u) <= Owed(c, u) + (IF req[r].peer = u THEN 1 ELSE 0)

\* A row that was found is still there: no row is ever taken away.
RowThere(r) ==
    (req[r].pc = "writeCounts" /\ req[r].hasRow) \/ req[r].pc = "updateRow" =>
        unreadCounts[req[r].conv][req[r].peer] # <<>>

NoReads == \A r \in Request : req[r].pc \in Labels => req[r].kind # "read"

RowsInv ==
    ~failed /\ ~marked =>
        /\ NoReads
        /\ \A r \in Request : RowThere(r)
        /\ \A c \in Conversation : \A u \in User : RowsOK(c, u)

\* The total of the rows, before and after a step.
LEMMA RowTotalIs ==
    \A c \in Conversation, u \in User : RowTotal(c, u) = Total(unreadCounts[c][u])
BY Zenon DEF RowTotal, Total

\* The total of the rows, also after a step.
LEMMA RowTotalSoon ==
    (\A c \in Conversation, u \in User : RowTotal(c, u) = Total(unreadCounts[c][u]))'
BY RowTotalIs, PTL

\* What the terms of RowsOK are.
LEMMA RowTerms ==
    ASSUME ServiceInv, HistoryInv, NEW c \in Conversation, NEW u \in User
    PROVE  /\ RowTotal(c, u) = Total(unreadCounts[c][u]) /\ unreadCounts[c][u] \in Seq(Nat)
           /\ RowTotal(c, u) \in Nat /\ Count(unreadCount[c], u) \in Nat /\ Owed(c, u) \in Nat
           /\ IsFiniteSet(missed[c][u]) /\ IsFiniteSet(since[c][u])
           /\ IsFiniteSet(Wrote(c, u)) /\ Cardinality(Wrote(c, u)) \in Nat
           /\ IsFiniteSet(missed[c][u] \ Pending(c, u))
           /\ Cardinality(missed[c][u] \ Pending(c, u)) \in Nat
<1>1. RowTotal(c, u) = Total(unreadCounts[c][u]) /\ unreadCounts[c][u] \in Seq(Nat)
  BY RowTotalIs DEF ServiceInv, TypeOK
<1>2. RowTotal(c, u) \in Nat
  BY <1>1, TotalType
<1>3. Count(unreadCount[c], u) \in Nat
  BY CountTyped DEF ServiceInv, TypeOK
<1>4. IsFiniteSet(Request)
  BY BoundsAssumption
<1>5. /\ missed[c][u] \subseteq Request /\ since[c][u] \subseteq Request
      /\ Wrote(c, u) \subseteq Request
  BY DEF HistoryInv, Wrote
<1>6. missed[c][u] \ Pending(c, u) \subseteq Request
  BY <1>5
<1>7. /\ IsFiniteSet(missed[c][u]) /\ IsFiniteSet(since[c][u]) /\ IsFiniteSet(Wrote(c, u))
      /\ IsFiniteSet(missed[c][u] \ Pending(c, u))
  BY <1>4, <1>5, <1>6, FS_Subset
<1>8. Cardinality(Wrote(c, u)) \in Nat /\ Cardinality(missed[c][u] \ Pending(c, u)) \in Nat
  BY <1>7, FS_CardinalityType
<1> QED BY <1>1, <1>2, <1>3, <1>7, <1>8 DEF Owed

\* One set inside another is not larger.
LEMMA NotLarger ==
    ASSUME NEW T, IsFiniteSet(T), NEW S, S \subseteq T
    PROVE  IsFiniteSet(S) /\ Cardinality(S) \in Nat /\ Cardinality(T) \in Nat
           /\ Cardinality(S) <= Cardinality(T)
BY FS_Subset, FS_CardinalityType

\* One more element counts one more.
LEMMA OneMore ==
    ASSUME NEW T, IsFiniteSet(T), NEW x
    PROVE  /\ IsFiniteSet(T \cup {x}) /\ Cardinality(T) \in Nat
           /\ Cardinality(T \cup {x}) \in Nat
           /\ x \notin T => Cardinality(T \cup {x}) = Cardinality(T) + 1
           /\ Cardinality(T \cup {x}) <= Cardinality(T) + 1
BY FS_AddElement, FS_CardinalityType

\* A request that is not among the sends to u in c, before or after, leaves them as they are.
LEMMA GroupsStay ==
    ASSUME NEW r \in Request, Others(r), NEW c \in Conversation, NEW u \in User,
           req[r].pc \notin Counting \/ req[r].conv # c \/ req[r].peer # u,
           req'[r].pc \notin Counting \/ req'[r].conv # c \/ req'[r].peer # u
    PROVE  Pending(c, u)' = Pending(c, u) /\ Wrote(c, u)' = Wrote(c, u)
<1>1. \A q \in Request : q # r => req'[q] = req[q]
  BY DEF Others
<1>2. \A q \in Request : q \in Pending(c, u)' <=> q \in Pending(c, u)
  BY <1>1 DEF Pending
<1>3. \A q \in Request : q \in Wrote(c, u)' <=> q \in Wrote(c, u)
  BY <1>1 DEF Wrote, Counting
<1>4. /\ Pending(c, u) \subseteq Request /\ Wrote(c, u) \subseteq Request
      /\ Pending(c, u)' \subseteq Request /\ Wrote(c, u)' \subseteq Request
  BY DEF Pending, Wrote
<1> QED BY <1>2, <1>3, <1>4, Zenon

\* Then what is owed to u in c stays, if its counts do.
LEMMA RowsStay ==
    ASSUME NEW c \in Conversation, NEW u \in User, RowsOK(c, u),
           Pending(c, u)' = Pending(c, u), Wrote(c, u)' = Wrote(c, u),
           missed'[c][u] = missed[c][u], unreadCounts'[c][u] = unreadCounts[c][u],
           unreadCount'[c] = unreadCount[c],
           \A q \in Request : req'[q].pc = "writeCounts" => req'[q] = req[q]
    PROVE  RowsOK(c, u)'
<1>1. RowTotal(c, u)' = RowTotal(c, u)
  <2>1. RowTotal(c, u) = Total(unreadCounts[c][u])
    BY RowTotalIs
  <2>2. RowTotal(c, u)' = Total(unreadCounts'[c][u])
    BY RowTotalSoon
  <2> QED BY <2>1, <2>2
<1>2. Owed(c, u)' = Owed(c, u)
  BY <1>1 DEF Owed
<1> QED BY <1>1, <1>2 DEF RowsOK

\* A step outside the counts.
LEMMA RowsCalm ==
    ASSUME ServiceInv, HistoryInv, RowsInv, NEW r \in Request, Others(r), SameCounts,
           req[r].pc \notin Counting, req'[r].pc \notin Counting,
           ~failed' => ~failed, ~marked' => ~marked,
           ~marked' /\ NoReads /\ req'[r].pc \in Labels => req'[r].kind # "read"
    PROVE  RowsInv'
<1> SUFFICES ASSUME ~failed', ~marked'
             PROVE  /\ NoReads' /\ \A q \in Request : RowThere(q)'
                    /\ \A c \in Conversation : \A u \in User : RowsOK(c, u)'
  BY DEF RowsInv
<1>1. /\ NoReads /\ \A q \in Request : RowThere(q)
      /\ \A c \in Conversation : \A u \in User : RowsOK(c, u)
  BY DEF RowsInv
<1>2. NoReads'
  BY <1>1 DEF NoReads, Others
<1>3. \A q \in Request : RowThere(q)'
  BY <1>1 DEF RowThere, Others, SameCounts, Counting
<1>4. ASSUME NEW c \in Conversation, NEW u \in User PROVE RowsOK(c, u)'
  <2>1. Pending(c, u)' = Pending(c, u) /\ Wrote(c, u)' = Wrote(c, u)
    BY GroupsStay
  <2>2. \A q \in Request : req'[q].pc = "writeCounts" => req'[q] = req[q]
    BY DEF Others, Counting
  <2> QED BY <1>1, <2>1, <2>2, RowsStay DEF SameCounts
<1> QED BY <1>2, <1>3, <1>4

\* No request becomes a read.
LEMMA NoReadsKept ==
    ASSUME NoReads, NEW r \in Request, Others(r), req[r].pc \in Labels,
           req'[r].pc = "ended" \/ SameRequest(r)
    PROVE  NoReads'
BY DEF NoReads, Others, SameRequest, Labels

\* A new conversation owes nobody anything.
LEMMA RowsCreate ==
    ASSUME ServiceInv, HistoryInv, RowsInv, NEW r \in Request, CreateConversation(r)
    PROVE  RowsInv'
<1>1. PICK c \in Conversation :
           /\ stored[c] = "none" /\ Untouched(c)
           /\ unreadCount' = [unreadCount EXCEPT ![c] = Zeros(c)]
           /\ \A d \in Conversation \ {c} : unreadCounts'[d] = unreadCounts[d]
           /\ \A u \in User :
                 unreadCounts'[c][u] = IF u \in Participants[c] THEN <<0>> ELSE <<>>
           /\ Others(r) /\ req'[r].pc = "ended" /\ r \in Active /\ req[r].pc \notin Counting
           /\ UNCHANGED <<missed, failed, marked>>
  BY CreateEffect
<1>2. req'[r].pc \notin Counting /\ req[r].pc \in Labels
  BY <1>1, ActiveAtLabel DEF Counting, ServiceInv
<1> SUFFICES ASSUME ~failed, ~marked
             PROVE  /\ NoReads' /\ \A q \in Request : RowThere(q)'
                    /\ \A d \in Conversation : \A u \in User : RowsOK(d, u)'
  BY <1>1 DEF RowsInv
<1>3. /\ NoReads /\ \A q \in Request : RowThere(q)
      /\ \A d \in Conversation : \A u \in User : RowsOK(d, u)
  BY DEF RowsInv
<1>4. NoReads'
  BY <1>1, <1>2, <1>3, NoReadsKept
<1>5. \A q \in Request : req'[q].pc \in Counting =>
          /\ req'[q] = req[q] /\ req[q].conv # c
          /\ req[q].conv \in Conversation /\ req[q].peer \in User
  BY <1>1, <1>2, AtCounts DEF Others
<1>6. \A q \in Request : RowThere(q)'
  BY <1>1, <1>3, <1>5 DEF RowThere, Counting
<1>7. ASSUME NEW d \in Conversation, NEW u \in User PROVE RowsOK(d, u)'
  <2>1. Pending(d, u)' = Pending(d, u) /\ Wrote(d, u)' = Wrote(d, u)
    BY <1>1, <1>2, GroupsStay
  <2>2. CASE d # c
    <3>1. \A q \in Request : req'[q].pc = "writeCounts" => req'[q] = req[q]
      BY <1>5 DEF Counting
    <3>2. unreadCount'[d] = unreadCount[d]
      BY <1>1, <2>2 DEF ServiceInv, TypeOK
    <3> QED BY <1>1, <1>3, <2>1, <2>2, <3>1, <3>2, RowsStay
  <2>3. CASE d = c
    <3>1. missed'[c][u] = {}
      BY <1>1 DEF Untouched
    <3>2. RowTotal(c, u)' = 0
      <4>1. RowTotal(c, u)' = Total(unreadCounts'[c][u])
        BY RowTotalSoon
      <4>2. Total(<<0>>) = 0
        BY TotalOne
      <4> QED BY <1>1, <4>1, <4>2, TotalEmpty
    <3>3. Count(unreadCount'[c], u) = 0
      BY <1>1 DEF Count, Zeros, ServiceInv, TypeOK
    <3>4. Wrote(c, u)' = {} /\ Pending(c, u)' = {}
      BY <1>5 DEF Wrote, Pending, Counting
    <3>5. Cardinality({}) = 0
      BY FS_EmptySet
    <3>6. Owed(c, u)' = 0
      BY <3>2, <3>4, <3>5 DEF Owed
    <3>7. missed'[c][u] \ Pending(c, u)' = {}
      BY <3>1
    <3>8. Cardinality((missed[c][u] \ Pending(c, u))') = 0
      BY <3>5, <3>7
    <3>9. \A q \in Request : ~(req'[q].pc = "writeCounts" /\ req'[q].conv = c)
      BY <1>5 DEF Counting
    <3>10. RowsOK(c, u)'
      BY <3>2, <3>3, <3>6, <3>8, <3>9 DEF RowsOK
    <3> QED BY <2>3, <3>10
  <2> QED BY <2>2, <2>3
<1> QED BY <1>4, <1>6, <1>7

\* A message is counted later, unless its receiver hears it.
LEMMA RowsInsert ==
    ASSUME ServiceInv, HistoryInv, RowsInv, NEW r \in Request, InsertMessage(r)
    PROVE  RowsInv'
<1>1. PICK c \in Conversation, u \in User :
      /\ req[r].conv = c /\ req[r].peer = u /\ r \in Active
      /\ missed' \in {missed, [missed EXCEPT ![c][u] = @ \cup {r}]}
      /\ req'[r].pc \in {"setLast", "readCounts"} /\ req[r].pc \notin Counting
      /\ req'[r].pc = "setLast" => missed' = missed
      /\ SameRequest(r) /\ Others(r)
      /\ UNCHANGED <<unreadCount, unreadCounts, failed, marked>>
  BY InsertEffect
<1>2. req[r].pc \in Labels /\ req'[r].conv = c /\ req'[r].peer = u
  BY <1>1, ActiveAtLabel DEF ServiceInv, SameRequest
<1> SUFFICES ASSUME ~failed, ~marked
             PROVE  /\ NoReads' /\ \A q \in Request : RowThere(q)'
                    /\ \A d \in Conversation : \A v \in User : RowsOK(d, v)'
  BY <1>1 DEF RowsInv
<1>3. /\ NoReads /\ \A q \in Request : RowThere(q)
      /\ \A d \in Conversation : \A v \in User : RowsOK(d, v)
  BY DEF RowsInv
<1>4. NoReads'
  BY <1>1, <1>2, <1>3, NoReadsKept
<1>5. \A q \in Request : RowThere(q)'
  BY <1>1, <1>3 DEF RowThere, Others
<1>6. ASSUME NEW d \in Conversation, NEW v \in User PROVE RowsOK(d, v)'
  <2>1. \A q \in Request : req'[q].pc = "writeCounts" => req'[q] = req[q]
    BY <1>1 DEF Others
  <2>2. CASE d # c \/ v # u
    <3>1. Pending(d, v)' = Pending(d, v) /\ Wrote(d, v)' = Wrote(d, v)
      BY <1>1, <1>2, <2>2, GroupsStay
    <3>2. missed'[d][v] = missed[d][v]
      BY <1>1, <2>2 DEF HistoryInv
    <3> QED BY <1>1, <1>3, <2>1, <3>1, <3>2, RowsStay
  <2>3. CASE d = c /\ v = u
    <3>1. RowsOK(c, u)
      BY <1>1, <1>3
    <3>2. Wrote(c, u)' = Wrote(c, u)
      <4>1. \A q \in Request : q \in Wrote(c, u)' <=> q \in Wrote(c, u)
        BY <1>1 DEF Wrote, Others, Counting
      <4>2. Wrote(c, u)' \subseteq Request /\ Wrote(c, u) \subseteq Request
        BY DEF Wrote
      <4> QED BY <4>1, <4>2, Zenon
    <3>3. missed'[c][u] \ Pending(c, u)' \subseteq missed[c][u] \ Pending(c, u)
      <4>1. \A q \in Request : q \in Pending(c, u) => q \in Pending(c, u)'
        BY <1>1 DEF Pending, Others
      <4>2. req'[r].pc = "readCounts" => r \in Pending(c, u)'
        BY <1>2 DEF Pending, Counting
      <4>3. missed[c][u] \subseteq Request
        BY <1>1 DEF HistoryInv
      <4>4. CASE missed' = missed
        BY <4>1, <4>3, <4>4
      <4>5. CASE missed' # missed
        <5>1. missed'[c][u] = missed[c][u] \cup {r}
          BY <1>1, <4>5 DEF HistoryInv
        <5>2. r \in Pending(c, u)'
          BY <1>1, <4>2, <4>5
        <5> QED BY <4>1, <4>3, <5>1, <5>2
      <4> QED BY <4>4, <4>5
    <3>4. Cardinality((missed[c][u] \ Pending(c, u))') <= Cardinality(missed[c][u] \ Pending(c, u))
      BY <1>1, <3>3, RowTerms, NotLarger
    <3>5. RowTotal(c, u)' = RowTotal(c, u)
      <4>1. RowTotal(c, u)' = Total(unreadCounts'[c][u])
        BY <1>1, RowTotalSoon
      <4> QED BY <1>1, <4>1, RowTerms
    <3>6. Owed(c, u)' = Owed(c, u)
      BY <3>2, <3>5 DEF Owed
    <3>7. IsFiniteSet((missed[c][u] \ Pending(c, u))')
      BY <1>1, <3>3, RowTerms, FS_Subset
    <3>8. Cardinality((missed[c][u] \ Pending(c, u))') <= RowTotal(c, u)
      <4>1. Cardinality((missed[c][u] \ Pending(c, u))') \in Nat
        BY <3>7, FS_CardinalityType
      <4>2. /\ Cardinality(missed[c][u] \ Pending(c, u)) \in Nat /\ RowTotal(c, u) \in Nat
            /\ Cardinality(missed[c][u] \ Pending(c, u)) <= RowTotal(c, u)
        BY <1>1, <3>1, RowTerms DEF RowsOK
      <4> QED BY <3>4, <4>1, <4>2
    <3>9. RowsOK(c, u)'
      BY <1>1, <2>1, <3>1, <3>5, <3>6, <3>8 DEF RowsOK
    <3> QED BY <2>3, <3>9
  <2> QED BY <2>2, <2>3
<1> QED BY <1>4, <1>5, <1>6

\* A copy is ahead of what is stored by the one message it is made for.
LEMMA RowsRead ==
    ASSUME ServiceInv, HistoryInv, RowsInv, NEW r \in Request, ReadCounts(r)
    PROVE  RowsInv'
<1>1. /\ req[r].pc = "readCounts" /\ req'[r].pc = "writeCounts"
      /\ req'[r].counts = With(unreadCount[req[r].conv], Target(r),
            IF req[r].kind = "send" THEN Count(unreadCount[req[r].conv], Target(r)) + 1 ELSE 0)
      /\ req'[r].hasRow = (unreadCounts[req[r].conv][Target(r)] # <<>>)
      /\ SameRequest(r) /\ Others(r)
      /\ UNCHANGED <<unreadCount, unreadCounts, missed, failed, marked>>
  BY ReadEffect DEF SameCounts
<1>2. /\ req[r].conv \in Conversation /\ req[r].peer \in User /\ req[r].pc \in Labels
      /\ req[r].kind \in {"send", "read"}
  BY <1>1, AtCounts DEF Counting
<1> SUFFICES ASSUME ~failed, ~marked
             PROVE  /\ NoReads' /\ \A q \in Request : RowThere(q)'
                    /\ \A d \in Conversation : \A v \in User : RowsOK(d, v)'
  BY <1>1 DEF RowsInv
<1>3. /\ NoReads /\ \A q \in Request : RowThere(q)
      /\ \A d \in Conversation : \A v \in User : RowsOK(d, v)
  BY DEF RowsInv
<1>4. req[r].kind = "send"
  BY <1>2, <1>3 DEF NoReads
<1>5. PICK c \in Conversation, u \in User :
      /\ req[r].conv = c /\ req[r].peer = u
      /\ req'[r].counts = With(unreadCount[c], u, Count(unreadCount[c], u) + 1)
      /\ req'[r].hasRow = (unreadCounts[c][u] # <<>>)
  BY <1>1, <1>2, <1>4 DEF Target
<1>6. req'[r].conv = c /\ req'[r].peer = u
  BY <1>1, <1>5 DEF SameRequest
<1>a. PICK n \in Nat : n = Count(unreadCount[c], u) + 1
  <2>1. Count(unreadCount[c], u) \in Nat
    BY RowTerms
  <2> QED BY <2>1
<1>b. req'[r].counts = With(unreadCount[c], u, n)
  BY <1>5, <1>a
<1>7. NoReads'
  BY <1>1, <1>2, <1>3, NoReadsKept
<1>8. \A q \in Request : RowThere(q)'
  BY <1>1, <1>3, <1>5, <1>6 DEF RowThere, Others
<1>9. ASSUME NEW d \in Conversation, NEW v \in User PROVE RowsOK(d, v)'
  <2>1. Pending(d, v)' = Pending(d, v) /\ Wrote(d, v)' = Wrote(d, v)
    <3>1. \A q \in Request : q \in Pending(d, v)' <=> q \in Pending(d, v)
      BY <1>1, <1>5, <1>6 DEF Pending, Others, Counting
    <3>2. \A q \in Request : q \in Wrote(d, v)' <=> q \in Wrote(d, v)
      BY <1>1 DEF Wrote, Others
    <3>3. /\ Pending(d, v) \subseteq Request /\ Wrote(d, v) \subseteq Request
          /\ Pending(d, v)' \subseteq Request /\ Wrote(d, v)' \subseteq Request
      BY DEF Pending, Wrote
    <3> QED BY <3>1, <3>2, <3>3, Zenon
  <2>2. RowTotal(d, v)' = RowTotal(d, v)
    <3>1. RowTotal(d, v)' = Total(unreadCounts'[d][v])
      BY RowTotalSoon
    <3> QED BY <1>1, <3>1, RowTerms
  <2>3. Owed(d, v)' = Owed(d, v)
    BY <2>1, <2>2 DEF Owed
  <2>4. RowsOK(d, v) /\ Count(unreadCount[d], v) \in Nat /\ Owed(d, v) \in Nat
    BY <1>3, RowTerms
  <2>5. ASSUME NEW q \in Request, req'[q].pc = "writeCounts", req'[q].conv = d
        PROVE  Count(req'[q].counts, v) <= Owed(d, v) + (IF req'[q].peer = v THEN 1 ELSE 0)
    <3>1. CASE q # r
      <4>1. req'[q] = req[q]
        BY <1>1, <3>1 DEF Others
      <4> QED BY <2>4, <2>5, <4>1 DEF RowsOK
    <3>2. CASE q = r
      <4>1. d = c
        BY <1>6, <2>5, <3>2
      <4>2. Count(unreadCount[c], v) <= Owed(d, v)
        BY <2>4, <4>1 DEF RowsOK
      <4>3. CASE v = u
        <5>1. Count(req'[r].counts, v) = Count(unreadCount[c], v) + 1
          <6>1. Count(With(unreadCount[c], u, n), u) = n
            BY DEF Count, With
          <6> QED BY <1>a, <1>b, <4>3, <6>1
        <5> QED BY <1>6, <2>4, <3>2, <4>1, <4>2, <4>3, <5>1
      <4>4. CASE v # u
        <5>1. Count(req'[r].counts, v) = Count(unreadCount[c], v)
          <6>1. Count(With(unreadCount[c], u, n), v) = Count(unreadCount[c], v)
            BY <4>4 DEF Count, With
          <6> QED BY <1>b, <6>1
        <5> QED BY <1>6, <2>4, <3>2, <4>1, <4>2, <4>4, <5>1
      <4> QED BY <4>3, <4>4
    <3> QED BY <3>1, <3>2
  <2> QED BY <1>1, <2>1, <2>2, <2>3, <2>4, <2>5 DEF RowsOK
<1> QED BY <1>7, <1>8, <1>9

\* What is written back is owed from then on.
LEMMA RowsWrite ==
    ASSUME ServiceInv, HistoryInv, RowsInv, NEW r \in Request, WriteCounts(r)
    PROVE  RowsInv'
<1>1. /\ req[r].pc = "writeCounts"
      /\ req'[r].pc = IF req[r].hasRow THEN "updateRow" ELSE "pushRow"
      /\ unreadCount' = [unreadCount EXCEPT ![req[r].conv] = req[r].counts]
      /\ SameRequest(r) /\ Others(r)
      /\ UNCHANGED <<unreadCounts, missed, failed, marked>>
  BY WriteEffect
<1>2. req[r].conv \in Conversation /\ req[r].peer \in User /\ req[r].pc \in Labels
  BY <1>1, AtCounts DEF Counting
<1> SUFFICES ASSUME ~failed, ~marked
             PROVE  /\ NoReads' /\ \A q \in Request : RowThere(q)'
                    /\ \A d \in Conversation : \A v \in User : RowsOK(d, v)'
  BY <1>1 DEF RowsInv
<1>3. /\ NoReads /\ \A q \in Request : RowThere(q)
      /\ \A d \in Conversation : \A v \in User : RowsOK(d, v)
  BY DEF RowsInv
<1>4. PICK c \in Conversation, u \in User : req[r].conv = c /\ req[r].peer = u
  BY <1>2
<1>5. req'[r].conv = c /\ req'[r].peer = u /\ req'[r].pc \in {"updateRow", "pushRow"}
  BY <1>1, <1>4 DEF SameRequest
<1>6. NoReads'
  BY <1>1, <1>2, <1>3, NoReadsKept
<1>7. \A q \in Request : RowThere(q)'
  BY <1>1, <1>3, <1>4, <1>5 DEF RowThere, Others
<1>8. unreadCount'[c] = req[r].counts /\ \A d \in Conversation : d # c => unreadCount'[d] = unreadCount[d]
  BY <1>1, <1>4 DEF ServiceInv, TypeOK
<1>9. \A q \in Request : req'[q].pc = "writeCounts" => q # r /\ req'[q] = req[q]
  BY <1>1, <1>5 DEF Others
<1>10. ASSUME NEW d \in Conversation, NEW v \in User PROVE RowsOK(d, v)'
  <2>1. Pending(d, v)' = Pending(d, v)
    <3>1. \A q \in Request : q \in Pending(d, v)' <=> q \in Pending(d, v)
      BY <1>1, <1>4, <1>5 DEF Pending, Others, Counting
    <3>2. Pending(d, v) \subseteq Request /\ Pending(d, v)' \subseteq Request
      BY DEF Pending
    <3> QED BY <3>1, <3>2, Zenon
  <2>2. RowTotal(d, v)' = RowTotal(d, v)
    <3>1. RowTotal(d, v)' = Total(unreadCounts'[d][v])
      BY RowTotalSoon
    <3> QED BY <1>1, <3>1, RowTerms
  <2>3. /\ RowsOK(d, v) /\ RowTotal(d, v) \in Nat /\ IsFiniteSet(Wrote(d, v))
        /\ Cardinality(Wrote(d, v)) \in Nat /\ Owed(d, v) \in Nat
    BY <1>3, RowTerms
  <2>4. Wrote(d, v)' = IF d = c /\ v = u THEN Wrote(d, v) \cup {r} ELSE Wrote(d, v)
    <3>1. \A q \in Request : q \in Wrote(d, v)' <=>
             q \in (IF d = c /\ v = u THEN Wrote(d, v) \cup {r} ELSE Wrote(d, v))
      BY <1>1, <1>4, <1>5 DEF Wrote, Others
    <3>2. Wrote(d, v) \subseteq Request /\ Wrote(d, v)' \subseteq Request
      BY DEF Wrote
    <3> QED BY <3>1, <3>2, Zenon
  <2>5. r \notin Wrote(d, v)
    BY <1>1 DEF Wrote
  <2>6. Cardinality(Wrote(d, v)') = Cardinality(Wrote(d, v)) + (IF d = c /\ v = u THEN 1 ELSE 0)
    BY <2>3, <2>4, <2>5, OneMore
  <2>7. Owed(d, v)' = Owed(d, v) + (IF d = c /\ v = u THEN 1 ELSE 0)
    BY <2>2, <2>3, <2>6 DEF Owed
  <2>8. Count(unreadCount'[d], v) <= Owed(d, v)'
    <3>1. CASE d = c
      <4>1. req[r].counts \in Counted
        BY <1>1, AtCounts DEF Counting, Working
      <4>2. Count(req[r].counts, v) \in Nat
        BY <4>1, CountTyped
      <4>3. Count(req[r].counts, v) <= Owed(d, v) + (IF u = v THEN 1 ELSE 0)
        BY <1>1, <1>4, <2>3, <3>1 DEF RowsOK
      <4> QED BY <1>8, <2>3, <2>7, <3>1, <4>2, <4>3
    <3>2. CASE d # c
      BY <1>8, <2>3, <2>7, <3>2 DEF RowsOK
    <3> QED BY <3>1, <3>2
  <2>9. ASSUME NEW q \in Request, req'[q].pc = "writeCounts", req'[q].conv = d
        PROVE  Count(req'[q].counts, v) <= Owed(d, v)' + (IF req'[q].peer = v THEN 1 ELSE 0)
    <3>1. req'[q] = req[q]
      BY <1>9, <2>9
    <3>2. req[q].counts \in Counted
      BY <2>9, <3>1, AtCounts DEF Counting, Working
    <3>3. Count(req[q].counts, v) \in Nat
      BY <3>2, CountTyped
    <3>4. Count(req[q].counts, v) <= Owed(d, v) + (IF req[q].peer = v THEN 1 ELSE 0)
      BY <2>3, <2>9, <3>1 DEF RowsOK
    <3> QED BY <2>3, <2>7, <3>1, <3>3, <3>4
  <2>10. Cardinality((missed[d][v] \ Pending(d, v))') <= RowTotal(d, v)'
    BY <1>1, <2>1, <2>2, <2>3 DEF RowsOK
  <2> QED BY <2>8, <2>9, <2>10 DEF RowsOK
<1> QED BY <1>6, <1>7, <1>10

\* The rows count the message.
LEMMA RowsCount ==
    ASSUME ServiceInv, HistoryInv, RowsInv, NEW r \in Request, CountRow(r)
    PROVE  RowsInv'
<1>1. /\ req[r].kind = "send" /\ req[r].pc \in {"updateRow", "pushRow"}
      /\ RowsOnly(req[r].conv, req[r].peer)
      /\ req'[r].pc \in {"ended", "setDelivered"} /\ Others(r)
      /\ req'[r].pc # "ended" => SameRequest(r)
      /\ UNCHANGED <<unreadCount, missed, failed, marked>>
  BY CountEffect
<1>2. req[r].conv \in Conversation /\ req[r].peer \in User /\ req[r].pc \in Labels
  BY <1>1, AtCounts DEF Counting
<1> SUFFICES ASSUME ~failed, ~marked
             PROVE  /\ NoReads' /\ \A q \in Request : RowThere(q)'
                    /\ \A d \in Conversation : \A v \in User : RowsOK(d, v)'
  BY <1>1 DEF RowsInv
<1>3. /\ NoReads /\ \A q \in Request : RowThere(q)
      /\ \A d \in Conversation : \A v \in User : RowsOK(d, v)
  BY DEF RowsInv
<1>4. PICK c \in Conversation, u \in User : req[r].conv = c /\ req[r].peer = u
  BY <1>2
<1>5. NoReads'
  BY <1>1, <1>2, <1>3, NoReadsKept
<1>6. unreadCounts[c][u] \in Seq(Nat)
  BY RowTerms
<1>7. Total(unreadCounts'[c][u]) = Total(unreadCounts[c][u]) + 1 /\ unreadCounts'[c][u] # <<>>
  <2>1. CASE req[r].pc = "pushRow"
    <3>1. unreadCounts'[c][u] = Append(unreadCounts[c][u], 1)
      BY <1>4, <2>1, CountEffect
    <3> QED BY <1>6, <3>1, TotalAppend
  <2>2. CASE req[r].pc = "updateRow"
    <3>1. unreadCounts'[c][u] = [unreadCounts[c][u] EXCEPT ![1] = @ + 1]
      BY <1>4, <2>2, CountEffect
    <3>2. unreadCounts[c][u] # <<>>
      BY <1>3, <1>4, <2>2 DEF RowThere
    <3>3. 1 \in DOMAIN unreadCounts[c][u] /\ unreadCounts[c][u][1] \in Nat
      BY <1>6, <3>2
    <3>4. PICK n \in Nat : n = unreadCounts[c][u][1] + 1
      BY <3>3
    <3>5. PICK m \in Nat :
             /\ Total(unreadCounts[c][u]) = unreadCounts[c][u][1] + m
             /\ Total([unreadCounts[c][u] EXCEPT ![1] = n]) = n + m
      BY <1>6, <3>3, TotalExcept
    <3>6. unreadCounts'[c][u] = [unreadCounts[c][u] EXCEPT ![1] = n]
      BY <3>1, <3>4
    <3>7. DOMAIN unreadCounts'[c][u] # {}
      BY <3>1, <3>3
    <3> QED BY <3>3, <3>4, <3>5, <3>6, <3>7
  <2> QED BY <1>1, <2>1, <2>2
<1>8. RowTotal(c, u)' = RowTotal(c, u) + 1
  <2>1. RowTotal(c, u)' = Total(unreadCounts'[c][u])
    BY RowTotalSoon
  <2> QED BY <1>7, <2>1, RowTerms
<1>9. \A q \in Request : RowThere(q)'
  <2> SUFFICES ASSUME NEW q \in Request,
                      (req'[q].pc = "writeCounts" /\ req'[q].hasRow) \/ req'[q].pc = "updateRow"
               PROVE  unreadCounts'[req'[q].conv][req'[q].peer] # <<>>
    BY DEF RowThere
  <2>1. q # r /\ req'[q] = req[q]
    BY <1>1 DEF Others
  <2>2. req[q].conv \in Conversation /\ req[q].peer \in User
    BY <2>1, AtCounts DEF Counting
  <2>3. unreadCounts[req[q].conv][req[q].peer] # <<>>
    BY <1>3, <2>1 DEF RowThere
  <2>4. CASE req[q].conv = c /\ req[q].peer = u
    BY <1>7, <2>1, <2>4
  <2>5. CASE req[q].conv # c \/ req[q].peer # u
    BY <1>1, <1>4, <2>1, <2>2, <2>3, <2>5 DEF RowsOnly
  <2> QED BY <2>4, <2>5
<1>10. ASSUME NEW d \in Conversation, NEW v \in User PROVE RowsOK(d, v)'
  <2>1. \A q \in Request : req'[q].pc = "writeCounts" => req'[q] = req[q]
    BY <1>1 DEF Others
  <2>2. CASE d # c \/ v # u
    <3>1. Pending(d, v)' = Pending(d, v) /\ Wrote(d, v)' = Wrote(d, v)
      BY <1>1, <1>4, <2>2, GroupsStay DEF Counting
    <3>2. unreadCounts'[d][v] = unreadCounts[d][v]
      BY <1>1, <1>4, <2>2 DEF RowsOnly
    <3> QED BY <1>1, <1>3, <2>1, <3>1, <3>2, RowsStay
  <2>3. CASE d = c /\ v = u
    <3>1. /\ RowsOK(c, u) /\ RowTotal(c, u) \in Nat /\ Owed(c, u) \in Nat
          /\ IsFiniteSet(Wrote(c, u)) /\ Cardinality(Wrote(c, u)) \in Nat
          /\ IsFiniteSet(missed[c][u] \ Pending(c, u))
      BY <1>3, RowTerms
    <3>2. Wrote(c, u) = Wrote(c, u)' \cup {r} /\ r \notin Wrote(c, u)'
      <4>1. \A q \in Request : q \in Wrote(c, u) <=> q \in Wrote(c, u)' \cup {r}
        BY <1>1, <1>4 DEF Wrote, Others
      <4>2. Wrote(c, u) \subseteq Request /\ Wrote(c, u)' \subseteq Request
        BY DEF Wrote
      <4>3. r \notin Wrote(c, u)'
        BY <1>1 DEF Wrote
      <4> QED BY <4>1, <4>2, <4>3, Zenon
    <3>3. /\ Cardinality(Wrote(c, u)') \in Nat
          /\ Cardinality(Wrote(c, u)) = Cardinality(Wrote(c, u)') + 1
      <4>1. IsFiniteSet(Wrote(c, u)')
        BY <3>1, <3>2, FS_Subset
      <4> QED BY <3>2, <4>1, OneMore
    <3>4. Owed(c, u)' = Owed(c, u)
      BY <1>8, <3>1, <3>3 DEF Owed
    <3>5. (missed[c][u] \ Pending(c, u))' \subseteq (missed[c][u] \ Pending(c, u)) \cup {r}
      <4>1. \A q \in Request : q \in Pending(c, u) => q = r \/ q \in Pending(c, u)'
        BY <1>1 DEF Pending, Others
      <4>2. missed[c][u] \subseteq Request
        BY DEF HistoryInv
      <4> QED BY <1>1, <4>1, <4>2
    <3>6. /\ IsFiniteSet((missed[c][u] \ Pending(c, u)) \cup {r})
          /\ Cardinality((missed[c][u] \ Pending(c, u)) \cup {r}) \in Nat
          /\ Cardinality((missed[c][u] \ Pending(c, u)) \cup {r})
                <= Cardinality(missed[c][u] \ Pending(c, u)) + 1
          /\ Cardinality(missed[c][u] \ Pending(c, u)) \in Nat
      BY <3>1, OneMore
    <3>7. /\ Cardinality((missed[c][u] \ Pending(c, u))') \in Nat
          /\ Cardinality((missed[c][u] \ Pending(c, u))')
                <= Cardinality((missed[c][u] \ Pending(c, u)) \cup {r})
      BY <3>5, <3>6, NotLarger
    <3>8. Cardinality(missed[c][u] \ Pending(c, u)) <= RowTotal(c, u)
      BY <3>1 DEF RowsOK
    <3>9. Cardinality((missed[c][u] \ Pending(c, u))') <= RowTotal(c, u)'
      BY <1>8, <3>1, <3>6, <3>7, <3>8
    <3>10. RowsOK(c, u)'
      BY <1>1, <2>1, <3>1, <3>4, <3>9 DEF RowsOK
    <3> QED BY <2>3, <3>10
  <2> QED BY <2>2, <2>3
<1> QED BY <1>5, <1>9, <1>10

\* Every step keeps the balance of the rows.
LEMMA RowsStep ==
    ServiceInv /\ RoomsInv /\ HistoryInv /\ RowsInv /\ [Next]_vars => RowsInv'
<1> SUFFICES ASSUME ServiceInv, RoomsInv, HistoryInv, RowsInv, [Next]_vars PROVE RowsInv'
  OBVIOUS
<1>1. ASSUME NEW r \in Request, Receive(r) PROVE RowsInv'
  <2>1. /\ Others(r) /\ SameCounts /\ req[r].pc = "idle" /\ failed' = failed
        /\ req'[r].pc \in {"findConversation", "insertMessage", "markMessages", "setDeleted"}
        /\ marked' = (marked \/ req'[r].kind = "read")
    BY <1>1, ReceiveKnown
  <2>2. req[r].pc \notin Counting /\ req'[r].pc \notin Counting
    BY <2>1 DEF Counting
  <2> QED BY <2>1, <2>2, RowsCalm
<1>2. ASSUME NEW r \in Request,
             \/ StartRefused(r) \/ FindConversation(r) \/ DuplicateChatId(r) \/ DeleteConversation(r)
             \/ SetLast(r) \/ SetDelivered(r)
      PROVE  RowsInv'
  <2>1. Known(r)
    BY DEF HistoryInv
  <2>2. /\ Others(r) /\ SameCounts /\ r \in Active /\ req[r].pc \notin Counting
        /\ req'[r].pc \in {"ended", "createConversation", "setDelivered"}
        /\ UNCHANGED <<failed, marked>>
        /\ req'[r].pc # "ended" => SameRequest(r)
    BY <1>2, <2>1, PlainStep
  <2>3. req[r].pc \in Labels /\ req'[r].pc \notin Counting
    BY <2>2, ActiveAtLabel DEF ServiceInv, Counting
  <2>4. NoReads /\ req'[r].pc \in Labels => req'[r].kind # "read"
    BY <2>2, <2>3 DEF NoReads, Labels, SameRequest
  <2> QED BY <2>2, <2>3, <2>4, RowsCalm
<1>3. ASSUME NEW r \in Request, MarkMessages(r) PROVE RowsInv'
  <2>1. req[r].kind = "read" /\ r \in Active /\ UNCHANGED <<failed, marked>>
    BY <1>3, MarkEffect
  <2>2. ~NoReads
    BY <2>1, ActiveAtLabel DEF NoReads, ServiceInv
  <2> QED BY <2>1, <2>2 DEF RowsInv
<1>4. ASSUME NEW r \in Request, ClearRow(r) PROVE RowsInv'
  <2>1. req[r].kind = "read" /\ req[r].pc \in Labels /\ UNCHANGED <<failed, marked>>
    BY <1>4, ClearEffect DEF Labels
  <2> QED BY <2>1 DEF RowsInv, NoReads
<1>5. ASSUME NEW r \in Request, Fail(r) PROVE RowsInv'
  BY <1>5, FailEffect DEF RowsInv
<1>6. CASE UNCHANGED <<req, unreadCount, unreadCounts, missed, marked>> /\ (failed => failed')
  <2> SUFFICES ASSUME ~failed, ~marked PROVE RowsInv'
    BY <1>6 DEF RowsInv
  <2>1. NoReads' /\ \A q \in Request : RowThere(q)'
    BY <1>6 DEF RowsInv, NoReads, RowThere
  <2>2. ASSUME NEW c \in Conversation, NEW u \in User PROVE RowsOK(c, u)'
    <3>1. RowsOK(c, u)
      BY DEF RowsInv
    <3>2. Pending(c, u)' = Pending(c, u) /\ Wrote(c, u)' = Wrote(c, u)
      BY <1>6 DEF Pending, Wrote
    <3> QED BY <1>6, <3>1, <3>2, RowsStay
  <2> QED BY <2>1, <2>2 DEF RowsInv
<1>7. CASE Devices \/ UNCHANGED vars
  BY <1>6, <1>7 DEF Devices, vars, documents, history
<1>8. CASE Restart
  <2>1. SameCounts /\ marked' = marked /\ failed' = (failed \/ Active # {})
    BY <1>8, RestartEffect
  <2>2. CASE Active # {}
    BY <2>1, <2>2 DEF RowsInv
  <2>3. CASE Active = {}
    <3>1. req' = [r \in Request |-> req[r]]
      BY <1>8, <2>3 DEF Restart
    <3>2. req' = req
      BY <3>1 DEF ServiceInv, TypeOK
    <3>3. UNCHANGED <<req, unreadCount, unreadCounts, missed, marked>> /\ (failed => failed')
      BY <2>1, <3>2 DEF SameCounts
    <3> QED BY <1>6, <3>3
  <2> QED BY <2>2, <2>3
<1> QED BY <1>1, <1>2, <1>3, <1>4, <1>5, <1>7, <1>8, RowsCreate, RowsInsert, RowsRead, RowsWrite,
           RowsCount DEF Next

\* There are no rows at first.
LEMMA RowsStart == Init => RowsInv
<1> SUFFICES ASSUME Init PROVE RowsInv
  OBVIOUS
<1>1. NoReads /\ \A r \in Request : RowThere(r)
  BY DEF Init, NoReads, RowThere, Idle, Labels
<1>2. ASSUME NEW c \in Conversation, NEW u \in User PROVE RowsOK(c, u)
  <2>1. missed[c][u] = {} /\ unreadCounts[c][u] = <<>> /\ unreadCount[c] = NoCounts
    BY <1>2 DEF Init
  <2>2. Wrote(c, u) = {} /\ \A r \in Request : req[r].pc # "writeCounts"
    BY DEF Init, Wrote, Idle
  <2>3. RowTotal(c, u) = 0
    BY <2>1, RowTotalIs, TotalEmpty
  <2>4. Count(unreadCount[c], u) = 0
    BY <2>1 DEF Count, NoCounts
  <2>5. Cardinality({}) = 0
    BY FS_EmptySet
  <2>6. Owed(c, u) = 0
    BY <2>2, <2>3, <2>5 DEF Owed
  <2>7. missed[c][u] \ Pending(c, u) = {}
    BY <2>1
  <2> QED BY <2>2, <2>3, <2>4, <2>5, <2>6, <2>7 DEF RowsOK
<1> QED BY <1>1, <1>2 DEF RowsInv

\* As long as nobody reads and nothing fails, sends that interleave in any way
\* lose no count in the rows, and the object is not ahead of them, for any users
\* and conversations and any number of sends at work together.
THEOREM RowsKeepCount == Spec => []RowsLoseNoSend
<1>1. ServiceInv /\ HistoryInv /\ RowsInv => RowsLoseNoSend
  <2> SUFFICES ASSUME ServiceInv, HistoryInv, RowsInv, Quiescent, ~failed, ~marked,
                      NEW c \in Used, NEW u \in Participants[c]
               PROVE  /\ Cardinality(missed[c][u]) <= RowTotal(c, u)
                      /\ Count(unreadCount[c], u) <= RowTotal(c, u)
    BY DEF RowsLoseNoSend
  <2>1. c \in Conversation /\ u \in User
    BY UsedAssumption, ParticipantsAssumption
  <2>2. RowsOK(c, u)
    BY <2>1 DEF RowsInv
  <2>3. Pending(c, u) = {} /\ Wrote(c, u) = {}
    BY DEF Quiescent, Active, Pending, Wrote, Counting
  <2>4. missed[c][u] \ Pending(c, u) = missed[c][u]
    BY <2>3
  <2>5. Owed(c, u) = RowTotal(c, u)
    <3>1. Cardinality(Wrote(c, u)) = 0
      BY <2>3, FS_EmptySet
    <3>2. RowTotal(c, u) \in Nat
      BY <2>1, RowTerms
    <3> QED BY <3>1, <3>2 DEF Owed
  <2> QED BY <2>2, <2>4, <2>5 DEF RowsOK
<1> QED BY <1>1, HistoryHolds, RowsStart, RowsStep, PTL DEF Spec

-----------------------------------------------------------------------------
(* One request at a time, the counts are exact.                            *)

\* The two stored counts agree.
Same(c, u) ==
    \/ unreadCounts[c][u] = <<>> /\ u \notin DOMAIN unreadCount[c]
    \/ u \in DOMAIN unreadCount[c] /\ unreadCounts[c][u] = <<unreadCount[c][u]>>

Exact(c, u) ==
    /\ Same(c, u)
    /\ Cardinality(missed[c][u]) <= Count(unreadCount[c], u)
    /\ Count(unreadCount[c], u) <= Cardinality(since[c][u])

AtWork(r, c, u) == req[r].pc \in Counting /\ req[r].conv = c /\ Target(r) = u

\* A send that has not written yet has its own message still to count.
BeforeSend(r, c, u) ==
    /\ Same(c, u) /\ r \in since[c][u]
    /\ Cardinality(missed[c][u] \ {r}) <= Count(unreadCount[c], u)
    /\ Count(unreadCount[c], u) <= Cardinality(since[c][u] \ {r})
    /\ req[r].pc = "writeCounts" =>
          /\ req[r].counts = With(unreadCount[c], u, Count(unreadCount[c], u) + 1)
          /\ req[r].hasRow = (unreadCounts[c][u] # <<>>)

BeforeRead(r, c, u) ==
    /\ Same(c, u) /\ since[c][u] = {} /\ missed[c][u] = {}
    /\ req[r].pc = "writeCounts" =>
          /\ req[r].counts = With(unreadCount[c], u, 0)
          /\ req[r].hasRow = (unreadCounts[c][u] # <<>>)

\* What is written is what is to be counted; the rows follow.
After(r, c, u) ==
    /\ u \in DOMAIN unreadCount[c]
    /\ Cardinality(missed[c][u]) <= unreadCount[c][u]
    /\ unreadCount[c][u] <= Cardinality(since[c][u])
    /\ req[r].pc = "updateRow" => \E n \in Nat :
          /\ unreadCounts[c][u] = <<n>>
          /\ unreadCount[c][u] = IF req[r].kind = "send" THEN n + 1 ELSE 0
    /\ req[r].pc = "pushRow" =>
          /\ unreadCounts[c][u] = <<>>
          /\ unreadCount[c][u] = IF req[r].kind = "send" THEN 1 ELSE 0

Halfway(r, c, u) ==
    /\ req[r].pc \in {"readCounts", "writeCounts"} /\ req[r].kind = "send" => BeforeSend(r, c, u)
    /\ req[r].pc \in {"readCounts", "writeCounts"} /\ req[r].kind # "send" => BeforeRead(r, c, u)
    /\ req[r].pc \in {"updateRow", "pushRow"} => After(r, c, u)

ExactOK(c, u) ==
    /\ (\A r \in Request : ~AtWork(r, c, u)) => Exact(c, u)
    /\ \A r \in Request : AtWork(r, c, u) => Halfway(r, c, u)

ExactInv ==
    ~overlapped /\ ~failed => \A c \in Conversation : \A u \in User : ExactOK(c, u)

\* Only the request that moves is at work, before the step and after it.
LEMMA AloneAtWork ==
    ASSUME ServiceInv, SeenInv, ~overlapped, NEW r \in Request, r \in Active, Others(r)
    PROVE  \A q \in Request : q # r =>
              req[q].pc \notin Counting /\ req'[q].pc \notin Counting
<1> SUFFICES ASSUME NEW q \in Request, q # r
             PROVE  req[q].pc \notin Counting /\ req'[q].pc \notin Counting
  OBVIOUS
<1>1. q \notin Active
  BY DEF SeenInv
<1>2. req[q].pc \notin Counting
  BY <1>1 DEF Active, Counting
<1> QED BY <1>2 DEF Others

\* The counts of a user that a step leaves alone.
LEMMA ExactStays ==
    ASSUME NEW c \in Conversation, NEW u \in User, Exact(c, u),
           unreadCounts'[c][u] = unreadCounts[c][u],
           u \in DOMAIN unreadCount'[c] <=> u \in DOMAIN unreadCount[c],
           u \in DOMAIN unreadCount[c] => unreadCount'[c][u] = unreadCount[c][u],
           missed'[c][u] = missed[c][u], since'[c][u] = since[c][u]
    PROVE  Exact(c, u)'
<1>1. Count(unreadCount[c], u)' = Count(unreadCount[c], u)
  BY DEF Count
<1> QED BY <1>1 DEF Exact, Same

\* A step of one request that is at work on other counts than these, or on none.
LEMMA ExactElsewhere ==
    ASSUME ServiceInv, SeenInv, ~overlapped, NEW r \in Request, r \in Active, Others(r),
           NEW c \in Conversation, NEW u \in User, ExactOK(c, u),
           ~AtWork(r, c, u), ~AtWork(r, c, u)',
           unreadCounts'[c][u] = unreadCounts[c][u],
           u \in DOMAIN unreadCount'[c] <=> u \in DOMAIN unreadCount[c],
           u \in DOMAIN unreadCount[c] => unreadCount'[c][u] = unreadCount[c][u],
           missed'[c][u] = missed[c][u], since'[c][u] = since[c][u]
    PROVE  ExactOK(c, u)'
<1>1. \A q \in Request : ~AtWork(q, c, u) /\ ~AtWork(q, c, u)'
  BY AloneAtWork DEF AtWork
<1>2. Exact(c, u)
  BY <1>1 DEF ExactOK
<1>3. Exact(c, u)'
  BY <1>2, ExactStays
<1> QED BY <1>1, <1>3 DEF ExactOK

\* A step outside the counts, of one request or of none.
LEMMA ExactCalm ==
    ASSUME ServiceInv, SeenInv, ExactInv, SameCounts,
           ~overlapped' /\ ~failed' =>
               /\ ~overlapped /\ ~failed
               /\ \A q \in Request : req[q].pc \notin Counting /\ req'[q].pc \notin Counting
    PROVE  ExactInv'
<1> SUFFICES ASSUME ~overlapped', ~failed', NEW c \in Conversation, NEW u \in User
             PROVE  ExactOK(c, u)'
  BY DEF ExactInv
<1>1. \A q \in Request : ~AtWork(q, c, u) /\ ~AtWork(q, c, u)'
  BY DEF AtWork
<1>2. Exact(c, u)
  BY <1>1 DEF ExactOK, ExactInv
<1>3. Exact(c, u)'
  BY <1>2, ExactStays DEF SameCounts
<1> QED BY <1>1, <1>3 DEF ExactOK

\* A new conversation has the same count twice: none.
LEMMA ExactCreate ==
    ASSUME ServiceInv, HistoryInv, SeenInv, ExactInv, NEW r \in Request, CreateConversation(r)
    PROVE  ExactInv'
<1>1. PICK c \in Conversation :
           /\ Untouched(c)
           /\ unreadCount' = [unreadCount EXCEPT ![c] = Zeros(c)]
           /\ \A d \in Conversation \ {c} : unreadCounts'[d] = unreadCounts[d]
           /\ \A u \in User :
                 unreadCounts'[c][u] = IF u \in Participants[c] THEN <<0>> ELSE <<>>
           /\ Others(r) /\ req'[r].pc = "ended" /\ r \in Active /\ req[r].pc \notin Counting
           /\ UNCHANGED <<since, missed, overlapped, failed>>
  BY CreateEffect
<1> SUFFICES ASSUME ~overlapped, ~failed, NEW d \in Conversation, NEW u \in User
             PROVE  ExactOK(d, u)'
  BY <1>1 DEF ExactInv
<1>2. ExactOK(d, u)
  BY DEF ExactInv
<1>3. ~AtWork(r, d, u) /\ ~AtWork(r, d, u)'
  BY <1>1 DEF AtWork, Counting
<1>4. CASE d # c
  <2>1. unreadCount'[d] = unreadCount[d]
    BY <1>1, <1>4 DEF ServiceInv, TypeOK
  <2> QED BY <1>1, <1>2, <1>3, <1>4, <2>1, ExactElsewhere
<1>5. CASE d = c
  <2>1. \A q \in Request : ~AtWork(q, d, u)'
    BY <1>1, <1>3, AloneAtWork DEF AtWork
  <2>2. missed'[d][u] = {} /\ since'[d][u] = {}
    BY <1>1, <1>5 DEF Untouched
  <2>3. unreadCount'[d] = Zeros(d)
    BY <1>1, <1>5 DEF ServiceInv, TypeOK
  <2>4. Same(d, u)' /\ Count(unreadCount[d], u)' = 0
    <3>1. CASE u \in Participants[d]
      <4>1. unreadCounts'[d][u] = <<0>> /\ u \in DOMAIN unreadCount'[d] /\ unreadCount'[d][u] = 0
        BY <1>1, <1>5, <2>3, <3>1 DEF Zeros
      <4> QED BY <4>1 DEF Same, Count
    <3>2. CASE u \notin Participants[d]
      <4>1. unreadCounts'[d][u] = <<>> /\ u \notin DOMAIN unreadCount'[d]
        BY <1>1, <1>5, <2>3, <3>2 DEF Zeros
      <4> QED BY <4>1 DEF Same, Count
    <3> QED BY <3>1, <3>2
  <2>5. Cardinality(missed'[d][u]) = 0 /\ Cardinality(since'[d][u]) = 0
    BY <2>2, FS_EmptySet
  <2>6. Exact(d, u)'
    BY <2>4, <2>5 DEF Exact
  <2> QED BY <2>1, <2>6 DEF ExactOK
<1> QED BY <1>4, <1>5

\* A new message is counted next, unless its receiver hears it.
LEMMA ExactInsert ==
    ASSUME ServiceInv, HistoryInv, SeenInv, ExactInv, NEW r \in Request, InsertMessage(r)
    PROVE  ExactInv'
<1>0. /\ req[r].conv \in Conversation /\ req[r].peer \in User /\ r \in Active
      /\ r \notin since[req[r].conv][req[r].peer]
      /\ since' = [since EXCEPT ![req[r].conv][req[r].peer] = @ \cup {r}]
      /\ missed' \in {missed, [missed EXCEPT ![req[r].conv][req[r].peer] = @ \cup {r}]}
      /\ req'[r].pc \in {"setLast", "readCounts"} /\ req[r].pc \notin Counting
      /\ req'[r].pc = "setLast" => missed' = missed
      /\ req[r].kind = "send" /\ SameRequest(r) /\ Others(r)
      /\ UNCHANGED <<unreadCount, unreadCounts, overlapped, failed>>
  BY InsertEffect
<1>1. PICK c \in Conversation, u \in User :
           /\ req[r].conv = c /\ req[r].peer = u /\ r \in Active
           /\ r \notin since[c][u]
           /\ since' = [since EXCEPT ![c][u] = @ \cup {r}]
           /\ missed' \in {missed, [missed EXCEPT ![c][u] = @ \cup {r}]}
           /\ req'[r].pc \in {"setLast", "readCounts"} /\ req[r].pc \notin Counting
           /\ req'[r].pc = "setLast" => missed' = missed
           /\ req[r].kind = "send" /\ SameRequest(r) /\ Others(r)
           /\ UNCHANGED <<unreadCount, unreadCounts, overlapped, failed>>
  BY <1>0
<1> SUFFICES ASSUME ~overlapped, ~failed, NEW d \in Conversation, NEW v \in User
             PROVE  ExactOK(d, v)'
  BY <1>1 DEF ExactInv
<1>2. ExactOK(d, v)
  BY DEF ExactInv
<1>3. /\ ~AtWork(r, d, v)
      /\ AtWork(r, d, v)' => d = c /\ v = u /\ req'[r].pc = "readCounts" /\ req'[r].kind = "send"
  BY <1>1 DEF AtWork, Target, SameRequest, Counting
<1>4. CASE d # c \/ v # u
  <2>1. missed'[d][v] = missed[d][v] /\ since'[d][v] = since[d][v]
    BY <1>1, <1>4 DEF HistoryInv
  <2> QED BY <1>1, <1>2, <1>3, <1>4, <2>1, ExactElsewhere
<1>5. CASE d = c /\ v = u
  <2>1. \A q \in Request : q # r => ~AtWork(q, c, u) /\ ~AtWork(q, c, u)'
    BY <1>1, AloneAtWork DEF AtWork
  <2>2. Exact(c, u)
    BY <1>2, <1>3, <1>5, <2>1 DEF ExactOK
  <2>3. /\ since'[c][u] = since[c][u] \cup {r}
        /\ missed'[c][u] \in {missed[c][u], missed[c][u] \cup {r}}
        /\ IsFiniteSet(since[c][u]) /\ IsFiniteSet(missed[c][u])
        /\ Count(unreadCount[c], u) \in Nat
    <3>1. since'[c][u] = since[c][u] \cup {r}
      BY <1>1 DEF HistoryInv
    <3>2. missed'[c][u] \in {missed[c][u], missed[c][u] \cup {r}}
      BY <1>1 DEF HistoryInv
    <3> QED BY <3>1, <3>2, RowTerms
  <2>4. /\ Same(c, u)' /\ Count(unreadCount[c], u)' = Count(unreadCount[c], u)
    BY <1>1, <2>2 DEF Exact, Same
  <2>5. CASE req'[r].pc = "setLast"
    <3>1. missed'[c][u] = missed[c][u]
      BY <1>1, <2>5
    <3>2. /\ Cardinality(since[c][u]) \in Nat /\ Cardinality(since'[c][u]) \in Nat
          /\ Cardinality(since[c][u]) <= Cardinality(since'[c][u])
      <4>1. /\ Cardinality(since[c][u]) \in Nat
            /\ Cardinality(since[c][u] \cup {r}) = Cardinality(since[c][u]) + 1
        BY <1>1, <2>3, OneMore
      <4> QED BY <2>3, <4>1
    <3>3. /\ Cardinality(missed[c][u]) <= Count(unreadCount[c], u)
          /\ Count(unreadCount[c], u) <= Cardinality(since[c][u])
      BY <2>2 DEF Exact
    <3>4. Exact(c, u)'
      BY <2>3, <2>4, <3>1, <3>2, <3>3 DEF Exact
    <3>5. ~AtWork(r, c, u)'
      BY <1>3, <1>5, <2>5
    <3> QED BY <1>5, <2>1, <3>4, <3>5 DEF ExactOK
  <2>6. CASE req'[r].pc = "readCounts"
    <3>1. since'[c][u] \ {r} = since[c][u] /\ r \in since'[c][u]
      BY <1>1, <2>3
    <3>2. missed'[c][u] \ {r} \subseteq missed[c][u]
      BY <2>3
    <3>3. /\ Cardinality(missed'[c][u] \ {r}) \in Nat /\ Cardinality(missed[c][u]) \in Nat
          /\ Cardinality(missed'[c][u] \ {r}) <= Cardinality(missed[c][u])
      BY <2>3, <3>2, NotLarger
    <3>4. /\ Cardinality(missed[c][u]) <= Count(unreadCount[c], u)
          /\ Count(unreadCount[c], u) <= Cardinality(since[c][u])
      BY <2>2 DEF Exact
    <3>5. BeforeSend(r, c, u)'
      <4>1. Cardinality(missed'[c][u] \ {r}) <= Count(unreadCount[c], u)
        BY <2>3, <3>3, <3>4
      <4>2. Count(unreadCount[c], u) <= Cardinality(since'[c][u] \ {r})
        BY <3>1, <3>4
      <4> QED BY <2>4, <2>6, <3>1, <4>1, <4>2 DEF BeforeSend
    <3>6. AtWork(r, c, u)' /\ Halfway(r, c, u)'
      BY <1>1, <2>6, <3>5 DEF AtWork, Halfway, Target, SameRequest, Counting
    <3> QED BY <1>5, <2>1, <3>6 DEF ExactOK
  <2> QED BY <1>1, <2>5, <2>6
<1> QED BY <1>4, <1>5

\* Nothing is unread to who reads.
LEMMA ExactMark ==
    ASSUME ServiceInv, HistoryInv, SeenInv, ExactInv, NEW r \in Request, MarkMessages(r)
    PROVE  ExactInv'
<1>1. PICK c \in Conversation, u \in User :
           /\ req[r].conv = c /\ req[r].user = u /\ r \in Active
           /\ since' = [since EXCEPT ![c][u] = {}]
           /\ missed' = [missed EXCEPT ![c][u] = {}]
           /\ req[r].pc \notin Counting /\ req'[r].pc = "readCounts"
           /\ req[r].kind = "read" /\ SameRequest(r) /\ Others(r)
           /\ UNCHANGED <<unreadCount, unreadCounts, overlapped, failed>>
  BY MarkEffect
<1> SUFFICES ASSUME ~overlapped, ~failed, NEW d \in Conversation, NEW v \in User
             PROVE  ExactOK(d, v)'
  BY <1>1 DEF ExactInv
<1>2. ExactOK(d, v)
  BY DEF ExactInv
<1>3. ~AtWork(r, d, v) /\ (AtWork(r, d, v)' <=> d = c /\ v = u)
  BY <1>1 DEF AtWork, Target, SameRequest, Counting
<1>4. CASE d # c \/ v # u
  <2>1. missed'[d][v] = missed[d][v] /\ since'[d][v] = since[d][v]
    BY <1>1, <1>4 DEF HistoryInv
  <2> QED BY <1>1, <1>2, <1>3, <1>4, <2>1, ExactElsewhere
<1>5. CASE d = c /\ v = u
  <2>1. \A q \in Request : q # r => ~AtWork(q, c, u) /\ ~AtWork(q, c, u)'
    BY <1>1, AloneAtWork DEF AtWork
  <2>2. Exact(c, u)
    BY <1>2, <1>3, <1>5, <2>1 DEF ExactOK
  <2>3. since'[c][u] = {} /\ missed'[c][u] = {}
    BY <1>1 DEF HistoryInv
  <2>4. Same(c, u)'
    BY <1>1, <2>2 DEF Exact, Same
  <2>5. BeforeRead(r, c, u)'
    BY <1>1, <2>3, <2>4 DEF BeforeRead
  <2>6. AtWork(r, c, u)' /\ Halfway(r, c, u)'
    BY <1>1, <1>3, <1>5, <2>5 DEF Halfway, SameRequest
  <2> QED BY <1>5, <2>1, <2>6 DEF ExactOK
<1> QED BY <1>4, <1>5

\* The copy is made of what is stored.
LEMMA ExactRead ==
    ASSUME ServiceInv, HistoryInv, SeenInv, ExactInv, NEW r \in Request, ReadCounts(r)
    PROVE  ExactInv'
<1>1. /\ req[r].pc = "readCounts" /\ req'[r].pc = "writeCounts"
      /\ req'[r].counts = With(unreadCount[req[r].conv], Target(r),
            IF req[r].kind = "send" THEN Count(unreadCount[req[r].conv], Target(r)) + 1 ELSE 0)
      /\ req'[r].hasRow = (unreadCounts[req[r].conv][Target(r)] # <<>>)
      /\ SameRequest(r) /\ Others(r)
      /\ UNCHANGED <<unreadCount, unreadCounts, since, missed, overlapped, failed>>
  BY ReadEffect DEF SameCounts
<1>2. /\ req[r].conv \in Conversation /\ Target(r) \in User /\ r \in Active
      /\ req[r].kind \in {"send", "read"}
  BY <1>1, AtCounts DEF Counting, Target
<1>3. PICK c \in Conversation, u \in User :
           /\ req[r].conv = c /\ Target(r) = u
           /\ req'[r].counts = With(unreadCount[c], u,
                 IF req[r].kind = "send" THEN Count(unreadCount[c], u) + 1 ELSE 0)
           /\ req'[r].hasRow = (unreadCounts[c][u] # <<>>)
  BY <1>1, <1>2
<1> SUFFICES ASSUME ~overlapped, ~failed, NEW d \in Conversation, NEW v \in User
             PROVE  ExactOK(d, v)'
  BY <1>1 DEF ExactInv
<1>4. ExactOK(d, v)
  BY DEF ExactInv
<1>5. (AtWork(r, d, v) <=> d = c /\ v = u) /\ (AtWork(r, d, v)' <=> d = c /\ v = u)
  BY <1>1, <1>3 DEF AtWork, Target, SameRequest, Counting
<1>6. CASE d # c \/ v # u
  BY <1>1, <1>2, <1>4, <1>5, <1>6, ExactElsewhere
<1>7. CASE d = c /\ v = u
  <2>1. \A q \in Request : q # r => ~AtWork(q, c, u) /\ ~AtWork(q, c, u)'
    BY <1>1, <1>2, AloneAtWork DEF AtWork
  <2>2. Halfway(r, c, u)
    BY <1>4, <1>5, <1>7 DEF ExactOK
  <2>3. Halfway(r, c, u)'
    <3>1. CASE req[r].kind = "send"
      <4>1. BeforeSend(r, c, u)
        BY <1>1, <2>2, <3>1 DEF Halfway
      <4>2. req'[r].counts = With(unreadCount[c], u, Count(unreadCount[c], u) + 1)
        BY <1>3, <3>1
      <4>3. BeforeSend(r, c, u)'
        BY <1>1, <1>3, <4>1, <4>2 DEF BeforeSend, Same
      <4> QED BY <1>1, <3>1, <4>3 DEF Halfway, SameRequest
    <3>2. CASE req[r].kind # "send"
      <4>1. BeforeRead(r, c, u)
        BY <1>1, <2>2, <3>2 DEF Halfway
      <4>2. req'[r].counts = With(unreadCount[c], u, 0)
        BY <1>3, <3>2
      <4>3. BeforeRead(r, c, u)'
        BY <1>1, <1>3, <4>1, <4>2 DEF BeforeRead, Same
      <4> QED BY <1>1, <3>2, <4>3 DEF Halfway, SameRequest
    <3> QED BY <3>1, <3>2
  <2> QED BY <1>5, <1>7, <2>1, <2>3 DEF ExactOK
<1> QED BY <1>6, <1>7

\* The object is written: its count is what is to be counted.
LEMMA ExactWrite ==
    ASSUME ServiceInv, HistoryInv, SeenInv, ExactInv, NEW r \in Request, WriteCounts(r)
    PROVE  ExactInv'
<1>1. /\ req[r].pc = "writeCounts"
      /\ req'[r].pc = IF req[r].hasRow THEN "updateRow" ELSE "pushRow"
      /\ unreadCount' = [unreadCount EXCEPT ![req[r].conv] = req[r].counts]
      /\ SameRequest(r) /\ Others(r)
      /\ UNCHANGED <<unreadCounts, since, missed, overlapped, failed>>
  BY WriteEffect
<1>2. req[r].conv \in Conversation /\ Target(r) \in User /\ r \in Active
  BY <1>1, AtCounts DEF Counting, Target
<1>3. PICK c \in Conversation, u \in User : req[r].conv = c /\ Target(r) = u
  BY <1>2
<1> SUFFICES ASSUME ~overlapped, ~failed, NEW d \in Conversation, NEW v \in User
             PROVE  ExactOK(d, v)'
  BY <1>1 DEF ExactInv
<1>4. ExactOK(d, v) /\ ExactOK(c, u)
  BY DEF ExactInv
<1>5. (AtWork(r, d, v) <=> d = c /\ v = u) /\ (AtWork(r, d, v)' <=> d = c /\ v = u)
  BY <1>1, <1>3 DEF AtWork, Target, SameRequest, Counting
<1>6. AtWork(r, c, u) /\ Halfway(r, c, u)
  BY <1>1, <1>3, <1>4 DEF AtWork, Counting, ExactOK
<1>7. /\ unreadCount'[c] = req[r].counts
      /\ \A e \in Conversation : e # c => unreadCount'[e] = unreadCount[e]
  BY <1>1, <1>3 DEF ServiceInv, TypeOK
<1>8. /\ Same(c, u) /\ req[r].hasRow = (unreadCounts[c][u] # <<>>)
      /\ req[r].kind = "send" => req[r].counts = With(unreadCount[c], u, Count(unreadCount[c], u) + 1)
      /\ req[r].kind # "send" => req[r].counts = With(unreadCount[c], u, 0)
  BY <1>1, <1>6 DEF Halfway, BeforeSend, BeforeRead
<1>9. CASE d # c \/ v # u
  <2>1. /\ v \in DOMAIN unreadCount'[d] <=> v \in DOMAIN unreadCount[d]
        /\ v \in DOMAIN unreadCount[d] => unreadCount'[d][v] = unreadCount[d][v]
    BY <1>7, <1>8, <1>9 DEF With
  <2> QED BY <1>1, <1>2, <1>4, <1>5, <1>9, <2>1, ExactElsewhere
<1>10. CASE d = c /\ v = u
  <2>1. \A q \in Request : q # r => ~AtWork(q, c, u) /\ ~AtWork(q, c, u)'
    BY <1>1, <1>2, AloneAtWork DEF AtWork
  <2>2. Count(unreadCount[c], u) \in Nat
    BY RowTerms
  <2>3. IsFiniteSet(missed[c][u]) /\ IsFiniteSet(since[c][u])
    BY RowTerms
  <2>4. /\ u \in DOMAIN unreadCount'[c]
        /\ unreadCount'[c][u] = IF req[r].kind = "send" THEN Count(unreadCount[c], u) + 1 ELSE 0
    BY <1>7, <1>8 DEF With
  <2>5. \/ unreadCounts[c][u] = <<>> /\ Count(unreadCount[c], u) = 0
        \/ unreadCounts[c][u] = <<Count(unreadCount[c], u)>>
    BY <1>8 DEF Same, Count
  <2>6. Cardinality(missed[c][u]) <= unreadCount'[c][u] /\ unreadCount'[c][u] <= Cardinality(since[c][u])
    <3>1. CASE req[r].kind = "send"
      <4>1. /\ r \in since[c][u]
            /\ Cardinality(missed[c][u] \ {r}) <= Count(unreadCount[c], u)
            /\ Count(unreadCount[c], u) <= Cardinality(since[c][u] \ {r})
        BY <1>1, <1>6, <3>1 DEF Halfway, BeforeSend
      <4>2. IsFiniteSet(missed[c][u] \ {r}) /\ IsFiniteSet(since[c][u] \ {r})
        BY <2>3, FS_Subset
      <4>3. /\ Cardinality(since[c][u] \ {r}) \in Nat
            /\ Cardinality(since[c][u]) = Cardinality(since[c][u] \ {r}) + 1
        <5>1. since[c][u] = (since[c][u] \ {r}) \cup {r}
          BY <4>1
        <5>2. Cardinality((since[c][u] \ {r}) \cup {r}) = Cardinality(since[c][u] \ {r}) + 1
          BY <4>2, OneMore
        <5> QED BY <4>2, <5>1, <5>2, FS_CardinalityType
      <4>4. /\ Cardinality(missed[c][u] \ {r}) \in Nat /\ Cardinality(missed[c][u]) \in Nat
            /\ Cardinality(missed[c][u]) <= Cardinality(missed[c][u] \ {r}) + 1
        <5>1. missed[c][u] \subseteq (missed[c][u] \ {r}) \cup {r}
          OBVIOUS
        <5>2. /\ IsFiniteSet((missed[c][u] \ {r}) \cup {r})
              /\ Cardinality(missed[c][u] \ {r}) \in Nat
              /\ Cardinality((missed[c][u] \ {r}) \cup {r}) \in Nat
              /\ Cardinality((missed[c][u] \ {r}) \cup {r}) <= Cardinality(missed[c][u] \ {r}) + 1
          BY <4>2, OneMore
        <5>3. /\ Cardinality(missed[c][u]) \in Nat
              /\ Cardinality(missed[c][u]) <= Cardinality((missed[c][u] \ {r}) \cup {r})
          BY <5>1, <5>2, NotLarger
        <5> QED BY <5>2, <5>3
      <4> QED BY <2>2, <2>4, <3>1, <4>1, <4>3, <4>4
    <3>2. CASE req[r].kind # "send"
      <4>1. since[c][u] = {} /\ missed[c][u] = {}
        BY <1>1, <1>6, <3>2 DEF Halfway, BeforeRead
      <4>2. Cardinality(since[c][u]) = 0 /\ Cardinality(missed[c][u]) = 0
        BY <4>1, FS_EmptySet
      <4> QED BY <2>4, <3>2, <4>2
    <3> QED BY <3>1, <3>2
  <2>7. req'[r].pc = "updateRow" => \E n \in Nat :
           /\ unreadCounts'[c][u] = <<n>>
           /\ unreadCount'[c][u] = IF req'[r].kind = "send" THEN n + 1 ELSE 0
    <3> SUFFICES ASSUME req'[r].pc = "updateRow"
                 PROVE  \E n \in Nat :
                           /\ unreadCounts'[c][u] = <<n>>
                           /\ unreadCount'[c][u] = IF req'[r].kind = "send" THEN n + 1 ELSE 0
      OBVIOUS
    <3>1. unreadCounts[c][u] # <<>>
      BY <1>1, <1>8
    <3>2. unreadCounts'[c][u] = <<Count(unreadCount[c], u)>>
      BY <1>1, <2>5, <3>1
    <3> QED BY <1>1, <2>2, <2>4, <3>2 DEF SameRequest
  <2>8. req'[r].pc = "pushRow" =>
           /\ unreadCounts'[c][u] = <<>>
           /\ unreadCount'[c][u] = IF req'[r].kind = "send" THEN 1 ELSE 0
    <3> SUFFICES ASSUME req'[r].pc = "pushRow"
                 PROVE  /\ unreadCounts'[c][u] = <<>>
                        /\ unreadCount'[c][u] = IF req'[r].kind = "send" THEN 1 ELSE 0
      OBVIOUS
    <3>1. unreadCounts[c][u] = <<>>
      BY <1>1, <1>8
    <3>2. Count(unreadCount[c], u) = 0
      BY <2>5, <3>1
    <3> QED BY <1>1, <2>4, <3>1, <3>2 DEF SameRequest
  <2>9. After(r, c, u)'
    BY <1>1, <2>4, <2>6, <2>7, <2>8 DEF After
  <2>10. Halfway(r, c, u)'
    BY <1>1, <2>9 DEF Halfway
  <2> QED BY <1>5, <1>10, <2>1, <2>10 DEF ExactOK
<1> QED BY <1>9, <1>10

\* The rows follow: the two counts agree again.
LEMMA ExactFollow ==
    ASSUME ServiceInv, HistoryInv, SeenInv, ExactInv, NEW r \in Request, CountRow(r) \/ ClearRow(r)
    PROVE  ExactInv'
<1>1. /\ req[r].pc \in {"updateRow", "pushRow"} /\ req[r].kind \in {"send", "read"}
      /\ RowsOnly(req[r].conv, Target(r))
      /\ req'[r].pc \notin Counting /\ Others(r)
      /\ UNCHANGED <<unreadCount, since, missed, overlapped, failed>>
  BY CountEffect, ClearEffect DEF Counting, Target
<1>2. req[r].conv \in Conversation /\ Target(r) \in User /\ r \in Active
  BY <1>1, AtCounts DEF Counting, Target
<1>3. PICK c \in Conversation, u \in User : req[r].conv = c /\ Target(r) = u
  BY <1>2
<1>4. /\ req[r].pc = "updateRow" =>
            unreadCounts'[c][u] = [unreadCounts[c][u] EXCEPT ![1] = IF req[r].kind = "send" THEN @ + 1 ELSE 0]
      /\ req[r].pc = "pushRow" =>
            unreadCounts'[c][u] = Append(unreadCounts[c][u], IF req[r].kind = "send" THEN 1 ELSE 0)
  <2>1. CASE CountRow(r)
    BY <1>3, <2>1, CountEffect DEF Target
  <2>2. CASE ClearRow(r)
    BY <1>3, <2>2, ClearEffect DEF Target
  <2> QED BY <2>1, <2>2
<1> SUFFICES ASSUME ~overlapped, ~failed, NEW d \in Conversation, NEW v \in User
             PROVE  ExactOK(d, v)'
  BY <1>1 DEF ExactInv
<1>5. ExactOK(d, v) /\ ExactOK(c, u)
  BY DEF ExactInv
<1>6. (AtWork(r, d, v) <=> d = c /\ v = u) /\ ~AtWork(r, d, v)'
  BY <1>1, <1>3 DEF AtWork, Counting
<1>7. CASE d # c \/ v # u
  <2>1. unreadCounts'[d][v] = unreadCounts[d][v]
    BY <1>1, <1>3, <1>7 DEF RowsOnly
  <2> QED BY <1>1, <1>2, <1>5, <1>6, <1>7, <2>1, ExactElsewhere
<1>8. CASE d = c /\ v = u
  <2>1. \A q \in Request : ~AtWork(q, c, u)'
    BY <1>1, <1>2, <1>6, <1>8, AloneAtWork DEF AtWork
  <2>2. After(r, c, u)
    BY <1>1, <1>3, <1>5 DEF AtWork, Counting, ExactOK, Halfway
  <2>3. unreadCounts'[c][u] = <<unreadCount[c][u]>>
    <3>1. CASE req[r].pc = "updateRow"
      <4>1. PICK n \in Nat :
               /\ unreadCounts[c][u] = <<n>>
               /\ unreadCount[c][u] = IF req[r].kind = "send" THEN n + 1 ELSE 0
        BY <2>2, <3>1 DEF After
      <4>2. unreadCounts'[c][u] = [<<n>> EXCEPT ![1] = IF req[r].kind = "send" THEN @ + 1 ELSE 0]
        BY <1>4, <3>1, <4>1
      <4>3. CASE req[r].kind = "send"
        <5>1. unreadCounts'[c][u] = [<<n>> EXCEPT ![1] = @ + 1]
          BY <4>2, <4>3
        <5>2. [<<n>> EXCEPT ![1] = @ + 1] = <<n + 1>>
          OBVIOUS
        <5> QED BY <4>1, <4>3, <5>1, <5>2
      <4>4. CASE req[r].kind # "send"
        <5>1. unreadCounts'[c][u] = [<<n>> EXCEPT ![1] = 0]
          BY <4>2, <4>4
        <5>2. [<<n>> EXCEPT ![1] = 0] = <<0>>
          OBVIOUS
        <5> QED BY <4>1, <4>4, <5>1, <5>2
      <4> QED BY <4>3, <4>4
    <3>2. CASE req[r].pc = "pushRow"
      <4>1. /\ unreadCounts[c][u] = <<>>
            /\ unreadCount[c][u] = IF req[r].kind = "send" THEN 1 ELSE 0
        BY <2>2, <3>2 DEF After
      <4>2. unreadCounts'[c][u] = Append(<<>>, unreadCount[c][u])
        BY <1>4, <3>2, <4>1
      <4> QED BY <4>2
    <3> QED BY <1>1, <3>1, <3>2
  <2>4. u \in DOMAIN unreadCount[c] /\ Count(unreadCount[c], u) = unreadCount[c][u]
    BY <2>2 DEF After, Count
  <2>5. /\ Cardinality(missed[c][u]) <= Count(unreadCount[c], u)
        /\ Count(unreadCount[c], u) <= Cardinality(since[c][u])
    BY <2>2, <2>4 DEF After
  <2>6. Same(c, u)'
    BY <1>1, <2>3, <2>4 DEF Same
  <2>7. Exact(c, u)'
    BY <1>1, <2>5, <2>6 DEF Exact
  <2> QED BY <1>8, <2>1, <2>7 DEF ExactOK
<1> QED BY <1>7, <1>8

\* Every step of a request that is alone keeps the counts exact.
LEMMA ExactStep ==
    ServiceInv /\ RoomsInv /\ HistoryInv /\ SeenInv /\ ExactInv /\ [Next]_vars => ExactInv'
<1> SUFFICES ASSUME ServiceInv, RoomsInv, HistoryInv, SeenInv, ExactInv, [Next]_vars PROVE ExactInv'
  OBVIOUS
<1>0. \A q \in Request : req[q].pc \in Counting => q \in Active
  BY DEF Active, Counting
<1>1. ASSUME NEW r \in Request, Receive(r) PROVE ExactInv'
  <2>1. /\ Others(r) /\ SameCounts /\ req[r].pc = "idle" /\ failed' = failed
        /\ req'[r].pc \in {"findConversation", "insertMessage", "markMessages", "setDeleted"}
        /\ overlapped' = (overlapped \/ Active # {})
    BY <1>1, ReceiveKnown
  <2>2. ~overlapped' => \A q \in Request : req[q].pc \notin Counting /\ req'[q].pc \notin Counting
    BY <1>0, <2>1 DEF Others, Counting
  <2> QED BY <2>1, <2>2, ExactCalm
<1>2. ASSUME NEW r \in Request,
             \/ StartRefused(r) \/ FindConversation(r) \/ DuplicateChatId(r) \/ DeleteConversation(r)
             \/ SetLast(r) \/ SetDelivered(r)
      PROVE  ExactInv'
  <2>1. Known(r)
    BY DEF HistoryInv
  <2>2. /\ Others(r) /\ SameCounts /\ r \in Active /\ req[r].pc \notin Counting
        /\ req'[r].pc \in {"ended", "createConversation", "setDelivered"}
        /\ UNCHANGED <<overlapped, failed>>
    BY <1>2, <2>1, PlainStep
  <2>3. ~overlapped' => \A q \in Request : req[q].pc \notin Counting /\ req'[q].pc \notin Counting
    BY <2>2, AloneAtWork DEF Counting
  <2> QED BY <2>2, <2>3, ExactCalm
<1>3. ASSUME NEW r \in Request, Fail(r) PROVE ExactInv'
  BY <1>3, FailEffect DEF ExactInv
<1>4. CASE UNCHANGED <<req, unreadCount, unreadCounts, missed, since, overlapped>> /\ (failed => failed')
  <2> SUFFICES ASSUME ~overlapped, ~failed, NEW c \in Conversation, NEW u \in User
               PROVE  ExactOK(c, u)'
    BY <1>4 DEF ExactInv
  <2>1. ExactOK(c, u)
    BY DEF ExactInv
  <2> QED BY <1>4, <2>1 DEF ExactOK, AtWork, Target, Exact, Same, Halfway, BeforeSend, BeforeRead, After
<1>5. CASE Devices \/ UNCHANGED vars
  BY <1>4, <1>5 DEF Devices, vars, documents, history
<1>6. CASE Restart
  <2>1. SameCounts /\ overlapped' = overlapped /\ failed' = (failed \/ Active # {})
    BY <1>6, RestartEffect
  <2>2. CASE Active # {}
    BY <2>1, <2>2 DEF ExactInv
  <2>3. CASE Active = {}
    <3>1. req' = [r \in Request |-> req[r]]
      BY <1>6, <2>3 DEF Restart
    <3>2. req' = req
      BY <3>1 DEF ServiceInv, TypeOK
    <3>3. UNCHANGED <<req, unreadCount, unreadCounts, missed, since, overlapped>> /\ (failed => failed')
      BY <2>1, <3>2 DEF SameCounts
    <3> QED BY <1>4, <3>3
  <2> QED BY <2>2, <2>3
<1> QED BY <1>1, <1>2, <1>3, <1>5, <1>6, ExactCreate, ExactInsert, ExactMark, ExactRead, ExactWrite,
           ExactFollow DEF Next

\* Both counts are zero at first.
LEMMA ExactStart == Init => ExactInv
<1> SUFFICES ASSUME Init, NEW c \in Conversation, NEW u \in User PROVE ExactOK(c, u)
  BY DEF ExactInv
<1>1. \A r \in Request : ~AtWork(r, c, u)
  BY DEF Init, AtWork, Idle, Counting
<1>2. /\ missed[c][u] = {} /\ since[c][u] = {} /\ unreadCounts[c][u] = <<>>
      /\ unreadCount[c] = NoCounts
  BY DEF Init
<1>3. Same(c, u) /\ Count(unreadCount[c], u) = 0
  BY <1>2 DEF Same, Count, NoCounts
<1>4. Cardinality(missed[c][u]) = 0 /\ Cardinality(since[c][u]) = 0
  BY <1>2, FS_EmptySet
<1> QED BY <1>1, <1>3, <1>4 DEF ExactOK, Exact

\* As long as requests come one at a time and none fails, the two stored counts
\* of a user are equal when all are done, and they count what the user has missed
\* and nothing from before the user last marked the conversation, whatever the
\* devices do meanwhile and for any users, devices and conversations.
THEOREM CountsExact == Spec => []CountsExactOneAtATime
<1>1. ServiceInv /\ HistoryInv /\ ExactInv => CountsExactOneAtATime
  <2> SUFFICES ASSUME ServiceInv, HistoryInv, ExactInv, Quiescent, ~overlapped, ~failed,
                      NEW c \in Used, NEW u \in Participants[c]
               PROVE  /\ StoredUnread(c, u) = RowTotal(c, u)
                      /\ Cardinality(missed[c][u]) <= StoredUnread(c, u)
                      /\ StoredUnread(c, u) <= Cardinality(since[c][u])
                      /\ lastSender[c] # u => ShownUnread(c, u) = RowTotal(c, u)
    BY DEF CountsExactOneAtATime
  <2>1. c \in Conversation /\ u \in User
    BY UsedAssumption, ParticipantsAssumption
  <2>2. \A r \in Request : ~AtWork(r, c, u)
    BY DEF Quiescent, Active, AtWork, Counting
  <2>3. Exact(c, u)
    BY <2>1, <2>2 DEF ExactInv, ExactOK
  <2>4. RowTotal(c, u) = Total(unreadCounts[c][u]) /\ Count(unreadCount[c], u) \in Nat
    BY <2>1, RowTerms
  <2>5. StoredUnread(c, u) = Count(unreadCount[c], u) /\ RowTotal(c, u) = Count(unreadCount[c], u)
    <3>1. CASE unreadCounts[c][u] = <<>> /\ u \notin DOMAIN unreadCount[c]
      BY <2>4, <3>1, TotalEmpty DEF StoredUnread, Count
    <3>2. CASE u \in DOMAIN unreadCount[c] /\ unreadCounts[c][u] = <<unreadCount[c][u]>>
      <4>1. Count(unreadCount[c], u) = unreadCount[c][u] /\ StoredUnread(c, u) = unreadCount[c][u]
        BY <3>2 DEF StoredUnread, Count
      <4>2. Total(<<Count(unreadCount[c], u)>>) = Count(unreadCount[c], u)
        BY <2>4, TotalOne
      <4> QED BY <2>4, <3>2, <4>1, <4>2
    <3> QED BY <2>3, <3>1, <3>2 DEF Exact, Same
  <2> QED BY <2>3, <2>5 DEF Exact, ShownUnread
<1> QED BY <1>1, HistoryHolds, SeenHolds, ExactStart, ExactStep, PTL DEF Spec

-----------------------------------------------------------------------------
(* Messages: the badge of one reader, while sends and reads interleave.    *)

CallRecord == [kind : {"none", "socket", "rest", "markAsRead", "reset"},
               pc : {"idle", "insert", "increment", "pushRow", "markMessages",
                     "clearRow", "done"}]

MessagesTypeOK ==
    /\ isRead \in [Call -> {Nothing} \cup ReadFlag]
    /\ unReadMessage \in Seq(Nat)
    /\ latestMessage \in Call \cup {Nothing}
    /\ call \in [Call -> CallRecord]
    /\ created \in Seq(Call)
    /\ unseen \subseteq Call
    /\ overlapping \in BOOLEAN
    /\ aborted \in BOOLEAN

\* A request is at a step of its own kind, and a message that is not inserted
\* yet is not among the unseen ones.
CallAgrees(r) ==
    /\ call[r].pc = "idle" => call[r].kind = "none"
    /\ call[r].pc \in {"insert", "increment", "pushRow"} => call[r].kind \in {"socket", "rest"}
    /\ call[r].pc \in {"markMessages", "clearRow"} => call[r].kind \in {"markAsRead", "reset"}
    /\ call[r].pc \in {"idle", "insert"} => r \notin unseen

CallsInv == MessagesTypeOK /\ \A r \in Call : CallAgrees(r)

\* The messages that are inserted and whose count is still to come.
Uncounted == {r \in Call : call[r].pc \in {"increment", "pushRow"}}
SendsOnly == \A r \in Call : call[r].kind \in {"none", "socket", "rest"}

\* Counted and uncounted together are never more than the messages, and are all
\* of them while only sends came and none failed.
BadgeInv ==
    /\ Badge + Cardinality(Uncounted) <= Len(created)
    /\ ~aborted /\ SendsOnly => Badge + Cardinality(Uncounted) = Len(created)

\* One request at a time: the reader has one row at most, and none when a row is
\* about to be pushed; what the badge and the message at work count is unseen,
\* and the newest message is that one or the one in the list.
AloneInv ==
    ~overlapping =>
        /\ \A r, s \in InProgress : r = s
        /\ Len(unReadMessage) <= 1
        /\ \A r \in Call : call[r].pc = "pushRow" => unReadMessage = <<>>
        /\ ~aborted =>
               /\ Badge + Cardinality(Uncounted) = Cardinality(unseen)
               /\ \A r \in Uncounted : created # <<>> /\ r = Last(created)
               /\ Uncounted = {} /\ created # <<>> => latestMessage = Last(created)

OtherCalls(r) == \A q \in Call : q # r => call'[q] = call[q]

\* Call r goes from one of some labels to another; a new one starts at a step of its kind.
Goes(r, labels, label) ==
    OtherCalls(r) /\ call[r].pc \in labels /\ call'[r] = [kind |-> call[r].kind, pc |-> label]

Starts(r) ==
    /\ OtherCalls(r) /\ call[r].pc = "idle"
    /\ \E kind \in {"socket", "rest", "markAsRead", "reset"} :
          call'[r] = [kind |-> kind, pc |-> CASE kind \in {"socket", "rest"} -> "insert"
                                              [] kind = "markAsRead" -> "markMessages"
                                              [] kind = "reset" -> "clearRow"]

\* Where each step of a call comes from and goes to.
LEMMA CallMoves ==
    ASSUME CallsInv, NEW r \in Call
    PROVE  /\ ReceiveCall(r) => Starts(r)
           /\ Insert(r) => Goes(r, {"insert"}, "increment")
           /\ IncrementRow(r) => Goes(r, {"increment"}, "done")
           /\ NoRow(r) => Goes(r, {"increment"}, "pushRow")
           /\ PushRow(r) => Goes(r, {"pushRow"}, "done")
           /\ SetIsRead(r) => Goes(r, {"markMessages"}, "clearRow")
           /\ ClearBadge(r) => Goes(r, {"clearRow"}, "done")
           /\ Abort(r) => Goes(r, {"insert", "increment", "pushRow", "markMessages", "clearRow"}, "done")
<1>1. MessagesTypeOK
  BY DEF CallsInv
<1>2. ASSUME NEW label, call' = CallAt(r, label)
      PROVE  OtherCalls(r) /\ call'[r] = [kind |-> call[r].kind, pc |-> label]
  BY <1>1, <1>2 DEF MessagesTypeOK, CallAt, OtherCalls, CallRecord
<1>3. ReceiveCall(r) => Starts(r)
  <2> SUFFICES ASSUME ReceiveCall(r) PROVE Starts(r)
    OBVIOUS
  <2>1. PICK kind \in Kinds : call' = [call EXCEPT ![r] = [kind |-> kind, pc |-> CallStart(kind)]]
    BY DEF ReceiveCall
  <2>2. kind \in {"socket", "rest", "markAsRead", "reset"}
    BY KindsAssumption
  <2>3. OtherCalls(r) /\ call'[r] = [kind |-> kind, pc |-> CallStart(kind)] /\ call[r].pc = "idle"
    BY <1>1, <2>1 DEF OtherCalls, MessagesTypeOK, ReceiveCall
  <2> QED BY <2>2, <2>3 DEF Starts, CallStart
<1>4. Abort(r) => call[r].pc \in {"insert", "increment", "pushRow", "markMessages", "clearRow"}
  BY <1>1 DEF Abort, InProgress, MessagesTypeOK, CallRecord
<1> QED BY <1>2, <1>3, <1>4
        DEF Goes, Insert, IncrementRow, NoRow, PushRow, SetIsRead, ClearBadge, Abort

\* The first state has the types.
LEMMA CallsStart == MessagesInit => CallsInv
<1> SUFFICES ASSUME MessagesInit PROVE CallsInv
  OBVIOUS
<1>1. call = [r \in Call |-> NoCall] /\ isRead = [m \in Call |-> Nothing]
  BY DEF MessagesInit
<1>2. NoCall.kind = "none" /\ NoCall.pc = "idle" /\ NoCall = [kind |-> "none", pc |-> "idle"]
  BY DEF NoCall
<1>3. unReadMessage = <<>> /\ created = <<>> /\ unseen = {} /\ latestMessage = Nothing
  BY DEF MessagesInit
<1>4. MessagesTypeOK
  <2>1. isRead \in [Call -> {Nothing} \cup ReadFlag]
    BY <1>1
  <2>2. call \in [Call -> CallRecord]
    BY <1>1, <1>2 DEF CallRecord
  <2>3. unReadMessage \in Seq(Nat)
    BY <1>3
  <2>4. created \in Seq(Call)
    BY <1>3
  <2>5. overlapping \in BOOLEAN /\ aborted \in BOOLEAN
    BY DEF MessagesInit
  <2> QED BY <1>3, <2>1, <2>2, <2>3, <2>4, <2>5 DEF MessagesTypeOK
<1>5. \A r \in Call : CallAgrees(r)
  BY <1>1, <1>2, <1>3 DEF CallAgrees
<1> QED BY <1>4, <1>5 DEF CallsInv

\* The kinds and labels of the calls, from those of the one that moves.
LEMMA CallsKept ==
    ASSUME CallsInv, NEW r \in Call, unseen' \subseteq unseen \cup {r},
           r \in unseen' => r \in unseen \/ call'[r].pc = "increment",
           \/ Starts(r)
           \/ Goes(r, {"insert"}, "increment")
           \/ Goes(r, {"increment"}, "pushRow")
           \/ Goes(r, {"markMessages"}, "clearRow")
           \/ \E labels : Goes(r, labels, "done"),
           call' = [q \in Call |-> call'[q]]
    PROVE  /\ call' \in [Call -> CallRecord]
           /\ \A q \in Call : CallAgrees(q)'
<1>1. call \in [Call -> CallRecord] /\ CallAgrees(r) /\ OtherCalls(r)
  BY DEF CallsInv, MessagesTypeOK, Starts, Goes
<1>2. call'[r] \in CallRecord
  <2>1. CASE Starts(r)
    BY <2>1 DEF Starts, CallRecord
  <2>2. CASE ~Starts(r)
    BY <1>1, <2>2 DEF Goes, CallRecord
  <2> QED BY <2>1, <2>2
<1>3. CallAgrees(r)'
  <2>1. CASE Starts(r)
    BY <1>1, <2>1 DEF Starts, CallAgrees
  <2>2. CASE ~Starts(r)
    BY <1>1, <2>2 DEF Goes, CallAgrees
  <2> QED BY <2>1, <2>2
<1>4. ASSUME NEW q \in Call, q # r PROVE CallAgrees(q)' /\ call'[q] \in CallRecord
  BY <1>1, <1>4 DEF CallsInv, CallAgrees, OtherCalls
<1> QED BY <1>2, <1>3, <1>4

\* Every step keeps them.
LEMMA CallsStep == CallsInv /\ [MessagesNext]_messageVars => CallsInv'
<1> SUFFICES ASSUME CallsInv, [MessagesNext]_messageVars PROVE CallsInv'
  OBVIOUS
<1>1. MessagesTypeOK
  BY DEF CallsInv
<1>2. CASE UNCHANGED messageVars
  BY <1>2 DEF CallsInv, MessagesTypeOK, CallAgrees, messageVars, chat, messageHistory
<1>3. CASE MessagesNext
  <2>1. PICK r \in Call : \/ ReceiveCall(r) \/ Insert(r) \/ IncrementRow(r) \/ NoRow(r) \/ PushRow(r)
                          \/ SetIsRead(r) \/ ClearBadge(r) \/ Abort(r)
    BY <1>3 DEF MessagesNext
  <2>2. call' = [q \in Call |-> call'[q]]
    BY <1>1, <2>1 DEF ReceiveCall, Insert, IncrementRow, NoRow, PushRow, SetIsRead, ClearBadge,
                      Abort, CallAt, MessagesTypeOK
  <2>3. \/ Starts(r)
        \/ Goes(r, {"insert"}, "increment")
        \/ Goes(r, {"increment"}, "pushRow")
        \/ Goes(r, {"markMessages"}, "clearRow")
        \/ \E labels : Goes(r, labels, "done")
    BY <2>1, CallMoves
  <2>4. unseen' \subseteq unseen \cup {r} /\ (r \in unseen' => r \in unseen \/ call'[r].pc = "increment")
    <3>1. Insert(r) => call'[r].pc = "increment"
      <4>1. Insert(r) => Goes(r, {"insert"}, "increment")
        BY CallMoves
      <4> QED BY <4>1 DEF Goes
    <3> QED BY <2>1, <3>1 DEF ReceiveCall, Insert, IncrementRow, NoRow, PushRow, SetIsRead, ClearBadge,
                              Abort, messageHistory
  <2>5. /\ call' \in [Call -> CallRecord]
        /\ \A q \in Call : CallAgrees(q)'
    BY <2>2, <2>3, <2>4, CallsKept
  <2>6. isRead' \in [Call -> {Nothing} \cup ReadFlag]
    BY <1>1, <2>1 DEF ReceiveCall, Insert, IncrementRow, NoRow, PushRow, SetIsRead, ClearBadge, Abort,
                      messageHistory, MessagesTypeOK, ReadFlag, InitialIsRead
  <2>7. unReadMessage' \in Seq(Nat)
    <3>1. CASE IncrementRow(r)
      BY <1>1, <3>1 DEF MessagesTypeOK, IncrementRow
    <3>2. CASE PushRow(r)
      BY <1>1, <3>2 DEF MessagesTypeOK, PushRow
    <3>3. CASE ClearBadge(r)
      BY <1>1, <3>3 DEF MessagesTypeOK, ClearBadge
    <3>4. CASE UNCHANGED unReadMessage
      BY <1>1, <3>4 DEF MessagesTypeOK
    <3> QED BY <2>1, <3>1, <3>2, <3>3, <3>4 DEF ReceiveCall, Insert, NoRow, SetIsRead, Abort, chat
  <2>8. latestMessage' \in Call \cup {Nothing} /\ created' \in Seq(Call) /\ unseen' \subseteq Call
    <3>1. latestMessage' \in {latestMessage, r} /\ unseen' \subseteq unseen \cup {r}
      BY <2>1, <2>4 DEF ReceiveCall, Insert, IncrementRow, NoRow, PushRow, SetIsRead, ClearBadge, Abort, chat
    <3>2. created' = created \/ created' = Append(created, r)
      BY <2>1 DEF ReceiveCall, Insert, IncrementRow, NoRow, PushRow, SetIsRead, ClearBadge, Abort,
                  messageHistory
    <3>3. latestMessage \in Call \cup {Nothing} /\ created \in Seq(Call) /\ unseen \subseteq Call
      BY <1>1 DEF MessagesTypeOK
    <3>4. created' \in Seq(Call)
      BY <3>2, <3>3
    <3> QED BY <3>1, <3>3, <3>4
  <2>9. overlapping' \in BOOLEAN /\ aborted' \in BOOLEAN
    BY <1>1, <2>1 DEF ReceiveCall, Insert, IncrementRow, NoRow, PushRow, SetIsRead, ClearBadge, Abort,
                      messageHistory, MessagesTypeOK
  <2> QED BY <2>5, <2>6, <2>7, <2>8, <2>9 DEF CallsInv, MessagesTypeOK
<1> QED BY <1>2, <1>3

\* Types: the documents, rows and calls of the chat are well formed whatever the
\* sends and reads do to it, and a call is only ever at a step of its own kind.
THEOREM MessagesTypeCorrect == MessagesSpec => []CallsInv
<1>1. CallsInv /\ [MessagesNext]_messageVars => CallsInv'
  BY CallsStep
<1> QED BY <1>1, CallsStart, PTL DEF MessagesSpec

-----------------------------------------------------------------------------
(* The badge and the messages that are still to be counted.                *)

\* The badge is a total.
LEMMA BadgeIs == Badge = Total(unReadMessage)
BY Zenon DEF Badge, Total

\* It is one after a step as well.
LEMMA BadgeSoon == (Badge = Total(unReadMessage))'
BY BadgeIs, PTL

\* What the badge is balanced with, all of it counted in naturals.
LEMMA BadgeTerms ==
    ASSUME CallsInv
    PROVE  /\ Badge = Total(unReadMessage) /\ unReadMessage \in Seq(Nat) /\ Badge \in Nat
           /\ IsFiniteSet(Uncounted) /\ Cardinality(Uncounted) \in Nat
           /\ IsFiniteSet(unseen) /\ Cardinality(unseen) \in Nat
           /\ created \in Seq(Call) /\ Len(created) \in Nat
<1>1. unReadMessage \in Seq(Nat) /\ created \in Seq(Call) /\ unseen \subseteq Call
  BY DEF CallsInv, MessagesTypeOK
<1>2. Badge = Total(unReadMessage) /\ Total(unReadMessage) \in Nat
  BY <1>1, BadgeIs, TotalType
<1>3. Uncounted \subseteq Call
  BY DEF Uncounted
<1> QED BY <1>1, <1>2, <1>3, CallAssumption, NotLarger

\* The same after a step.
LEMMA BadgeTermsSoon ==
    (CallsInv => /\ Badge = Total(unReadMessage) /\ unReadMessage \in Seq(Nat) /\ Badge \in Nat
                 /\ IsFiniteSet(Uncounted) /\ Cardinality(Uncounted) \in Nat
                 /\ IsFiniteSet(unseen) /\ Cardinality(unseen) \in Nat
                 /\ created \in Seq(Call) /\ Len(created) \in Nat)'
<1>1. CallsInv => /\ Badge = Total(unReadMessage) /\ unReadMessage \in Seq(Nat) /\ Badge \in Nat
                  /\ IsFiniteSet(Uncounted) /\ Cardinality(Uncounted) \in Nat
                  /\ IsFiniteSet(unseen) /\ Cardinality(unseen) \in Nat
                  /\ created \in Seq(Call) /\ Len(created) \in Nat
  BY BadgeTerms
<1> QED BY <1>1, PTL

\* What a step does to the uncounted messages, from what it does to its own call.
LEMMA UncountedMoves ==
    ASSUME CallsInv, CallsInv', NEW r \in Call, OtherCalls(r)
    PROVE  /\ (r \in Uncounted <=> r \in Uncounted') => Uncounted' = Uncounted
           /\ r \notin Uncounted /\ r \in Uncounted' =>
                  /\ Uncounted' = Uncounted \cup {r}
                  /\ Cardinality(Uncounted') = Cardinality(Uncounted) + 1
           /\ r \in Uncounted /\ r \notin Uncounted' =>
                  /\ Uncounted = Uncounted' \cup {r}
                  /\ Cardinality(Uncounted) = Cardinality(Uncounted') + 1
<1>1. \A q \in Call : q # r => (q \in Uncounted <=> q \in Uncounted')
  BY DEF OtherCalls, Uncounted
<1>2. Uncounted \subseteq Call /\ Uncounted' \subseteq Call
  BY DEF Uncounted
<1>3. IsFiniteSet(Uncounted) /\ IsFiniteSet(Uncounted')
  BY BadgeTerms, BadgeTermsSoon
<1>4. (r \in Uncounted <=> r \in Uncounted') => Uncounted' = Uncounted
  <2> SUFFICES ASSUME r \in Uncounted <=> r \in Uncounted' PROVE Uncounted' = Uncounted
    OBVIOUS
  <2>1. \A q \in Call : q \in Uncounted <=> q \in Uncounted'
    BY <1>1
  <2> QED BY <1>2, <2>1, Zenon
<1>5. r \notin Uncounted /\ r \in Uncounted' => Uncounted' = Uncounted \cup {r}
  BY <1>1, <1>2, Zenon
<1>6. r \in Uncounted /\ r \notin Uncounted' => Uncounted = Uncounted' \cup {r}
  BY <1>1, <1>2, Zenon
<1>7. r \notin Uncounted => Cardinality(Uncounted \cup {r}) = Cardinality(Uncounted) + 1
  BY <1>3, OneMore
<1>8. r \notin Uncounted' => Cardinality(Uncounted' \cup {r}) = Cardinality(Uncounted') + 1
  BY <1>3, OneMore
<1> QED BY <1>4, <1>5, <1>6, <1>7, <1>8, Zenon

\* What a step does to the badge, to the uncounted messages and to the messages,
\* all in one place: the rest follows by counting.
LEMMA BadgeMoves ==
    ASSUME CallsInv, CallsInv', NEW r \in Call
    PROVE  /\ ReceiveCall(r) => Badge' = Badge /\ Uncounted' = Uncounted /\ r \notin Uncounted
           /\ Insert(r) => /\ Badge' = Badge /\ Len(created') = Len(created) + 1
                           /\ r \notin Uncounted /\ Uncounted' = Uncounted \cup {r}
                           /\ Cardinality(Uncounted') = Cardinality(Uncounted) + 1
           /\ IncrementRow(r) \/ PushRow(r) =>
                  /\ Badge' = Badge + 1 /\ r \in Uncounted /\ r \notin Uncounted'
                  /\ Uncounted = Uncounted' \cup {r}
                  /\ Cardinality(Uncounted) = Cardinality(Uncounted') + 1
           /\ NoRow(r) => Badge' = Badge /\ Uncounted' = Uncounted /\ r \in Uncounted
           /\ SetIsRead(r) => Badge' = Badge /\ Uncounted' = Uncounted /\ r \notin Uncounted
           /\ ClearBadge(r) => Badge' <= Badge /\ Uncounted' = Uncounted /\ r \notin Uncounted
           /\ Abort(r) => Badge' = Badge /\ Cardinality(Uncounted') <= Cardinality(Uncounted)
<1>1. /\ Badge = Total(unReadMessage) /\ Badge' = Total(unReadMessage')
      /\ unReadMessage \in Seq(Nat) /\ Badge \in Nat /\ created \in Seq(Call)
      /\ Cardinality(Uncounted) \in Nat /\ Cardinality(Uncounted') \in Nat
  BY BadgeTerms, BadgeTermsSoon
<1>2. \A labels, label :
          Goes(r, labels, label) =>
              /\ OtherCalls(r)
              /\ r \in Uncounted' <=> label \in {"increment", "pushRow"}
              /\ call[r].pc \in labels
  BY DEF Goes, Uncounted
<1>3. r \in Uncounted <=> call[r].pc \in {"increment", "pushRow"}
  BY DEF Uncounted
<1>4. unReadMessage' = unReadMessage => Badge' = Badge
  BY <1>1
<1>5. ReceiveCall(r) => Badge' = Badge /\ Uncounted' = Uncounted /\ r \notin Uncounted
  <2> SUFFICES ASSUME ReceiveCall(r) PROVE Badge' = Badge /\ Uncounted' = Uncounted /\ r \notin Uncounted
    OBVIOUS
  <2>1. Starts(r)
    BY CallMoves
  <2>2. r \notin Uncounted /\ r \notin Uncounted' /\ OtherCalls(r)
    BY <2>1 DEF Starts, Uncounted
  <2>3. Badge' = Badge
    BY <1>4 DEF ReceiveCall, chat
  <2> QED BY <2>2, <2>3, UncountedMoves
<1>6. Insert(r) => /\ Badge' = Badge /\ Len(created') = Len(created) + 1
                   /\ r \notin Uncounted /\ Uncounted' = Uncounted \cup {r}
                   /\ Cardinality(Uncounted') = Cardinality(Uncounted) + 1
  <2> SUFFICES ASSUME Insert(r)
               PROVE  /\ Badge' = Badge /\ Len(created') = Len(created) + 1
                      /\ r \notin Uncounted /\ Uncounted' = Uncounted \cup {r}
                      /\ Cardinality(Uncounted') = Cardinality(Uncounted) + 1
    OBVIOUS
  <2>1. Goes(r, {"insert"}, "increment")
    BY CallMoves
  <2>2. r \notin Uncounted /\ r \in Uncounted' /\ OtherCalls(r)
    BY <1>2, <1>3, <2>1
  <2>3. Badge' = Badge
    BY <1>4 DEF Insert, chat
  <2>4. Len(created') = Len(created) + 1
    BY <1>1 DEF Insert
  <2> QED BY <2>2, <2>3, <2>4, UncountedMoves
<1>7. IncrementRow(r) \/ PushRow(r) =>
          /\ Badge' = Badge + 1 /\ r \in Uncounted /\ r \notin Uncounted'
          /\ Uncounted = Uncounted' \cup {r}
          /\ Cardinality(Uncounted) = Cardinality(Uncounted') + 1
  <2> SUFFICES ASSUME IncrementRow(r) \/ PushRow(r)
               PROVE  /\ Badge' = Badge + 1 /\ r \in Uncounted /\ r \notin Uncounted'
                      /\ Uncounted = Uncounted' \cup {r}
                      /\ Cardinality(Uncounted) = Cardinality(Uncounted') + 1
    OBVIOUS
  <2>1. Goes(r, {"increment"}, "done") \/ Goes(r, {"pushRow"}, "done")
    BY CallMoves
  <2>2. r \in Uncounted /\ r \notin Uncounted' /\ OtherCalls(r)
    BY <1>2, <1>3, <2>1
  <2>3. CASE IncrementRow(r)
    <3>1. 1 \in DOMAIN unReadMessage /\ unReadMessage[1] \in Nat
      BY <1>1, <2>3 DEF IncrementRow
    <3>2. PICK n \in Nat : n = unReadMessage[1] + 1
      BY <3>1
    <3>3. unReadMessage' = [unReadMessage EXCEPT ![1] = n]
      BY <2>3, <3>2 DEF IncrementRow
    <3>4. PICK m \in Nat : /\ Total(unReadMessage) = unReadMessage[1] + m
                           /\ Total([unReadMessage EXCEPT ![1] = n]) = n + m
      BY <1>1, <3>1, TotalExcept
    <3>5. Badge' = Badge + 1
      BY <1>1, <3>1, <3>2, <3>3, <3>4
    <3> QED BY <2>2, <3>5, UncountedMoves
  <2>4. CASE PushRow(r)
    <3>1. Badge' = Badge + 1
      BY <1>1, <2>4, TotalAppend DEF PushRow
    <3> QED BY <2>2, <3>1, UncountedMoves
  <2> QED BY <2>3, <2>4
<1>8. NoRow(r) => Badge' = Badge /\ Uncounted' = Uncounted /\ r \in Uncounted
  <2> SUFFICES ASSUME NoRow(r) PROVE Badge' = Badge /\ Uncounted' = Uncounted /\ r \in Uncounted
    OBVIOUS
  <2>1. Goes(r, {"increment"}, "pushRow")
    BY CallMoves
  <2>2. r \in Uncounted /\ r \in Uncounted' /\ OtherCalls(r)
    BY <1>2, <1>3, <2>1
  <2>3. Badge' = Badge
    BY <1>4 DEF NoRow, chat
  <2> QED BY <2>2, <2>3, UncountedMoves
<1>9. SetIsRead(r) => Badge' = Badge /\ Uncounted' = Uncounted /\ r \notin Uncounted
  <2> SUFFICES ASSUME SetIsRead(r) PROVE Badge' = Badge /\ Uncounted' = Uncounted /\ r \notin Uncounted
    OBVIOUS
  <2>1. Goes(r, {"markMessages"}, "clearRow")
    BY CallMoves
  <2>2. r \notin Uncounted /\ r \notin Uncounted' /\ OtherCalls(r)
    BY <1>2, <1>3, <2>1
  <2>3. Badge' = Badge
    BY <1>4 DEF SetIsRead, chat
  <2> QED BY <2>2, <2>3, UncountedMoves
<1>10. ClearBadge(r) => Badge' <= Badge /\ Uncounted' = Uncounted /\ r \notin Uncounted
  <2> SUFFICES ASSUME ClearBadge(r) PROVE Badge' <= Badge /\ Uncounted' = Uncounted /\ r \notin Uncounted
    OBVIOUS
  <2>1. Goes(r, {"clearRow"}, "done")
    BY CallMoves
  <2>2. r \notin Uncounted /\ r \notin Uncounted' /\ OtherCalls(r)
    BY <1>2, <1>3, <2>1
  <2>3. Badge' <= Badge
    <3>1. CASE unReadMessage = <<>>
      BY <1>1, <3>1 DEF ClearBadge
    <3>2. CASE unReadMessage # <<>>
      <4>1. 1 \in DOMAIN unReadMessage /\ unReadMessage[1] \in Nat
        BY <1>1, <3>2
      <4>2. PICK m \in Nat : /\ Total(unReadMessage) = unReadMessage[1] + m
                             /\ Total([unReadMessage EXCEPT ![1] = 0]) = 0 + m
        BY <1>1, <4>1, TotalExcept
      <4>3. unReadMessage' = [unReadMessage EXCEPT ![1] = 0]
        BY <3>2 DEF ClearBadge
      <4> QED BY <1>1, <4>1, <4>2, <4>3
    <3> QED BY <3>1, <3>2
  <2> QED BY <2>2, <2>3, UncountedMoves
<1>11. Abort(r) => Badge' = Badge /\ Cardinality(Uncounted') <= Cardinality(Uncounted)
  <2> SUFFICES ASSUME Abort(r) PROVE Badge' = Badge /\ Cardinality(Uncounted') <= Cardinality(Uncounted)
    OBVIOUS
  <2>1. Goes(r, {"insert", "increment", "pushRow", "markMessages", "clearRow"}, "done")
    BY CallMoves
  <2>2. r \notin Uncounted' /\ OtherCalls(r)
    BY <1>2, <2>1
  <2>3. Badge' = Badge
    BY <1>4 DEF Abort, chat
  <2>4. \/ Uncounted' = Uncounted
        \/ Cardinality(Uncounted) = Cardinality(Uncounted') + 1
    BY <2>2, UncountedMoves
  <2> QED BY <1>1, <2>3, <2>4
<1> QED BY <1>5, <1>6, <1>7, <1>8, <1>9, <1>10, <1>11

\* Every step keeps the balance of the badge.
LEMMA BadgeStep == CallsInv /\ CallsInv' /\ BadgeInv /\ [MessagesNext]_messageVars => BadgeInv'
<1> SUFFICES ASSUME CallsInv, CallsInv', BadgeInv, [MessagesNext]_messageVars PROVE BadgeInv'
  OBVIOUS
<1>1. /\ Badge \in Nat /\ Cardinality(Uncounted) \in Nat /\ Len(created) \in Nat
      /\ Badge' \in Nat /\ Cardinality(Uncounted') \in Nat /\ Len(created') \in Nat
  BY BadgeTerms, BadgeTermsSoon
<1>2. CASE UNCHANGED messageVars
  <2>1. Badge' = Badge /\ created' = created /\ aborted' = aborted
    BY <1>2, BadgeTerms, BadgeTermsSoon DEF messageVars, chat, messageHistory
  <2>2. Uncounted' = Uncounted /\ (SendsOnly' <=> SendsOnly)
    BY <1>2 DEF messageVars, Uncounted, SendsOnly
  <2> QED BY <2>1, <2>2 DEF BadgeInv
<1>3. CASE MessagesNext
  <2>1. PICK r \in Call : \/ ReceiveCall(r) \/ Insert(r) \/ IncrementRow(r) \/ NoRow(r) \/ PushRow(r)
                          \/ SetIsRead(r) \/ ClearBadge(r) \/ Abort(r)
    BY <1>3 DEF MessagesNext
  <2>2. ~Insert(r) => created' = created
    BY <2>1 DEF ReceiveCall, Insert, IncrementRow, NoRow, PushRow, SetIsRead, ClearBadge, Abort,
                messageHistory
  <2>3. aborted => aborted'
    BY <2>1 DEF ReceiveCall, Insert, IncrementRow, NoRow, PushRow, SetIsRead, ClearBadge, Abort,
                messageHistory
  \* A call that is no send stays one.
  <2>4. SendsOnly' => SendsOnly
    <3>1. \/ Starts(r)
          \/ \E labels, label : Goes(r, labels, label)
      BY <2>1, CallMoves
    <3>2. call[r].pc = "idle" => call[r].kind = "none"
      BY DEF CallsInv, CallAgrees
    <3>3. \A q \in Call : call[q].kind \in {"none", "socket", "rest"} \/ call[q].kind = call'[q].kind
      <4>1. \A q \in Call : q # r => call[q].kind = call'[q].kind
        BY <3>1 DEF Starts, Goes, OtherCalls
      <4>2. call[r].kind \in {"none", "socket", "rest"} \/ call[r].kind = call'[r].kind
        <5>1. CASE Starts(r)
          BY <3>2, <5>1 DEF Starts
        <5>2. \A labels, label : Goes(r, labels, label) => call[r].kind = call'[r].kind
          BY DEF Goes
        <5> QED BY <3>1, <5>1, <5>2
      <4> QED BY <4>1, <4>2
    <3> QED BY <3>3 DEF SendsOnly
  <2>5. ClearBadge(r) => ~SendsOnly
    <3>1. ClearBadge(r) => Goes(r, {"clearRow"}, "done")
      BY CallMoves
    <3> QED BY <3>1 DEF Goes, CallsInv, CallAgrees, SendsOnly
  <2>6. Abort(r) => aborted'
    BY DEF Abort
  <2>7. /\ Badge + Cardinality(Uncounted) <= Len(created)
        /\ ~aborted /\ SendsOnly => Badge + Cardinality(Uncounted) = Len(created)
    BY DEF BadgeInv
  <2>8. Badge' + Cardinality(Uncounted') <= Len(created')
    <3>1. CASE Insert(r)
      BY <1>1, <2>7, <3>1, BadgeMoves
    <3>2. CASE IncrementRow(r) \/ PushRow(r)
      <4>1. created' = created
        BY <3>2 DEF IncrementRow, PushRow, messageHistory
      <4> QED BY <1>1, <2>7, <3>2, <4>1, BadgeMoves
    <3>3. CASE ~Insert(r) /\ ~(IncrementRow(r) \/ PushRow(r))
      <4>1. Badge' <= Badge /\ Cardinality(Uncounted') <= Cardinality(Uncounted)
        BY <1>1, <2>1, <3>3, BadgeMoves
      <4> QED BY <1>1, <2>2, <2>7, <3>3, <4>1
    <3> QED BY <3>1, <3>2, <3>3
  <2>9. ASSUME ~aborted', SendsOnly' PROVE Badge' + Cardinality(Uncounted') = Len(created')
    <3>1. Badge + Cardinality(Uncounted) = Len(created)
      BY <2>3, <2>4, <2>7, <2>9
    <3>2. ~ClearBadge(r) /\ ~Abort(r)
      BY <2>4, <2>5, <2>6, <2>9
    <3>3. CASE Insert(r)
      BY <1>1, <3>1, <3>3, BadgeMoves
    <3>4. CASE IncrementRow(r) \/ PushRow(r)
      <4>1. created' = created
        BY <3>4 DEF IncrementRow, PushRow, messageHistory
      <4> QED BY <1>1, <3>1, <3>4, <4>1, BadgeMoves
    <3>5. CASE ReceiveCall(r) \/ NoRow(r) \/ SetIsRead(r)
      <4>1. created' = created
        BY <3>5 DEF ReceiveCall, NoRow, SetIsRead, messageHistory
      <4> QED BY <1>1, <3>1, <3>5, <4>1, BadgeMoves
    <3> QED BY <2>1, <3>2, <3>3, <3>4, <3>5
  <2> QED BY <2>8, <2>9 DEF BadgeInv
<1> QED BY <1>2, <1>3

\* There is nothing to count at first.
LEMMA BadgeStart == MessagesInit => BadgeInv
<1> SUFFICES ASSUME MessagesInit PROVE BadgeInv
  OBVIOUS
<1>1. Badge = 0 /\ Len(created) = 0
  BY CallsStart, BadgeTerms, TotalEmpty DEF MessagesInit
<1>2. Uncounted = {}
  BY DEF MessagesInit, Uncounted, NoCall
<1> QED BY <1>1, <1>2, FS_EmptySet DEF BadgeInv

\* So the balance always holds.
LEMMA BadgeHolds == MessagesSpec => [](CallsInv /\ BadgeInv)
<1>1. CallsInv /\ [MessagesNext]_messageVars => CallsInv'
  BY CallsStep
<1>2. CallsInv /\ CallsInv' /\ BadgeInv /\ [MessagesNext]_messageVars => BadgeInv'
  BY BadgeStep
<1> QED BY <1>1, <1>2, CallsStart, BadgeStart, PTL DEF MessagesSpec

\* The badge of a reader and the messages whose count is still to be written are
\* never more than the messages sent: two sends that find no row both push one,
\* which splits the count and does not inflate it.
THEOREM BadgeBounded == MessagesSpec => []BadgeNotInflated
<1>1. BadgeInv => BadgeNotInflated
  BY DEF BadgeInv, BadgeNotInflated, Uncounted
<1> QED BY <1>1, BadgeHolds, PTL

\* Sends alone lose no count: with no read in play and no failure, every message
\* is in the badge once all requests are done.
THEOREM SendsCounted == MessagesSpec => []NoCountLostBySends
<1>1. CallsInv /\ BadgeInv => NoCountLostBySends
  <2> SUFFICES ASSUME CallsInv, BadgeInv, NoneInProgress, ~aborted, SendsOnly PROVE Badge = Len(created)
    BY DEF NoCountLostBySends, SendsOnly
  <2>1. Uncounted = {}
    BY DEF Uncounted, NoneInProgress, InProgress
  <2>2. Badge + Cardinality(Uncounted) = Len(created)
    BY DEF BadgeInv
  <2> QED BY <2>1, <2>2, BadgeTerms, FS_EmptySet
<1> QED BY <1>1, BadgeHolds, PTL

-----------------------------------------------------------------------------
(* One request at a time, the badge is exact.                              *)

\* The parts of AloneInv while nothing overlaps.
OneInProgress == \A r, s \in InProgress : r = s
OneRow == Len(unReadMessage) <= 1 /\ \A r \in Call : call[r].pc = "pushRow" => unReadMessage = <<>>
BadgeIsUnseen == Badge + Cardinality(Uncounted) = Cardinality(unseen)
NewestKnown ==
    /\ \A r \in Uncounted : created # <<>> /\ r = Last(created)
    /\ Uncounted = {} /\ created # <<>> => latestMessage = Last(created)

\* The parts of the invariant of a call that is alone.
LEMMA AloneParts ==
    AloneInv <=> (~overlapping => /\ OneInProgress /\ OneRow
                                  /\ ~aborted => BadgeIsUnseen /\ NewestKnown)
BY DEF AloneInv, OneInProgress, OneRow, BadgeIsUnseen, NewestKnown

\* The same after a step.
LEMMA AlonePartsSoon ==
    (AloneInv <=> (~overlapping => /\ OneInProgress /\ OneRow
                                   /\ ~aborted => BadgeIsUnseen /\ NewestKnown))'
BY AloneParts, PTL

\* Alone, a step has its own call in progress after it and no other, before or after.
LEMMA AloneCalls ==
    ASSUME CallsInv, CallsInv', AloneInv, ~overlapping', NEW r \in Call,
           \/ ReceiveCall(r) \/ Insert(r) \/ IncrementRow(r) \/ NoRow(r) \/ PushRow(r)
           \/ SetIsRead(r) \/ ClearBadge(r) \/ Abort(r)
    PROVE  /\ ~overlapping
           /\ \A q \in Call : q # r => call[q].pc \in {"idle", "done"} /\ call'[q].pc \in {"idle", "done"}
           /\ Uncounted \subseteq {r} /\ Uncounted' \subseteq {r}
           /\ OneInProgress'
<1>1. ~overlapping
  BY DEF ReceiveCall, Insert, IncrementRow, NoRow, PushRow, SetIsRead, ClearBadge, Abort, messageHistory
<1>2. OneInProgress
  BY <1>1, AloneParts
<1>3. OtherCalls(r)
  BY CallMoves DEF Starts, Goes
<1>4. ReceiveCall(r) \/ r \in InProgress
  <2>1. ReceiveCall(r) \/ \E label : Goes(r, {"insert", "increment", "pushRow", "markMessages", "clearRow"}, label)
    BY CallMoves DEF Goes
  <2> QED BY <2>1 DEF Goes, InProgress
<1>5. \A q \in Call : q # r => call[q].pc \in {"idle", "done"}
  <2>1. CASE ReceiveCall(r)
    BY <2>1 DEF ReceiveCall, InProgress
  <2>2. CASE r \in InProgress
    BY <1>2, <2>2 DEF OneInProgress, InProgress
  <2> QED BY <1>4, <2>1, <2>2
<1>6. \A q \in Call : q # r => call'[q].pc \in {"idle", "done"}
  BY <1>3, <1>5 DEF OtherCalls
<1>7. Uncounted \subseteq {r} /\ Uncounted' \subseteq {r}
  BY <1>5, <1>6 DEF Uncounted
<1>8. OneInProgress'
  BY <1>6 DEF OneInProgress, InProgress
<1> QED BY <1>1, <1>5, <1>6, <1>7, <1>8

\* Only a send that found no row goes on to push one.
LEMMA PushesNext ==
    ASSUME CallsInv, NEW r \in Call,
           \/ ReceiveCall(r) \/ Insert(r) \/ IncrementRow(r) \/ PushRow(r)
           \/ SetIsRead(r) \/ ClearBadge(r) \/ Abort(r)
    PROVE  call'[r].pc # "pushRow"
<1>1. \A labels, label : Goes(r, labels, label) => call'[r].pc = label
  BY DEF Goes
<1>2. Starts(r) => call'[r].pc # "pushRow"
  BY DEF Starts
<1>3. \/ Starts(r) \/ Goes(r, {"insert"}, "increment") \/ Goes(r, {"markMessages"}, "clearRow")
      \/ \E labels : Goes(r, labels, "done")
  BY CallMoves
<1> QED BY <1>1, <1>2, <1>3

\* Every step of a call that is alone keeps the badge exact.
LEMMA AloneStep == CallsInv /\ CallsInv' /\ AloneInv /\ [MessagesNext]_messageVars => AloneInv'
<1> SUFFICES ASSUME CallsInv, CallsInv', AloneInv, [MessagesNext]_messageVars PROVE AloneInv'
  OBVIOUS
<1>1. /\ Badge \in Nat /\ Cardinality(Uncounted) \in Nat /\ Cardinality(unseen) \in Nat
      /\ Badge' \in Nat /\ Cardinality(Uncounted') \in Nat /\ Cardinality(unseen') \in Nat
      /\ unReadMessage \in Seq(Nat) /\ created \in Seq(Call) /\ IsFiniteSet(unseen)
      /\ Badge' = Total(unReadMessage') /\ Badge = Total(unReadMessage)
  BY BadgeTerms, BadgeTermsSoon
<1>2. CASE UNCHANGED messageVars
  <2>1. Badge' = Badge
    BY <1>1, <1>2 DEF messageVars, chat
  <2>2. Uncounted' = Uncounted
    BY <1>2 DEF messageVars, Uncounted
  <2> QED BY <1>2, <2>1, <2>2 DEF AloneInv, InProgress, messageVars, chat, messageHistory
<1>3. CASE MessagesNext
  <2> SUFFICES ASSUME ~overlapping'
               PROVE  /\ OneInProgress' /\ OneRow'
                      /\ ~aborted' => BadgeIsUnseen' /\ NewestKnown'
    BY AlonePartsSoon
  <2>1. PICK r \in Call : \/ ReceiveCall(r) \/ Insert(r) \/ IncrementRow(r) \/ NoRow(r) \/ PushRow(r)
                          \/ SetIsRead(r) \/ ClearBadge(r) \/ Abort(r)
    BY <1>3 DEF MessagesNext
  <2>2. /\ ~overlapping
        /\ \A q \in Call : q # r => call[q].pc \in {"idle", "done"} /\ call'[q].pc \in {"idle", "done"}
        /\ Uncounted \subseteq {r} /\ Uncounted' \subseteq {r}
        /\ OneInProgress'
    BY <2>1, AloneCalls
  <2>3. OneRow /\ (~aborted => BadgeIsUnseen /\ NewestKnown)
    BY <2>2, AloneParts
  <2>4. aborted => aborted'
    BY <2>1 DEF ReceiveCall, Insert, IncrementRow, NoRow, PushRow, SetIsRead, ClearBadge, Abort,
                messageHistory
  <2>5. OneRow'
    <3>1. CASE ReceiveCall(r) \/ Insert(r) \/ SetIsRead(r) \/ Abort(r)
      <4>1. unReadMessage' = unReadMessage
        BY <3>1 DEF ReceiveCall, Insert, SetIsRead, Abort, chat
      <4>2. call'[r].pc # "pushRow"
        BY <3>1, PushesNext
      <4> QED BY <2>2, <2>3, <4>1, <4>2 DEF OneRow
    <3>2. CASE IncrementRow(r)
      <4>1. Len(unReadMessage') = Len(unReadMessage)
        BY <1>1, <3>2 DEF IncrementRow
      <4>2. call'[r].pc # "pushRow"
        BY <3>2, PushesNext
      <4> QED BY <2>2, <2>3, <4>1, <4>2 DEF OneRow
    <3>3. CASE NoRow(r)
      <4>1. unReadMessage' = <<>>
        BY <3>3 DEF NoRow, chat
      <4> QED BY <4>1 DEF OneRow
    <3>4. CASE PushRow(r)
      <4>1. unReadMessage' = Append(<<>>, 1)
        BY <2>3, <3>4 DEF OneRow, PushRow
      <4>2. call'[r].pc # "pushRow"
        BY <3>4, PushesNext
      <4> QED BY <2>2, <4>1, <4>2 DEF OneRow
    <3>5. CASE ClearBadge(r)
      <4>1. Len(unReadMessage') = Len(unReadMessage)
        BY <1>1, <3>5 DEF ClearBadge
      <4>2. call'[r].pc # "pushRow"
        BY <3>5, PushesNext
      <4> QED BY <2>2, <2>3, <4>1, <4>2 DEF OneRow
    <3> QED BY <2>1, <3>1, <3>2, <3>3, <3>4, <3>5
  <2>6. ASSUME ~aborted' PROVE BadgeIsUnseen' /\ NewestKnown'
    <3>1. BadgeIsUnseen /\ NewestKnown /\ ~Abort(r)
      BY <2>3, <2>4, <2>6 DEF Abort
    <3>2. CASE ReceiveCall(r) \/ NoRow(r) \/ SetIsRead(r)
      <4>1. Badge' = Badge /\ Uncounted' = Uncounted
        BY <3>2, BadgeMoves
      <4>2. UNCHANGED <<latestMessage, created, unseen>>
        BY <3>2 DEF ReceiveCall, NoRow, SetIsRead, chat, messageHistory
      <4> QED BY <3>1, <4>1, <4>2 DEF BadgeIsUnseen, NewestKnown
    <3>3. CASE Insert(r)
      <4>1. /\ Badge' = Badge /\ r \notin Uncounted
            /\ Cardinality(Uncounted') = Cardinality(Uncounted) + 1
            /\ Uncounted' = Uncounted \cup {r}
        BY <3>3, BadgeMoves
      <4>2. r \notin unseen
        BY <3>3 DEF Insert, CallsInv, CallAgrees
      <4>3. Cardinality(unseen') = Cardinality(unseen) + 1
        BY <1>1, <3>3, <4>2, OneMore DEF Insert
      <4>4. BadgeIsUnseen'
        BY <1>1, <3>1, <4>1, <4>3 DEF BadgeIsUnseen
      <4>5. created' # <<>> /\ Last(created') = r
        BY <1>1, <3>3 DEF Insert, Last
      <4>6. Uncounted' = {r}
        BY <2>2, <4>1
      <4> QED BY <4>4, <4>5, <4>6 DEF NewestKnown
    <3>4. CASE IncrementRow(r) \/ PushRow(r)
      <4>1. /\ Badge' = Badge + 1 /\ r \in Uncounted /\ r \notin Uncounted'
            /\ Cardinality(Uncounted) = Cardinality(Uncounted') + 1
        BY <3>4, BadgeMoves
      <4>2. latestMessage' = r /\ UNCHANGED <<created, unseen>>
        BY <3>4 DEF IncrementRow, PushRow, messageHistory
      <4>3. BadgeIsUnseen'
        BY <1>1, <3>1, <4>1, <4>2 DEF BadgeIsUnseen
      <4>4. Uncounted' = {}
        BY <2>2, <4>1
      <4> QED BY <3>1, <4>1, <4>2, <4>3, <4>4 DEF NewestKnown
    <3>5. CASE ClearBadge(r)
      <4>1. Uncounted' = Uncounted /\ r \notin Uncounted
        BY <3>5, BadgeMoves
      <4>2. Uncounted = {} /\ Uncounted' = {}
        BY <2>2, <4>1
      <4>3. unseen' = {} /\ UNCHANGED <<latestMessage, created>>
        BY <3>5 DEF ClearBadge
      <4>4. Badge' = 0
        <5>1. CASE unReadMessage = <<>>
          BY <1>1, <3>5, <5>1, TotalEmpty DEF ClearBadge
        <5>2. CASE unReadMessage # <<>>
          <6>1. Len(unReadMessage) <= 1
            BY <2>3 DEF OneRow
          <6>2. Len(unReadMessage) = 1
            <7>1. Len(unReadMessage) \in Nat /\ Len(unReadMessage) # 0
              BY <1>1, <5>2, EmptySeq
            <7> DEFINE n == Len(unReadMessage)
            <7>2. n \in Nat /\ n # 0 /\ n <= 1
              BY <6>1, <7>1
            <7> HIDE DEF n
            <7>3. n = 1
              BY <7>2
            <7> QED BY <7>3 DEF n
          <6>3. [unReadMessage EXCEPT ![1] = 0] = <<0>>
            BY <1>1, <6>2
          <6>4. unReadMessage' = <<0>>
            BY <3>5, <5>2, <6>3 DEF ClearBadge
          <6>5. Total(<<0>>) = 0
            BY TotalOne
          <6> QED BY <1>1, <6>4, <6>5
        <5> QED BY <5>1, <5>2
      <4> QED BY <3>1, <4>2, <4>3, <4>4, FS_EmptySet DEF BadgeIsUnseen, NewestKnown
    <3> QED BY <2>1, <3>1, <3>2, <3>3, <3>4, <3>5
  <2> QED BY <2>2, <2>5, <2>6
<1> QED BY <1>2, <1>3

\* No call is at work at first.
LEMMA AloneStart == MessagesInit => AloneInv
<1> SUFFICES ASSUME MessagesInit PROVE AloneInv
  OBVIOUS
<1>1. Badge = 0
  BY CallsStart, BadgeTerms, TotalEmpty DEF MessagesInit
<1>2. Uncounted = {} /\ InProgress = {} /\ \A r \in Call : call[r].pc # "pushRow"
  BY DEF MessagesInit, Uncounted, InProgress, NoCall
<1>3. unReadMessage = <<>> /\ created = <<>> /\ unseen = {}
  BY DEF MessagesInit
<1> QED BY <1>1, <1>2, <1>3, FS_EmptySet DEF AloneInv

\* One request at a time, the badge is the number of messages the reader has not
\* opened since it was last cleared, the chat list shows the newest message, and
\* even after failures the reader has one row at most.
THEOREM BadgeExact == MessagesSpec => []BadgeExactOneAtATime
<1>1. CallsInv /\ [MessagesNext]_messageVars => CallsInv'
  BY CallsStep
<1>2. CallsInv /\ CallsInv' /\ AloneInv /\ [MessagesNext]_messageVars => AloneInv'
  BY AloneStep
<1>3. CallsInv /\ AloneInv => BadgeExactOneAtATime
  <2> SUFFICES ASSUME CallsInv, AloneInv, ~overlapping
               PROVE  /\ Len(unReadMessage) <= 1
                      /\ NoneInProgress /\ ~aborted =>
                             /\ Badge = Cardinality(unseen)
                             /\ created # <<>> => latestMessage = Last(created)
    BY DEF BadgeExactOneAtATime
  <2>1. OneRow /\ (~aborted => BadgeIsUnseen /\ NewestKnown)
    BY AloneParts
  <2>2. NoneInProgress => Uncounted = {}
    BY DEF NoneInProgress, InProgress, Uncounted
  <2>3. Badge \in Nat
    BY BadgeTerms
  <2>4. NoneInProgress /\ ~aborted => Badge = Cardinality(unseen)
    BY <2>1, <2>2, <2>3, FS_EmptySet DEF BadgeIsUnseen
  <2>5. NoneInProgress /\ ~aborted /\ created # <<>> => latestMessage = Last(created)
    BY <2>1, <2>2 DEF NewestKnown
  <2> QED BY <2>1, <2>4, <2>5 DEF OneRow
<1> QED BY <1>1, <1>2, <1>3, CallsStart, AloneStart, PTL DEF MessagesSpec
=============================================================================
