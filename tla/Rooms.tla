------------------------------- MODULE Rooms --------------------------------
(***************************************************************************)
(* Who is in which conversation: the maps ConversationsGateway keeps in    *)
(* memory (handleConnection, handleDisconnect, join_conversation and       *)
(* leave_conversation) and the Socket.IO rooms behind them.                *)
(*                                                                         *)
(* A user may have several devices.  userCurrentConversation is the one    *)
(* answer the gateway keeps per user to 'is the receiver in this chat',    *)
(* and a message to a user who is there is not counted as unread.          *)
(* No handler waits for anything but the in-memory adapter, so each is one *)
(* step.                                                                   *)
(***************************************************************************)
CONSTANTS
    User,
    Socket,         \* bound: devices; a device that connects again has a new id
    Owner,          \* [s]: the user of the token device s presents
    Conversation,
    NoConversation,
    Opens           \* bound: [s]: the conversations the client of socket s opens

ASSUME OwnerAssumption == Owner \in [Socket -> User]
ASSUME OpensAssumption == Opens \in [Socket -> SUBSET Conversation]
ASSUME NoConversationAssumption == NoConversation \notin Conversation

VARIABLES
    open,                       \* the devices with an open socket
    userSockets,                \* [u]: the sockets of user u
    socketToConversation,       \* [s]: NoConversation for no entry
    userCurrentConversation,    \* [u]: NoConversation for no entry
    joined                      \* [s]: the conversation rooms socket s is in

rooms == <<open, userSockets, socketToConversation, userCurrentConversation, joined>>

RoomsInit ==
    /\ open = {}
    /\ userSockets = [u \in User |-> {}]
    /\ socketToConversation = [s \in Socket |-> NoConversation]
    /\ userCurrentConversation = [u \in User |-> NoConversation]
    /\ joined = [s \in Socket |-> {}]

-----------------------------------------------------------------------------
\* A socket without a valid token stays unknown to the maps, every handler
\* returns early for it, and it is left out.
HandleConnection(s) ==
    /\ s \notin open
    /\ open' = open \cup {s}
    /\ userSockets' = [userSockets EXCEPT ![Owner[s]] = @ \cup {s}]
    /\ UNCHANGED <<socketToConversation, userCurrentConversation, joined>>

\* updateUserCurrentConversation, after the maps have become sockets and where:
\* the conversation of the first socket that has one.  The order in which the
\* sockets connected is left open.
Recomputed(sockets, where, current) ==
    LET there == {where[s] : s \in sockets} \ {NoConversation}
    IN  current \in there \/ (there = {} /\ current = NoConversation)

\* Mutant: nothing is computed again while another device is there.
HandleDisconnectKeeps(s) ==
    /\ s \in open
    /\ open' = open \ {s}
    /\ joined' = [joined EXCEPT ![s] = {}]
    /\ socketToConversation' = [socketToConversation EXCEPT ![s] = NoConversation]
    /\ userSockets' = [userSockets EXCEPT ![Owner[s]] = @ \ {s}]
    /\ userCurrentConversation' =
          IF userSockets'[Owner[s]] = {}
          THEN [userCurrentConversation EXCEPT ![Owner[s]] = NoConversation]
          ELSE userCurrentConversation

HandleDisconnect(s) ==
    /\ s \in open
    /\ open' = open \ {s}
    /\ joined' = [joined EXCEPT ![s] = {}]
    /\ socketToConversation' = [socketToConversation EXCEPT ![s] = NoConversation]
    /\ userSockets' = [userSockets EXCEPT ![Owner[s]] = @ \ {s}]
    /\ \E current \in Conversation \cup {NoConversation} :
          /\ Recomputed(userSockets'[Owner[s]], socketToConversation', current)
          /\ userCurrentConversation' =
                [userCurrentConversation EXCEPT ![Owner[s]] = current]

\* leaveAll, then join: the socket is in this one room and no other.
JoinConversation(s, c) ==
    /\ s \in open
    /\ joined' = [joined EXCEPT ![s] = {c}]
    /\ socketToConversation' = [socketToConversation EXCEPT ![s] = c]
    /\ userCurrentConversation' = [userCurrentConversation EXCEPT ![Owner[s]] = c]
    /\ UNCHANGED <<open, userSockets>>

\* The socket stays in the room.
LeaveConversation(s) ==
    /\ s \in open
    /\ socketToConversation' = [socketToConversation EXCEPT ![s] = NoConversation]
    /\ \E current \in Conversation \cup {NoConversation} :
          /\ Recomputed(userSockets[Owner[s]], socketToConversation', current)
          /\ userCurrentConversation' =
                [userCurrentConversation EXCEPT ![Owner[s]] = current]
    /\ UNCHANGED <<open, userSockets, joined>>

\* The process restarts: the maps start empty and every socket is gone.
RestartGateway ==
    /\ open' = {}
    /\ userSockets' = [u \in User |-> {}]
    /\ socketToConversation' = [s \in Socket |-> NoConversation]
    /\ userCurrentConversation' = [u \in User |-> NoConversation]
    /\ joined' = [s \in Socket |-> {}]

SocketStep(s) ==
    \/ HandleConnection(s)
    \/ HandleDisconnect(s)
    \/ \E c \in Opens[s] : JoinConversation(s, c)
    \/ LeaveConversation(s)

RoomsNext == (\E s \in Socket : SocketStep(s)) \/ RestartGateway

RoomsSpec == RoomsInit /\ [][RoomsNext]_rooms

-----------------------------------------------------------------------------
\* The type invariant of the maps, the rooms and the sockets.
RoomsTypeOK ==
    /\ open \subseteq Socket
    /\ userSockets \in [User -> SUBSET Socket]
    /\ socketToConversation \in [Socket -> Conversation \cup {NoConversation}]
    /\ userCurrentConversation \in [User -> Conversation \cup {NoConversation}]
    /\ joined \in [Socket -> SUBSET Conversation]

\* A device of user u that is open in conversation c and gets what is sent there.
Hears(u, c) ==
    \E s \in userSockets[u] :
        s \in open /\ socketToConversation[s] = c /\ c \in joined[s]

\* A user whom the gateway takes to be in a conversation has an open device in
\* it, and that device is in the room: a message that is not counted as unread
\* is one the room carries to the receiver, however the devices join, leave and
\* drop out.
CurrentIsHeard ==
    \A u \in User :
        userCurrentConversation[u] # NoConversation => Hears(u, userCurrentConversation[u])
=============================================================================
