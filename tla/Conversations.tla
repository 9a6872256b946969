---------------------------- MODULE Conversations ----------------------------
(***************************************************************************)
(* ConversationsService over the presence of Rooms: startConversation,     *)
(* createMessage, markAsRead, setDelivered and deleteConversation, called  *)
(* by ConversationsController and by the send_message and mark_as_read     *)
(* handlers of ConversationsGateway.                                       *)
(*                                                                         *)
(* The unread counts are stored twice: as an object that is read, changed  *)
(* and written back whole (unreadCount), and as an array of rows that is   *)
(* changed in place (unreadCounts).                                        *)
(***************************************************************************)
EXTENDS Rooms, Naturals, FiniteSets, SequencesExt

CONSTANTS
    Participants,   \* [c]: the two users; chatId is made of their ids
    Used,           \* bound: the conversations requests are about
    Request,        \* bound: requests in all, each used once; a send names its message
    Overlap,        \* bound: requests at work together
    MaxMessages     \* bound: messages stored or being sent

ASSUME ParticipantsAssumption == Participants \in [Conversation -> SUBSET User]
ASSUME BoundsAssumption ==
    Overlap \in Nat \ {0} /\ MaxMessages \in Nat \ {0} /\ IsFiniteSet(Request)
ASSUME UsedAssumption == Used \subseteq Conversation

VARIABLES
    stored,         \* [c]: "none", "live" or "deleted" (isDeleted)
    unreadCount,    \* [c]: the object, a function on the users that have a key
    unreadCounts,   \* [c][u]: the counts of u's rows, in array order
    lastSender,     \* [c]: lastMessageSenderId, Nobody for null
    messages,       \* [m]: the message document, NoMessage before the insert
    req,            \* the requests at work
    \* History, read by the properties only:
    since,          \* [c][u]: messages to u since u last marked c
    missed,         \* [c][u]: those of them sent while u had no device in c
    overlapped,     \* a request was sent with another still at work
    failed,         \* a request did not finish
    marked          \* a markAsRead was received

documents == <<stored, unreadCount, unreadCounts, lastSender, messages>>
history == <<since, missed, overlapped, failed, marked>>
vars == <<rooms, documents, req, history>>

Nobody == "null"
NoMessage == [status |-> "none"]
Sent == "sent"
Delivered == "delivered"
Seen == "seen"

NoCounts == [u \in {} |-> 0]
Zeros(c) == [u \in Participants[c] |-> 0]

Idle == [kind |-> "none", pc |-> "idle"]
Ended == [kind |-> "none", pc |-> "ended"]
Active == {r \in Request : req[r].pc \notin {"idle", "ended"}}
Goto(r, label) == [req EXCEPT ![r].pc = label]
End(r) == [req EXCEPT ![r] = Ended]

\* A conversation may be there from before the counts were an object; it is
\* taken to have its chatId.
Init ==
    /\ RoomsInit
    /\ \E old \in SUBSET Used :
          stored = [c \in Conversation |-> IF c \in old THEN "live" ELSE "none"]
    /\ unreadCount = [c \in Conversation |-> NoCounts]
    /\ unreadCounts = [c \in Conversation |-> [u \in User |-> <<>>]]
    /\ lastSender = [c \in Conversation |-> Nobody]
    /\ messages = [m \in Request |-> NoMessage]
    /\ req = [r \in Request |-> Idle]
    /\ since = [c \in Conversation |-> [u \in User |-> {}]]
    /\ missed = [c \in Conversation |-> [u \in User |-> {}]]
    /\ overlapped = FALSE
    /\ failed = FALSE
    /\ marked = FALSE

-----------------------------------------------------------------------------
(* Requests.  A client knows the id of a conversation once it is stored.   *)

FirstStep(kind) ==
    CASE kind = "start"  -> "findConversation"
      [] kind = "send"   -> "insertMessage"
      [] kind = "read"   -> "markMessages"
      [] kind = "delete" -> "setDeleted"

\* "skip": receiverInThisChat, read by the socket handler before it waits;
\* the sender's own socket is not followed, since no step depends on it;
\* "counts", "hasRow": what the handler read of the document; "heard" is history.
NewRequest(kind, c, me, peer, socket, skip) ==
    [kind |-> kind, pc |-> FirstStep(kind), conv |-> c, user |-> me, peer |-> peer,
     socket |-> socket, skip |-> skip, heard |-> Hears(peer, c),
     counts |-> NoCounts, hasRow |-> FALSE]

SentOrSending == {r \in Request : messages[r] # NoMessage \/ req[r].kind = "send"}

\* Mutant: any conversation of the receiver will do.
SkipsUnreadAnywhere(peer, c, socket) ==
    socket /\ userCurrentConversation[peer] # NoConversation

SkipsUnread(peer, c, socket) == socket /\ userCurrentConversation[peer] = c

\* A client asks for one of its conversations.
Asks(r, c, kind, me, peer, socket) ==
    /\ kind # "start" => stored[c] # "none"
    /\ kind = "send" => Cardinality(SentOrSending) < MaxMessages
    /\ socket => kind = "send"
    /\ req' = [req EXCEPT ![r] =
          NewRequest(kind, c, me, peer, socket, kind = "send" /\ SkipsUnread(peer, c, socket))]
    /\ marked' = (marked \/ kind = "read")

Receive(r) ==
    /\ req[r].pc = "idle"
    /\ Cardinality(Active) < Overlap
    /\ \E c \in Used, kind \in {"start", "send", "read", "delete"}, socket \in BOOLEAN :
       \E me \in Participants[c] : \E peer \in Participants[c] \ {me} :
           Asks(r, c, kind, me, peer, socket)
    /\ overlapped' = (overlapped \/ Active # {})
    /\ UNCHANGED <<rooms, documents, since, missed, failed>>

-----------------------------------------------------------------------------
(* startConversation, deleteConversation                                   *)

\* The id of one of the two is in the blockUsers of the other.
StartRefused(r) ==
    /\ req[r].pc = "findConversation"
    /\ req' = End(r)
    /\ UNCHANGED <<rooms, documents, history>>

FindConversation(r) ==
    /\ req[r].pc = "findConversation"
    /\ req' = IF stored[req[r].conv] = "live" THEN End(r) ELSE Goto(r, "createConversation")
    /\ UNCHANGED <<rooms, documents, history>>

\* Another start was faster, or the conversation is deleted and its chatId still
\* in the unique index: E11000, and the request ends in an error.
DuplicateChatId(r) ==
    /\ req[r].pc = "createConversation"
    /\ stored[req[r].conv] # "none"
    /\ req' = End(r)
    /\ UNCHANGED <<rooms, documents, history>>

CreateConversation(r) ==
    LET c == req[r].conv
    IN  /\ req[r].pc = "createConversation"
        /\ stored[c] = "none"
        /\ stored' = [stored EXCEPT ![c] = "live"]
        /\ unreadCount' = [unreadCount EXCEPT ![c] = Zeros(c)]
        /\ unreadCounts' = [unreadCounts EXCEPT ![c] =
                               [u \in User |-> IF u \in Participants[c] THEN <<0>> ELSE <<>>]]
        /\ req' = End(r)
        /\ UNCHANGED <<rooms, lastSender, messages, history>>

DeleteConversation(r) ==
    /\ req[r].pc = "setDeleted"
    /\ stored' = [stored EXCEPT ![req[r].conv] = "deleted"]
    /\ req' = End(r)
    /\ UNCHANGED <<rooms, unreadCount, unreadCounts, lastSender, messages, history>>

-----------------------------------------------------------------------------
(* createMessage and the rest of send_message                              *)

InsertMessage(r) ==
    LET c == req[r].conv  to == req[r].peer
    IN  /\ req[r].pc = "insertMessage"
        /\ messages' = [messages EXCEPT ![r] = [conv |-> c, receiver |-> to, status |-> Sent]]
        /\ since' = [since EXCEPT ![c][to] = @ \cup {r}]
        /\ missed' = IF req[r].heard THEN missed ELSE [missed EXCEPT ![c][to] = @ \cup {r}]
        /\ req' = Goto(r, IF req[r].skip THEN "setLast" ELSE "readCounts")
        /\ UNCHANGED <<rooms, stored, unreadCount, unreadCounts, lastSender,
                       overlapped, failed, marked>>

\* The service returns and the socket handler emits in the same step; it goes
\* on to setDelivered when the receiver has a device, in whatever conversation.
ServiceReturned(r) ==
    IF req[r].socket /\ userSockets[req[r].peer] # {} THEN Goto(r, "setDelivered") ELSE End(r)

SetLast(r) ==
    /\ req[r].pc = "setLast"
    /\ lastSender' = [lastSender EXCEPT ![req[r].conv] = req[r].user]
    /\ req' = ServiceReturned(r)
    /\ UNCHANGED <<rooms, stored, unreadCount, unreadCounts, messages, history>>

Count(counts, u) == IF u \in DOMAIN counts THEN counts[u] ELSE 0
With(counts, u, n) == [v \in DOMAIN counts \cup {u} |-> IF v = u THEN n ELSE counts[v]]

\* findById: a send adds one to the copy, a read clears the own count in it.
ReadCounts(r) ==
    LET c == req[r].conv
        u == IF req[r].kind = "send" THEN req[r].peer ELSE req[r].user
        n == IF req[r].kind = "send" THEN Count(unreadCount[c], u) + 1 ELSE 0
    IN  /\ req[r].pc = "readCounts"
        /\ req' = [req EXCEPT ![r].counts = With(unreadCount[c], u, n),
                              ![r].hasRow = unreadCounts[c][u] # <<>>,
                              ![r].pc = "writeCounts"]
        /\ UNCHANGED <<rooms, documents, history>>

\* $set {unreadCount}, with the last message when it is a send.
WriteCounts(r) ==
    LET c == req[r].conv
    IN  /\ req[r].pc = "writeCounts"
        /\ unreadCount' = [unreadCount EXCEPT ![c] = req[r].counts]
        /\ lastSender' = IF req[r].kind = "send"
                         THEN [lastSender EXCEPT ![c] = req[r].user] ELSE lastSender
        /\ req' = [req EXCEPT ![r].counts = NoCounts,
                              ![r].pc = IF req[r].hasRow THEN "updateRow" ELSE "pushRow"]
        /\ UNCHANGED <<rooms, stored, unreadCounts, messages, history>>

\* Mutant: a user without a row is left without one.
CountRowNoPush(r) ==
    LET c == req[r].conv  u == req[r].peer
    IN  /\ req[r].kind = "send"
        /\ req[r].pc \in {"updateRow", "pushRow"}
        /\ unreadCounts' = IF unreadCounts[c][u] = <<>> THEN unreadCounts
                           ELSE [unreadCounts EXCEPT ![c][u][1] = @ + 1]
        /\ req' = ServiceReturned(r)
        /\ UNCHANGED <<rooms, stored, unreadCount, lastSender, messages, history>>

\* $inc of the first row of the receiver, or $push of a row that counts one.
CountRow(r) ==
    LET c == req[r].conv  u == req[r].peer
    IN  /\ req[r].kind = "send"
        /\ \/ /\ req[r].pc = "updateRow"
              /\ unreadCounts' = [unreadCounts EXCEPT ![c][u][1] = @ + 1]
           \/ /\ req[r].pc = "pushRow"
              /\ unreadCounts' = [unreadCounts EXCEPT ![c][u] = Append(@, 1)]
        /\ req' = ServiceReturned(r)
        /\ UNCHANGED <<rooms, stored, unreadCount, lastSender, messages, history>>

\* Mutant: every message of the conversation to the receiver is delivered.
SetAllDelivered(r) ==
    /\ req[r].pc = "setDelivered"
    /\ messages' = [m \in Request |-> IF messages[m] = NoMessage THEN NoMessage
                                      ELSE [messages[m] EXCEPT !.status = Delivered]]
    /\ req' = End(r)
    /\ UNCHANGED <<rooms, stored, unreadCount, unreadCounts, lastSender, history>>

\* findByIdAndUpdate, whatever the status is by now.
SetDelivered(r) ==
    /\ req[r].pc = "setDelivered"
    /\ messages' = [messages EXCEPT ![r].status = Delivered]
    /\ req' = End(r)
    /\ UNCHANGED <<rooms, stored, unreadCount, unreadCounts, lastSender, history>>

-----------------------------------------------------------------------------
(* markAsRead                                                              *)

\* updateMany {conversationId, receiverId, status: {$ne: 'seen'}}
ToReader(m, c, me) ==
    messages[m] # NoMessage /\ messages[m].conv = c /\ messages[m].receiver = me

MarkMessages(r) ==
    LET c == req[r].conv  me == req[r].user
    IN  /\ req[r].pc = "markMessages"
        /\ messages' = [m \in Request |-> IF ToReader(m, c, me)
                                          THEN [messages[m] EXCEPT !.status = Seen]
                                          ELSE messages[m]]
        /\ since' = [since EXCEPT ![c][me] = {}]
        /\ missed' = [missed EXCEPT ![c][me] = {}]
        /\ req' = Goto(r, "readCounts")
        /\ UNCHANGED <<rooms, stored, unreadCount, unreadCounts, lastSender,
                       overlapped, failed, marked>>

ClearRow(r) ==
    LET c == req[r].conv  u == req[r].user
    IN  /\ req[r].kind = "read"
        /\ \/ /\ req[r].pc = "updateRow"
              /\ unreadCounts' = [unreadCounts EXCEPT ![c][u][1] = 0]
           \/ /\ req[r].pc = "pushRow"
              /\ unreadCounts' = [unreadCounts EXCEPT ![c][u] = Append(@, 0)]
        /\ req' = End(r)
        /\ UNCHANGED <<rooms, stored, unreadCount, lastSender, messages, history>>
-----------------------------------------------------------------------------
\* A call throws; the handlers answer with an error.
Fail(r) ==
    /\ r \in Active
    /\ req' = End(r)
    /\ failed' = TRUE
    /\ UNCHANGED <<rooms, documents, since, missed, overlapped, marked>>

Restart ==
    /\ RestartGateway
    /\ req' = [r \in Request |-> IF r \in Active THEN Ended ELSE req[r]]
    /\ failed' = (failed \/ Active # {})
    /\ UNCHANGED <<documents, since, missed, overlapped, marked>>

Devices ==
    /\ \E s \in Socket : SocketStep(s)
    /\ UNCHANGED <<documents, req, history>>

Next ==
    \/ \E r \in Request :
          \/ Receive(r)
          \/ StartRefused(r) \/ FindConversation(r)
          \/ DuplicateChatId(r) \/ CreateConversation(r) \/ DeleteConversation(r)
          \/ InsertMessage(r) \/ SetLast(r)
          \/ ReadCounts(r) \/ WriteCounts(r) \/ CountRow(r) \/ ClearRow(r)
          \/ SetDelivered(r) \/ MarkMessages(r)
          \/ Fail(r)
    \/ Devices
    \/ Restart

Spec == Init /\ [][Next]_vars

-----------------------------------------------------------------------------
(* Properties.                                                             *)

\* The count getConversations starts from: the object, or the first row of an
\* older conversation.
StoredUnread(c, u) ==
    CASE u \in DOMAIN unreadCount[c] -> unreadCount[c][u]
      [] u \notin DOMAIN unreadCount[c] /\ unreadCounts[c][u] # <<>> -> unreadCounts[c][u][1]
      [] OTHER -> 0

\* What the list shows: nothing is unread to the sender of the last message.
ShownUnread(c, u) == IF lastSender[c] = u THEN 0 ELSE StoredUnread(c, u)

RowTotal(c, u) == FoldSeq(+, 0, unreadCounts[c][u])
Quiescent == Active = {}

\* The counts of some users.
Counted == UNION {[known -> Nat] : known \in SUBSET User}

Labels ==
    {"findConversation", "createConversation", "setDeleted", "insertMessage", "setLast",
     "readCounts", "writeCounts", "updateRow", "pushRow", "setDelivered", "markMessages"}

Working ==
    [kind : {"start", "send", "read", "delete"}, pc : Labels, conv : Conversation,
     user : User, peer : User, socket : BOOLEAN, skip : BOOLEAN, heard : BOOLEAN,
     counts : Counted, hasRow : BOOLEAN]

Message == [conv : Conversation, receiver : User, status : {Sent, Delivered, Seen}]

\* The type invariant of the documents, the requests and the presence behind them.
TypeOK ==
    /\ RoomsTypeOK
    /\ stored \in [Conversation -> {"none", "live", "deleted"}]
    /\ unreadCount \in [Conversation -> Counted]
    /\ unreadCounts \in [Conversation -> [User -> Seq(Nat)]]
    /\ lastSender \in [Conversation -> User \cup {Nobody}]
    /\ messages \in [Request -> Message \cup {NoMessage}]
    /\ req \in [Request -> {Idle, Ended} \cup Working]

\* One request at a time, whatever the devices do meanwhile: the two stored
\* counts of a user are equal, they contain every message that was sent while
\* the user had no device in the conversation, and none from before the user
\* last marked it.
CountsExactOneAtATime ==
    Quiescent /\ ~overlapped /\ ~failed =>
        \A c \in Used : \A u \in Participants[c] :
            /\ StoredUnread(c, u) = RowTotal(c, u)
            /\ Cardinality(missed[c][u]) <= StoredUnread(c, u)
            /\ StoredUnread(c, u) <= Cardinality(since[c][u])
            /\ lastSender[c] # u => ShownUnread(c, u) = RowTotal(c, u)

\* With no read in play, sends that interleave in any way lose no count in the
\* rows; the object, which is written back whole, can only fall behind them.
RowsLoseNoSend ==
    Quiescent /\ ~failed /\ ~marked =>
        \A c \in Used : \A u \in Participants[c] :
            /\ Cardinality(missed[c][u]) <= RowTotal(c, u)
            /\ Count(unreadCount[c], u) <= RowTotal(c, u)

\* One request at a time, a message that was seen is never taken back to
\* delivered, restarts and failures included; only a read that overtakes the
\* setDelivered of the send can be undone by it.
SeenStaysOneAtATime ==
    [][\A m \in Request :
          ~overlapped /\ messages[m].status = Seen => messages'[m].status = Seen]_vars
=============================================================================
