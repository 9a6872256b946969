---------------------------- MODULE ChatRequests ----------------------------
(***************************************************************************)
(* One-to-one chats of chat/: ChatService.createSingleChat, accept and     *)
(* rejectChatRequest, markChatRead and createMessage, with the queries of  *)
(* getAllChatsByUserId.                                                    *)
(*                                                                         *)
(* A chat is a document of its own; each user document lists the chats it  *)
(* shows (chatIds).  Every handler reads the chat first and writes it, and *)
(* then the lists, in calls of their own.                                  *)
(***************************************************************************)
EXTENDS Naturals, FiniteSets

CONSTANTS
    User,
    Elite,      \* users whose plan has directMessagingWithoutMatch
    ChatId,     \* bound: chats that can be created
    Request,    \* bound: requests in all, each used once; a send names its message
    MaxTime     \* bound: the last millisecond of the clock

ASSUME ParametersAssumption == Elite \subseteq User /\ MaxTime \in Nat \ {0}

VARIABLES
    chats,          \* [c]: the chat document, NoChat before it is created
    messages,       \* [m]: the message document, NoMessage before the insert
    chatIds,        \* [u]: the chats user u lists
    connections,    \* [u]: the users in u's connections, written by Connections
    now,            \* new Date()
    req,            \* the requests at work
    \* History, read by the properties only:
    unseen,         \* [u]: messages of others since u last marked their chat
    overlapped      \* a request was sent with another still at work

documents == <<chats, messages, chatIds>>
environment == <<connections, now, overlapped>>
vars == <<documents, environment, req, unseen>>

NoChat == [requestStatus |-> "none"]
NoMessage == [createdAt |-> 0]
NoId == "null"
Never == 0      \* a mark that is not in lastReadAt
NoMarks == [u \in User |-> Never]

Kinds == {"create", "accept", "reject", "markRead", "send"}

\* A create, an accept or a send that ran to its end is kept as "done"; of any
\* other request that has ended nothing is kept.
Idle == [kind |-> "none", pc |-> "idle"]
Ended == [kind |-> "none", pc |-> "ended"]
Active == {r \in Request : req[r].pc \notin {"idle", "done", "ended"}}
Goto(r, label) == [req EXCEPT ![r].pc = label]
End(r) == [req EXCEPT ![r] = Ended]

Exists(c) == chats[c] # NoChat
Users(c) == {chats[c].requestedBy, chats[c].requestedTo}
NewChat(me, other, status) ==
    [requestedBy |-> me, requestedTo |-> other, requestStatus |-> status,
     lastReadAt |-> NoMarks, lastMessage |-> NoId]

\* The code never creates a pending chat; the queries that accept a chat without
\* a status show that documents of an older version are served too, so one
\* request may be pending at the start, listed by its sender as the doc says.
Init ==
    /\ \/ /\ chats = [c \in ChatId |-> NoChat]
          /\ chatIds = [u \in User |-> {}]
       \/ \E c \in ChatId, me \in User : \E other \in User \ {me} :
             /\ chats = [d \in ChatId |->
                            IF d = c THEN NewChat(me, other, "pending") ELSE NoChat]
             /\ chatIds = [u \in User |-> IF u = me THEN {c} ELSE {}]
    /\ messages = [m \in Request |-> NoMessage]
    /\ connections = [u \in User |-> {}]
    /\ now = 1
    /\ req = [r \in Request |-> Idle]
    /\ unseen = [u \in User |-> {}]
    /\ overlapped = FALSE

FirstStep(kind) ==
    CASE kind = "create"               -> "checkMe"
      [] kind \in {"accept", "reject"} -> "findPending"
      [] kind = "markRead"             -> "readMarks"
      [] kind = "send"                 -> "findChatOfSender"

\* "left": the users whose list is still to be written; "marks", "at": the marks
\* and the creation time the handler computed before its write.
NewRequest(kind, me, other, c) ==
    [kind |-> kind, pc |-> FirstStep(kind), user |-> me, other |-> other, chat |-> c,
     left |-> {}, marks |-> NoMarks, at |-> Never]

\* A create names the other user, every other request a chat.
Arguments(kind, me) ==
    IF kind = "create" THEN User \X {NoId} ELSE {me} \X ChatId

Receive(r) ==
    /\ req[r].pc = "idle"
    /\ \E kind \in Kinds, me \in User : \E arg \in Arguments(kind, me) :
          req' = [req EXCEPT ![r] = NewRequest(kind, me, arg[1], arg[2])]
    /\ overlapped' = (overlapped \/ Active # {})
    /\ UNCHANGED <<documents, connections, now, unseen>>

-----------------------------------------------------------------------------
(* createSingleChat                                                        *)

Allowed(r) ==
    /\ req[r].user # req[r].other
    /\ req[r].other \in connections[req[r].user] \/ req[r].user \in Elite

CheckMe(r) ==
    /\ req[r].pc = "checkMe"
    /\ req' = IF Allowed(r) THEN Goto(r, "findSingleChat") ELSE End(r)
    /\ UNCHANGED <<documents, environment, unseen>>

ChatsOf(me, other) == {c \in ChatId : Exists(c) /\ Users(c) = {me, other}}

\* Mutant: the query also wants the chat to be listed by the caller.
FindListedChat(r) ==
    /\ req[r].pc = "findSingleChat"
    /\ LET found == ChatsOf(req[r].user, req[r].other) \cap chatIds[req[r].user]
       IN  \/ found = {} /\ req' = Goto(r, "createChat")
           \/ found # {} /\ req' = End(r)
    /\ UNCHANGED <<documents, environment, unseen>>

FindSingleChat(r) ==
    /\ req[r].pc = "findSingleChat"
    /\ LET found == ChatsOf(req[r].user, req[r].other)
       IN  \/ found = {} /\ req' = Goto(r, "createChat")
           \/ found # {} /\ req' = End(r)
    /\ UNCHANGED <<documents, environment, unseen>>

CreateChat(r) ==
    /\ req[r].pc = "createChat"
    /\ \E c \in ChatId :
          /\ ~Exists(c)
          /\ chats' = [chats EXCEPT ![c] = NewChat(req[r].user, req[r].other, "accepted")]
          /\ req' = [req EXCEPT ![r].chat = c, ![r].pc = "addToLists",
                                ![r].left = {req[r].user, req[r].other}]
    /\ UNCHANGED <<messages, chatIds, environment, unseen>>

\* Mutant: the loop ends after the first user.
AddToFirstList(r) ==
    /\ req[r].pc = "addToLists"
    /\ \E u \in req[r].left :
          /\ chatIds' = [chatIds EXCEPT ![u] = @ \cup {req[r].chat}]
          /\ req' = Goto(r, "done")
    /\ UNCHANGED <<chats, messages, environment, unseen>>

\* $addToSet {chatIds} of one user.  create and accept begin with the caller; a
\* send follows the order of the users array, which is left open here.
AddToLists(r) ==
    /\ req[r].pc = "addToLists"
    /\ \E u \in req[r].left :
          /\ req[r].kind # "send" /\ req[r].user \in req[r].left => u = req[r].user
          /\ chatIds' = [chatIds EXCEPT ![u] = @ \cup {req[r].chat}]
          /\ req' = [req EXCEPT ![r].left = @ \ {u},
                                ![r].pc = IF req[r].left = {u} THEN "done" ELSE @]
    /\ UNCHANGED <<chats, messages, environment, unseen>>

-----------------------------------------------------------------------------
(* acceptChatRequest, rejectChatRequest                                    *)

PendingFor(me, c) ==
    Exists(c) /\ chats[c].requestedTo = me /\ chats[c].requestStatus = "pending"

\* Mutant: the query has no requestStatus.
FindRequest(r) ==
    /\ req[r].pc = "findPending"
    /\ LET c == req[r].chat
       IN  req' = IF Exists(c) /\ chats[c].requestedTo = req[r].user
                  THEN Goto(r, "setStatus") ELSE End(r)
    /\ UNCHANGED <<documents, environment, unseen>>

FindPending(r) ==
    /\ req[r].pc = "findPending"
    /\ req' = IF PendingFor(req[r].user, req[r].chat) THEN Goto(r, "setStatus") ELSE End(r)
    /\ UNCHANGED <<documents, environment, unseen>>

SetStatus(r) ==
    /\ req[r].pc = "setStatus"
    /\ LET c == req[r].chat
       IN  \/ /\ req[r].kind = "accept"
              /\ chats' = [chats EXCEPT ![c].requestStatus = "accepted"]
              /\ req' = [req EXCEPT ![r].left = Users(c), ![r].pc = "addToLists"]
           \/ /\ req[r].kind = "reject"
              /\ chats' = [chats EXCEPT ![c].requestStatus = "rejected"]
              /\ req' = End(r)
    /\ UNCHANGED <<messages, chatIds, environment, unseen>>

-----------------------------------------------------------------------------
(* markChatRead, createMessage                                             *)

InChat(me, c) == Exists(c) /\ me \in Users(c)

\* The marks are copied and the own one is stamped when the read returns.
ReadMarks(r) ==
    /\ req[r].pc = "readMarks"
    /\ \/ /\ InChat(req[r].user, req[r].chat)
          /\ req' = [req EXCEPT ![r].marks = [chats[req[r].chat].lastReadAt
                                                 EXCEPT ![req[r].user] = now],
                                ![r].pc = "writeMarks"]
       \/ ~InChat(req[r].user, req[r].chat) /\ req' = End(r)
    /\ UNCHANGED <<documents, environment, unseen>>

\* Mutant: the marks of the others are dropped from the object.
WriteOwnMark(r) ==
    /\ req[r].pc = "writeMarks"
    /\ LET c == req[r].chat  me == req[r].user
       IN  /\ chats' = [chats EXCEPT ![c].lastReadAt =
                            [u \in User |-> IF u = me THEN req[r].marks[me] ELSE Never]]
           /\ unseen' = [unseen EXCEPT ![me] = {m \in @ : messages[m].chat # c}]
    /\ req' = End(r)
    /\ UNCHANGED <<messages, chatIds, environment>>

\* $set {lastReadAt}: the object as it was read, for every user.
WriteMarks(r) ==
    /\ req[r].pc = "writeMarks"
    /\ LET c == req[r].chat  me == req[r].user
       IN  /\ chats' = [chats EXCEPT ![c].lastReadAt = req[r].marks]
           /\ unseen' = [unseen EXCEPT ![me] = {m \in @ : messages[m].chat # c}]
    /\ req' = End(r)
    /\ UNCHANGED <<messages, chatIds, environment>>

\* No requestStatus is asked for.  createdAt is set before the insert is sent.
FindChatOfSender(r) ==
    /\ req[r].pc = "findChatOfSender"
    /\ \/ /\ InChat(req[r].user, req[r].chat)
          /\ req' = [req EXCEPT ![r].at = now, ![r].pc = "insertMessage",
                                ![r].left = Users(req[r].chat)]
       \/ ~InChat(req[r].user, req[r].chat) /\ req' = End(r)
    /\ UNCHANGED <<documents, environment, unseen>>

InsertMessage(r) ==
    /\ req[r].pc = "insertMessage"
    /\ messages' = [messages EXCEPT ![r] = [chat |-> req[r].chat, sender |-> req[r].user,
                                            createdAt |-> req[r].at]]
    /\ unseen' = [u \in User |->
                     IF u \in Users(req[r].chat) \ {req[r].user}
                     THEN unseen[u] \cup {r} ELSE unseen[u]]
    /\ req' = [req EXCEPT ![r].at = Never, ![r].pc = "updateLast"]
    /\ UNCHANGED <<chats, chatIds, environment>>

UpdateLast(r) ==
    /\ req[r].pc = "updateLast"
    /\ chats' = [chats EXCEPT ![req[r].chat].lastMessage = r]
    /\ req' = Goto(r, "addToLists")
    /\ UNCHANGED <<messages, chatIds, environment, unseen>>

-----------------------------------------------------------------------------
\* A call throws or the process restarts.
Fail(r) ==
    /\ r \in Active
    /\ req' = End(r)
    /\ UNCHANGED <<documents, environment, unseen>>

\* Connections adds to one user document at a time; those of an Elite user make
\* no difference.
Connect ==
    /\ \E u \in User \ Elite, v \in User : u # v /\ connections' = [connections EXCEPT ![u] = @ \cup {v}]
    /\ UNCHANGED <<documents, now, overlapped, req, unseen>>

Tick ==
    /\ now < MaxTime
    /\ now' = now + 1
    /\ UNCHANGED <<documents, connections, overlapped, req, unseen>>

Next ==
    \/ \E r \in Request :
          \/ Receive(r)
          \/ CheckMe(r) \/ FindSingleChat(r) \/ CreateChat(r) \/ AddToLists(r)
          \/ FindPending(r) \/ SetStatus(r)
          \/ ReadMarks(r) \/ WriteMarks(r)
          \/ FindChatOfSender(r) \/ InsertMessage(r) \/ UpdateLast(r)
          \/ Fail(r)
    \/ Connect
    \/ Tick

Spec == Init /\ [][Next]_vars

-----------------------------------------------------------------------------
(* getAllChatsByUserId, which writes nothing                               *)

\* The chats of the list that the query lets through.
Shown(me) ==
    {c \in chatIds[me] : chats[c].requestStatus = "accepted" \/ chats[c].requestedBy = me}

\* The messages unreadCount counts; without a mark, every one of the others.
Unread(me, c) ==
    {m \in Request :
        /\ messages[m] # NoMessage
        /\ messages[m].chat = c
        /\ messages[m].sender # me
        /\ \/ chats[c].lastReadAt[me] = Never
           \/ messages[m].createdAt > chats[c].lastReadAt[me]}

-----------------------------------------------------------------------------
(* Properties.                                                             *)

\* One request at a time, two users have one chat whatever call of an earlier
\* request failed: createSingleChat finds a chat that nobody lists yet.
OneChatOneAtATime ==
    ~overlapped =>
        \A me, other \in User : \A c, d \in ChatsOf(me, other) : c = d

\* A create that made its chat, an accept or a send that answered with success has
\* left the chat in the list of both users, in every interleaving and after any earlier failure
\* that had left it in one list or in none.
ListedOnceAnswered ==
    \A r \in Request :
        req[r].pc = "done" /\ req[r].kind \in {"create", "accept", "send"} =>
            \A u \in Users(req[r].chat) : req[r].chat \in chatIds[u]

\* One request at a time, the unread messages of the chat list are those sent
\* since the user last marked the chat, whoever marked it in between and
\* whatever call failed; only a message stamped in the millisecond of the mark
\* is missed.
UnreadExactOneAtATime ==
    Active = {} /\ ~overlapped =>
        \A u \in User : \A c \in ChatId :
            Exists(c) /\ u \in Users(c) =>
                LET since == {m \in unseen[u] : messages[m].chat = c}
                IN  /\ Unread(u, c) \subseteq since
                    /\ \A m \in since \ Unread(u, c) :
                          messages[m].createdAt = chats[c].lastReadAt[u]

\* One request at a time, a chat that was created or accepted with success is
\* in what getAllChatsByUserId returns to both users and stays there: no later
\* answer to the request, and no failed one, takes it out.
AcceptedStaysShown ==
    ~overlapped =>
        \A r \in Request :
            req[r].pc = "done" /\ req[r].kind \in {"create", "accept"} =>
                \A u \in Users(req[r].chat) : req[r].chat \in Shown(u)
=============================================================================
